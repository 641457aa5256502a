------------------------ MODULE BackendRecordsProofs ------------------------
(***************************************************************************)
(* What the services of the backend that record and count keep, each by    *)
(* itself: recording deploys, the indexer, and the two limiters.  The      *)
(* lemmas speak of the instances of Backend, which BackendProofs puts      *)
(* together.                                                               *)
(*                                                                         *)
(* An instance has operators of its own for those of the modules that its  *)
(* module extends: IngestionOperators and its like say they are the same.  *)
(***************************************************************************)
EXTENDS Backend, SumProofs

-----------------------------------------------------------------------------
(***************************************************************************)
(* Recording deploys, for any number of transactions, wallets, rounds,     *)
(* calls, attempts and failures: the tables tell one story, a deploy is    *)
(* announced once at most, and what is given up without being recorded     *)
(* lost the race for the row of its round.                                 *)
(*                                                                         *)
(* The proof uses no lock but the one a unique key is: a transaction       *)
(* commits a deployment whose key is new, and whoever saw a key it had     *)
(* not written itself has read a committed row.                            *)
(***************************************************************************)
(* The operators this instance takes from the modules it extends.          *)
LEMMA IngestionOperators ==
  /\ \A S : Ingestion!IsFiniteSet(S) <=> IsFiniteSet(S)
  /\ \A S : Ingestion!Cardinality(S) = Cardinality(S)
  /\ \A f : Ingestion!SumFunction(f) = SumFunction(f)
  BY DEF Ingestion!IsFiniteSet, IsFiniteSet, Ingestion!Cardinality, Cardinality,
         Ingestion!SumFunction, SumFunction, Ingestion!SumFunctionOnSet, SumFunctionOnSet,
         Ingestion!FoldFunctionOnSet, FoldFunctionOnSet, Ingestion!MapThenFoldSet,
         MapThenFoldSet

Announces(c, t) == deployCall[c].pc = "announce" /\ deployCall[c].tx = t

\* a deploy is charged for squares it asked for, before anybody brings it in
ChargedInv ==
  /\ charged \in [Deploys -> SUBSET UNION {Mask[t] : t \in Deploys}]
  /\ \A t \in Deploys : charged[t] \subseteq Mask[t]
  /\ \A t \in Deploys : Ingestion!Recorded(t) => Ingestion!Landed(t)
  /\ \A c \in Calls : deployCall[c].pc # "idle"
       => deployCall[c].tx \in Deploys /\ Ingestion!Landed(deployCall[c].tx)

\* the columns that BooksMatch is about
TablesInv ==
  /\ deployment \in [Deploys -> [squares : SUBSET Nat, amount : Nat]]
  /\ roundsPlayed \in [Wallets -> Nat]
  /\ participants \subseteq Rounds \X Wallets /\ IsFiniteSet(participants)

\* a call that announces a deploy has recorded it, alone
AnnouncesInv ==
  /\ deployAnnounced \in [Deploys -> Nat]
  /\ \A t \in Deploys :
       deployAnnounced[t] = 0 \/ (deployAnnounced[t] = 1 /\ Ingestion!Recorded(t))
  /\ \A t \in Deploys : \A c \in Calls : Announces(c, t)
       => Ingestion!Recorded(t) /\ deployAnnounced[t] = 0
  /\ \A t \in Deploys : \A c, d \in Calls : Announces(c, t) /\ Announces(d, t) => c = d

\* calls have their fields; the deploy of a call that is idle is any
DeployCalls ==
  [pc : Ingestion!Places, tx : Deploys \union {Ingestion!NoCall.tx}, first : BOOLEAN,
   tries : Nat]

\* a call gives up on what is recorded, or after it lost the row of the round
GivingUpInv ==
  /\ deployCall \in [Calls -> DeployCalls]
  /\ \A c \in Calls :
       /\ deployCall[c].pc = "create" => deployCall[c].first
       /\ deployCall[c].pc = "again"
            => Ingestion!Recorded(deployCall[c].tx) \/ deployCall[c].first

IngestionInv ==
  ChargedInv /\ TablesInv /\ Ingestion!BooksMatch /\ AnnouncesInv /\ GivingUpInv
-----------------------------------------------------------------------------
(* A deploy has a row once a call has committed it, worth what was charged *)
(* for it.                                                                 *)
LEMMA DeploymentType ==
  ASSUME Ingestion!IngestionAssumption, ChargedInv, NEW t \in Deploys, Ingestion!Landed(t)
  PROVE  /\ Ingestion!Deployment(t) \in [squares : SUBSET Nat, amount : Nat]
         /\ Ingestion!Deployment(t).amount = Cardinality(charged[t])
         /\ Ingestion!Deployment(t) # Ingestion!NoDeployment
<1>1. /\ IsFiniteSet(Mask[t]) /\ Mask[t] \subseteq Nat /\ charged[t] \subseteq Mask[t]
      /\ charged[t] # {}
  BY IngestionOperators DEF Ingestion!IngestionAssumption, ChargedInv, Ingestion!Landed
<1>2. Cardinality(charged[t]) \in Nat /\ Cardinality(charged[t]) # 0
  BY <1>1, FS_Subset, FS_CardinalityType, FS_EmptySet
<1>3. Ingestion!DecodeSquares(Mask[t], Cardinality(charged[t])) \in SUBSET Nat
  BY <1>1 DEF Ingestion!DecodeSquares, Ingestion!Lowest
<1>4. QED
  BY <1>2, <1>3, IngestionOperators DEF Ingestion!Deployment, Ingestion!NoDeployment

(* The books after one more deploy is committed.                           *)
LEMMA CommitBooks ==
  ASSUME Ingestion!IngestionAssumption, IngestionInv, NEW t \in Deploys,
         Ingestion!Landed(t), ~Ingestion!Recorded(t),
         Ingestion!Commit(t), UNCHANGED charged
  PROVE  TablesInv' /\ Ingestion!BooksMatch' /\ \A u \in Deploys : Ingestion!Recorded(u)'
           <=> Ingestion!Recorded(u) \/ u = t
<1> DEFINE seat == Ingestion!Seat(t)
           w == PayerOf[t]
           Of(v) == {p \in participants : p[2] = v}
<1>1. /\ deployment \in [Deploys -> [squares : SUBSET Nat, amount : Nat]]
      /\ roundsPlayed \in [Wallets -> Nat]
      /\ participants \subseteq Rounds \X Wallets /\ IsFiniteSet(participants)
  BY DEF IngestionInv, TablesInv
<1>2. /\ deployment' = [deployment EXCEPT ![t] = Ingestion!Deployment(t)]
      /\ rounds' = rounds \union {DeployRound[t]} /\ participants' = participants \union {seat}
      /\ roundsPlayed' = Ingestion!Played(t)
  BY DEF Ingestion!Commit
<1>3. seat = <<DeployRound[t], w>> /\ seat \in Rounds \X Wallets /\ w \in Wallets
  BY DEF Ingestion!IngestionAssumption, Ingestion!Seat
<1>4. /\ Ingestion!Deployment(t) \in [squares : SUBSET Nat, amount : Nat]
      /\ Ingestion!Deployment(t).amount = Cardinality(charged[t])
      /\ Ingestion!Deployment(t) # Ingestion!NoDeployment
  BY DeploymentType DEF IngestionInv
<1>5. \A u \in Deploys : Ingestion!Recorded(u)' <=> Ingestion!Recorded(u) \/ u = t
  BY <1>1, <1>2, <1>4 DEF Ingestion!Recorded
<1>6. TablesInv'
  <2>1. roundsPlayed' \in [Wallets -> Nat]
    BY <1>1, <1>2, <1>3 DEF Ingestion!Played
  <2>2. IsFiniteSet(participants')
    BY <1>1, <1>2, FS_AddElement
  <2>3. QED
    BY <1>1, <1>2, <1>3, <1>4, <2>1, <2>2 DEF TablesInv
<1>7. Ingestion!BooksMatch'
  <2>1. /\ participants =
             {Ingestion!Seat(u) : u \in {v \in Deploys : Ingestion!Recorded(v)}}
        /\ \A p \in participants : p[1] \in rounds
        /\ \A v \in Wallets : roundsPlayed[v] = Cardinality(Of(v))
        /\ \A u \in {v \in Deploys : Ingestion!Recorded(v)} :
             deployment[u].amount = Cardinality(charged[u])
    BY IngestionOperators DEF IngestionInv, Ingestion!BooksMatch
  <2>2. participants' = {Ingestion!Seat(u) : u \in {v \in Deploys : Ingestion!Recorded(v)'}}
    BY <1>2, <1>5, <2>1
  <2>3. \A p \in participants' : p[1] \in rounds'
    BY <1>2, <1>3, <2>1
  <2>4. ASSUME NEW v \in Wallets
        PROVE  roundsPlayed'[v] = Cardinality({p \in participants' : p[2] = v})
    <3>1. IsFiniteSet(Of(v))
      BY <1>1, FS_Subset
    <3>2. CASE v = w /\ seat \notin participants
      <4>1. {p \in participants' : p[2] = v} = Of(v) \union {seat} /\ seat \notin Of(v)
        BY <1>2, <1>3, <3>2
      <4>2. Cardinality(Of(v) \union {seat}) = Cardinality(Of(v)) + 1
        BY <3>1, <4>1, FS_AddElement, Zenon
      <4>3. roundsPlayed'[v] = roundsPlayed[v] + 1
        BY <1>1, <1>2, <1>3, <3>2 DEF Ingestion!Played
      <4>4. QED
        BY <2>1, <4>1, <4>2, <4>3
    <3>3. CASE v # w \/ seat \in participants
      <4>1. {p \in participants' : p[2] = v} = Of(v)
        BY <1>2, <1>3, <3>3
      <4>2. roundsPlayed'[v] = roundsPlayed[v]
        BY <1>1, <1>2, <1>3, <3>3 DEF Ingestion!Played
      <4>3. QED
        BY <2>1, <4>1, <4>2
    <3>4. QED
      BY <3>2, <3>3
  <2>5. \A u \in Deploys : Ingestion!Recorded(u)'
          => deployment'[u].amount = Cardinality(charged'[u])
    BY <1>1, <1>2, <1>4, <1>5, <2>1
  <2>6. QED
    BY <2>2, <2>3, <2>4, <2>5, IngestionOperators DEF Ingestion!BooksMatch
<1>8. QED
  BY <1>5, <1>6, <1>7
-----------------------------------------------------------------------------
(***************************************************************************)
(* The calls.  Of every step: what does a call do next, of which deploy?   *)
(***************************************************************************)
(* Steps in which no call gets to announce a deploy.                       *)
LEMMA NobodyAnnounces ==
  ASSUME AnnouncesInv, UNCHANGED deployAnnounced,
         \A t \in Deploys : Ingestion!Recorded(t) => Ingestion!Recorded(t)',
         \A c \in Calls : deployCall'[c].pc = "announce" =>
           deployCall[c].pc = "announce" /\ deployCall'[c].tx = deployCall[c].tx
  PROVE  AnnouncesInv'
<1>1. \A t \in Deploys : \A c \in Calls : Announces(c, t)' => Announces(c, t)
  BY DEF Announces
<1>2. QED
  BY <1>1 DEF AnnouncesInv

\* c goes to `to`, the others do nothing
Moves(c, to) == to \in DeployCalls /\ deployCall' = [deployCall EXCEPT ![c] = to]

(* A call moves,                                                           *)
LEMMA Moved ==
  ASSUME GivingUpInv, NEW c \in Calls, NEW to, Moves(c, to)
  PROVE  /\ deployCall' \in [Calls -> DeployCalls] /\ deployCall'[c] = to
         /\ \A d \in Calls \ {c} : deployCall'[d] = deployCall[d]
  BY DEF GivingUpInv, Moves

(* to its next step,                                                       *)
LEMMA GoesTo ==
  ASSUME GivingUpInv, NEW c \in Calls, NEW p \in Ingestion!Places, Ingestion!GoTo(c, p)
  PROVE  Moves(c, [deployCall[c] EXCEPT !.pc = p])
  BY DEF GivingUpInv, Ingestion!GoTo, Moves, DeployCalls

(* or to its end.                                                          *)
LEMMA Returns ==
  ASSUME NEW c \in Calls, Ingestion!Return(c)
  PROVE  Moves(c, Ingestion!NoCall)
  BY DEF Ingestion!Return, Moves, Ingestion!NoCall, DeployCalls, Ingestion!Places

\* what a call may be, given the rows
CallOK(to) ==
  /\ to.pc # "idle" => to.tx \in Deploys /\ Ingestion!Landed(to.tx)
  /\ to.pc = "create" => to.first
  /\ to.pc = "again" => Ingestion!Recorded(to.tx) \/ to.first

(* A step of one call, which records and charges nothing.                  *)
LEMMA QuietMove ==
  ASSUME IngestionInv, NEW c \in Calls, NEW to, Moves(c, to), CallOK(to),
         UNCHANGED <<charged, deployment, participants, roundsPlayed, rounds,
             deployAnnounced>>,
         to.pc = "announce" => deployCall[c].pc = "announce" /\ to.tx = deployCall[c].tx
  PROVE  IngestionInv'
<1>1. /\ deployCall' \in [Calls -> DeployCalls] /\ deployCall'[c] = to
      /\ \A d \in Calls \ {c} : deployCall'[d] = deployCall[d]
  BY Moved DEF IngestionInv
<1>2. \A t \in Deploys : (Ingestion!Recorded(t)' <=> Ingestion!Recorded(t))
        /\ (Ingestion!Landed(t)' <=> Ingestion!Landed(t))
  BY DEF Ingestion!Recorded, Ingestion!Landed
<1>3. \A d \in Calls : CallOK(deployCall[d])
  BY DEF IngestionInv, ChargedInv, GivingUpInv, CallOK
<1>4. ChargedInv'
  <2>1. \A d \in Calls : deployCall'[d].pc # "idle"
          => deployCall'[d].tx \in Deploys /\ Ingestion!Landed(deployCall'[d].tx)
    BY <1>1, <1>3 DEF CallOK
  <2>2. QED
    BY <1>2, <2>1 DEF IngestionInv, ChargedInv, Ingestion!Landed
<1>5. TablesInv' /\ Ingestion!BooksMatch'
  BY <1>2 DEF IngestionInv, TablesInv, Ingestion!BooksMatch, Ingestion!Recorded
<1>6. AnnouncesInv'
  BY <1>1, <1>2, NobodyAnnounces DEF IngestionInv
<1>7. GivingUpInv'
  <2>1. \A d \in Calls : /\ deployCall'[d].pc = "create" => deployCall'[d].first
                         /\ deployCall'[d].pc = "again" =>
                              Ingestion!Recorded(deployCall'[d].tx) \/ deployCall'[d].first
    BY <1>1, <1>3 DEF CallOK
  <2>2. QED
    BY <1>1, <2>1 DEF GivingUpInv, Ingestion!Recorded
<1>8. QED
  BY <1>4, <1>5, <1>6, <1>7 DEF IngestionInv

(* A call that stays with its deploy and has its fields.                   *)
LEMMA CallFacts ==
  ASSUME IngestionInv, NEW c \in Calls, deployCall[c].pc # "idle"
  PROVE  /\ deployCall[c] \in DeployCalls /\ deployCall[c].tx \in Deploys
         /\ Ingestion!Landed(deployCall[c].tx) /\ CallOK(deployCall[c])
  BY DEF IngestionInv, ChargedInv, GivingUpInv, CallOK

(* To the next step of the same deploy,                                    *)
LEMMA GoesToOK ==
  ASSUME IngestionInv, NEW c \in Calls, deployCall[c].pc # "idle",
         NEW p \in Ingestion!Places \ {"announce"}, Ingestion!GoTo(c, p),
         p = "create" => deployCall[c].first,
         p = "again" => Ingestion!Recorded(deployCall[c].tx) \/ deployCall[c].first,
         UNCHANGED <<charged, deployment, participants, roundsPlayed, rounds,
             deployAnnounced>>
  PROVE  IngestionInv'
<1> DEFINE to == [deployCall[c] EXCEPT !.pc = p]
<1>1. /\ deployCall[c] \in DeployCalls /\ deployCall[c].tx \in Deploys
      /\ Ingestion!Landed(deployCall[c].tx)
  BY CallFacts
<1>2. Moves(c, to)
  BY GoesTo DEF IngestionInv
<1>3. to.pc = p /\ to.tx = deployCall[c].tx /\ to.first = deployCall[c].first
  BY <1>1 DEF DeployCalls
<1> HIDE DEF to
<1>4. CallOK(to)
  BY <1>1, <1>3 DEF CallOK
<1>5. QED
  BY <1>2, <1>3, <1>4, QuietMove

(* or to the end of the call.                                              *)
LEMMA ReturnOK ==
  ASSUME IngestionInv, NEW c \in Calls, Ingestion!Return(c),
         UNCHANGED <<charged, deployment, participants, roundsPlayed, rounds,
             deployAnnounced>>
  PROVE  IngestionInv'
<1>1. Moves(c, Ingestion!NoCall) /\ Ingestion!NoCall.pc = "idle"
  BY Returns DEF Ingestion!NoCall
<1>2. CallOK(Ingestion!NoCall)
  BY <1>1 DEF CallOK
<1>3. QED
  BY <1>1, <1>2, QuietMove
-----------------------------------------------------------------------------
(***************************************************************************)
(* Each action keeps the invariant.                                        *)
(***************************************************************************)
(* A transaction lands: nothing of it is recorded or under way yet.        *)
LEMMA DeployKeeps ==
  ASSUME IngestionInv, NEW t \in Deploys, Ingestion!Deploy(t)
  PROVE  IngestionInv'
<1> DEFINE selected == Mask[t] \ Ingestion!Held(PayerOf[t], DeployRound[t])
<1>1. /\ charged \in [Deploys -> SUBSET UNION {Mask[u] : u \in Deploys}]
      /\ charged' = [charged EXCEPT ![t] = selected] /\ ~Ingestion!Landed(t)
      /\ selected # {}
      /\ UNCHANGED <<deployment, participants, roundsPlayed, rounds, deployAnnounced,
           deployCall>>
  BY DEF Ingestion!Deploy, IngestionInv, ChargedInv, Ingestion!tables
<1>2. selected \subseteq Mask[t]
  OBVIOUS
<1> HIDE DEF selected
<1>3. \A u \in Deploys :
        (Ingestion!Landed(u) => Ingestion!Landed(u)' /\ charged'[u] = charged[u])
                     /\ charged'[u] \subseteq Mask[u]
                     /\ (Ingestion!Recorded(u)' <=> Ingestion!Recorded(u))
  BY <1>1, <1>2 DEF Ingestion!Landed, Ingestion!Recorded, IngestionInv, ChargedInv
<1>4. charged' \in [Deploys -> SUBSET UNION {Mask[u] : u \in Deploys}]
  BY <1>1, <1>2
<1>5. ChargedInv'
  <2>1. /\ \A u \in Deploys : Ingestion!Recorded(u) => Ingestion!Landed(u)
        /\ \A c \in Calls : deployCall[c].pc # "idle"
             => deployCall[c].tx \in Deploys /\ Ingestion!Landed(deployCall[c].tx)
    BY DEF IngestionInv, ChargedInv
  <2>2. \A c \in Calls : deployCall'[c].pc # "idle" =>
          deployCall'[c].tx \in Deploys /\ charged'[deployCall'[c].tx] # {}
    BY <1>1, <1>3, <2>1 DEF Ingestion!Landed
  <2>3. QED
    BY <1>3, <1>4, <2>1, <2>2 DEF ChargedInv, Ingestion!Landed
<1>6. Ingestion!BooksMatch'
  BY <1>1, <1>3 DEF IngestionInv, ChargedInv, Ingestion!BooksMatch
<1>7. TablesInv' /\ AnnouncesInv' /\ GivingUpInv'
  BY <1>1
     DEF IngestionInv, TablesInv, AnnouncesInv, GivingUpInv, Ingestion!Recorded, Announces
<1>8. QED
  BY <1>5, <1>6, <1>7 DEF IngestionInv

(* A call begins with a deploy that landed.                                *)
LEMMA StartKeeps ==
  ASSUME IngestionInv, NEW c \in Calls, NEW t \in Deploys, Ingestion!Start(c, t)
  PROVE  IngestionInv'
<1> DEFINE to == [Ingestion!NoCall EXCEPT !.pc = "find", !.tx = t]
<1>1. to \in DeployCalls /\ to.pc = "find" /\ to.tx = t
  BY DEF Ingestion!NoCall, DeployCalls, Ingestion!Places
<1>2. deployCall' = [deployCall EXCEPT ![c] = to] /\ Ingestion!Landed(t)
  BY DEF Ingestion!Start
<1> HIDE DEF to
<1>3. CallOK(to)
  BY <1>1, <1>2 DEF CallOK
<1>4. QED
  BY <1>1, <1>2, <1>3, QuietMove
     DEF Moves, Ingestion!Start, Ingestion!chain, Ingestion!tables

(* findUnique, outside and inside the transaction.                         *)
LEMMA FindKeeps ==
  ASSUME IngestionInv, NEW c \in Calls, NEW at \in Ingestion!Places \ {"idle"},
         NEW next \in {"dup", "round"}, Ingestion!Find(c, at, next),
         UNCHANGED <<Ingestion!chain, deployAnnounced>>
  PROVE  IngestionInv'
  BY GoesToOK, ReturnOK
     DEF Ingestion!Find, Ingestion!Places, Ingestion!tables, Ingestion!chain

(* Only a call that found no row for the round goes on to create it,       *)
LEMMA FindRoundKeeps ==
  ASSUME IngestionInv, NEW c \in Calls, Ingestion!FindRound(c),
         UNCHANGED <<Ingestion!chain, deployAnnounced>>
  PROVE  IngestionInv'
<1>1. deployCall[c].pc = "round" /\ deployCall[c].pc # "idle"
  BY DEF Ingestion!FindRound
<1>2. CASE DeployRound[deployCall[c].tx] \in rounds
  <2>1. Ingestion!GoTo(c, "miner")
    BY <1>2 DEF Ingestion!FindRound, Ingestion!GoTo
  <2>2. QED
    BY <1>1, <2>1, GoesToOK
       DEF Ingestion!FindRound, Ingestion!Places, Ingestion!tables, Ingestion!chain
<1>3. CASE DeployRound[deployCall[c].tx] \notin rounds
  <2> DEFINE to == [deployCall[c] EXCEPT !.pc = "create", !.first = TRUE]
  <2>1. /\ deployCall[c] \in DeployCalls /\ deployCall[c].tx \in Deploys
        /\ Ingestion!Landed(deployCall[c].tx)
    BY <1>1, CallFacts
  <2>2. to \in DeployCalls /\ to.pc = "create" /\ to.first /\ to.tx = deployCall[c].tx
    BY <2>1 DEF DeployCalls, Ingestion!Places
  <2>3. deployCall' = [deployCall EXCEPT ![c] = to]
    BY <1>3 DEF Ingestion!FindRound
  <2> HIDE DEF to
  <2>4. CallOK(to)
    BY <2>1, <2>2 DEF CallOK
  <2>5. QED
    BY <2>2, <2>3, <2>4, QuietMove
       DEF Moves, Ingestion!FindRound, Ingestion!tables, Ingestion!chain
<1>4. QED
  BY <1>2, <1>3

(* so only such a call can lose the race for it.                           *)
LEMMA CreateRoundKeeps ==
  ASSUME IngestionInv, NEW c \in Calls, Ingestion!CreateRound(c),
         UNCHANGED <<Ingestion!chain, deployAnnounced>>
  PROVE  IngestionInv'
<1>1. deployCall[c].pc = "create" /\ deployCall[c].pc # "idle"
  BY DEF Ingestion!CreateRound
<1>2. deployCall[c].first
  BY <1>1, CallFacts DEF CallOK
<1>3. QED
  BY <1>1, <1>2, GoesToOK
     DEF Ingestion!CreateRound, Ingestion!Places, Ingestion!tables, Ingestion!chain

(* findDeploymentByHashWithRetry records nothing.                          *)
LEMMA AgainKeeps ==
  ASSUME IngestionInv, NEW c \in Calls, Ingestion!Again(c),
         UNCHANGED <<Ingestion!chain, deployAnnounced>>
  PROVE  IngestionInv'
<1>1. CASE Ingestion!Recorded(deployCall[c].tx) \/ deployCall[c].tries + 1 >= Attempts
  BY <1>1, ReturnOK DEF Ingestion!Again, Ingestion!tables, Ingestion!chain
<1>2. CASE ~(Ingestion!Recorded(deployCall[c].tx) \/ deployCall[c].tries + 1 >= Attempts)
  <2> DEFINE to == [deployCall[c] EXCEPT !.tries = @ + 1]
  <2>1. /\ deployCall[c].pc = "again" /\ deployCall[c] \in DeployCalls
        /\ CallOK(deployCall[c])
    BY CallFacts DEF Ingestion!Again
  <2>2. /\ to \in DeployCalls /\ to.pc = "again" /\ to.tx = deployCall[c].tx
        /\ to.first = deployCall[c].first
    BY <2>1 DEF DeployCalls
  <2>3. deployCall' = [deployCall EXCEPT ![c] = to]
    BY <1>2 DEF Ingestion!Again
  <2> HIDE DEF to
  <2>4. CallOK(to)
    BY <2>1, <2>2 DEF CallOK
  <2>5. QED
    BY <2>2, <2>3, <2>4, QuietMove
       DEF Moves, Ingestion!Again, Ingestion!tables, Ingestion!chain
<1>3. QED
  BY <1>1, <1>2

(* The transaction commits a deploy without a row, once: the unique key of *)
(* the transaction hash.                                                   *)
LEMMA BookKeeps ==
  ASSUME Ingestion!IngestionAssumption, IngestionInv, NEW c \in Calls, Ingestion!Book(c),
         UNCHANGED <<Ingestion!chain, deployAnnounced>>
  PROVE  IngestionInv'
<1> DEFINE t == deployCall[c].tx
           to == [deployCall[c] EXCEPT !.pc = "announce"]
<1>1. /\ deployCall[c].pc = "book" /\ deployCall[c] \in DeployCalls /\ t \in Deploys
      /\ Ingestion!Landed(t)
  BY CallFacts DEF Ingestion!Book
<1>2. CASE Ingestion!Recorded(t)
  BY <1>1, <1>2, GoesToOK
     DEF Ingestion!Book, Ingestion!Places, Ingestion!tables, Ingestion!chain
<1>3. CASE ~Ingestion!Recorded(t)
  <2>1. /\ Ingestion!Commit(t) /\ Ingestion!GoTo(c, "announce")
        /\ UNCHANGED <<charged, deployAnnounced>>
    BY <1>3 DEF Ingestion!Book, Ingestion!chain
  <2>2. /\ TablesInv' /\ Ingestion!BooksMatch'
        /\ \A u \in Deploys : Ingestion!Recorded(u)' <=> Ingestion!Recorded(u) \/ u = t
    BY <1>1, <1>3, <2>1, CommitBooks
  <2>3. Moves(c, to) /\ to.pc = "announce" /\ to.tx = t
    BY <1>1, <2>1, GoesTo DEF IngestionInv, DeployCalls, Ingestion!Places
  <2> HIDE DEF to
  <2>4. /\ deployCall' \in [Calls -> DeployCalls] /\ deployCall'[c] = to
        /\ \A d \in Calls \ {c} : deployCall'[d] = deployCall[d]
    BY <2>3, Moved DEF IngestionInv
  <2> HIDE DEF t
  <2>5. ChargedInv'
    <3>1. \A d \in Calls : deployCall'[d].pc # "idle"
            => deployCall'[d].tx \in Deploys /\ Ingestion!Landed(deployCall'[d].tx)
      BY <1>1, <2>3, <2>4 DEF IngestionInv, ChargedInv
    <3>2. \A u \in Deploys : Ingestion!Recorded(u)' => Ingestion!Landed(u)
      BY <1>1, <2>2 DEF IngestionInv, ChargedInv
    <3>3. QED
      BY <2>1, <3>1, <3>2 DEF IngestionInv, ChargedInv, Ingestion!Landed
  <2>6. AnnouncesInv'
    <3>1. deployAnnounced[t] = 0 /\ \A d \in Calls : ~Announces(d, t)
      BY <1>1, <1>3 DEF IngestionInv, AnnouncesInv
    <3>2. \A u \in Deploys : \A d \in Calls :
            Announces(d, u)' => Announces(d, u) \/ (d = c /\ u = t)
      BY <2>3, <2>4 DEF Announces
    <3>3. QED
      BY <2>1, <2>2, <3>1, <3>2 DEF IngestionInv, AnnouncesInv
  <2>7. GivingUpInv'
    <3>1. \A d \in Calls \ {c} :
            /\ deployCall'[d].pc = "create" => deployCall'[d].first
            /\ deployCall'[d].pc = "again" =>
                 \/ deployment'[deployCall'[d].tx] # Ingestion!NoDeployment
                 \/ deployCall'[d].first
      <4>1. ASSUME NEW d \in Calls \ {c}, deployCall[d].pc = "again"
            PROVE  deployment'[deployCall[d].tx] # Ingestion!NoDeployment
                     \/ deployCall[d].first
        <5>1. /\ deployCall[d].tx \in Deploys
              /\ (Ingestion!Recorded(deployCall[d].tx) \/ deployCall[d].first)
          BY <4>1, CallFacts DEF CallOK
        <5>2. QED
          BY <2>2, <5>1 DEF Ingestion!Recorded
      <4>2. QED
        BY <2>4, <4>1 DEF IngestionInv, GivingUpInv
    <3>2. QED
      BY <2>3, <2>4, <3>1 DEF GivingUpInv, Ingestion!Recorded
  <2>8. QED
    BY <2>2, <2>5, <2>6, <2>7 DEF IngestionInv
<1>4. QED
  BY <1>2, <1>3

(* The call that recorded a deploy announces it, and ends.                 *)
LEMMA AnnounceKeeps ==
  ASSUME IngestionInv, NEW c \in Calls, Ingestion!Announce(c), UNCHANGED Ingestion!chain
  PROVE  IngestionInv'
<1> DEFINE t == deployCall[c].tx
<1>1. deployCall[c].pc = "announce" /\ t \in Deploys /\ Announces(c, t)
  BY CallFacts DEF Ingestion!Announce, Announces
<1>2. Moves(c, Ingestion!NoCall) /\ Ingestion!NoCall.pc = "idle"
  BY Returns DEF Ingestion!Announce, Ingestion!NoCall
<1>3. /\ deployCall' \in [Calls -> DeployCalls] /\ deployCall'[c] = Ingestion!NoCall
      /\ \A d \in Calls \ {c} : deployCall'[d] = deployCall[d]
  BY <1>2, Moved DEF IngestionInv
<1>4. /\ deployAnnounced' = [deployAnnounced EXCEPT ![t] = @ + 1]
      /\ UNCHANGED <<charged, deployment, rounds, participants, roundsPlayed>>
  BY DEF Ingestion!Announce, Ingestion!tables, Ingestion!chain
<1>5. \A u \in Deploys : (Ingestion!Recorded(u)' <=> Ingestion!Recorded(u))
        /\ (Ingestion!Landed(u)' <=> Ingestion!Landed(u))
  BY <1>4 DEF Ingestion!Recorded, Ingestion!Landed
<1>6. AnnouncesInv'
  <2>1. /\ Ingestion!Recorded(t) /\ deployAnnounced[t] = 0
        /\ deployAnnounced \in [Deploys -> Nat]
        /\ \A d \in Calls : Announces(d, t) => d = c
    BY <1>1 DEF IngestionInv, AnnouncesInv
  <2>2. \A u \in Deploys : \A d \in Calls : Announces(d, u)' => Announces(d, u) /\ d # c
    BY <1>2, <1>3 DEF Announces
  <2>3. /\ deployAnnounced'[t] = 1
        /\ \A u \in Deploys \ {t} : deployAnnounced'[u] = deployAnnounced[u]
    BY <1>1, <1>4, <2>1
  <2>4. deployAnnounced' \in [Deploys -> Nat]
    BY <1>1, <1>4, <2>1
  <2> HIDE DEF t
  <2>5. QED
    BY <1>1, <1>5, <2>1, <2>2, <2>3, <2>4 DEF IngestionInv, AnnouncesInv
<1>7. TablesInv' /\ Ingestion!BooksMatch'
  BY <1>4, <1>5 DEF IngestionInv, TablesInv, Ingestion!BooksMatch
<1>8. ChargedInv'
  <2>1. \A d \in Calls : deployCall'[d].pc # "idle"
          => deployCall'[d].tx \in Deploys /\ Ingestion!Landed(deployCall'[d].tx)
    BY <1>2, <1>3 DEF IngestionInv, ChargedInv
  <2>2. QED
    BY <1>4, <1>5, <2>1 DEF IngestionInv, ChargedInv, Ingestion!Landed
<1>9. GivingUpInv'
  <2>1. \A d \in Calls : /\ deployCall'[d].pc = "create" => deployCall'[d].first
                         /\ deployCall'[d].pc = "again" =>
                              Ingestion!Recorded(deployCall'[d].tx) \/ deployCall'[d].first
    BY <1>2, <1>3 DEF IngestionInv, GivingUpInv
  <2>2. QED
    BY <1>3, <1>4, <2>1 DEF GivingUpInv, Ingestion!Recorded
<1>10. QED
  BY <1>6, <1>7, <1>8, <1>9 DEF IngestionInv

(* Account notifications add rounds, and change no column BooksMatch is    *)
(* about.                                                                  *)
LEMMA NotificationKeeps ==
  ASSUME IngestionInv, rounds \subseteq rounds',
         UNCHANGED <<charged, deployment, participants, roundsPlayed, deployAnnounced,
             deployCall>>
  PROVE  IngestionInv'
  BY DEF IngestionInv, ChargedInv, TablesInv, Ingestion!BooksMatch, AnnouncesInv,
         GivingUpInv, Ingestion!Recorded, Ingestion!Landed, Announces

(* Every step keeps the invariant,                                         *)
LEMMA StepIngestion ==
  ASSUME Ingestion!IngestionAssumption
  PROVE  IngestionInv /\ [Ingestion!Next]_(Ingestion!vars) => IngestionInv'
<1> SUFFICES ASSUME IngestionInv, [Ingestion!Next]_(Ingestion!vars) PROVE IngestionInv'
  OBVIOUS
<1>1. ASSUME NEW c \in Calls, Ingestion!Step(c) PROVE IngestionInv'
  <2>1. UNCHANGED <<charged, Ingestion!chain>>
    BY <1>1 DEF Ingestion!Step, Ingestion!chain
  <2>2. CASE (Ingestion!Find(c, "find", "dup") \/ Ingestion!Find(c, "dup", "round"))
          /\ UNCHANGED deployAnnounced
    BY <2>1, <2>2, FindKeeps DEF Ingestion!Places
  <2>3. CASE Ingestion!UpsertMiner(c) /\ UNCHANGED deployAnnounced
    BY <2>1, <2>3, GoesToOK DEF Ingestion!UpsertMiner, Ingestion!Places, Ingestion!tables
  <2>4. QED
    BY <1>1, <2>1, <2>2, <2>3, FindRoundKeeps, CreateRoundKeeps, AgainKeeps, BookKeeps,
       AnnounceKeeps
       DEF Ingestion!Step
<1>2. ASSUME NEW c \in Calls, Ingestion!Fail(c) PROVE IngestionInv'
  BY <1>2, ReturnOK DEF Ingestion!Fail, Ingestion!chain, Ingestion!tables
<1>3. ASSUME \/ \E r \in Rounds : Ingestion!RoundChange(r)
             \/ \E w \in Wallets : Ingestion!MinerChange(w)
             \/ UNCHANGED Ingestion!vars
      PROVE  IngestionInv'
  BY <1>3, NotificationKeeps
     DEF Ingestion!RoundChange, Ingestion!MinerChange, Ingestion!vars, Ingestion!chain,
         Ingestion!tables
<1>4. QED
  BY <1>1, <1>2, <1>3, DeployKeeps, StartKeeps DEF Ingestion!Next

(* which holds at first, when nothing has landed.                          *)
LEMMA IngestionInitially == Ingestion!Init => IngestionInv
<1> SUFFICES ASSUME Ingestion!Init PROVE IngestionInv
  OBVIOUS
<1>1. \A t \in Deploys : ~Ingestion!Recorded(t) /\ charged[t] = {} /\ deployAnnounced[t] = 0
  BY DEF Ingestion!Init, Ingestion!Recorded
<1>2. \A c \in Calls : deployCall[c] = Ingestion!NoCall /\ Ingestion!NoCall.pc = "idle"
  BY DEF Ingestion!Init, Ingestion!NoCall
<1>3. Ingestion!NoCall \in DeployCalls
  BY DEF Ingestion!NoCall, DeployCalls, Ingestion!Places
<1>4. ChargedInv
  BY <1>1, <1>2 DEF Ingestion!Init, ChargedInv
<1>5. TablesInv
  BY FS_EmptySet DEF Ingestion!Init, TablesInv, Ingestion!NoDeployment
<1>6. Ingestion!BooksMatch
  <2>1. participants = {} /\ \A w \in Wallets : roundsPlayed[w] = 0
    BY DEF Ingestion!Init
  <2>2. \A w \in Wallets : {p \in participants : p[2] = w} = {}
    BY <2>1
  <2>3. Cardinality({}) = 0
    BY FS_EmptySet
  <2>4. QED
    BY <1>1, <2>1, <2>2, <2>3, IngestionOperators DEF Ingestion!BooksMatch
<1>7. AnnouncesInv
  BY <1>1, <1>2 DEF AnnouncesInv, Announces, Ingestion!Init
<1>8. GivingUpInv
  BY <1>2, <1>3 DEF Ingestion!Init, GivingUpInv
<1>9. QED
  BY <1>4, <1>5, <1>6, <1>7, <1>8 DEF IngestionInv
-----------------------------------------------------------------------------
(***************************************************************************)
(* The other columns, and the counters.                                    *)
(***************************************************************************)
DeploymentTypes == \A t \in Deploys : deployment[t].squares \subseteq Mask[t]
TriesTypes == \A c \in Calls : deployCall[c].tries \in 0..(Attempts - 1)
ColumnTypes == rounds \subseteq Rounds /\ lifetimeDeployed \in [Wallets -> Nat]
CounterTypes ==
  deployFailures \in 0..MaxIngestionFailures /\ minerChanges \in 0..MaxMinerChanges
IngestionTypes == DeploymentTypes /\ TriesTypes /\ ColumnTypes /\ CounterTypes

(* What the chain says of a miner is a number.                             *)
LEMMA OnChainNat ==
  ASSUME Ingestion!IngestionAssumption, ChargedInv, NEW w \in Wallets
  PROVE  Ingestion!OnChain(w) \in Nat
<1> DEFINE D == {u \in Deploys : PayerOf[u] = w}
           f == [t \in D |-> Cardinality(charged[t])]
<1>1. IsFiniteSet(D)
  BY FS_Subset, IngestionOperators DEF Ingestion!IngestionAssumption
<1>2. \A t \in Deploys : Cardinality(charged[t]) \in Nat
  BY FS_Subset, FS_CardinalityType, IngestionOperators
     DEF Ingestion!IngestionAssumption, ChargedInv
<1>3. f \in [D -> Nat]
  BY <1>2
<1>4. SumFunction(f) \in Nat
  BY <1>1, <1>3, SumNat
<1>5. QED
  BY <1>4, IngestionOperators DEF Ingestion!OnChain

(* A row names squares of the mask.                                        *)
LEMMA CommitTypes ==
  ASSUME Ingestion!IngestionAssumption, IngestionInv, DeploymentTypes, ColumnTypes,
         NEW t \in Deploys, Ingestion!Landed(t), Ingestion!Commit(t)
  PROVE  DeploymentTypes' /\ ColumnTypes'
<1>1. /\ deployment \in [Deploys -> [squares : SUBSET Nat, amount : Nat]]
      /\ Ingestion!Deployment(t).amount \in Nat
  BY DeploymentType DEF IngestionInv, TablesInv
<1>2. Ingestion!Deployment(t).squares \subseteq Mask[t]
  BY DEF Ingestion!Deployment, Ingestion!DecodeSquares, Ingestion!Lowest
<1>3. DeploymentTypes'
  BY <1>1, <1>2 DEF Ingestion!Commit, DeploymentTypes
<1>4. PayerOf[t] \in Wallets /\ DeployRound[t] \in Rounds
  BY DEF Ingestion!IngestionAssumption
<1>5. lifetimeDeployed' \in [Wallets -> Nat]
  BY <1>1, <1>4 DEF Ingestion!Commit, ColumnTypes
<1>6. QED
  BY <1>3, <1>4, <1>5 DEF Ingestion!Commit, ColumnTypes

(* A call that moves, and has tried as often or begins anew.               *)
LEMMA TriesKept ==
  ASSUME Ingestion!IngestionAssumption, IngestionInv, TriesTypes, NEW c \in Calls, NEW to,
         Moves(c, to), to.tries \in 0..(Attempts - 1)
  PROVE  TriesTypes'
<1>1. deployCall'[c] = to /\ \A d \in Calls \ {c} : deployCall'[d] = deployCall[d]
  BY Moved DEF IngestionInv
<1>2. QED
  BY <1>1 DEF TriesTypes

(* A call that goes on has as many tries as before,                        *)
LEMMA GoesToTries ==
  ASSUME Ingestion!IngestionAssumption, IngestionInv, TriesTypes, NEW c \in Calls,
         NEW p \in Ingestion!Places, Ingestion!GoTo(c, p)
  PROVE  TriesTypes'
<1> DEFINE to == [deployCall[c] EXCEPT !.pc = p]
<1>1. Moves(c, to)
  BY GoesTo DEF IngestionInv
<1>2. to.tries = deployCall[c].tries
  BY DEF IngestionInv, GivingUpInv, DeployCalls
<1>3. QED
  BY <1>1, <1>2, TriesKept DEF TriesTypes

(* and none left behind when it returns.                                   *)
LEMMA ReturnTries ==
  ASSUME Ingestion!IngestionAssumption, IngestionInv, TriesTypes, NEW c \in Calls,
         Ingestion!Return(c)
  PROVE  TriesTypes'
<1>1. Moves(c, Ingestion!NoCall)
  BY Returns
<1>2. Ingestion!NoCall.tries \in 0..(Attempts - 1)
  BY DEF Ingestion!NoCall, Ingestion!IngestionAssumption
<1>3. QED
  BY <1>1, <1>2, TriesKept

(* A step of a call.                                                       *)
LEMMA StepTypes ==
  ASSUME Ingestion!IngestionAssumption, IngestionInv, IngestionTypes, NEW c \in Calls,
         Ingestion!Step(c)
  PROVE  IngestionTypes'
<1>1. CounterTypes'
  BY DEF Ingestion!Step, Ingestion!counts, IngestionTypes, CounterTypes
<1> DEFINE Quiet == UNCHANGED <<Ingestion!tables, lifetimeDeployed>>
<1>2. Quiet => DeploymentTypes' /\ ColumnTypes'
  BY DEF Ingestion!tables, IngestionTypes, DeploymentTypes, ColumnTypes
<1>3. CASE Ingestion!Find(c, "find", "dup") \/ Ingestion!Find(c, "dup", "round")
        \/ Ingestion!CreateRound(c) \/ Ingestion!UpsertMiner(c)
  <2>1. Ingestion!Return(c) \/ \E p \in Ingestion!Places : Ingestion!GoTo(c, p)
    BY <1>3
       DEF Ingestion!Find, Ingestion!CreateRound, Ingestion!UpsertMiner, Ingestion!Places
  <2>2. Quiet
    BY <1>3
       DEF Ingestion!Step, Ingestion!Book, Ingestion!Announce, Ingestion!Find,
           Ingestion!CreateRound, Ingestion!UpsertMiner
  <2>3. QED
    BY <1>1, <1>2, <2>1, <2>2, GoesToTries, ReturnTries DEF IngestionTypes
<1>4. CASE Ingestion!FindRound(c)
  <2>1. Quiet
    BY <1>4 DEF Ingestion!Step, Ingestion!Book, Ingestion!Announce, Ingestion!FindRound
  <2>2. deployCall[c] \in DeployCalls /\ deployCall[c].pc = "round"
    BY <1>4, CallFacts DEF Ingestion!FindRound
  <2>3. CASE DeployRound[deployCall[c].tx] \in rounds
    <3>1. Ingestion!GoTo(c, "miner")
      BY <1>4, <2>3 DEF Ingestion!FindRound, Ingestion!GoTo
    <3>2. QED
      BY <1>1, <1>2, <2>1, <3>1, GoesToTries DEF IngestionTypes, Ingestion!Places
  <2>4. CASE DeployRound[deployCall[c].tx] \notin rounds
    <3> DEFINE to == [deployCall[c] EXCEPT !.pc = "create", !.first = TRUE]
    <3>1. Moves(c, to) /\ to.tries = deployCall[c].tries
      BY <1>4, <2>2, <2>4 DEF Ingestion!FindRound, Moves, DeployCalls, Ingestion!Places
    <3>2. to.tries \in 0..(Attempts - 1)
      BY <3>1 DEF IngestionTypes, TriesTypes
    <3> HIDE DEF to
    <3>3. QED
      BY <1>1, <1>2, <2>1, <3>1, <3>2, TriesKept DEF IngestionTypes
  <2>5. QED
    BY <2>3, <2>4
<1>5. CASE Ingestion!Again(c)
  <2>1. Quiet
    BY <1>5 DEF Ingestion!Step, Ingestion!Book, Ingestion!Announce, Ingestion!Again
  <2>2. CASE Ingestion!Return(c)
    BY <1>1, <1>2, <2>1, <2>2, ReturnTries DEF IngestionTypes
  <2>3. CASE ~Ingestion!Return(c)
    <3> DEFINE to == [deployCall[c] EXCEPT !.tries = @ + 1]
    <3>1. /\ deployCall[c].pc = "again" /\ deployCall[c] \in DeployCalls
          /\ ~(deployCall[c].tries + 1 >= Attempts)
          /\ deployCall' = [deployCall EXCEPT ![c] = to]
      BY <1>5, <2>3, CallFacts DEF Ingestion!Again
    <3>2. /\ to \in DeployCalls /\ to.tries = deployCall[c].tries + 1
      BY <3>1 DEF DeployCalls
    <3>3. deployCall[c].tries \in Nat /\ Attempts \in Nat
      BY <3>1 DEF DeployCalls, Ingestion!IngestionAssumption
    <3> HIDE DEF to
    <3>4. to.tries \in 0..(Attempts - 1)
      BY <3>1, <3>2, <3>3
    <3>5. QED
      BY <1>1, <1>2, <2>1, <3>1, <3>2, <3>4, TriesKept DEF IngestionTypes, Moves
  <2>4. QED
    BY <2>2, <2>3
<1>6. CASE Ingestion!Announce(c) /\ UNCHANGED lifetimeDeployed
  BY <1>1, <1>2, <1>6, ReturnTries DEF Ingestion!Announce, IngestionTypes
<1>7. CASE Ingestion!Book(c)
  <2>1. deployCall[c].tx \in Deploys /\ Ingestion!Landed(deployCall[c].tx)
    BY <1>7, CallFacts DEF Ingestion!Book
  <2>2. \E p \in Ingestion!Places : Ingestion!GoTo(c, p)
    BY <1>7 DEF Ingestion!Book, Ingestion!Places
  <2>3. Quiet \/ Ingestion!Commit(deployCall[c].tx)
    BY <1>7 DEF Ingestion!Book
  <2>4. QED
    BY <1>1, <1>2, <2>1, <2>2, <2>3, GoesToTries, CommitTypes DEF IngestionTypes
<1>8. QED
  BY <1>3, <1>4, <1>5, <1>6, <1>7 DEF Ingestion!Step

(* Every other step.                                                       *)
LEMMA TypesKept ==
  ASSUME Ingestion!IngestionAssumption, IngestionInv, IngestionTypes, Ingestion!Next
  PROVE  IngestionTypes'
<1>1. ASSUME NEW t \in Deploys, Ingestion!Deploy(t) PROVE IngestionTypes'
  BY <1>1
     DEF Ingestion!Deploy, Ingestion!tables, Ingestion!counts, IngestionTypes,
         DeploymentTypes, TriesTypes, ColumnTypes, CounterTypes
<1>2. ASSUME NEW c \in Calls, NEW t \in Deploys, Ingestion!Start(c, t) PROVE IngestionTypes'
  <2> DEFINE to == [Ingestion!NoCall EXCEPT !.pc = "find", !.tx = t]
  <2>1. Moves(c, to) /\ to.tries = 0
    BY <1>2 DEF Ingestion!Start, Moves, Ingestion!NoCall, DeployCalls, Ingestion!Places
  <2>2. to.tries \in 0..(Attempts - 1)
    BY <2>1 DEF Ingestion!IngestionAssumption
  <2> HIDE DEF to
  <2>3. TriesTypes'
    BY <2>1, <2>2, TriesKept DEF IngestionTypes
  <2>4. QED
    BY <1>2, <2>3
       DEF Ingestion!Start, Ingestion!tables, Ingestion!counts, IngestionTypes,
           DeploymentTypes, ColumnTypes, CounterTypes
<1>3. ASSUME NEW c \in Calls, Ingestion!Fail(c) PROVE IngestionTypes'
  <2>1. TriesTypes'
    BY <1>3, ReturnTries DEF Ingestion!Fail, IngestionTypes
  <2>2. CounterTypes'
    BY <1>3 DEF Ingestion!Fail, IngestionTypes, CounterTypes, Ingestion!IngestionAssumption
  <2>3. QED
    BY <1>3, <2>1, <2>2
       DEF Ingestion!Fail, Ingestion!tables, IngestionTypes, DeploymentTypes, ColumnTypes
<1>4. ASSUME NEW r \in Rounds, Ingestion!RoundChange(r) PROVE IngestionTypes'
  BY <1>4
     DEF Ingestion!RoundChange, Ingestion!counts, IngestionTypes, DeploymentTypes,
         TriesTypes, ColumnTypes, CounterTypes
<1>5. ASSUME NEW w \in Wallets, Ingestion!MinerChange(w) PROVE IngestionTypes'
  <2>1. Ingestion!OnChain(w) \in Nat
    BY OnChainNat DEF IngestionInv
  <2>2. ColumnTypes'
    BY <1>5, <2>1 DEF Ingestion!MinerChange, Ingestion!tables, IngestionTypes, ColumnTypes
  <2>3. CounterTypes'
    BY <1>5
       DEF Ingestion!MinerChange, IngestionTypes, CounterTypes,
           Ingestion!IngestionAssumption
  <2>4. QED
    BY <1>5, <2>2, <2>3
       DEF Ingestion!MinerChange, Ingestion!tables, IngestionTypes, DeploymentTypes,
           TriesTypes
<1>6. QED
  BY <1>1, <1>2, <1>3, <1>4, <1>5, StepTypes DEF Ingestion!Next

(* No row has been written and nothing has failed at first.                *)
LEMMA TypesInitially ==
  ASSUME Ingestion!IngestionAssumption, Ingestion!Init
  PROVE  IngestionTypes
<1>1. DeploymentTypes
  BY DEF Ingestion!Init, Ingestion!NoDeployment, DeploymentTypes
<1>2. TriesTypes
  BY DEF Ingestion!Init, Ingestion!NoCall, TriesTypes, Ingestion!IngestionAssumption
<1>3. ColumnTypes
  BY DEF Ingestion!Init, ColumnTypes
<1>4. CounterTypes
  BY DEF Ingestion!Init, CounterTypes, Ingestion!IngestionAssumption
<1>5. QED
  BY <1>1, <1>2, <1>3, <1>4 DEF IngestionTypes

(* Together they type the state.                                           *)
LEMMA IngestionTyped ==
  ASSUME Ingestion!IngestionAssumption, IngestionInv, IngestionTypes
  PROVE  Ingestion!TypeOK /\ Ingestion!BooksMatch /\ Ingestion!AnnouncedOnce
<1>1. deployCall \in
        [Calls -> [pc : Ingestion!Places, tx : Deploys, first : BOOLEAN,
                   tries : 0..Attempts]]
  <2>1. Ingestion!NoCall.tx \in Deploys
    BY DEF Ingestion!NoCall, Ingestion!IngestionAssumption
  <2>2. ASSUME NEW c \in Calls
        PROVE  deployCall[c] \in
                 [pc : Ingestion!Places, tx : Deploys, first : BOOLEAN, tries : 0..Attempts]
    <3>1. deployCall[c] \in
            [pc : Ingestion!Places, tx : Deploys, first : BOOLEAN, tries : Nat]
      BY <2>1 DEF IngestionInv, GivingUpInv, DeployCalls
    <3>2. deployCall[c].tries \in 0..Attempts
      BY DEF IngestionTypes, TriesTypes, Ingestion!IngestionAssumption
    <3>3. QED
      BY <3>1, <3>2
  <2>3. deployCall \in [Calls -> DeployCalls]
    BY DEF IngestionInv, GivingUpInv
  <2>4. QED
    BY <2>2, <2>3
<1>2. \A t \in Deploys :
        deployment[t].squares \subseteq Mask[t] /\ deployment[t].amount \in Nat
  BY DEF IngestionInv, TablesInv, IngestionTypes, DeploymentTypes
<1>3. Ingestion!TypeOK
  BY <1>1, <1>2
     DEF Ingestion!TypeOK, IngestionInv, ChargedInv, TablesInv, AnnouncesInv,
         IngestionTypes, ColumnTypes, CounterTypes
<1>4. QED
  BY <1>3 DEF IngestionInv, AnnouncesInv, Ingestion!AnnouncedOnce
-----------------------------------------------------------------------------
(***************************************************************************)
(* The indexer, for any log, number of workers, pages, crashes and lost    *)
(* notifications: a draw is announced once at most, and a winner a row     *)
(* shows stays.  Whoever shows a winner of a round shows the one that was  *)
(* drawn: the row, the memory of the process, the writes under way, the    *)
(* recovery and the workers.  So what order they write in does not matter. *)
(***************************************************************************)
(* The operators this instance takes from the modules it extends.          *)
LEMMA IndexerOperators ==
  /\ \A S : Indexer!IsFiniteSet(S) <=> IsFiniteSet(S)
  /\ \A S : Indexer!Cardinality(S) = Cardinality(S)
  BY DEF Indexer!IsFiniteSet, IsFiniteSet, Indexer!Cardinality, Cardinality

Modes == {"off", "pages", "lastPage", "page+", "lastPage+", "rounds", "ends", "ends+"}
Recoveries ==
  [mode : Modes, until : 0..head, before : 0..head + 1, page : SUBSET (1..head),
   pages : Nat, unresolved : SUBSET Rounds]
\* where a call is: idle, or at a transaction that landed; what it ends is a draw
Stages ==
  {s \in [pc : Indexer!Places, tx : 0..head] :
     /\ (s.pc = "idle") = (s.tx = 0)
     /\ s.pc \in {"mark", "read", "write"} => s.tx \in Indexer!Fulfils}
Squares == {Log[t].winner : t \in Indexer!Txs} \union {NoSquare}

IndexerTypes ==
  /\ head \in 0..Len(Log) /\ cursor \in 0..head
  /\ pending \subseteq {"game", "vrf"} \X (1..head)
  /\ notes \subseteq [round : Rounds, resolved : BOOLEAN]
  /\ recorded \subseteq 1..head
  /\ processedRoundEnds \subseteq Indexer!Fulfils
  /\ endAnnounced \in [Indexer!Txs -> {0, 1}]
  /\ worker \in [Indexer!AllWorkers -> Stages]
  /\ indexerFailures \in 0..MaxIndexerFailures /\ crashes \in 0..MaxCrashes
  /\ lost \in 0..MaxLost
RecoveryTypes ==
  /\ recovery \in Recoveries
  /\ recovery.mode \in {"page+", "lastPage+"} => recovery.page # {}

\* whoever shows a winner of a round shows the one the program drew
Drawn(r) ==
  {Log[t].winner : t \in {u \in Indexer!Fulfils : Indexer!RoundOf(u) = r}} \union {NoSquare}
Upserts ==
  {u \in [round : Rounds, status : {"active", "completed"}, winningSquare : Squares] :
     u.winningSquare \in Drawn(u.round)}
OnlyDrawn ==
  /\ row \in [Rounds -> Indexer!Row] /\ resolvedWinners \in [Rounds -> Squares]
  /\ writes \subseteq Upserts
  /\ \A r \in Rounds : row[r].winningSquare \in Drawn(r) /\ resolvedWinners[r] \in Drawn(r)

\* a draw that is being announced is marked, by one call
Ending(w) == worker[w].pc \in {"read", "write"}
EndsMarked ==
  /\ \A w \in Indexer!AllWorkers : Ending(w) =>
       worker[w].tx \in processedRoundEnds /\ endAnnounced[worker[w].tx] = 0
  /\ \A v, w \in Indexer!AllWorkers : Ending(v) /\ Ending(w) /\ worker[v].tx = worker[w].tx
       => v = w
  /\ \A t \in Indexer!Txs : endAnnounced[t] = 1 => t \in processedRoundEnds

IndexerInv == IndexerTypes /\ RecoveryTypes /\ OnlyDrawn /\ EndsMarked

(* What the log has in it; the program draws a round once.                 *)
LEMMA LogIs ==
  ASSUME Indexer!IndexerAssumption
  PROVE  /\ Len(Log) \in Nat /\ Indexer!Txs = DOMAIN Log
         /\ Indexer!Fulfils \subseteq Indexer!Txs
         /\ \A t \in Indexer!Txs : Indexer!RoundOf(t) \in Rounds /\ Log[t].winner \in Squares
         /\ \A r : Drawn(r) \subseteq Squares /\ NoSquare \in Drawn(r)
         /\ \A t \in Indexer!Fulfils : Log[t].winner \in Drawn(Indexer!RoundOf(t))
         /\ \A t \in Indexer!Fulfils : \A a \in Drawn(Indexer!RoundOf(t)) : a # NoSquare
              => a = Log[t].winner
         /\ Recovery \in Indexer!AllWorkers /\ Workers \subseteq Indexer!AllWorkers
         /\ MaxPages \in Nat /\ MaxIndexerFailures \in Nat /\ MaxCrashes \in Nat
         /\ MaxLost \in Nat
<1>1. /\ Log \in Seq([kind : {"deploy", "fulfil"}, round : Rounds,
                      winner : {Log[i].winner : i \in DOMAIN Log}])
      /\ \A i, j \in DOMAIN Log :
           (Log[i].kind = "fulfil" /\ Log[j].kind = "fulfil" /\ Log[i].round = Log[j].round)
             => Log[i].winner = Log[j].winner
  BY DEF Indexer!IndexerAssumption
<1>2. Len(Log) \in Nat /\ DOMAIN Log = 1..Len(Log)
  BY <1>1
<1>3. \A t \in Indexer!Txs : Log[t].round \in Rounds
  <2> DEFINE winners == {Log[i].winner : i \in DOMAIN Log}
             entries == [kind : {"deploy", "fulfil"}, round : Rounds, winner : winners]
  <2>1. Log \in Seq(entries)
    BY <1>1
  <2> HIDE DEF entries
  <2>2. \A t \in 1..Len(Log) : Log[t] \in entries
    BY <2>1
  <2>3. \A e \in entries : e.round \in Rounds
    BY DEF entries
  <2>4. QED
    BY <2>2, <2>3 DEF Indexer!Txs
<1>4. \A t \in Indexer!Txs : Indexer!RoundOf(t) \in Rounds /\ Log[t].winner \in Squares
  BY <1>3 DEF Indexer!RoundOf, Squares
<1>5. Indexer!Fulfils \subseteq Indexer!Txs
  BY DEF Indexer!Fulfils
<1>6. \A r : Drawn(r) \subseteq Squares /\ NoSquare \in Drawn(r)
  BY <1>5 DEF Drawn, Squares
<1>7. \A t \in Indexer!Fulfils : Log[t].winner \in Drawn(Indexer!RoundOf(t))
  BY DEF Drawn
<1>8. ASSUME NEW t \in Indexer!Fulfils, NEW a \in Drawn(Indexer!RoundOf(t)), a # NoSquare
      PROVE  a = Log[t].winner
  <2>1. PICK u \in Indexer!Fulfils : Indexer!RoundOf(u) = Indexer!RoundOf(t)
          /\ a = Log[u].winner
    BY <1>8 DEF Drawn
  <2>2. /\ t \in DOMAIN Log /\ u \in DOMAIN Log /\ Log[t].kind = "fulfil"
        /\ Log[u].kind = "fulfil"
    BY <1>2 DEF Indexer!Fulfils, Indexer!Txs
  <2>3. QED
    BY <1>1, <2>1, <2>2 DEF Indexer!RoundOf
<1>9. /\ Recovery \in Indexer!AllWorkers /\ Workers \subseteq Indexer!AllWorkers
      /\ MaxPages \in Nat /\ MaxIndexerFailures \in Nat /\ MaxCrashes \in Nat
      /\ MaxLost \in Nat
  BY DEF Indexer!AllWorkers, Indexer!IndexerAssumption
<1>10. QED
  BY <1>2, <1>4, <1>5, <1>6, <1>7, <1>8, <1>9 DEF Indexer!Txs

(* Two that show a winner of a round show the same.                        *)
LEMMA DrawnOnce ==
  ASSUME Indexer!IndexerAssumption, NEW r, NEW a \in Drawn(r), NEW b \in Drawn(r),
         a # NoSquare, b # NoSquare
  PROVE  a = b
<1>1. PICK t \in Indexer!Fulfils : Indexer!RoundOf(t) = r /\ a = Log[t].winner
  BY DEF Drawn
<1>2. QED
  BY <1>1, LogIs

(* The first and the newest transaction of a page are on it.               *)
LEMMA OnThePage ==
  ASSUME NEW n \in Nat, NEW page \in SUBSET (1..n), page # {}
  PROVE  /\ Indexer!First(page) \in page /\ Indexer!Newest(page) \in page
         /\ Indexer!Min(page) \in page
<1>1. \E x \in page : \A y \in page : x <= y
  <2>1. page \in SUBSET Nat
    OBVIOUS
  <2>2. QED
    BY <2>1, LeastNumber
<1>2. \E x \in page : \A y \in page : x >= y
  <2> DEFINE left == {n - x : x \in page}
  <2>0. \A x \in page : x \in Int /\ n - x \in Nat
    OBVIOUS
  <2>1. left \in SUBSET Nat /\ left # {}
    BY <2>0
  <2>2. PICK z \in left : \A y \in left : z <= y
    BY <2>1, LeastNumber
  <2>3. PICK x \in page : z = n - x
    BY <2>2
  <2>4. \A y \in page : n - x <= n - y
    BY <2>2, <2>3
  <2>5. \A y \in page : x >= y
    <3>1. ASSUME NEW y \in page PROVE x >= y
      <4>1. x \in Int /\ y \in Int /\ n \in Int /\ n - x <= n - y
        BY <2>0, <2>4
      <4>2. QED
        BY <4>1
    <3>2. QED
      BY <3>1
  <2>6. QED
    BY <2>5
<1>3. QED
  BY <1>1, <1>2 DEF Indexer!First, Indexer!Newest, Indexer!Min, Indexer!Max

(* What a step that only moves calls keeps: nothing is being announced     *)
(* that was not before.                                                    *)
LEMMA StillMarkedOnce ==
  ASSUME EndsMarked, UNCHANGED <<processedRoundEnds, endAnnounced>>,
         \A w \in Indexer!AllWorkers : Ending(w)'
             => Ending(w) /\ worker'[w].tx = worker[w].tx
  PROVE  EndsMarked'
  BY DEF EndsMarked

(* A transaction lands and tells whoever has drawn.                        *)
LEMMA LandKeeps ==
  ASSUME Indexer!IndexerAssumption, IndexerInv, Indexer!Land
  PROVE  IndexerInv'
<1>1. /\ head < Len(Log) /\ head' = head + 1 /\ head \in Nat /\ head' \in Nat
      /\ head' \in Indexer!Txs
      /\ UNCHANGED <<writes, Indexer!database, Indexer!memory, worker, recovery,
           Indexer!counts>>
      /\ \A n : n \in 0..head => n \in 0..head'
      /\ 1..head \subseteq 1..head' /\ 0..head \subseteq 0..head' /\ head' \in 1..head'
      /\ 0..head + 1 \subseteq 0..head' + 1
  BY LogIs DEF Indexer!Land, IndexerInv, IndexerTypes, Indexer!Txs
<1>2. IndexerTypes'
  <2>1. pending' \subseteq {"game", "vrf"} \X (1..head')
    BY <1>1 DEF Indexer!Land, IndexerInv, IndexerTypes
  <2>2. notes' \subseteq [round : Rounds, resolved : BOOLEAN]
    <3>1. notes' = notes
            \union {[round |-> Indexer!RoundOf(head'),
            resolved |-> head' \in Indexer!Fulfils]}
      BY DEF Indexer!Land
    <3>2. [round |-> Indexer!RoundOf(head'), resolved |-> head' \in Indexer!Fulfils]
            \in [round : Rounds, resolved : BOOLEAN]
      BY <1>1, LogIs
    <3>3. QED
      BY <3>1, <3>2 DEF IndexerInv, IndexerTypes
  <2>3. worker' \in [Indexer!AllWorkers -> Stages']
    <3>1. Stages \subseteq Stages'
      BY <1>1 DEF Stages
    <3>2. QED
      BY <1>1, <3>1 DEF IndexerInv, IndexerTypes
  <2>4. recorded' \subseteq 1..head' /\ cursor' \in 0..head' /\ head' \in 0..Len(Log)
    BY <1>1, LogIs DEF IndexerInv, IndexerTypes, Indexer!database
  <2>5. QED
    BY <1>1, <2>1, <2>2, <2>3, <2>4
       DEF IndexerInv, IndexerTypes, Indexer!memory, Indexer!counts
<1>3. RecoveryTypes'
  <2>1. Recoveries \subseteq Recoveries'
    BY <1>1 DEF Recoveries
  <2>2. QED
    BY <1>1, <2>1 DEF IndexerInv, RecoveryTypes
<1>4. OnlyDrawn' /\ EndsMarked'
  BY <1>1 DEF IndexerInv, OnlyDrawn, EndsMarked, Ending, Indexer!database, Indexer!memory
<1>5. QED
  BY <1>2, <1>3, <1>4 DEF IndexerInv

(* A notification is lost,                                                 *)
LEMMA LoseKeeps ==
  ASSUME Indexer!IndexerAssumption, IndexerInv, Indexer!Lose
  PROVE  IndexerInv'
<1>1. /\ UNCHANGED <<head, writes, Indexer!database, Indexer!memory, worker, recovery,
           indexerFailures, crashes>>
      /\ pending' \subseteq pending /\ notes' \subseteq notes /\ lost' \in 0..MaxLost
  BY LogIs DEF Indexer!Lose, IndexerInv, IndexerTypes
<1>2. QED
  BY <1>1
     DEF IndexerInv, IndexerTypes, RecoveryTypes, Recoveries, Stages, OnlyDrawn, EndsMarked,
         Ending, Indexer!database, Indexer!memory

(* or the process is restarted.                                            *)
LEMMA RestartKeeps ==
  ASSUME Indexer!IndexerAssumption, IndexerInv, Indexer!Restart
  PROVE  IndexerInv'
<1>1. /\ pending' = {} /\ notes' = {} /\ writes' = {} /\ processedRoundEnds' = {}
      /\ worker' = [w \in Indexer!AllWorkers |-> Indexer!Idle]
      /\ recovery' = Indexer!NoRecovery
      /\ resolvedWinners' = [r \in Rounds |-> NoSquare]
      /\ endAnnounced' = [t \in Indexer!Txs |-> 0] /\ crashes' \in 0..MaxCrashes
      /\ UNCHANGED <<head, recorded, row, cursor, indexerFailures, lost>>
  BY LogIs DEF Indexer!Restart, IndexerInv, IndexerTypes, Indexer!database
<1>2. Indexer!Idle \in Stages /\ Indexer!NoRecovery \in Recoveries /\ head \in Nat
  BY LogIs
     DEF IndexerInv, IndexerTypes, Indexer!Idle, Stages, Indexer!Places, Indexer!NoRecovery,
         Recoveries, Modes
<1>3. IndexerTypes'
  BY <1>1, <1>2 DEF IndexerInv, IndexerTypes, Stages
<1>4. RecoveryTypes'
  BY <1>1, <1>2 DEF RecoveryTypes, Recoveries, Indexer!NoRecovery
<1>5. OnlyDrawn'
  BY <1>1, LogIs DEF IndexerInv, OnlyDrawn, Squares
<1>6. EndsMarked'
  BY <1>1 DEF EndsMarked, Ending, Indexer!Idle
<1>7. QED
  BY <1>3, <1>4, <1>5, <1>6 DEF IndexerInv

(* The account of a round changed: its row is to be written.               *)
LEMMA RoundChangeKeeps ==
  ASSUME Indexer!IndexerAssumption, IndexerInv, Indexer!RoundChange
  PROVE  IndexerInv'
<1>1. UNCHANGED <<head, pending, Indexer!database, Indexer!memory, worker, recovery,
        Indexer!counts>>
      /\ notes' \subseteq notes
  BY DEF Indexer!RoundChange
<1>2. writes' \subseteq Upserts
  <2>1. PICK n \in notes :
          LET write == [round |-> n.round, winningSquare |-> resolvedWinners[n.round],
                        status |-> IF n.resolved THEN "completed" ELSE "active"]
          IN writes' = writes \union {write} \/ UNCHANGED writes
    BY DEF Indexer!RoundChange
  <2>2. n.round \in Rounds
    BY DEF IndexerInv, IndexerTypes
  <2>3. [round |-> n.round, winningSquare |-> resolvedWinners[n.round],
         status |-> IF n.resolved THEN "completed" ELSE "active"] \in Upserts
    BY <2>2 DEF IndexerInv, OnlyDrawn, Upserts
  <2>4. QED
    BY <2>1, <2>3 DEF IndexerInv, OnlyDrawn
<1>3. QED
  BY <1>1, <1>2
     DEF IndexerInv, IndexerTypes, RecoveryTypes, Recoveries, Stages, OnlyDrawn, EndsMarked,
         Ending, Indexer!database, Indexer!memory, Indexer!counts

(* The write of a notification keeps a winner: it knows the same, or none. *)
LEMMA UpsertKeeps ==
  ASSUME Indexer!IndexerAssumption, IndexerInv, Indexer!Upsert
  PROVE  IndexerInv' /\ Indexer!KeepsWinner
<1>1. UNCHANGED <<head, pending, notes, recorded, cursor, Indexer!memory, worker, recovery,
        Indexer!counts>>
  BY DEF Indexer!Upsert
<1>2. PICK u \in writes : writes' = writes \ {u}
        /\ row' = [row EXCEPT ![u.round] = Indexer!Upserted(u)]
  BY DEF Indexer!Upsert
<1>3. /\ u.round \in Rounds /\ u.status \in {"active", "completed"}
      /\ u.winningSquare \in Drawn(u.round) /\ u.winningSquare \in Squares
      /\ row \in [Rounds -> Indexer!Row]
      /\ \A r \in Rounds : row[r].winningSquare \in Drawn(r)
  BY DEF IndexerInv, OnlyDrawn, Upserts
<1>4. /\ Indexer!Upserted(u) \in Indexer!Row
      /\ Indexer!Upserted(u).winningSquare \in Drawn(u.round)
      /\ row[u.round].winningSquare # NoSquare =>
           Indexer!Upserted(u).winningSquare = row[u.round].winningSquare
  <2>1. Indexer!Upserted(u).winningSquare =
          IF u.winningSquare = NoSquare THEN row[u.round].winningSquare ELSE u.winningSquare
    BY DEF Indexer!Upserted
  <2>2. Indexer!Upserted(u) \in Indexer!Row
    BY <1>3 DEF Indexer!Upserted, Indexer!Row, Squares
  <2>3. QED
    BY <1>3, <2>1, <2>2, DrawnOnce
<1>5. /\ row' \in [Rounds -> Indexer!Row]
      /\ \A r \in Rounds : row'[r].winningSquare \in Drawn(r)
      /\ Indexer!KeepsWinner
  BY <1>2, <1>3, <1>4 DEF Indexer!KeepsWinner
<1>6. OnlyDrawn'
  BY <1>1, <1>2, <1>5 DEF IndexerInv, OnlyDrawn, Indexer!memory
<1>7. QED
  BY <1>1, <1>5, <1>6
     DEF IndexerInv, IndexerTypes, RecoveryTypes, Recoveries, Stages, EndsMarked, Ending,
         Indexer!memory, Indexer!counts

(* A live log is handed to an idle call.                                   *)
LEMMA ProcessStages ==
  ASSUME Indexer!IndexerAssumption, IndexerInv, NEW t \in 1..head
  PROVE  /\ [pc |-> IF t \in Indexer!Fulfils THEN "mark" ELSE "deploy", tx |-> t] \in Stages
         /\ [pc |-> "cursor", tx |-> t] \in Stages
  BY LogIs DEF IndexerInv, IndexerTypes, Stages, Indexer!Places, Indexer!Txs

(* A worker takes up a notification,                                       *)
LEMMA DeliverKeeps ==
  ASSUME Indexer!IndexerAssumption, IndexerInv, NEW w \in Workers, Indexer!Deliver(w)
  PROVE  IndexerInv'
<1>1. UNCHANGED <<head, notes, writes, Indexer!database, Indexer!memory, recovery,
        Indexer!counts>> /\ w \in Indexer!AllWorkers
  BY LogIs DEF Indexer!Deliver
<1>2. PICK p \in pending : pending' = pending \ {p} /\ Indexer!Process(w, p[2])
  BY DEF Indexer!Deliver
<1>3. p[2] \in 1..head
  BY DEF IndexerInv, IndexerTypes
<1>4. /\ worker' \in [Indexer!AllWorkers -> Stages] /\ worker'[w].pc \in {"mark", "deploy"}
      /\ \A v \in Indexer!AllWorkers \ {w} : worker'[v] = worker[v]
  BY <1>1, <1>2, <1>3, ProcessStages DEF IndexerInv, IndexerTypes, Indexer!Process
<1>5. EndsMarked'
  BY <1>1, <1>4, StillMarkedOnce DEF IndexerInv, Ending, Indexer!memory
<1>6. QED
  BY <1>1, <1>2, <1>4, <1>5
     DEF IndexerInv, IndexerTypes, RecoveryTypes, Recoveries, Stages, OnlyDrawn,
         Indexer!database, Indexer!memory, Indexer!counts

(* The steps of a call.                                                    *)
LEMMA WorkParts ==
  ASSUME Indexer!IndexerAssumption, IndexerInv, NEW w \in Indexer!AllWorkers,
         worker[w].pc # "idle"
  PROVE  /\ worker[w].tx \in 1..head /\ worker[w].tx \in Indexer!Txs
         /\ worker[w].tx \in 0..head
         /\ Indexer!RoundOf(worker[w].tx) \in Rounds
         /\ worker[w].pc \in {"mark", "read", "write"} =>
              /\ worker[w].tx \in Indexer!Fulfils
              /\ Indexer!Winner(w) \in Drawn(Indexer!RoundOf(worker[w].tx))
         /\ worker[w] \in [pc : Indexer!Places, tx : 0..head]
         /\ \A p \in {"cursor", "thrown"} : [worker[w] EXCEPT !.pc = p] \in Stages
         /\ \A p \in {"read", "write"} :
              worker[w].pc \in {"mark", "read"} => [worker[w] EXCEPT !.pc = p] \in Stages
         /\ Indexer!Idle \in Stages
<1>1. worker[w] \in Stages /\ head \in 0..Len(Log) /\ Len(Log) \in Nat
  BY LogIs DEF IndexerInv, IndexerTypes
<1>2. worker[w].tx \in 1..head /\ worker[w].tx \in Indexer!Txs /\ worker[w].tx \in 0..head
  BY <1>1 DEF Stages, Indexer!Txs
<1>3. QED
  BY <1>1, <1>2, LogIs DEF Stages, Indexer!Places, Indexer!Winner, Indexer!Idle

(* records a deploy,                                                       *)
LEMMA IngestDeploymentKeeps ==
  ASSUME Indexer!IndexerAssumption, IndexerInv, NEW w \in Indexer!AllWorkers,
         Indexer!IngestDeployment(w),
         UNCHANGED <<head, pending, notes, writes, recovery, Indexer!counts>>
  PROVE  IndexerInv' /\ Indexer!KeepsWinner
<1> DEFINE t == worker[w].tx
           r == Indexer!RoundOf(t)
<1>1. /\ worker[w].pc = "deploy" /\ recorded' = recorded \union {t}
      /\ row' = [row EXCEPT ![r].status = IF @ = "none" THEN "active" ELSE @]
      /\ worker' = [worker EXCEPT ![w].pc = "cursor"]
      /\ UNCHANGED <<cursor, Indexer!memory>>
  BY DEF Indexer!IngestDeployment, Indexer!GoTo
<1>2. t \in 1..head /\ r \in Rounds /\ [worker[w] EXCEPT !.pc = "cursor"] \in Stages
  BY <1>1, WorkParts
<1>3. /\ worker' \in [Indexer!AllWorkers -> Stages] /\ worker'[w].pc = "cursor"
      /\ \A v \in Indexer!AllWorkers \ {w} : worker'[v] = worker[v]
  BY <1>1, <1>2 DEF IndexerInv, IndexerTypes, Stages
<1>4. /\ row' \in [Rounds -> Indexer!Row]
      /\ \A s \in Rounds : row'[s].winningSquare = row[s].winningSquare
  <2>1. row \in [Rounds -> Indexer!Row]
    BY DEF IndexerInv, OnlyDrawn
  <2>2. QED
    BY <1>1, <1>2, <2>1 DEF Indexer!Row
<1>5. EndsMarked'
  BY <1>1, <1>3, StillMarkedOnce DEF IndexerInv, Ending, Indexer!memory
<1>6. IndexerTypes'
  BY <1>1, <1>2, <1>3 DEF IndexerInv, IndexerTypes, Stages, Indexer!memory, Indexer!counts
<1>7. OnlyDrawn' /\ Indexer!KeepsWinner
  BY <1>1, <1>4 DEF IndexerInv, OnlyDrawn, Indexer!KeepsWinner, Indexer!memory
<1>8. QED
  BY <1>5, <1>6, <1>7 DEF IndexerInv, RecoveryTypes, Recoveries

(* or marks the end of a round, unless another has,                        *)
LEMMA MarkKeeps ==
  ASSUME Indexer!IndexerAssumption, IndexerInv, NEW w \in Indexer!AllWorkers,
         Indexer!Mark(w),
         UNCHANGED <<head, pending, notes, writes, recovery, Indexer!counts>>
  PROVE  IndexerInv'
<1> DEFINE t == worker[w].tx
<1>1. worker[w].pc = "mark" /\ UNCHANGED <<Indexer!database, resolvedWinners, endAnnounced>>
  BY DEF Indexer!Mark
<1>2. /\ t \in Indexer!Fulfils /\ t \in Indexer!Txs
      /\ \A p \in {"cursor", "read"} : [worker[w] EXCEPT !.pc = p] \in Stages
  BY <1>1, WorkParts
<1>3. worker \in [Indexer!AllWorkers -> Stages] /\ endAnnounced \in [Indexer!Txs -> {0, 1}]
  BY DEF IndexerInv, IndexerTypes
<1>4. CASE t \in processedRoundEnds
  <2>1. worker' = [worker EXCEPT ![w].pc = "cursor"] /\ UNCHANGED processedRoundEnds
    BY <1>4 DEF Indexer!Mark, Indexer!GoTo
  <2>2. /\ worker' \in [Indexer!AllWorkers -> Stages] /\ worker'[w].pc = "cursor"
        /\ \A v \in Indexer!AllWorkers \ {w} : worker'[v] = worker[v]
    BY <1>2, <1>3, <2>1 DEF Stages
  <2>3. EndsMarked'
    BY <1>1, <2>1, <2>2, StillMarkedOnce DEF IndexerInv, Ending
  <2>4. QED
    BY <1>1, <2>1, <2>2, <2>3
       DEF IndexerInv, IndexerTypes, RecoveryTypes, Recoveries, Stages, OnlyDrawn,
           Indexer!database, Indexer!counts
<1>5. CASE t \notin processedRoundEnds
  <2>1. /\ worker' = [worker EXCEPT ![w].pc = "read"]
        /\ processedRoundEnds' = processedRoundEnds \union {t}
    BY <1>5 DEF Indexer!Mark, Indexer!GoTo
  <2>2. /\ worker' \in [Indexer!AllWorkers -> Stages] /\ worker'[w].pc = "read"
        /\ worker'[w].tx = t
        /\ \A v \in Indexer!AllWorkers \ {w} : worker'[v] = worker[v]
    BY <1>2, <1>3, <2>1 DEF Stages
  <2>3. endAnnounced[t] = 0
    BY <1>2, <1>3, <1>5 DEF IndexerInv, EndsMarked
  <2>4. \A v \in Indexer!AllWorkers : Ending(v) => worker[v].tx # t
    BY <1>5 DEF IndexerInv, EndsMarked
  <2>5. EndsMarked'
    BY <1>1, <2>1, <2>2, <2>3, <2>4 DEF IndexerInv, EndsMarked, Ending
  <2>6. IndexerTypes'
    BY <1>1, <1>2, <2>1, <2>2
       DEF IndexerInv, IndexerTypes, Stages, Indexer!database, Indexer!counts
  <2>7. QED
    BY <1>1, <2>5, <2>6
       DEF IndexerInv, RecoveryTypes, Recoveries, OnlyDrawn, Indexer!database
<1>6. QED
  BY <1>4, <1>5

(* reads the row of the round                                              *)
LEMMA ReadRowKeeps ==
  ASSUME Indexer!IndexerAssumption, IndexerInv, NEW w \in Indexer!AllWorkers,
         Indexer!ReadRow(w),
         UNCHANGED <<head, pending, notes, writes, recovery, Indexer!counts>>
  PROVE  IndexerInv'
<1> DEFINE r == Indexer!RoundOf(worker[w].tx)
<1>1. /\ worker[w].pc = "read"
      /\ UNCHANGED <<Indexer!database, processedRoundEnds, endAnnounced>>
      /\ resolvedWinners' = [resolvedWinners EXCEPT ![r] = Indexer!Winner(w)]
      /\ worker' = [worker EXCEPT ![w].pc = "write"]
  BY DEF Indexer!ReadRow, Indexer!GoTo
<1>2. /\ r \in Rounds /\ Indexer!Winner(w) \in Drawn(r) /\ Indexer!Winner(w) \in Squares
      /\ [worker[w] EXCEPT !.pc = "write"] \in Stages
  <2>1. /\ r \in Rounds /\ Indexer!Winner(w) \in Drawn(r)
        /\ [worker[w] EXCEPT !.pc = "write"] \in Stages
    BY <1>1, WorkParts
  <2>2. Drawn(r) \subseteq Squares
    BY LogIs
  <2>3. QED
    BY <2>1, <2>2
<1>3. /\ worker' \in [Indexer!AllWorkers -> Stages] /\ worker'[w].pc = "write"
      /\ worker'[w].tx = worker[w].tx
      /\ \A v \in Indexer!AllWorkers \ {w} : worker'[v] = worker[v]
  BY <1>1, <1>2 DEF IndexerInv, IndexerTypes, Stages
<1>4. EndsMarked'
  BY <1>1, <1>3, StillMarkedOnce DEF IndexerInv, Ending
<1>5. OnlyDrawn'
  <2>1. /\ resolvedWinners \in [Rounds -> Squares]
        /\ \A s \in Rounds : resolvedWinners[s] \in Drawn(s)
    BY DEF IndexerInv, OnlyDrawn
  <2>2. /\ resolvedWinners' \in [Rounds -> Squares]
        /\ \A s \in Rounds : resolvedWinners'[s] \in Drawn(s)
    BY <1>1, <1>2, <2>1
  <2>3. QED
    BY <1>1, <2>2 DEF IndexerInv, OnlyDrawn, Indexer!database
<1>6. IndexerTypes'
  BY <1>1, <1>3 DEF IndexerInv, IndexerTypes, Stages, Indexer!database, Indexer!counts
<1>7. QED
  BY <1>4, <1>5, <1>6 DEF IndexerInv, RecoveryTypes, Recoveries

(* The end of a round is written and announced: the winner is the one any  *)
(* row of the round shows already, and nobody else announces it.           *)
LEMMA WriteEndKeeps ==
  ASSUME Indexer!IndexerAssumption, IndexerInv, NEW w \in Indexer!AllWorkers,
         Indexer!WriteEnd(w),
         UNCHANGED <<head, pending, notes, writes, recovery, Indexer!counts>>
  PROVE  IndexerInv' /\ Indexer!KeepsWinner
<1> DEFINE t == worker[w].tx
           r == Indexer!RoundOf(t)
<1>1. /\ worker[w].pc = "write"
      /\ UNCHANGED <<recorded, cursor, resolvedWinners, processedRoundEnds>>
      /\ endAnnounced' = [endAnnounced EXCEPT ![t] = @ + 1]
      /\ worker' = [worker EXCEPT ![w].pc = "cursor"]
      /\ \/ row' = row
         \/ row' = [row EXCEPT ![r] =
            [status |-> "completed", winningSquare |-> Indexer!Winner(w)]]
  BY DEF Indexer!WriteEnd, Indexer!GoTo
<1>2. /\ t \in Indexer!Txs /\ r \in Rounds /\ Indexer!Winner(w) \in Drawn(r)
      /\ Indexer!Winner(w) \in Squares
      /\ [worker[w] EXCEPT !.pc = "cursor"] \in Stages
  BY <1>1, WorkParts, LogIs
<1>3. /\ worker' \in [Indexer!AllWorkers -> Stages] /\ worker'[w].pc = "cursor"
      /\ \A v \in Indexer!AllWorkers \ {w} : worker'[v] = worker[v]
  BY <1>1, <1>2 DEF IndexerInv, IndexerTypes, Stages
<1>4. /\ endAnnounced[t] = 0 /\ t \in processedRoundEnds
      /\ \A v \in Indexer!AllWorkers \ {w} : Ending(v) => worker[v].tx # t
  BY <1>1 DEF IndexerInv, EndsMarked, Ending
<1>5. /\ endAnnounced' \in [Indexer!Txs -> {0, 1}]
      /\ \A u \in Indexer!Txs \ {t} : endAnnounced'[u] = endAnnounced[u]
  <2>1. endAnnounced \in [Indexer!Txs -> {0, 1}]
    BY DEF IndexerInv, IndexerTypes
  <2>2. QED
    BY <1>1, <1>2, <1>4, <2>1
<1>6. EndsMarked'
  <2>1. \A v \in Indexer!AllWorkers : Ending(v)' =>
          v # w /\ Ending(v) /\ worker'[v] = worker[v] /\ worker[v].tx # t
    BY <1>3, <1>4 DEF Ending
  <2>2. \A v \in Indexer!AllWorkers : Ending(v) => worker[v].tx \in processedRoundEnds
          /\ endAnnounced[worker[v].tx] = 0 /\ worker[v].tx \in Indexer!Txs
    BY LogIs DEF IndexerInv, EndsMarked, IndexerTypes
  <2>3. \A v \in Indexer!AllWorkers : Ending(v)' =>
          worker'[v].tx \in processedRoundEnds' /\ endAnnounced'[worker'[v].tx] = 0
    BY <1>1, <1>5, <2>1, <2>2
  <2>4. \A v, u \in Indexer!AllWorkers : Ending(v)' /\ Ending(u)'
          /\ worker'[v].tx = worker'[u].tx => v = u
    BY <2>1 DEF IndexerInv, EndsMarked
  <2>5. \A u \in Indexer!Txs : endAnnounced'[u] = 1 => u \in processedRoundEnds'
    BY <1>1, <1>4, <1>5 DEF IndexerInv, EndsMarked
  <2>6. QED
    BY <2>3, <2>4, <2>5 DEF EndsMarked
<1>7. /\ row' \in [Rounds -> Indexer!Row]
      /\ \A s \in Rounds : row'[s].winningSquare \in Drawn(s)
      /\ Indexer!KeepsWinner
  <2>1. /\ row \in [Rounds -> Indexer!Row]
        /\ \A s \in Rounds : row[s].winningSquare \in Drawn(s)
    BY DEF IndexerInv, OnlyDrawn
  <2>2. [status |-> "completed", winningSquare |-> Indexer!Winner(w)] \in Indexer!Row
    BY <1>2 DEF Indexer!Row, Squares
  <2>3. CASE row' = row
    BY <2>1, <2>3 DEF Indexer!KeepsWinner
  <2>4. CASE row' = [row EXCEPT ![r] =
          [status |-> "completed", winningSquare |-> Indexer!Winner(w)]]
    <3>1. /\ row' \in [Rounds -> Indexer!Row] /\ row'[r].winningSquare = Indexer!Winner(w)
          /\ \A s \in Rounds \ {r} : row'[s] = row[s]
      BY <1>2, <2>1, <2>2, <2>4
    <3>2. row[r].winningSquare # NoSquare => row[r].winningSquare = Indexer!Winner(w)
      <4>1. t \in Indexer!Fulfils
        BY <1>1, WorkParts
      <4>2. QED
        BY <1>2, <2>1, <4>1, LogIs DEF Indexer!Winner
    <3>3. QED
      BY <1>2, <2>1, <3>1, <3>2 DEF Indexer!KeepsWinner
  <2>5. QED
    BY <1>1, <2>3, <2>4
<1>8. IndexerTypes'
  BY <1>1, <1>3, <1>5 DEF IndexerInv, IndexerTypes, Stages, Indexer!counts
<1>9. QED
  BY <1>1, <1>6, <1>7, <1>8 DEF IndexerInv, RecoveryTypes, Recoveries, OnlyDrawn

(* The cursor moves on.                                                    *)
LEMMA UpsertDeployCursorKeeps ==
  ASSUME Indexer!IndexerAssumption, IndexerInv, NEW w \in Indexer!AllWorkers,
         Indexer!UpsertDeployCursor(w),
         UNCHANGED <<head, pending, notes, writes, recovery, Indexer!counts>>
  PROVE  IndexerInv'
<1>1. /\ worker[w].pc = "cursor" /\ cursor' = worker[w].tx
      /\ worker' = [worker EXCEPT ![w] = Indexer!Idle]
      /\ UNCHANGED <<recorded, row, Indexer!memory>>
  BY DEF Indexer!UpsertDeployCursor
<1>2. cursor' \in 0..head /\ Indexer!Idle \in Stages
  BY <1>1, WorkParts
<1>3. /\ worker' \in [Indexer!AllWorkers -> Stages] /\ worker'[w].pc = "idle"
      /\ \A v \in Indexer!AllWorkers \ {w} : worker'[v] = worker[v]
  BY <1>1, <1>2 DEF IndexerInv, IndexerTypes, Indexer!Idle
<1>4. EndsMarked'
  BY <1>1, <1>3, StillMarkedOnce DEF IndexerInv, Ending, Indexer!memory
<1>5. QED
  BY <1>1, <1>2, <1>3, <1>4
     DEF IndexerInv, IndexerTypes, RecoveryTypes, Recoveries, Stages, OnlyDrawn,
         Indexer!memory, Indexer!counts

(* An error ends a call; what it was about to announce is forgotten, so    *)
(* that it can be announced again.                                         *)
LEMMA ThrowKeeps ==
  ASSUME Indexer!IndexerAssumption, IndexerInv, NEW w \in Indexer!AllWorkers,
         Indexer!Throw(w)
  PROVE  IndexerInv'
<1> DEFINE t == worker[w].tx
           next == IF w = Recovery THEN [worker[w] EXCEPT !.pc = "thrown"] ELSE Indexer!Idle
<1>1. /\ worker[w].pc # "idle" /\ processedRoundEnds' = Indexer!Unmarked(w)
      /\ worker' = [worker EXCEPT ![w] = next] /\ indexerFailures' \in 0..MaxIndexerFailures
      /\ UNCHANGED <<head, pending, notes, writes, Indexer!database, resolvedWinners,
           endAnnounced,
                     recovery, crashes, lost>>
  BY LogIs DEF Indexer!Throw, IndexerInv, IndexerTypes
<1>2. next \in Stages /\ next.pc \in {"thrown", "idle"}
  <2>1. /\ [worker[w] EXCEPT !.pc = "thrown"] \in Stages /\ Indexer!Idle \in Stages
        /\ worker[w] \in [pc : Indexer!Places, tx : 0..head]
    BY <1>1, WorkParts
  <2>2. QED
    BY <2>1 DEF Indexer!Idle
<1> HIDE DEF next
<1>3. /\ worker' \in [Indexer!AllWorkers -> Stages] /\ ~Ending(w)'
      /\ \A v \in Indexer!AllWorkers \ {w} : worker'[v] = worker[v]
  BY <1>1, <1>2 DEF IndexerInv, IndexerTypes, Ending
<1>4. EndsMarked'
  <2>1. \A v \in Indexer!AllWorkers : Ending(v)'
          => v # w /\ Ending(v) /\ worker'[v] = worker[v]
    BY <1>3 DEF Ending
  <2>2. \A v \in Indexer!AllWorkers : Ending(v)' => worker[v].tx \in processedRoundEnds'
    BY <1>1, <2>1 DEF Indexer!Unmarked, IndexerInv, EndsMarked, Ending
  <2>3. \A u \in Indexer!Txs : endAnnounced[u] = 1 => u \in processedRoundEnds'
    BY <1>1 DEF Indexer!Unmarked, IndexerInv, EndsMarked, Ending
  <2>4. QED
    BY <1>1, <2>1, <2>2, <2>3 DEF IndexerInv, EndsMarked
<1>5. processedRoundEnds' \subseteq Indexer!Fulfils
  BY <1>1 DEF Indexer!Unmarked, IndexerInv, IndexerTypes
<1>6. QED
  BY <1>1, <1>3, <1>4, <1>5
     DEF IndexerInv, IndexerTypes, RecoveryTypes, Recoveries, Stages, OnlyDrawn,
         Indexer!database

(* A step of the recovery: it may put its own call to work, or move the    *)
(* cursor.                                                                 *)
LEMMA RecoveryMoves ==
  ASSUME Indexer!IndexerAssumption, IndexerInv,
         UNCHANGED <<head, pending, notes, writes, recorded, row, Indexer!memory, crashes,
             lost>>,
         indexerFailures' \in 0..MaxIndexerFailures, cursor' \in 0..head, RecoveryTypes',
         \/ worker' = worker
         \/ \E s \in Stages : /\ s.pc \notin {"read", "write"}
                              /\ worker' = [worker EXCEPT ![Recovery] = s]
  PROVE  IndexerInv'
<1>1. worker \in [Indexer!AllWorkers -> Stages] /\ Recovery \in Indexer!AllWorkers
  BY LogIs DEF IndexerInv, IndexerTypes
<1>2. /\ worker' \in [Indexer!AllWorkers -> Stages]
      /\ \A v \in Indexer!AllWorkers : Ending(v)'
           => Ending(v) /\ worker'[v].tx = worker[v].tx
  <2>1. CASE worker' = worker
    BY <1>1, <2>1 DEF Ending
  <2>2. CASE \E s \in Stages : s.pc \notin {"read", "write"}
          /\ worker' = [worker EXCEPT ![Recovery] = s]
    BY <1>1, <2>2 DEF Ending
  <2>3. QED
    BY <2>1, <2>2
<1>3. EndsMarked'
  BY <1>2, StillMarkedOnce DEF IndexerInv, Indexer!memory
<1>4. QED
  BY <1>2, <1>3 DEF IndexerInv, IndexerTypes, Stages, OnlyDrawn, Indexer!memory

(* What the invariant says of the recovery.                                *)
LEMMA RecoveryParts ==
  ASSUME Indexer!IndexerAssumption, IndexerInv
  PROVE  /\ head \in Nat /\ cursor \in 0..head /\ indexerFailures \in 0..MaxIndexerFailures
         /\ recovery.mode \in Modes /\ recovery.until \in 0..head
         /\ recovery.before \in 0..head + 1 /\ recovery.page \in SUBSET (1..head)
         /\ recovery.pages \in Nat /\ recovery.unresolved \in SUBSET Rounds
         /\ recovery \in Recoveries /\ Indexer!NoRecovery \in Recoveries
         /\ Indexer!Idle \in Stages
         /\ Recovery \in Indexer!AllWorkers
<1>1. head \in Nat /\ cursor \in 0..head /\ indexerFailures \in 0..MaxIndexerFailures
  BY LogIs DEF IndexerInv, IndexerTypes
<1>2. recovery \in Recoveries
  BY DEF IndexerInv, RecoveryTypes
<1>3. Indexer!NoRecovery \in Recoveries /\ Indexer!Idle \in Stages
  BY <1>1 DEF Indexer!NoRecovery, Recoveries, Modes, Indexer!Idle, Stages, Indexer!Places
<1>4. QED
  BY <1>1, <1>2, <1>3, LogIs DEF Recoveries

(* The recovery begins.                                                    *)
LEMMA RecoverKeeps ==
  ASSUME Indexer!IndexerAssumption, IndexerInv, Indexer!Recovering PROVE IndexerInv'
<1>1. UNCHANGED <<head, pending, notes, writes, recorded, row, Indexer!memory,
        Indexer!counts>>
      /\ indexerFailures' \in 0..MaxIndexerFailures /\ UNCHANGED <<crashes, lost>>
  BY RecoveryParts DEF Indexer!Recovering, Indexer!counts
<1>2. (recovery' \in Recoveries /\ recovery'.mode \notin {"page+", "lastPage+"})
        => RecoveryTypes'
  BY <1>1 DEF RecoveryTypes, Recoveries
<1>3. CASE Indexer!Recover
  <2>1. recovery' = [Indexer!NoRecovery EXCEPT !.mode = "pages", !.until = cursor,
          !.before = head + 1]
        /\ UNCHANGED <<worker, cursor>>
    BY <1>3 DEF Indexer!Recover, Indexer!Goes
  <2>2. recovery' \in Recoveries /\ recovery'.mode = "pages"
    <3>1. cursor \in 0..head /\ head + 1 \in 0..head + 1
      BY RecoveryParts
    <3>2. recovery' = [mode |-> "pages", until |-> cursor, before |-> head + 1, page |-> {},
                       pages |-> 0, unresolved |-> {}]
      BY <2>1 DEF Indexer!NoRecovery
    <3>3. QED
      BY <1>1, <3>1, <3>2 DEF Recoveries, Modes
  <2>3. QED
    BY <1>1, <1>2, <2>1, <2>2, RecoveryParts, RecoveryMoves
<1>4. CASE Indexer!FetchPage
  <2>1. UNCHANGED <<worker, cursor>>
    BY <1>4 DEF Indexer!FetchPage
  <2>2. Indexer!Signatures \in SUBSET (1..head)
    BY RecoveryParts DEF Indexer!Signatures
  <2>3. CASE recovery' = [Indexer!NoRecovery EXCEPT !.mode = "rounds"]
    <3>1. recovery' \in Recoveries /\ recovery'.mode = "rounds"
      BY <2>3, RecoveryParts DEF Indexer!NoRecovery, Recoveries, Modes
    <3>2. QED
      BY <1>1, <1>2, <2>1, <3>1, RecoveryParts, RecoveryMoves
  <2>4. CASE /\ Indexer!Signatures # {} /\ recovery.mode = "pages"
             /\ recovery' = [recovery EXCEPT
                  !.mode = IF Cardinality(Indexer!Signatures) < PageLimit
                             THEN "lastPage" ELSE @,
                  !.page = Indexer!Signatures, !.before = Indexer!Min(Indexer!Signatures),
                  !.pages = @ + 1]
    <3>1. Indexer!Min(Indexer!Signatures) \in 0..head + 1
      BY <2>2, <2>4, RecoveryParts, OnThePage
    <3>2. recovery' \in Recoveries /\ recovery'.mode \in {"pages", "lastPage"}
      <4> DEFINE mode == IF Cardinality(Indexer!Signatures) < PageLimit
                           THEN "lastPage" ELSE "pages"
                 next == Indexer!Min(Indexer!Signatures)
      <4>1. recovery' = [mode |-> mode, until |-> recovery.until, before |-> next,
                         page |-> Indexer!Signatures, pages |-> recovery.pages + 1,
                         unresolved |-> recovery.unresolved]
        BY <2>4, RecoveryParts DEF Recoveries
      <4>2. mode \in {"pages", "lastPage"} /\ mode \in Modes /\ next \in 0..head + 1
        BY <3>1 DEF Modes
      <4> HIDE DEF mode, next
      <4>3. QED
        BY <2>2, <4>1, <4>2, RecoveryParts DEF Recoveries
    <3>3. QED
      BY <1>1, <1>2, <2>1, <3>2, RecoveryParts, RecoveryMoves
  <2>5. QED
    BY <1>4, <2>3, <2>4, IndexerOperators DEF Indexer!FetchPage, Indexer!Goes
<1>5. CASE Indexer!PageDone
  <2>1. /\ recovery' = [Indexer!NoRecovery EXCEPT !.mode = "rounds"]
        /\ UNCHANGED <<worker, cursor>>
    BY <1>5 DEF Indexer!PageDone, Indexer!Goes
  <2>2. recovery' \in Recoveries /\ recovery'.mode = "rounds"
    BY <2>1, RecoveryParts DEF Indexer!NoRecovery, Recoveries, Modes
  <2>3. QED
    BY <1>1, <1>2, <2>1, <2>2, RecoveryParts, RecoveryMoves
<1>6. CASE Indexer!StartSignature
  <2> DEFINE t == Indexer!First(recovery.page)
             s == [pc |-> IF t \in Indexer!Fulfils THEN "mark" ELSE "deploy", tx |-> t]
  <2>1. /\ recovery.page # {} /\ worker' = [worker EXCEPT ![Recovery] = s]
        /\ recovery' =
             [recovery EXCEPT !.mode = IF @ = "pages" THEN "page+" ELSE "lastPage+"]
        /\ UNCHANGED cursor
    BY <1>6 DEF Indexer!StartSignature, Indexer!Process, Indexer!Goes
  <2>2. s \in Stages /\ s.pc \notin {"read", "write"}
    BY <2>1, RecoveryParts, OnThePage, ProcessStages
  <2>3. RecoveryTypes'
    <3>1. recovery' \in Recoveries /\ recovery'.page = recovery.page
      BY <2>1, RecoveryParts DEF Recoveries, Modes
    <3>2. QED
      BY <1>1, <2>1, <3>1 DEF RecoveryTypes, Recoveries
  <2> HIDE DEF s
  <2>4. QED
    BY <1>1, <2>1, <2>2, <2>3, RecoveryParts, RecoveryMoves
<1>7. CASE Indexer!EndSignature
  <2> DEFINE t == Indexer!First(recovery.page)
  <2>1. /\ recovery.mode \in {"page+", "lastPage+"} /\ cursor' = t
        /\ worker' = [worker EXCEPT ![Recovery] = Indexer!Idle]
        /\ recovery' = [recovery EXCEPT !.page = @ \ {Indexer!First(@)},
                                         !.mode = IF @ = "page+" THEN "pages" ELSE "lastPage"]
    BY <1>7 DEF Indexer!EndSignature, Indexer!Goes
  <2>2. cursor' \in 0..head
    <3>1. recovery.page # {}
      BY <2>1 DEF IndexerInv, RecoveryTypes
    <3>2. t \in 1..head
      BY <3>1, RecoveryParts, OnThePage
    <3>3. QED
      BY <2>1, <3>2, RecoveryParts
  <2>3. recovery' \in Recoveries /\ recovery'.mode \in {"pages", "lastPage"}
    BY <2>1, RecoveryParts DEF Recoveries, Modes
  <2>4. Indexer!Idle.pc \notin {"read", "write"}
    BY DEF Indexer!Idle
  <2>5. QED
    BY <1>1, <1>2, <2>1, <2>2, <2>3, <2>4, RecoveryParts, RecoveryMoves
<1>8. CASE Indexer!ReadMissing
  <2> DEFINE missing == {r \in Rounds :
                           row[r] = [status |-> "completed", winningSquare |-> NoSquare]}
  <2>1. /\ UNCHANGED <<worker, cursor>>
        /\ recovery' = IF missing = {} THEN Indexer!NoRecovery
                       ELSE [Indexer!NoRecovery EXCEPT !.mode = "ends",
                           !.unresolved = missing,
                               !.page = Indexer!Fulfils \cap 1..head]
    BY <1>8 DEF Indexer!ReadMissing, Indexer!Goes
  <2>2. recovery' \in Recoveries /\ recovery'.mode \in {"off", "ends"}
    BY <2>1, RecoveryParts DEF Indexer!NoRecovery, Recoveries, Modes
  <2>3. QED
    BY <1>1, <1>2, <2>1, <2>2, RecoveryParts, RecoveryMoves
<1>9. CASE Indexer!StartEnd
  <2> DEFINE t == Indexer!Newest(recovery.page)
  <2>1. /\ recovery.page # {} /\ UNCHANGED cursor
        /\ recovery' = [recovery EXCEPT !.mode = "ends+"]
        /\ \/ worker' = [worker EXCEPT ![Recovery] =
                           [pc |-> IF t \in Indexer!Fulfils THEN "mark" ELSE "deploy",
                               tx |-> t]]
           \/ worker' = [worker EXCEPT ![Recovery] = [pc |-> "cursor", tx |-> t]]
    BY <1>9 DEF Indexer!StartEnd, Indexer!Process, Indexer!Goes
  <2>2. t \in 1..head
    BY <2>1, RecoveryParts, OnThePage
  <2> HIDE DEF t
  <2>3. \E s \in Stages : s.pc \notin {"read", "write"}
          /\ worker' = [worker EXCEPT ![Recovery] = s]
    <3>1. /\ [pc |-> IF t \in Indexer!Fulfils THEN "mark" ELSE "deploy", tx |-> t] \in
               Stages
          /\ [pc |-> "cursor", tx |-> t] \in Stages
      BY <2>2, ProcessStages
    <3>2. QED
      BY <2>1, <3>1
  <2>4. recovery' \in Recoveries /\ recovery'.mode = "ends+"
    BY <2>1, RecoveryParts DEF Recoveries, Modes
  <2>5. QED
    BY <1>1, <1>2, <2>1, <2>3, <2>4, RecoveryParts, RecoveryMoves
<1>10. CASE Indexer!EndEnd
  <2>1. /\ UNCHANGED <<worker, cursor>>
        /\ recovery' =
             [recovery EXCEPT
                !.mode = "ends", !.page = @ \ {Indexer!Newest(@)},
                !.unresolved = @ \ {Indexer!RoundOf(Indexer!Newest(recovery.page))}]
    BY <1>10 DEF Indexer!EndEnd, Indexer!Goes
  <2>2. recovery' \in Recoveries /\ recovery'.mode = "ends"
    BY <2>1, RecoveryParts DEF Recoveries, Modes
  <2>3. QED
    BY <1>1, <1>2, <2>1, <2>2, RecoveryParts, RecoveryMoves
<1>11. CASE Indexer!StopRecovery
  <2>1. /\ UNCHANGED cursor /\ recovery' = Indexer!NoRecovery
        /\ worker' = [worker EXCEPT ![Recovery] = Indexer!Idle]
    BY <1>11 DEF Indexer!StopRecovery, Indexer!Finish
  <2>2. recovery' \in Recoveries /\ recovery'.mode = "off"
    BY <2>1, RecoveryParts DEF Indexer!NoRecovery
  <2>3. Indexer!Idle.pc \notin {"read", "write"}
    BY DEF Indexer!Idle
  <2>4. QED
    BY <1>1, <1>2, <2>1, <2>2, <2>3, RecoveryParts, RecoveryMoves
<1>12. QED
  BY <1>3, <1>4, <1>5, <1>6, <1>7, <1>8, <1>9, <1>10, <1>11 DEF Indexer!Recovering

(* The recovery fails at any of its requests.                              *)
LEMMA RecoveryFailsKeeps ==
  ASSUME Indexer!IndexerAssumption, IndexerInv, Indexer!RecoveryFails PROVE IndexerInv'
<1>1. /\ UNCHANGED <<head, pending, notes, writes, Indexer!database, Indexer!memory,
           worker, crashes, lost>>
      /\ recovery' = Indexer!NoRecovery /\ indexerFailures' \in 0..MaxIndexerFailures
  BY RecoveryParts, LogIs DEF Indexer!RecoveryFails, Indexer!Finish
<1>2. RecoveryTypes'
  BY <1>1, RecoveryParts DEF RecoveryTypes, Recoveries, Indexer!NoRecovery
<1>3. QED
  BY <1>1, <1>2, RecoveryParts, RecoveryMoves DEF Indexer!database

(* Every step of the indexer keeps its invariant, and every winner.        *)
LEMMA IndexerStep ==
  ASSUME Indexer!IndexerAssumption, IndexerInv, Indexer!Next
  PROVE  IndexerInv' /\ Indexer!KeepsWinner
<1>1. UNCHANGED row => Indexer!KeepsWinner
  BY DEF Indexer!KeepsWinner
<1>2. CASE Indexer!Land \/ Indexer!Lose \/ Indexer!Restart \/ Indexer!RoundChange
        \/ Indexer!Recovering \/ Indexer!RecoveryFails
  <2>1. UNCHANGED row
    BY <1>2
       DEF Indexer!Land, Indexer!Lose, Indexer!Restart, Indexer!RoundChange,
           Indexer!Recovering, Indexer!RecoveryFails, Indexer!database
  <2>2. QED
    BY <1>1, <1>2, <2>1, LandKeeps, LoseKeeps, RestartKeeps, RoundChangeKeeps, RecoverKeeps,
       RecoveryFailsKeeps
<1>3. CASE Indexer!Upsert
  BY <1>3, UpsertKeeps
<1>4. ASSUME NEW w \in Workers, Indexer!Deliver(w) PROVE IndexerInv' /\ Indexer!KeepsWinner
  <2>1. UNCHANGED row
    BY <1>4 DEF Indexer!Deliver, Indexer!database
  <2>2. QED
    BY <1>1, <1>4, <2>1, DeliverKeeps
<1>5. ASSUME NEW w \in Indexer!AllWorkers, Indexer!Work(w)
      PROVE  IndexerInv' /\ Indexer!KeepsWinner
  <2>1. UNCHANGED <<head, pending, notes, writes, recovery, Indexer!counts>>
    BY <1>5 DEF Indexer!Work
  <2>2. CASE Indexer!IngestDeployment(w)
    BY <2>1, <2>2, IngestDeploymentKeeps
  <2>3. CASE Indexer!Mark(w)
    BY <1>1, <2>1, <2>3, MarkKeeps DEF Indexer!Mark, Indexer!database
  <2>4. CASE Indexer!ReadRow(w)
    BY <1>1, <2>1, <2>4, ReadRowKeeps DEF Indexer!ReadRow, Indexer!database
  <2>5. CASE Indexer!WriteEnd(w)
    BY <2>1, <2>5, WriteEndKeeps
  <2>6. CASE Indexer!UpsertDeployCursor(w)
    BY <1>1, <2>1, <2>6, UpsertDeployCursorKeeps DEF Indexer!UpsertDeployCursor
  <2>7. QED
    BY <1>5, <2>2, <2>3, <2>4, <2>5, <2>6 DEF Indexer!Work
<1>6. ASSUME NEW w \in Indexer!AllWorkers, Indexer!Throw(w)
      PROVE  IndexerInv' /\ Indexer!KeepsWinner
  <2>1. UNCHANGED row
    BY <1>6 DEF Indexer!Throw, Indexer!database
  <2>2. QED
    BY <1>1, <1>6, <2>1, ThrowKeeps
<1>7. QED
  BY <1>2, <1>3, <1>4, <1>5, <1>6 DEF Indexer!Next

(* Nothing landed yet.                                                     *)
LEMMA IndexerInitially == ASSUME Indexer!IndexerAssumption, Indexer!Init PROVE IndexerInv
<1>1. /\ head = 0 /\ cursor = 0 /\ pending = {} /\ notes = {} /\ writes = {}
      /\ recorded = {}
      /\ row = [r \in Rounds |-> [Indexer!NoRow EXCEPT !.status = IF r \in Known
           THEN "active" ELSE @]]
      /\ resolvedWinners = [r \in Rounds |-> NoSquare] /\ processedRoundEnds = {}
      /\ endAnnounced = [t \in Indexer!Txs |-> 0]
      /\ worker = [w \in Indexer!AllWorkers |-> Indexer!Idle]
      /\ recovery = Indexer!NoRecovery
      /\ indexerFailures = 0 /\ crashes = 0 /\ lost = 0
  BY DEF Indexer!Init
<1>2. Indexer!Idle \in Stages /\ Indexer!NoRecovery \in Recoveries
  BY <1>1 DEF Indexer!Idle, Stages, Indexer!Places, Indexer!NoRecovery, Recoveries, Modes
<1>3. IndexerTypes
  BY <1>1, <1>2, LogIs DEF IndexerTypes
<1>4. RecoveryTypes
  BY <1>1, <1>2 DEF RecoveryTypes, Indexer!NoRecovery
<1>5. OnlyDrawn
  BY <1>1, LogIs DEF OnlyDrawn, Indexer!Row, Squares, Indexer!NoRow
<1>6. EndsMarked
  BY <1>1 DEF EndsMarked, Ending, Indexer!Idle
<1>7. QED
  BY <1>3, <1>4, <1>5, <1>6 DEF IndexerInv

(* What is said of the indexer follows from its invariant.                 *)
LEMMA IndexerTyped ==
  ASSUME Indexer!IndexerAssumption, IndexerInv PROVE Indexer!TypeOK /\ Indexer!AnnouncedOnce
<1>1. worker \in [Indexer!AllWorkers -> [pc : Indexer!Places, tx : 0..Len(Log)]]
  <2>1. Stages \subseteq [pc : Indexer!Places, tx : 0..Len(Log)]
    BY LogIs DEF Stages, IndexerInv, IndexerTypes
  <2>2. QED
    BY <2>1 DEF IndexerInv, IndexerTypes
<1>2. QED
  BY <1>1 DEF IndexerInv, IndexerTypes, OnlyDrawn, Indexer!TypeOK, Indexer!AnnouncedOnce
-----------------------------------------------------------------------------
(***************************************************************************)
(* The limit in memory and in Redis, for any limit, window and clock.      *)
(* What Redis admits and what the memory of the process admits are counted *)
(* apart.  While Redis is in use it knows what it admitted within its      *)
(* window, so that any window holds the limit of it at most; the fixed     *)
(* windows in memory hold the limit each, and of two that meet in a window *)
(* of time the first has spent its first request before.                   *)
(***************************************************************************)
(* The operators this instance takes from the modules it extends.          *)
LEMMA RealtimeOperators ==
  \A f : Realtime!SumFunction(f) = SumFunction(f)
  BY DEF Realtime!SumFunction, SumFunction, Realtime!SumFunctionOnSet, SumFunctionOnSet,
         Realtime!FoldFunctionOnSet, FoldFunctionOnSet, Realtime!MapThenFoldSet,
         MapThenFoldSet

\* admitted within an interval
AdmittedIn(from, to) == Between(admitted, Realtime!Times, from, to)
RedisIn(from, to) == Between(viaRedis, Realtime!Times, from, to)
RedisInNext(from, to) == Between(viaRedis', Realtime!Times, from, to)
viaMemory == [t \in Realtime!Times |-> admitted[t] - viaRedis[t]]
MemoryIn(from, to) == Between(viaMemory, Realtime!Times, from, to)
MemoryInNext(from, to) == Between(viaMemory', Realtime!Times, from, to)
Until(t) == MemoryIn(t, t + windowMs - 1)
RedisUntil(t) == RedisIn(t, t + windowMs - 1)
\* admitted since the window in memory began, and after its first moment
InMemory == MemoryIn(memoryWindow.windowStart, now)
Later == MemoryIn(memoryWindow.windowStart + 1, now)

RealtimeTypes ==
  /\ now \in Realtime!Times /\ redisState \in {"connecting", "ready", "gone"}
  /\ redisWindow \in [Realtime!Times -> 0..maxCount] /\ admitted \in [Realtime!Times -> Nat]
  /\ viaRedis \in [Realtime!Times -> Nat]
  /\ memoryWindow \in Realtime!Windows /\ Realtime!Total(admitted) <= MaxAdmitted

\* nothing is admitted in the future; what Redis admitted was admitted, and it
\* knows what is in its window
RedisKnows ==
  /\ \A t \in Realtime!Times : t > now => admitted[t] = 0
  /\ \A t \in Realtime!Times : viaRedis[t] <= admitted[t]
  /\ redisState # "gone" =>
       \A t \in Realtime!Times : t > now - windowMs => redisWindow[t] = viaRedis[t]

\* of what Redis admits a window has the limit at most
RedisStrict == \A t \in Realtime!Times : RedisUntil(t) <= maxCount

\* who was admitted was admitted by the one or by the other
Together ==
  \A from, to \in Int : AdmittedIn(from, to) = RedisIn(from, to) + MemoryIn(from, to)

\* without a window in memory nothing was admitted there; what a window counts
\* was, its first request at its start, and before it one less than the limit
MemoryCounts ==
  /\ memoryWindow = Realtime!NoWindow =>
       \A from, to \in Int : MemoryIn(from, to) = 0
  /\ memoryWindow # Realtime!NoWindow =>
       /\ Later <= memoryWindow.count - 1 /\ memoryWindow.count <= maxCount
       /\ memoryWindow.count <= InMemory
       /\ memoryWindow.windowStart <= now
       /\ \A t \in Realtime!Times :
            t <= memoryWindow.windowStart /\ memoryWindow.windowStart <= t + windowMs - 1
              => MemoryIn(t, memoryWindow.windowStart) + Later
                   <= maxCount - 1 + memoryWindow.count

\* of what memory admits a window has less than twice the limit
MemoryBounded == \A t \in Realtime!Times : Until(t) <= 2 * maxCount - 1

RealtimeInv ==
  /\ RealtimeTypes /\ RedisKnows /\ RedisStrict /\ Together /\ MemoryCounts
  /\ MemoryBounded /\ Realtime!RefusedOnlyWhenFull

(* The times are finitely many numbers.                                    *)
LEMMA TimesAre ==
  ASSUME Realtime!LimitAssumption
  PROVE  /\ IsFiniteSet(Realtime!Times) /\ Realtime!Times \subseteq Int
         /\ Realtime!Times \subseteq Nat
         /\ windowMs \in Nat \ {0} /\ maxCount \in Nat \ {0}
         /\ \A t \in Realtime!Times : t <= MaxTime
         /\ MaxTime \in Nat
<1>1. IsFiniteSet(0..MaxTime)
  BY FS_Interval DEF Realtime!LimitAssumption
<1>2. QED
  BY <1>1 DEF Realtime!Times, Realtime!LimitAssumption

(* What is counted by the definition of the limiter.                       *)
LEMMA AdmittedInIs == \A from, to :
    Realtime!Within(admitted, from, to) = AdmittedIn(from, to)
  BY RealtimeOperators DEF Realtime!Within, AdmittedIn, Between

Bag ==
  /\ admitted \in [Realtime!Times -> Nat] /\ viaRedis \in [Realtime!Times -> Nat]
  /\ now \in Realtime!Times
  /\ \A t \in Realtime!Times : t > now => admitted[t] = 0
  /\ \A t \in Realtime!Times : viaRedis[t] <= admitted[t]

\* how much an interval of a bag has in it, compared with others
Amounts(bag) ==
  /\ \A from, to \in Int : Between(bag, Realtime!Times, from, to) \in Nat
  /\ \A from, to, first, last \in Int :
       first <= from /\ (to <= last \/ now <= last)
         => Between(bag, Realtime!Times, from, to) <= Between(bag, Realtime!Times, first, last)
  /\ \A from, to \in Int : now < from => Between(bag, Realtime!Times, from, to) = 0
  /\ \A from, middle, to \in Int : from - 1 <= middle /\ middle <= to =>
       Between(bag, Realtime!Times, from, to) =
         Between(bag, Realtime!Times, from, middle)
           + Between(bag, Realtime!Times, middle + 1, to)

Natural == \A from, to \in Int : MemoryIn(from, to) \in Nat
Monotone ==
  \A from, to, first, last \in Int :
    first <= from /\ (to <= last \/ now <= last)
        => MemoryIn(from, to) <= MemoryIn(first, last)
NothingLater == \A from, to \in Int : now < from => MemoryIn(from, to) = 0
Additive ==
  \A from, middle, to \in Int : from - 1 <= middle /\ middle <= to =>
    MemoryIn(from, to) = MemoryIn(from, middle) + MemoryIn(middle + 1, to)

(* The three bags of admissions count until now.                           *)
LEMMA BagsCount ==
  ASSUME Realtime!LimitAssumption, Bag
  PROVE  /\ Counts(admitted, Realtime!Times, now) /\ Counts(viaRedis, Realtime!Times, now)
         /\ Counts(viaMemory, Realtime!Times, now)
<1>1. IsFiniteSet(Realtime!Times) /\ Realtime!Times \subseteq Int
  BY TimesAre
<1>2. \A t \in Realtime!Times : admitted[t] - viaRedis[t] \in Nat
  BY DEF Bag
<1>3. viaMemory \in [Realtime!Times -> Nat]
  BY <1>2 DEF viaMemory
<1>4. \A t \in Realtime!Times : t > now => viaRedis[t] = 0 /\ viaMemory[t] = 0
  BY DEF Bag, viaMemory
<1>5. QED
  BY <1>1, <1>3, <1>4 DEF Counts, Bag

(* Intervals count like sums.                                              *)
LEMMA Counting ==
  ASSUME Realtime!LimitAssumption, Bag
  PROVE  /\ Natural /\ Monotone /\ NothingLater /\ Additive
         /\ Amounts(admitted) /\ Amounts(viaRedis)
<1>1. Amounts(viaMemory)
  BY BagsCount, BetweenCounts DEF Amounts
<1>2. Amounts(admitted) /\ Amounts(viaRedis)
  BY BagsCount, BetweenCounts DEF Amounts
<1>3. QED
  BY <1>1, <1>2 DEF Amounts, MemoryIn, Natural, Monotone, NothingLater, Additive

(* An admission is one more in every interval around now.                  *)
LEMMA AdmitCounts ==
  ASSUME Realtime!LimitAssumption, Bag, Realtime!Admit
  PROVE  /\ admitted' \in [Realtime!Times -> Nat] /\ \A t \in Realtime!Times : t > now
              => admitted'[t] = 0
         /\ \A t \in Realtime!Times \ {now} : admitted'[t] = admitted[t]
         /\ admitted'[now] = admitted[now] + 1
         /\ \A from, to \in Int :
              AdmittedIn(from, to)' = AdmittedIn(from, to)
                  + (IF from <= now /\ now <= to THEN 1 ELSE 0)
         /\ Realtime!Total(admitted') = Realtime!Total(admitted) + 1
         /\ Realtime!Total(admitted) \in Nat
<1>1. Counts(admitted, Realtime!Times, now)
  BY BagsCount
<1>2. OneMore(admitted', admitted, now)
  BY DEF Realtime!Admit, OneMore
<1>3. Counts(admitted', Realtime!Times, now) =>
        admitted' \in [Realtime!Times -> Nat] /\ \A t \in Realtime!Times : t > now
            => admitted'[t] = 0
  BY DEF Counts
<1>4. QED
  BY <1>1, <1>2, <1>3, BetweenAdmits, RealtimeOperators DEF AdmittedIn, Realtime!Total

(* It is one of Redis,                                                     *)
LEMMA RedisCounts ==
  ASSUME Realtime!LimitAssumption, Bag, Realtime!Admit,
         viaRedis' = [viaRedis EXCEPT ![now] = @ + 1]
  PROVE  /\ viaRedis' \in [Realtime!Times -> Nat]
         /\ \A t \in Realtime!Times \ {now} : viaRedis'[t] = viaRedis[t]
         /\ viaRedis'[now] = viaRedis[now] + 1
         /\ \A from, to \in Int :
              RedisInNext(from, to) = RedisIn(from, to)
                  + (IF from <= now /\ now <= to THEN 1 ELSE 0)
         /\ viaMemory' = viaMemory
<1>1. Counts(viaRedis, Realtime!Times, now)
  BY BagsCount
<1>2. OneMore(viaRedis', viaRedis, now)
  BY DEF OneMore
<1>3. Counts(viaRedis', Realtime!Times, now) => viaRedis' \in [Realtime!Times -> Nat]
  BY DEF Counts
<1>4. viaMemory' = viaMemory
  <2>1. \A t \in Realtime!Times : admitted'[t] - viaRedis'[t] = admitted[t] - viaRedis[t]
    BY AdmitCounts DEF Bag
  <2>2. QED
    BY <2>1 DEF viaMemory
<1>5. QED
  BY <1>1, <1>2, <1>3, <1>4, BetweenAdmits DEF RedisIn, RedisInNext

(* or one of the memory.                                                   *)
LEMMA MemoryAdmits ==
  ASSUME Realtime!LimitAssumption, Bag, Realtime!Admit, UNCHANGED viaRedis
  PROVE  \A from, to \in Int :
           MemoryInNext(from, to) = MemoryIn(from, to)
             + (IF from <= now /\ now <= to THEN 1 ELSE 0)
<1>1. Counts(viaMemory, Realtime!Times, now)
  BY BagsCount
<1>2. OneMore(viaMemory', viaMemory, now)
  <2>1. \A t \in Realtime!Times :
          admitted'[t] - viaRedis'[t] =
            IF t = now THEN viaMemory[t] + 1 ELSE viaMemory[t]
    BY AdmitCounts DEF Bag, viaMemory
  <2>2. viaMemory' = [t \in Realtime!Times |->
                        IF t = now THEN viaMemory[t] + 1 ELSE viaMemory[t]]
    BY <2>1 DEF viaMemory
  <2>3. [viaMemory EXCEPT ![now] = @ + 1] = [t \in Realtime!Times |->
                        IF t = now THEN viaMemory[t] + 1 ELSE viaMemory[t]]
    BY DEF viaMemory
  <2>4. QED
    BY <2>2, <2>3 DEF OneMore
<1>3. QED
  BY <1>1, <1>2, BetweenAdmits DEF MemoryIn, MemoryInNext

(* The types, one by one.                                                  *)
LEMMA RealtimeParts ==
  ASSUME Realtime!RealtimeAssumption, RealtimeInv
  PROVE  /\ Realtime!LimitAssumption /\ Bag /\ IsFiniteSet(Realtime!Times)
         /\ now \in Nat /\ now \in Int /\ windowMs \in Nat \ {0} /\ maxCount \in Nat \ {0}
         /\ memoryWindow.count \in Nat /\ memoryWindow.windowStart \in Nat
         /\ memoryWindow.windowStart \in Realtime!Times /\ memoryWindow.windowStart \in Int
         /\ Natural /\ Monotone /\ NothingLater /\ Additive
         /\ Amounts(admitted) /\ Amounts(viaRedis)
  BY TimesAre, Counting
     DEF Realtime!RealtimeAssumption, RealtimeInv, RealtimeTypes, RedisKnows, Bag,
         Realtime!Windows

(* Time passes: what is counted until now does not change.                 *)
LEMMA TickKeeps ==
  ASSUME Realtime!RealtimeAssumption, RealtimeInv, Realtime!Tick
  PROVE  RealtimeInv'
<1>1. /\ admitted' = admitted /\ now' = now + 1 /\ now' \in Realtime!Times
      /\ refused' = <<>>
      /\ UNCHANGED <<redisState, redisWindow, viaRedis, memoryWindow>>
  <2>1. now + 1 \in Realtime!Times
    BY RealtimeParts
       DEF Realtime!Tick, Realtime!TimePasses, Realtime!Times, Realtime!LimitAssumption
  <2>2. QED
    BY <2>1 DEF Realtime!Tick, Realtime!TimePasses, Realtime!redisVars
<1>2. /\ \A from, to : MemoryIn(from, to)' = MemoryIn(from, to)
      /\ \A from, to : RedisIn(from, to)' = RedisIn(from, to)
      /\ \A from, to : AdmittedIn(from, to)' = AdmittedIn(from, to)
  BY <1>1 DEF MemoryIn, RedisIn, AdmittedIn, viaMemory
<1>3. \A from \in Int : MemoryIn(from, now)' = MemoryIn(from, now)
  <2>1. ASSUME NEW from \in Int PROVE MemoryIn(from, now + 1) = MemoryIn(from, now)
    <3>1. now + 1 \in Int /\ now \in Int
      BY RealtimeParts
    <3>2. /\ MemoryIn(from, now + 1) <= MemoryIn(from, now)
          /\ MemoryIn(from, now) <= MemoryIn(from, now + 1)
      BY <3>1, RealtimeParts DEF Monotone
    <3>3. MemoryIn(from, now + 1) \in Nat /\ MemoryIn(from, now) \in Nat
      BY <3>1, RealtimeParts DEF Natural
    <3>4. QED
      BY <3>2, <3>3
  <2>2. \A from \in Int : MemoryIn(from, now)' = MemoryIn(from, now + 1)
    BY <1>1 DEF MemoryIn, viaMemory
  <2>3. QED
    BY <2>1, <2>2
<1>4. RealtimeTypes'
  BY <1>1 DEF RealtimeInv, RealtimeTypes
<1>5. RedisKnows'
  <2>1. \A t \in Realtime!Times : t > now + 1 => t > now
    BY RealtimeParts, TimesAre
  <2>2. \A t \in Realtime!Times : t > (now + 1) - windowMs => t > now - windowMs
    BY RealtimeParts, TimesAre
  <2>3. RedisKnows
    BY DEF RealtimeInv
  <2>4. \A t \in Realtime!Times : t > now' => admitted'[t] = 0
    BY <1>1, <2>1, <2>3 DEF RedisKnows
  <2>5. \A t \in Realtime!Times : viaRedis'[t] <= admitted'[t]
    BY <1>1, <2>3 DEF RedisKnows
  <2>6. redisState' # "gone" =>
          \A t \in Realtime!Times : t > now' - windowMs => redisWindow'[t] = viaRedis'[t]
    <3>1. now' - windowMs = (now + 1) - windowMs
      BY <1>1
    <3>2. /\ redisState' = redisState
          /\ redisState # "gone" =>
               \A t \in Realtime!Times : t > now - windowMs => redisWindow[t] = viaRedis[t]
      BY <1>1, <2>3 DEF RedisKnows
    <3>3. ASSUME redisState # "gone", NEW t \in Realtime!Times, t > (now + 1) - windowMs
          PROVE  redisWindow[t] = viaRedis[t]
      <4>1. t > now - windowMs
        BY <2>2, <3>3
      <4>2. QED
        BY <3>2, <3>3, <4>1
    <3>4. redisWindow' = redisWindow /\ viaRedis' = viaRedis
      BY <1>1
    <3>5. QED
      BY <3>1, <3>2, <3>3, <3>4
  <2>7. QED
    BY <2>4, <2>5, <2>6 DEF RedisKnows
<1>6. RedisStrict' /\ Together' /\ MemoryBounded'
  BY <1>1, <1>2 DEF RealtimeInv, RedisStrict, Together, MemoryBounded, Until, RedisUntil
<1>7. MemoryCounts'
  <2>1. /\ InMemory' = InMemory /\ Later' = Later
    <3>1. memoryWindow.windowStart \in Int /\ memoryWindow.windowStart + 1 \in Int
      BY RealtimeParts
    <3>2. QED
      BY <1>1, <1>3, <3>1 DEF InMemory, Later
  <2>2. now <= now'
    BY <1>1, RealtimeParts
  <2>3. memoryWindow.windowStart <= now => memoryWindow.windowStart <= now'
    BY <1>1, <2>2, RealtimeParts, TimesAre
  <2>4. QED
    BY <1>1, <1>2, <2>1, <2>3 DEF RealtimeInv, MemoryCounts
<1>8. Realtime!RefusedOnlyWhenFull'
  BY <1>1 DEF Realtime!RefusedOnlyWhenFull
<1>9. QED
  BY <1>4, <1>5, <1>6, <1>7, <1>8 DEF RealtimeInv

(* A request that Redis admits: the sorted set holds what was admitted     *)
(* within the window, so that there is room for one more.                  *)
LEMMA RedisAdmits ==
  ASSUME Realtime!RealtimeAssumption, RealtimeInv, redisState = "ready",
         Realtime!Total(admitted) < MaxAdmitted,
         Realtime!Total(Realtime!Kept) < maxCount,
         redisWindow' = [Realtime!Kept EXCEPT ![now] = @ + 1],
         Realtime!Admit, viaRedis' = [viaRedis EXCEPT ![now] = @ + 1],
         UNCHANGED <<now, redisState, memoryWindow>>
  PROVE  RealtimeInv'
<1> DEFINE since == now - windowMs + 1
<1>1. since \in Int /\ now \in Int
  BY RealtimeParts
<1>2. /\ admitted' \in [Realtime!Times -> Nat] /\ \A t \in Realtime!Times : t > now
           => admitted'[t] = 0
      /\ \A t \in Realtime!Times \ {now} : admitted'[t] = admitted[t]
      /\ admitted'[now] = admitted[now] + 1
      /\ \A from, to \in Int :
           AdmittedIn(from, to)' = AdmittedIn(from, to)
               + (IF from <= now /\ now <= to THEN 1 ELSE 0)
      /\ Realtime!Total(admitted') = Realtime!Total(admitted) + 1
  BY RealtimeParts, AdmitCounts
<1>0. /\ viaRedis' \in [Realtime!Times -> Nat]
      /\ \A t \in Realtime!Times \ {now} : viaRedis'[t] = viaRedis[t]
      /\ viaRedis'[now] = viaRedis[now] + 1
      /\ \A from, to \in Int :
           RedisInNext(from, to) = RedisIn(from, to)
               + (IF from <= now /\ now <= to THEN 1 ELSE 0)
      /\ viaMemory' = viaMemory
  BY RealtimeParts, RedisCounts
<1>3. /\ Realtime!Kept \in [Realtime!Times -> Nat]
      /\ \A t \in Realtime!Times :
           Realtime!Kept[t] = IF t <= now - windowMs THEN 0 ELSE viaRedis[t]
  <2>1. /\ redisWindow \in [Realtime!Times -> 0..maxCount]
        /\ viaRedis \in [Realtime!Times -> Nat]
        /\ \A t \in Realtime!Times : t > now - windowMs => redisWindow[t] = viaRedis[t]
    BY DEF RealtimeInv, RealtimeTypes, RedisKnows
  <2>2. \A t \in Realtime!Times :
          Realtime!Kept[t] = IF t <= now - windowMs THEN 0 ELSE redisWindow[t]
    BY DEF Realtime!Kept
  <2>3. \A t \in Realtime!Times :
          Realtime!Kept[t] = IF t <= now - windowMs THEN 0 ELSE viaRedis[t]
    BY <2>1, <2>2, RealtimeParts, TimesAre
  <2>4. \A t \in Realtime!Times : Realtime!Kept[t] \in Nat
    BY <2>1, <2>3
  <2>5. QED
    BY <2>3, <2>4 DEF Realtime!Kept
<1>4. Realtime!Total(Realtime!Kept) = RedisIn(since, now)
  <2>1. Realtime!Kept = Clip(viaRedis, Realtime!Times, since, now)
    <3>1. Realtime!Kept = [t \in Realtime!Times |-> Realtime!Kept[t]]
      BY DEF Realtime!Kept
    <3>2. \A t \in Realtime!Times :
            Realtime!Kept[t] = IF since <= t /\ t <= now THEN viaRedis[t] ELSE 0
      <4>1. \A t \in Realtime!Times : t > now => viaRedis[t] = 0
        BY RealtimeParts DEF Bag
      <4>2. QED
        BY <1>3, <4>1, RealtimeParts, TimesAre DEF Bag
    <3>3. QED
      BY <3>1, <3>2 DEF Clip
  <2>2. RedisIn(since, now) = SumFunction(Clip(viaRedis, Realtime!Times, since, now))
    BY <1>1, RealtimeParts, BetweenIs DEF RedisIn, Bag
  <2>3. QED
    BY <2>1, <2>2, RealtimeOperators DEF Realtime!Total
<1>5. \A t \in Realtime!Times : Realtime!Kept[t] < maxCount
  <2>1. \A t \in Realtime!Times : Realtime!Kept[t] <= Realtime!Total(Realtime!Kept)
    BY <1>3, RealtimeParts, SumNat, RealtimeOperators DEF Realtime!Total
  <2>2. Realtime!Total(Realtime!Kept) \in Nat
    BY <1>3, RealtimeParts, SumNat, RealtimeOperators DEF Realtime!Total
  <2>3. QED
    BY <1>3, <2>1, <2>2, RealtimeParts
<1>7. RealtimeTypes'
  <2>1. redisWindow' \in [Realtime!Times -> 0..maxCount]
    <3>1. \A t \in Realtime!Times :
            redisWindow'[t] = Realtime!Kept[t] + (IF t = now THEN 1 ELSE 0)
      BY <1>3, RealtimeParts DEF Bag
    <3>2. \A t \in Realtime!Times : redisWindow'[t] \in 0..maxCount
      BY <1>3, <1>5, <3>1, RealtimeParts
    <3>3. redisWindow' = [t \in Realtime!Times |-> redisWindow'[t]]
      BY <1>3
    <3>4. QED
      BY <3>2, <3>3
  <2>2. Realtime!Total(admitted') <= MaxAdmitted
    <3>1. Realtime!Total(admitted) \in Nat
      BY RealtimeParts, SumNat, RealtimeOperators DEF Realtime!Total, Bag
    <3>2. QED
      BY <1>2, <3>1, RealtimeParts DEF Realtime!LimitAssumption
  <2>3. QED
    BY <1>0, <1>2, <2>1, <2>2 DEF RealtimeInv, RealtimeTypes
<1>8. RedisKnows'
  <2>1. \A t \in Realtime!Times : t > now - windowMs => redisWindow'[t] = viaRedis'[t]
    BY <1>0, <1>3, RealtimeParts, TimesAre DEF Bag
  <2>2. \A t \in Realtime!Times : viaRedis'[t] <= admitted'[t]
    BY <1>0, <1>2, RealtimeParts DEF Bag
  <2>3. QED
    BY <1>2, <2>1, <2>2 DEF RedisKnows
<1>9. \A t \in Realtime!Times : RedisUntil(t)' <= maxCount
  <2>1. SUFFICES ASSUME NEW t \in Realtime!Times PROVE RedisUntil(t)' <= maxCount
    OBVIOUS
  <2>2. t \in Int /\ t + windowMs - 1 \in Int
    BY TimesAre, RealtimeParts
  <2>3. RedisUntil(t)' = RedisUntil(t)
          + (IF t <= now /\ now <= t + windowMs - 1 THEN 1 ELSE 0)
    <3>1. RedisUntil(t)' = RedisInNext(t, t + windowMs - 1)
      BY DEF RedisUntil, RedisIn, RedisInNext
    <3>2. QED
      BY <1>0, <2>2, <3>1 DEF RedisUntil
  <2>4. RedisUntil(t) \in Nat /\ RedisUntil(t) <= maxCount
    BY <2>2, RealtimeParts DEF RedisUntil, RedisIn, Amounts, RealtimeInv, RedisStrict
  <2>5. now <= t + windowMs - 1 => RedisUntil(t) <= Realtime!Total(Realtime!Kept)
    <3>1. now <= t + windowMs - 1 => since <= t
      BY <1>1, <2>2, RealtimeParts
    <3>2. since <= t => RedisIn(t, t + windowMs - 1) <= RedisIn(since, now)
      <4>1. \A from, to, first, last \in Int :
              first <= from /\ (to <= last \/ now <= last)
                => RedisIn(from, to) <= RedisIn(first, last)
        BY RealtimeParts DEF Amounts, RedisIn
      <4>2. HIDE DEF since
      <4>3. QED
        BY <1>1, <2>2, <4>1
    <3>3. QED
      BY <1>4, <3>1, <3>2 DEF RedisUntil
  <2>6. Realtime!Total(Realtime!Kept) \in Nat
    BY <1>1, <1>4, RealtimeParts DEF Amounts, RedisIn
  <2>7. QED
    BY <2>3, <2>4, <2>5, <2>6, RealtimeParts
<1>10. /\ \A from, to : MemoryIn(from, to)' = MemoryIn(from, to)
       /\ InMemory' = InMemory /\ Later' = Later
  BY <1>0 DEF MemoryIn, InMemory, Later
<1>11. Together'
  <2>1. \A from, to \in Int : RedisIn(from, to)' = RedisIn(from, to)
            + (IF from <= now /\ now <= to THEN 1 ELSE 0)
    BY <1>0 DEF RedisIn, RedisInNext
  <2>2. \A from, to \in Int : /\ RedisIn(from, to) \in Nat /\ MemoryIn(from, to) \in Nat
                              /\ AdmittedIn(from, to) \in Nat
    BY RealtimeParts DEF Amounts, RedisIn, AdmittedIn, Natural
  <2>3. \A from, to \in Int : AdmittedIn(from, to)' = AdmittedIn(from, to)
            + (IF from <= now /\ now <= to THEN 1 ELSE 0)
    BY <1>2
  <2>4. \A from, to \in Int : AdmittedIn(from, to) = RedisIn(from, to) + MemoryIn(from, to)
    BY DEF RealtimeInv, Together
  <2>5. ASSUME NEW from \in Int, NEW to \in Int
        PROVE  AdmittedIn(from, to)' = RedisIn(from, to)' + MemoryIn(from, to)'
    <3>1. MemoryIn(from, to)' = MemoryIn(from, to)
      BY <1>10
    <3>2. /\ RedisIn(from, to)' = RedisIn(from, to)
               + (IF from <= now /\ now <= to THEN 1 ELSE 0)
          /\ AdmittedIn(from, to)' = AdmittedIn(from, to)
               + (IF from <= now /\ now <= to THEN 1 ELSE 0)
          /\ AdmittedIn(from, to) = RedisIn(from, to) + MemoryIn(from, to)
          /\ RedisIn(from, to) \in Nat /\ MemoryIn(from, to) \in Nat
      BY <2>1, <2>2, <2>3, <2>4
    <3>3. QED
      BY <3>1, <3>2
  <2>6. QED
    BY <2>5 DEF Together
<1>12. MemoryCounts' /\ MemoryBounded'
  BY <1>10 DEF RealtimeInv, MemoryCounts, MemoryBounded, Until
<1>13. QED
  BY <1>7, <1>8, <1>9, <1>11, <1>12
     DEF RealtimeInv, RedisStrict, Realtime!RefusedOnlyWhenFull, Realtime!Admit

(* A request that is counted in the memory of the process.                 *)
LEMMA MemoryAnswers ==
  ASSUME Realtime!RealtimeAssumption, RealtimeInv, Realtime!ConsumeMemoryWindow,
         Realtime!Total(admitted) < MaxAdmitted,
         redisWindow' \in [Realtime!Times -> 0..maxCount], redisState' \in {redisState, "gone"},
         redisState' = "gone" \/ UNCHANGED redisWindow, UNCHANGED <<now, viaRedis>>
  PROVE  RealtimeInv'
<1> DEFINE start == memoryWindow.windowStart
           count == memoryWindow.count
<1>1. /\ now \in Int /\ now + 1 \in Int /\ start \in Int /\ start + 1 \in Int
      /\ count \in Nat
      /\ now \in Realtime!Times /\ maxCount \in Nat \ {0} /\ windowMs \in Nat \ {0}
  BY RealtimeParts DEF Bag
<1>2. \A t \in Realtime!Times : t \in Int /\ t + windowMs - 1 \in Int
  BY <1>1, RealtimeParts, TimesAre
<1>3. \A from, to : RedisIn(from, to)' = RedisIn(from, to)
  BY DEF RedisIn
<1>4. \A t \in Realtime!Times : Until(t) <= 2 * maxCount - 1
  BY DEF RealtimeInv, MemoryBounded
<1> HIDE DEF start, count
<1>5. ASSUME Realtime!Admit
      PROVE  /\ RealtimeTypes' <=> memoryWindow' \in Realtime!Windows
             /\ RedisKnows' /\ RedisStrict' /\ Together' /\ Realtime!RefusedOnlyWhenFull'
             /\ \A from, to \in Int :
                  MemoryInNext(from, to) = MemoryIn(from, to)
                      + (IF from <= now /\ now <= to THEN 1 ELSE 0)
  <2>1. /\ admitted' \in [Realtime!Times -> Nat] /\ \A t \in Realtime!Times : t > now
             => admitted'[t] = 0
        /\ \A t \in Realtime!Times \ {now} : admitted'[t] = admitted[t]
        /\ admitted'[now] = admitted[now] + 1
        /\ \A from, to \in Int :
             AdmittedIn(from, to)' = AdmittedIn(from, to)
                 + (IF from <= now /\ now <= to THEN 1 ELSE 0)
        /\ Realtime!Total(admitted') = Realtime!Total(admitted) + 1
    BY <1>5, RealtimeParts, AdmitCounts
  <2>2. Realtime!Total(admitted') <= MaxAdmitted
    <3>1. Realtime!Total(admitted) \in Nat
      BY RealtimeParts, SumNat, RealtimeOperators DEF Realtime!Total, Bag
    <3>2. QED
      BY <2>1, <3>1, RealtimeParts DEF Realtime!LimitAssumption
  <2>3. RealtimeTypes' <=> memoryWindow' \in Realtime!Windows
    BY <1>1, <2>1, <2>2 DEF RealtimeInv, RealtimeTypes
  <2>4. RedisKnows'
    <3>1. \A t \in Realtime!Times : viaRedis'[t] <= admitted'[t]
      BY <2>1, RealtimeParts DEF Bag
    <3>2. redisState' # "gone" => redisState # "gone" /\ redisWindow' = redisWindow
      OBVIOUS
    <3>3. QED
      BY <2>1, <3>1, <3>2 DEF RealtimeInv, RedisKnows
  <2>5. RedisStrict' /\ Realtime!RefusedOnlyWhenFull'
    BY <1>3, <1>5
       DEF RealtimeInv, RedisStrict, RedisUntil, Realtime!RefusedOnlyWhenFull, Realtime!Admit
  <2>6. \A from, to \in Int :
          MemoryInNext(from, to) = MemoryIn(from, to)
              + (IF from <= now /\ now <= to THEN 1 ELSE 0)
    BY <1>5, RealtimeParts, MemoryAdmits
  <2>7. Together'
    <3>1. \A from, to \in Int : /\ RedisIn(from, to) \in Nat /\ MemoryIn(from, to) \in Nat
                                /\ AdmittedIn(from, to) \in Nat
      BY RealtimeParts DEF Amounts, RedisIn, AdmittedIn, Natural
    <3>2. \A from, to \in Int : MemoryIn(from, to)' = MemoryInNext(from, to)
      BY DEF MemoryIn, MemoryInNext
    <3>3. \A from, to \in Int : AdmittedIn(from, to)' = AdmittedIn(from, to)
              + (IF from <= now /\ now <= to THEN 1 ELSE 0)
      BY <2>1
    <3>4. \A from, to \in Int :
            AdmittedIn(from, to) = RedisIn(from, to) + MemoryIn(from, to)
      BY DEF RealtimeInv, Together
    <3>5. ASSUME NEW from \in Int, NEW to \in Int
          PROVE  AdmittedIn(from, to)' = RedisIn(from, to)' + MemoryIn(from, to)'
      <4>1. RedisIn(from, to)' = RedisIn(from, to)
        BY <1>3
      <4>2. MemoryIn(from, to)' = MemoryInNext(from, to)
        BY <3>2
      <4>3. /\ MemoryInNext(from, to) = MemoryIn(from, to)
                 + (IF from <= now /\ now <= to THEN 1 ELSE 0)
            /\ AdmittedIn(from, to)' = AdmittedIn(from, to)
                 + (IF from <= now /\ now <= to THEN 1 ELSE 0)
            /\ AdmittedIn(from, to) = RedisIn(from, to) + MemoryIn(from, to)
            /\ RedisIn(from, to) \in Nat /\ MemoryIn(from, to) \in Nat
        BY <2>6, <3>1, <3>3, <3>4
      <4>4. QED
        BY <4>1, <4>2, <4>3
    <3>6. QED
      BY <3>5 DEF Together
  <2>8. QED
    BY <2>3, <2>4, <2>5, <2>6, <2>7
\* after an admission a window has one more in it, if now lies in it
<1>6. ASSUME Realtime!Admit, NEW t \in Realtime!Times
      PROVE  /\ Until(t)' = Until(t) + (IF t <= now /\ now <= t + windowMs - 1 THEN 1 ELSE 0)
             /\ Until(t) \in Nat
  <2>1. Until(t)' = MemoryInNext(t, t + windowMs - 1)
    BY DEF Until, MemoryIn, MemoryInNext
  <2>2. QED
    BY <1>2, <1>5, <1>6, <2>1, RealtimeParts DEF Until, Natural
\* a window whose count begins now
<1>7. ASSUME Realtime!Admit, memoryWindow' = Realtime!FreshWindow,
             \A t \in Realtime!Times : t <= now /\ now <= t + windowMs - 1 =>
               Until(t) <= maxCount - 1 /\ MemoryIn(t, now) <= maxCount - 1
      PROVE  RealtimeInv'
  <2>1. /\ memoryWindow'.count = 1 /\ memoryWindow'.windowStart = now
        /\ memoryWindow' \in Realtime!Windows /\ memoryWindow' # Realtime!NoWindow
    BY <1>1, <1>7 DEF Realtime!FreshWindow, Realtime!Windows, Realtime!NoWindow
  <2>2. Later' = 0
    <3>1. MemoryIn(now + 1, now) = 0
      BY <1>1, RealtimeParts DEF NothingLater
    <3>2. MemoryInNext(now + 1, now) = MemoryIn(now + 1, now)
            + (IF now + 1 <= now THEN 1 ELSE 0)
      BY <1>1, <1>5, <1>7
    <3>3. Later' = MemoryInNext(now + 1, now)
      BY <2>1 DEF Later, MemoryIn, MemoryInNext
    <3>4. QED
      BY <1>1, <3>1, <3>2, <3>3
  <2>3. InMemory' = MemoryIn(now, now) + 1 /\ MemoryIn(now, now) \in Nat
    <3>1. MemoryInNext(now, now) = MemoryIn(now, now) + 1
      BY <1>1, <1>5, <1>7
    <3>2. InMemory' = MemoryInNext(now, now)
      BY <2>1 DEF InMemory, MemoryIn, MemoryInNext
    <3>3. QED
      BY <1>1, <3>1, <3>2, RealtimeParts DEF Natural
  <2>4. \A t \in Realtime!Times : t <= now /\ now <= t + windowMs - 1 =>
          MemoryInNext(t, now) + Later' <= maxCount - 1 + memoryWindow'.count
    <3>1. ASSUME NEW t \in Realtime!Times, t <= now, now <= t + windowMs - 1
          PROVE  MemoryInNext(t, now) + Later' <= maxCount - 1 + memoryWindow'.count
      <4>1. MemoryInNext(t, now) = MemoryIn(t, now) + 1 /\ MemoryIn(t, now) \in Nat
        BY <1>1, <1>2, <1>5, <1>7, <3>1, RealtimeParts DEF Natural
      <4>2. MemoryIn(t, now) <= maxCount - 1
        BY <1>7, <3>1
      <4>3. QED
        BY <1>1, <2>1, <2>2, <4>1, <4>2
    <3>2. QED
      BY <3>1
  <2>5. MemoryCounts'
    <3>1. /\ Later' <= memoryWindow'.count - 1 /\ memoryWindow'.count <= maxCount
          /\ memoryWindow'.count <= InMemory' /\ memoryWindow'.windowStart <= now'
      BY <1>1, <2>1, <2>2, <2>3
    <3>2. \A t \in Realtime!Times :
            t <= memoryWindow'.windowStart /\ memoryWindow'.windowStart <= t + windowMs - 1
                =>
              MemoryInNext(t, memoryWindow'.windowStart) + Later'
                <= maxCount - 1 + memoryWindow'.count
      BY <2>1, <2>4
    <3>3. \A from, to : MemoryIn(from, to)' = MemoryInNext(from, to)
      BY DEF MemoryIn, MemoryInNext
    <3>4. QED
      BY <2>1, <3>1, <3>2, <3>3 DEF MemoryCounts
  <2>6. MemoryBounded'
    <3>1. \A t \in Realtime!Times : Until(t)' <= 2 * maxCount - 1
      BY <1>1, <1>4, <1>6, <1>7
    <3>2. QED
      BY <3>1 DEF MemoryBounded
  <2>7. QED
    BY <1>5, <1>7, <2>1, <2>5, <2>6 DEF RealtimeInv
<1>8. CASE memoryWindow = Realtime!NoWindow
  <2>1. memoryWindow' = Realtime!FreshWindow /\ Realtime!Admit
    BY <1>8 DEF Realtime!ConsumeMemoryWindow
  <2>2. ASSUME NEW t \in Realtime!Times, t <= now, now <= t + windowMs - 1
        PROVE  Until(t) <= maxCount - 1 /\ MemoryIn(t, now) <= maxCount - 1
    <3>1. Until(t) = 0 /\ MemoryIn(t, now) = 0
      BY <1>1, <1>2, <1>8 DEF RealtimeInv, MemoryCounts, Until
    <3>2. QED
      BY <1>1, <3>1
  <2>3. QED
    BY <1>7, <2>1, <2>2
<1>9. ASSUME memoryWindow # Realtime!NoWindow
      PROVE  /\ Later <= count - 1 /\ count <= maxCount /\ count <= InMemory /\ start <= now
             /\ \A t \in Realtime!Times : t <= start /\ start <= t + windowMs - 1 =>
                  MemoryIn(t, start) + Later <= maxCount - 1 + count
             /\ Later \in Nat /\ InMemory \in Nat
             /\ \A t \in Realtime!Times :
                  MemoryIn(t, start) \in Nat /\ MemoryIn(t, now) \in Nat
  <2>1. /\ Later <= count - 1 /\ count <= maxCount /\ count <= InMemory /\ start <= now
        /\ \A t \in Realtime!Times : t <= start /\ start <= t + windowMs - 1 =>
             MemoryIn(t, start) + Later <= maxCount - 1 + count
    BY <1>9 DEF RealtimeInv, MemoryCounts, start, count
  <2>2. Later \in Nat /\ InMemory \in Nat
    <3>1. MemoryIn(start + 1, now) \in Nat /\ MemoryIn(start, now) \in Nat
      BY <1>1, RealtimeParts DEF Natural
    <3>2. QED
      BY <3>1 DEF Later, InMemory, start
  <2>3. \A t \in Realtime!Times : MemoryIn(t, start) \in Nat /\ MemoryIn(t, now) \in Nat
    BY <1>1, <1>2, RealtimeParts DEF Natural
  <2>4. QED
    BY <2>1, <2>2, <2>3
<1>10. CASE memoryWindow # Realtime!NoWindow /\ Realtime!Expired(memoryWindow, now)
  <2>1. memoryWindow' = Realtime!FreshWindow /\ Realtime!Admit
    BY <1>10 DEF Realtime!ConsumeMemoryWindow
  <2>2. ASSUME NEW t \in Realtime!Times, t <= now, now <= t + windowMs - 1
        PROVE  Until(t) <= maxCount - 1 /\ MemoryIn(t, now) <= maxCount - 1
    <3>1. start + 1 <= t
      BY <1>1, <1>2, <1>10, <2>2 DEF Realtime!Expired, start
    <3>2. /\ MemoryIn(t, now) <= MemoryIn(start + 1, now)
          /\ Until(t) <= MemoryIn(start + 1, now)
      BY <1>1, <1>2, <3>1, RealtimeParts DEF Monotone, Until
    <3>3. MemoryIn(start + 1, now) = Later
      BY DEF Later, start
    <3>4. Until(t) \in Nat /\ MemoryIn(t, now) \in Nat
      BY <1>1, <1>2, RealtimeParts DEF Natural, Until
    <3>5. QED
      BY <1>1, <1>9, <1>10, <3>2, <3>3, <3>4
  <2>3. QED
    BY <1>7, <2>1, <2>2
<1>11. CASE /\ memoryWindow # Realtime!NoWindow /\ ~Realtime!Expired(memoryWindow, now)
            /\ count < maxCount
  <2>1. memoryWindow' = [memoryWindow EXCEPT !.count = count + 1] /\ Realtime!Admit
    BY <1>1, <1>11 DEF Realtime!ConsumeMemoryWindow, count
  <2>2. /\ memoryWindow'.count = count + 1 /\ memoryWindow'.windowStart = start
        /\ memoryWindow' \in Realtime!Windows /\ memoryWindow' # Realtime!NoWindow
    BY <1>1, <2>1
       DEF RealtimeInv, RealtimeTypes, Realtime!Windows, Realtime!NoWindow, start, count
  <2>3. Later' = Later + (IF start + 1 <= now THEN 1 ELSE 0)
    <3>1. MemoryInNext(start + 1, now) = MemoryIn(start + 1, now)
            + (IF start + 1 <= now THEN 1 ELSE 0)
      BY <1>1, <1>5, <2>1
    <3>2. Later' = MemoryInNext(start + 1, now)
      BY <2>2 DEF Later, MemoryIn, MemoryInNext
    <3>3. QED
      BY <3>1, <3>2 DEF Later, start
  <2>4. InMemory' = InMemory + 1
    <3>1. MemoryInNext(start, now) = MemoryIn(start, now) + 1
      BY <1>1, <1>5, <1>9, <1>11, <2>1
    <3>2. InMemory' = MemoryInNext(start, now)
      BY <2>2 DEF InMemory, MemoryIn, MemoryInNext
    <3>3. QED
      BY <3>1, <3>2 DEF InMemory, start
  <2>5. MemoryCounts'
    <3>1. /\ Later' <= memoryWindow'.count - 1 /\ memoryWindow'.count <= maxCount
          /\ memoryWindow'.count <= InMemory' /\ memoryWindow'.windowStart <= now'
      <4>1. (Later <= count - 1 /\ start + 1 <= now) \/ Later = 0
        <5>1. now < start + 1 => MemoryIn(start + 1, now) = 0
          BY <1>1, RealtimeParts DEF NothingLater
        <5>2. QED
          BY <1>1, <1>9, <1>11, <5>1 DEF Later, start
      <4>2. QED
        BY <1>1, <1>9, <1>11, <2>2, <2>3, <2>4, <4>1
    <3>2. ASSUME NEW t \in Realtime!Times, t <= start, start <= t + windowMs - 1
          PROVE  MemoryInNext(t, start) + Later' <= maxCount - 1 + memoryWindow'.count
      <4>1. MemoryInNext(t, start) = MemoryIn(t, start)
              + (IF now <= start THEN 1 ELSE 0)
        <5>1. t <= now
          BY <1>1, <1>2, <1>9, <1>11, <3>2
        <5>2. QED
          BY <1>1, <1>2, <1>5, <2>1, <5>1
      <4>2. /\ MemoryIn(t, start) + Later <= maxCount - 1 + count
            /\ MemoryIn(t, start) \in Nat /\ Later \in Nat
        BY <1>9, <1>11, <3>2
      <4>3. QED
        BY <1>1, <2>2, <2>3, <4>1, <4>2
    <3>3. QED
      BY <2>2, <3>1, <3>2 DEF MemoryCounts, MemoryIn, MemoryInNext
  <2>6. \A t \in Realtime!Times : Until(t)' <= 2 * maxCount - 1
    <3>1. SUFFICES ASSUME NEW t \in Realtime!Times, t <= now, now <= t + windowMs - 1
                   PROVE  Until(t)' <= 2 * maxCount - 1
      BY <1>1, <1>4, <1>6, <2>1
    <3>2. Later' <= count + 1 /\ count + 1 <= maxCount /\ Later' \in Nat
      BY <1>1, <1>9, <1>11, <2>2, <2>3, <2>5 DEF MemoryCounts
    <3>3. Until(t)' = Until(t) + 1 /\ Until(t) \in Nat
      BY <1>6, <2>1, <3>1
    <3>4. Until(t) <= MemoryIn(t, now)
      BY <1>1, <1>2, RealtimeParts DEF Until, Monotone
    <3>5. MemoryInNext(t, now) = MemoryIn(t, now) + 1
      BY <1>1, <1>2, <1>5, <2>1, <3>1
    <3>6. CASE start + 1 <= t
      <4>1. MemoryIn(t, now) <= MemoryIn(start + 1, now)
        BY <1>1, <1>2, <3>6, RealtimeParts DEF Monotone
      <4>2. Later = MemoryIn(start + 1, now)
        BY DEF Later, start
      <4>3. Later' = Later + 1
        BY <1>1, <1>2, <2>3, <3>1, <3>6
      <4>4. QED
        BY <1>1, <1>2, <1>9, <1>11, <3>2, <3>3, <3>4, <4>1, <4>2, <4>3
    <3>7. CASE ~(start + 1 <= t)
      <4>1. t <= start /\ start <= t + windowMs - 1
        BY <1>1, <1>2, <1>9, <1>11, <3>1, <3>7
      <4>2. MemoryIn(t, now) = MemoryIn(t, start) + MemoryIn(start + 1, now)
        BY <1>1, <1>2, <1>9, <1>11, <4>1, RealtimeParts DEF Additive
      <4>3. MemoryIn(t, start) + Later <= maxCount - 1 + count
        BY <1>9, <1>11, <4>1
      <4>4. Later = MemoryIn(start + 1, now)
        BY DEF Later, start
      <4>5. QED
        BY <1>1, <1>2, <1>9, <1>11, <3>3, <3>4, <4>2, <4>3, <4>4
    <3>8. QED
      BY <3>6, <3>7
  <2>7. QED
    BY <1>5, <2>1, <2>2, <2>5, <2>6 DEF RealtimeInv, MemoryBounded
<1>12. CASE /\ memoryWindow # Realtime!NoWindow /\ ~Realtime!Expired(memoryWindow, now)
            /\ ~(count < maxCount)
  <2>1. Realtime!Refuse(now) /\ UNCHANGED memoryWindow
    BY <1>1, <1>12 DEF Realtime!ConsumeMemoryWindow, count
  <2>2. admitted' = admitted /\ refused' = <<now, now>>
    BY <2>1 DEF Realtime!Refuse
  <2>3. Realtime!RefusedOnlyWhenFull'
    <3>1. now - windowMs <= start
      BY <1>1, <1>12 DEF Realtime!Expired, start
    <3>2. now - windowMs \in Int
      BY <1>1
    <3>3. MemoryIn(start, now) <= MemoryIn(now - windowMs, now)
      BY <1>1, <3>1, <3>2, RealtimeParts DEF Monotone
    <3>4. /\ AdmittedIn(now - windowMs, now)
               = RedisIn(now - windowMs, now) + MemoryIn(now - windowMs, now)
          /\ RedisIn(now - windowMs, now) \in Nat /\ MemoryIn(now - windowMs, now) \in Nat
      BY <1>1, <3>2, RealtimeParts DEF RealtimeInv, Together, Natural, Amounts, RedisIn
    <3>5. AdmittedIn(now - windowMs, now) >= maxCount
      BY <1>1, <1>9, <1>12, <3>3, <3>4 DEF InMemory, start
    <3>6. Realtime!Within(admitted', refused'[1] - windowMs, refused'[2]) =
            AdmittedIn(now - windowMs, now)
      BY <2>2, AdmittedInIs
    <3>7. QED
      BY <3>5, <3>6 DEF Realtime!RefusedOnlyWhenFull
  <2>4. RealtimeTypes' /\ RedisKnows'
    <3>1. redisState' # "gone" => redisState # "gone" /\ redisWindow' = redisWindow
      OBVIOUS
    <3>2. QED
      BY <2>1, <2>2, <3>1 DEF RealtimeInv, RealtimeTypes, RedisKnows
  <2>5. \A from, to : /\ MemoryIn(from, to)' = MemoryIn(from, to)
                      /\ AdmittedIn(from, to)' = AdmittedIn(from, to)
    BY <2>2 DEF MemoryIn, AdmittedIn, viaMemory
  <2>6. InMemory' = InMemory /\ Later' = Later
    BY <2>1, <2>2 DEF InMemory, Later, MemoryIn, viaMemory
  <2>7. RedisStrict' /\ Together' /\ MemoryCounts' /\ MemoryBounded'
    BY <1>3, <2>1, <2>5, <2>6
       DEF RealtimeInv, RedisStrict, RedisUntil, Together, MemoryCounts, MemoryBounded, Until
  <2>8. QED
    BY <2>3, <2>4, <2>7 DEF RealtimeInv
<1>13. QED
  BY <1>8, <1>10, <1>11, <1>12

(* Every step of the limiter of the socket keeps its invariant.            *)
LEMMA RealtimeStep ==
  ASSUME Realtime!RealtimeAssumption, RealtimeInv, Realtime!Next PROVE RealtimeInv'
<1>1. CASE Realtime!Tick
  BY <1>1, TickKeeps
<1>2. CASE Realtime!AssertRealtimeRateLimit
  <2>1. Realtime!Total(admitted) < MaxAdmitted /\ UNCHANGED now
    BY <1>2 DEF Realtime!AssertRealtimeRateLimit
  <2>2. /\ Realtime!Kept \in [Realtime!Times -> 0..maxCount]
        /\ redisWindow \in [Realtime!Times -> 0..maxCount]
    <3>1. redisWindow \in [Realtime!Times -> 0..maxCount]
      BY DEF RealtimeInv, RealtimeTypes
    <3>2. \A t \in Realtime!Times :
            (IF t <= now - windowMs THEN 0 ELSE redisWindow[t]) \in 0..maxCount
      BY <3>1, RealtimeParts
    <3>3. QED
      BY <3>1, <3>2 DEF Realtime!Kept
  <2>3. CASE redisState # "ready"
    <3>1. Realtime!ConsumeMemoryWindow /\ UNCHANGED <<redisState, redisWindow, viaRedis>>
      BY <1>2, <2>3
         DEF Realtime!AssertRealtimeRateLimit, Realtime!redisReady, Realtime!redisVars
    <3>2. QED
      BY <2>1, <2>2, <3>1, MemoryAnswers
  <2>4. CASE redisState = "ready" /\ Realtime!Total(Realtime!Kept) < maxCount
    <3>1. redisWindow' = [Realtime!Kept EXCEPT ![now] = @ + 1]
      <4>1. Realtime!Total(Realtime!Kept) \in Nat
        <5>1. Realtime!Kept \in [Realtime!Times -> Nat]
          BY <2>2
        <5>2. QED
          BY <5>1, RealtimeParts, SumNat, RealtimeOperators DEF Realtime!Total
      <4>2. QED
        BY <1>2, <2>4, <4>1, RealtimeParts
           DEF Realtime!AssertRealtimeRateLimit, Realtime!ConsumeRedisWindow,
             Realtime!redisReady
    <3>2. Realtime!Total(redisWindow') > Realtime!Total(Realtime!Kept)
      <4>1. /\ Realtime!Kept \in [Realtime!Times -> Int]
            /\ redisWindow' \in [Realtime!Times -> Int]
            /\ Realtime!Total(Realtime!Kept) \in Int
        <5>1. Realtime!Kept \in [Realtime!Times -> Int] /\ now \in Realtime!Times
          BY <2>2, RealtimeParts DEF Bag
        <5>2. redisWindow' \in [Realtime!Times -> Int]
          BY <3>1, <5>1
        <5>3. QED
          BY <5>1, <5>2, RealtimeParts, SumInt, RealtimeOperators DEF Realtime!Total
      <4>2. /\ \A t \in Realtime!Times \ {now} : redisWindow'[t] = Realtime!Kept[t]
            /\ redisWindow'[now] = Realtime!Kept[now] + 1 /\ Realtime!Kept[now] \in Int
            /\ now \in Realtime!Times
        BY <2>2, <3>1, RealtimeParts DEF Bag
      <4>3. Realtime!Total(redisWindow') = Realtime!Total(Realtime!Kept)
              - Realtime!Kept[now] + redisWindow'[now]
        BY <4>1, <4>2, RealtimeParts, SumChange, RealtimeOperators DEF Realtime!Total
      <4>4. QED
        BY <4>1, <4>2, <4>3
    <3>3. /\ Realtime!Admit /\ UNCHANGED <<redisState, memoryWindow>>
          /\ viaRedis' = [viaRedis EXCEPT ![now] = @ + 1]
      BY <1>2, <2>4, <3>2 DEF Realtime!AssertRealtimeRateLimit, Realtime!redisReady
    <3>4. QED
      BY <2>1, <2>4, <3>1, <3>3, RedisAdmits
  <2>5. CASE redisState = "ready" /\ ~(Realtime!Total(Realtime!Kept) < maxCount)
    <3>1. Realtime!Total(Realtime!Kept) \in Nat
      <4>1. Realtime!Kept \in [Realtime!Times -> Nat]
        BY <2>2
      <4>2. QED
        BY <4>1, RealtimeParts, SumNat, RealtimeOperators DEF Realtime!Total
    <3>2. redisWindow' = Realtime!Kept
      BY <1>2, <2>5, <3>1, RealtimeParts
         DEF Realtime!AssertRealtimeRateLimit, Realtime!ConsumeRedisWindow,
             Realtime!redisReady
    <3>3. ~(Realtime!Total(redisWindow') > Realtime!Total(Realtime!Kept))
      BY <3>1, <3>2
    <3>4. Realtime!ConsumeMemoryWindow /\ redisState' = "gone" /\ UNCHANGED viaRedis
      BY <1>2, <2>5, <3>3 DEF Realtime!AssertRealtimeRateLimit, Realtime!redisReady
    <3>5. QED
      BY <2>1, <2>2, <3>2, <3>4, MemoryAnswers
  <2>6. QED
    BY <2>3, <2>4, <2>5
<1>3. CASE Realtime!RedisReady \/ Realtime!RedisEnds
  <2>1. /\ redisState' \in {"ready", "gone"}
        /\ redisState' # "gone" => redisState # "gone"
        /\ UNCHANGED <<now, redisWindow, viaRedis, memoryWindow, admitted, refused>>
    BY <1>3 DEF Realtime!RedisReady, Realtime!RedisEnds
  <2>2. RealtimeTypes'
    BY <2>1 DEF RealtimeInv, RealtimeTypes
  <2>3. RedisKnows'
    <3>1. RedisKnows
      BY DEF RealtimeInv
    <3>2. QED
      BY <2>1, <3>1 DEF RedisKnows
  <2>4. Realtime!RefusedOnlyWhenFull'
    BY <2>1 DEF RealtimeInv, Realtime!RefusedOnlyWhenFull, Realtime!Within
  <2>5. QED
    BY <2>1, <2>2, <2>3, <2>4
       DEF RealtimeInv, RedisStrict, Together, MemoryCounts, MemoryBounded, Until, RedisUntil,
           AdmittedIn, RedisIn, MemoryIn, viaMemory, InMemory, Later
<1>4. QED
  BY <1>1, <1>2, <1>3 DEF Realtime!Next

(* Nobody asked yet.                                                       *)
LEMMA RealtimeInitially ==
  ASSUME Realtime!RealtimeAssumption, Realtime!Init
  PROVE  RealtimeInv
<1>1. /\ now = 0 /\ 0 \in Realtime!Times /\ admitted \in [Realtime!Times -> Nat]
      /\ \A t \in Realtime!Times : admitted[t] = 0
      /\ refused = <<>> /\ memoryWindow = Realtime!NoWindow
      /\ redisState \in {"connecting", "gone"}
      /\ viaRedis \in [Realtime!Times -> Nat] /\ \A t \in Realtime!Times : viaRedis[t] = 0
      /\ redisWindow \in [Realtime!Times -> 0..maxCount]
      /\ \A t \in Realtime!Times : redisWindow[t] = 0
  BY TimesAre
     DEF Realtime!Init, Realtime!NobodyAsked, Realtime!RealtimeAssumption, Realtime!Times,
         Realtime!LimitAssumption
<1>2. /\ IsFiniteSet(Realtime!Times) /\ maxCount \in Nat \ {0} /\ windowMs \in Nat \ {0}
      /\ MaxAdmitted \in Nat
  BY TimesAre DEF Realtime!RealtimeAssumption, Realtime!LimitAssumption
<1>3. Realtime!Total(admitted) = 0
  <2>1. admitted \in [Realtime!Times -> Int]
    BY <1>1
  <2>2. QED
    BY <1>1, <1>2, <2>1, SumZero, RealtimeOperators DEF Realtime!Total
<1>4. RealtimeTypes
  BY <1>1, <1>2, <1>3 DEF RealtimeTypes, Realtime!Windows, Realtime!NoWindow
<1>5. RedisKnows /\ Realtime!RefusedOnlyWhenFull
  BY <1>1 DEF RedisKnows, Realtime!RefusedOnlyWhenFull
<1>6. viaMemory \in [Realtime!Times -> Nat] /\ \A t \in Realtime!Times : viaMemory[t] = 0
  BY <1>1 DEF viaMemory
<1>7. \A from, to : AdmittedIn(from, to) = 0 /\ RedisIn(from, to) = 0 /\ MemoryIn(from, to) = 0
  BY <1>1, <1>2, <1>6, BetweenZero DEF AdmittedIn, RedisIn, MemoryIn
<1>8. RedisStrict /\ Together /\ MemoryCounts /\ MemoryBounded
  BY <1>1, <1>2, <1>7
     DEF RedisStrict, RedisUntil, Together, MemoryCounts, MemoryBounded, Until
<1>9. QED
  BY <1>4, <1>5, <1>8 DEF RealtimeInv

(* The bound follows: the limit of Redis and less than twice it of memory. *)
LEMMA FallbackIs ==
  ASSUME Realtime!RealtimeAssumption, RealtimeInv PROVE Realtime!FallbackBounded
<1>1. ASSUME NEW t \in Realtime!Times
      PROVE  Realtime!Within(admitted, t, t + windowMs - 1) <= 3 * maxCount - 1
  <2>1. t \in Int /\ t + windowMs - 1 \in Int
    BY RealtimeParts, TimesAre
  <2>2. /\ AdmittedIn(t, t + windowMs - 1) = RedisUntil(t) + Until(t)
        /\ RedisUntil(t) \in Nat /\ Until(t) \in Nat
    BY <2>1, RealtimeParts
       DEF RealtimeInv, Together, RedisUntil, Until, Amounts, Natural, RedisIn
  <2>3. RedisUntil(t) <= maxCount /\ Until(t) <= 2 * maxCount - 1
    BY DEF RealtimeInv, RedisStrict, MemoryBounded
  <2>4. QED
    BY <2>2, <2>3, RealtimeParts, AdmittedInIs
<1>2. QED
  BY <1>1 DEF Realtime!FallbackBounded

(* The types are what the invariant says.                                  *)
LEMMA RealtimeTyped == ASSUME Realtime!RealtimeAssumption, RealtimeInv PROVE Realtime!TypeOK
<1>1. \A t \in Realtime!Times : admitted[t] <= Realtime!Total(admitted)
  BY RealtimeParts, SumNat, RealtimeOperators DEF Realtime!Total, Bag
<1>2. /\ Realtime!Total(admitted) \in Nat /\ Realtime!Total(admitted) <= MaxAdmitted
      /\ MaxAdmitted \in Nat
  BY RealtimeParts, SumNat, RealtimeOperators
     DEF Realtime!Total, Bag, RealtimeInv, RealtimeTypes, Realtime!LimitAssumption
<1>3. admitted \in [Realtime!Times -> 0..MaxAdmitted]
  <2>1. \A t \in Realtime!Times : admitted[t] \in 0..MaxAdmitted
    BY <1>1, <1>2, RealtimeParts DEF Bag
  <2>2. QED
    BY <2>1, RealtimeParts DEF Bag
<1>4. viaRedis \in [Realtime!Times -> 0..MaxAdmitted]
  <2>1. \A t \in Realtime!Times : viaRedis[t] \in 0..MaxAdmitted
    BY <1>1, <1>2, RealtimeParts DEF Bag
  <2>2. QED
    BY <2>1, RealtimeParts DEF Bag
<1>5. QED
  BY <1>3, <1>4 DEF Realtime!TypeOK, RealtimeInv, RealtimeTypes
-----------------------------------------------------------------------------
(***************************************************************************)
(* The limit in the database, for any limit, window, clock and number of   *)
(* calls.  What the row counts, the calls under way included that have read *)
(* it and found room, is the limit and one less than the calls at most;    *)
(* and what a row counts was admitted since its window began.              *)
(***************************************************************************)
(* The operators this instance takes from the modules it extends.          *)
LEMMA SignInOperators ==
  /\ \A S : SignIn!IsFiniteSet(S) <=> IsFiniteSet(S)
  /\ \A S : SignIn!Cardinality(S) = Cardinality(S)
  /\ \A f : SignIn!SumFunction(f) = SumFunction(f)
  BY DEF SignIn!IsFiniteSet, IsFiniteSet, SignIn!Cardinality, Cardinality,
         SignIn!SumFunction, SumFunction, SignIn!SumFunctionOnSet, SumFunctionOnSet,
         SignIn!FoldFunctionOnSet, FoldFunctionOnSet, SignIn!MapThenFoldSet, MapThenFoldSet

\* admitted within an interval
SignInsIn(from, to) == Between(signInsAdmitted, SignIn!Times, from, to)
SignInsInNext(from, to) == Between(signInsAdmitted', SignIn!Times, from, to)
SignInBag ==
  /\ signInsAdmitted \in [SignIn!Times -> Nat] /\ signInTime \in SignIn!Times
  /\ \A t \in SignIn!Times : t > signInTime => signInsAdmitted[t] = 0

LimitCalls ==
  [pc : {"idle", "find", "create", "findAgain", "check"}, stamp : SignIn!Times,
   row : SignIn!Windows]
Open == {c \in Calls : limitCall[c].pc # "idle"}
\* calls that have read a row with room, and will write to it
Passing ==
  {c \in Calls : /\ limitCall[c].pc = "check"
                 /\ ~SignIn!Expired(limitCall[c].row, limitCall[c].stamp)
                 /\ ~SignIn!Full(limitCall[c].row)}

\* every call under way may still admit one request
DatabaseTypes ==
  /\ SignInBag /\ rateLimit \in SignIn!Windows /\ limitCall \in [Calls -> LimitCalls]
  /\ \A c \in Calls : limitCall[c].stamp <= signInTime
  /\ SignIn!Total(signInsAdmitted) + Cardinality(Open) <= MaxSignIns + Cardinality(Calls)

\* what a row counts, now or when a call read it, was admitted since its window began
Covered(window) ==
  /\ window.windowStart <= signInTime
  /\ window.count <= SignInsIn(window.windowStart, signInTime)
CoveredNext(window) ==
  /\ window.windowStart <= signInTime'
  /\ window.count <= SignInsInNext(window.windowStart, signInTime')
RowsCovered ==
  /\ rateLimit # SignIn!NoWindow => Covered(rateLimit)
  /\ \A c \in Calls : limitCall[c].pc = "check" => Covered(limitCall[c].row)

\* the row and the calls that will add to it
RoomTaken == rateLimit.count + Cardinality(Passing) <= signInCount + Cardinality(Calls) - 1

DatabaseInv == DatabaseTypes /\ RowsCovered /\ RoomTaken /\ SignIn!RefusedOnlyWhenFull

(* The times are finitely many numbers.                                    *)
LEMMA SignInTimesAre ==
  ASSUME SignIn!LimitAssumption
  PROVE  /\ IsFiniteSet(SignIn!Times) /\ SignIn!Times \subseteq Int
         /\ SignIn!Times \subseteq Nat
         /\ signInWindowMs \in Nat \ {0} /\ signInCount \in Nat \ {0}
         /\ \A t \in SignIn!Times : t <= MaxSignInTime
         /\ MaxSignInTime \in Nat
<1>1. IsFiniteSet(0..MaxSignInTime)
  BY FS_Interval DEF SignIn!LimitAssumption
<1>2. QED
  BY <1>1 DEF SignIn!Times, SignIn!LimitAssumption

(* What is counted by the definition of the limiter.                       *)
LEMMA SignInsInIs == \A from, to :
    SignIn!Within(signInsAdmitted, from, to) = SignInsIn(from, to)
  BY SignInOperators DEF SignIn!Within, SignInsIn, Between

\* how much an interval has in it, compared with others
SignInNatural == \A from, to \in Int : SignInsIn(from, to) \in Nat
SignInMonotone ==
  \A from, to, first, last \in Int :
    first <= from /\ (to <= last \/ signInTime <= last)
        => SignInsIn(from, to) <= SignInsIn(first, last)

(* Intervals count like sums.                                              *)
LEMMA SignInCounting ==
  ASSUME SignIn!LimitAssumption, SignInBag PROVE SignInNatural /\ SignInMonotone
<1>1. Counts(signInsAdmitted, SignIn!Times, signInTime)
  BY SignInTimesAre DEF Counts, SignInBag
<1>2. QED
  BY <1>1, BetweenCounts DEF SignInsIn, SignInNatural, SignInMonotone

(* An admission is one more in every interval around now.                  *)
LEMMA SignInAdmitCounts ==
  ASSUME SignIn!LimitAssumption, SignInBag, SignIn!Admit
  PROVE  /\ signInsAdmitted' \in [SignIn!Times -> Nat]
         /\ \A t \in SignIn!Times : t > signInTime => signInsAdmitted'[t] = 0
         /\ \A from, to \in Int :
              SignInsInNext(from, to) = SignInsIn(from, to)
                  + (IF from <= signInTime /\ signInTime <= to THEN 1 ELSE 0)
         /\ SignIn!Total(signInsAdmitted') = SignIn!Total(signInsAdmitted) + 1
         /\ SignIn!Total(signInsAdmitted) \in Nat
<1>1. Counts(signInsAdmitted, SignIn!Times, signInTime)
  BY SignInTimesAre DEF Counts, SignInBag
<1>2. OneMore(signInsAdmitted', signInsAdmitted, signInTime)
  BY DEF SignIn!Admit, OneMore
<1>3. Counts(signInsAdmitted', SignIn!Times, signInTime) =>
        /\ signInsAdmitted' \in [SignIn!Times -> Nat]
        /\ \A t \in SignIn!Times : t > signInTime => signInsAdmitted'[t] = 0
  BY DEF Counts
<1>4. QED
  BY <1>1, <1>2, <1>3, BetweenAdmits, SignInOperators
     DEF SignInsIn, SignInsInNext, SignIn!Total

(* Sets of calls have at most as many members as there are calls.          *)
LEMMA CallSets ==
  ASSUME SignIn!DatabaseAssumption
  PROVE  /\ Cardinality(Calls) \in Nat
         /\ \A s \in SUBSET Calls :
              Cardinality(s) \in Nat /\ Cardinality(s) <= Cardinality(Calls)
         /\ \A s, r \in SUBSET Calls : s \subseteq r => Cardinality(s) <= Cardinality(r)
         /\ \A s, r \in SUBSET Calls : \A c \in r :
              s \subseteq r \ {c} => Cardinality(s) <= Cardinality(r) - 1
<1>1. \A s \in SUBSET Calls : IsFiniteSet(s) /\ Cardinality(s) \in Nat
  BY FS_Subset, FS_CardinalityType, SignInOperators DEF SignIn!DatabaseAssumption
<1>2. ASSUME NEW r \in SUBSET Calls, NEW s \in SUBSET r
      PROVE  Cardinality(s) <= Cardinality(r)
  BY <1>1, FS_Subset
<1>3. ASSUME NEW r \in SUBSET Calls, NEW c \in r, NEW s \in SUBSET (r \ {c})
      PROVE  Cardinality(s) <= Cardinality(r) - 1
  <2>1. Cardinality(r \ {c}) = Cardinality(r) - 1
    BY <1>1, FS_RemoveElement, Zenon
  <2>2. Cardinality(s) <= Cardinality(r \ {c})
    BY <1>2
  <2>3. QED
    BY <2>1, <2>2
<1>4. QED
  BY <1>1, <1>2, <1>3

(* The types, one by one, and the numbers of calls.                        *)
LEMMA DatabaseParts ==
  ASSUME SignIn!DatabaseAssumption, DatabaseInv
  PROVE  /\ SignIn!LimitAssumption /\ SignInBag /\ IsFiniteSet(SignIn!Times)
         /\ signInTime \in Nat /\ signInTime \in Int /\ signInWindowMs \in Nat \ {0}
         /\ signInCount \in Nat \ {0}
         /\ rateLimit \in SignIn!Windows /\ limitCall \in [Calls -> LimitCalls]
         /\ rateLimit.count \in Nat
         /\ \A c \in Calls :
              limitCall[c].row \in SignIn!Windows /\ limitCall[c].stamp <= signInTime
         /\ SignInNatural /\ SignInMonotone
         /\ Cardinality(Open) \in Nat /\ Cardinality(Passing) \in Nat
         /\ Open \in SUBSET Calls /\ Passing \in SUBSET Calls
         /\ Cardinality(Passing) <= Cardinality(Calls)
         /\ SignIn!Total(signInsAdmitted) \in Nat /\ MaxSignIns \in Nat
<1>1. /\ SignIn!LimitAssumption /\ SignInBag /\ rateLimit \in SignIn!Windows
      /\ limitCall \in [Calls -> LimitCalls]
      /\ \A c \in Calls : limitCall[c].stamp <= signInTime
  BY DEF SignIn!DatabaseAssumption, DatabaseInv, DatabaseTypes
<1>2. SignInNatural /\ SignInMonotone
  BY <1>1, SignInCounting
<1>3. Open \in SUBSET Calls /\ Passing \in SUBSET Calls
  BY DEF Open, Passing
<1>4. /\ Cardinality(Open) \in Nat /\ Cardinality(Passing) \in Nat
      /\ Cardinality(Passing) <= Cardinality(Calls)
  BY <1>3, CallSets
<1>5. SignIn!Total(signInsAdmitted) \in Nat
  BY <1>1, SignInTimesAre, SumNat, SignInOperators DEF SignIn!Total, SignInBag
<1>6. /\ signInTime \in Nat /\ signInWindowMs \in Nat \ {0} /\ signInCount \in Nat \ {0}
      /\ MaxSignIns \in Nat
  BY <1>1, SignInTimesAre DEF SignInBag, SignIn!LimitAssumption
<1>7. QED
  BY <1>1, <1>2, <1>3, <1>4, <1>5, <1>6, SignInTimesAre DEF SignIn!Windows, LimitCalls

(* Time passes: what is counted until now does not change.                 *)
LEMMA SignInTickKeeps ==
  ASSUME SignIn!DatabaseAssumption, DatabaseInv, SignIn!Tick
  PROVE  DatabaseInv'
<1>1. /\ signInsAdmitted' = signInsAdmitted /\ signInTime' = signInTime + 1
      /\ signInTime' \in SignIn!Times /\ signInRefused' = <<>>
      /\ UNCHANGED <<rateLimit, limitCall>>
  <2>1. signInTime + 1 \in SignIn!Times
    BY DatabaseParts
       DEF SignIn!Tick, SignIn!TimePasses, SignIn!Times, SignIn!LimitAssumption
  <2>2. QED
    BY <2>1 DEF SignIn!Tick, SignIn!TimePasses
<1>2. \A from \in Int : SignInsInNext(from, signInTime') = SignInsIn(from, signInTime)
  <2>1. ASSUME NEW from \in Int
        PROVE  SignInsIn(from, signInTime + 1) = SignInsIn(from, signInTime)
    <3>1. signInTime + 1 \in Int /\ signInTime \in Int
      BY DatabaseParts
    <3>2. /\ SignInsIn(from, signInTime + 1) <= SignInsIn(from, signInTime)
          /\ SignInsIn(from, signInTime) <= SignInsIn(from, signInTime + 1)
      BY <3>1, DatabaseParts DEF SignInMonotone
    <3>3. SignInsIn(from, signInTime + 1) \in Nat /\ SignInsIn(from, signInTime) \in Nat
      BY <3>1, DatabaseParts DEF SignInNatural
    <3>4. QED
      BY <3>2, <3>3
  <2>2. \A from : SignInsInNext(from, signInTime') = SignInsIn(from, signInTime + 1)
    BY <1>1 DEF SignInsIn, SignInsInNext
  <2>3. QED
    BY <2>1, <2>2
<1>3. DatabaseTypes'
  <2>1. SignInBag'
    BY <1>1, DatabaseParts, SignInTimesAre DEF SignInBag
  <2>2. Open' = Open
    BY <1>1 DEF Open
  <2>3. \A c \in Calls : limitCall'[c].stamp <= signInTime'
    <3>1. \A c \in Calls : limitCall[c].stamp \in Nat
      BY DatabaseParts, SignInTimesAre DEF LimitCalls
    <3>2. QED
      BY <1>1, <3>1, DatabaseParts
  <2>4. QED
    BY <1>1, <2>1, <2>2, <2>3 DEF DatabaseInv, DatabaseTypes
<1>4. RowsCovered'
  <2>1. \A window \in SignIn!Windows : Covered(window) => CoveredNext(window)
    <3>1. \A window \in SignIn!Windows : window.windowStart \in Int
      BY DatabaseParts, SignInTimesAre DEF SignIn!Windows
    <3>2. QED
      BY <1>1, <1>2, <3>1, DatabaseParts DEF Covered, CoveredNext
  <2>2. \A c \in Calls : limitCall[c].row \in SignIn!Windows
    BY DatabaseParts
  <2>3. rateLimit' # SignIn!NoWindow => CoveredNext(rateLimit')
    BY <1>1, <2>1, DatabaseParts DEF DatabaseInv, RowsCovered
  <2>4. \A c \in Calls : limitCall'[c].pc = "check" => CoveredNext(limitCall'[c].row)
    BY <1>1, <2>1, <2>2 DEF DatabaseInv, RowsCovered
  <2>5. QED
    BY <2>3, <2>4 DEF RowsCovered, Covered, CoveredNext, SignInsIn, SignInsInNext
<1>5. RoomTaken'
  <2>1. Passing' = Passing
    BY <1>1 DEF Passing
  <2>2. QED
    BY <1>1, <2>1 DEF DatabaseInv, RoomTaken
<1>6. SignIn!RefusedOnlyWhenFull'
  BY <1>1 DEF SignIn!RefusedOnlyWhenFull
<1>7. QED
  BY <1>3, <1>4, <1>5, <1>6 DEF DatabaseInv

(* A step that refuses nobody refuses nobody too early.                    *)
LEMMA NobodyRefused ==
  ASSUME DatabaseInv, UNCHANGED <<signInsAdmitted, signInRefused>>
  PROVE  SignIn!RefusedOnlyWhenFull'
  BY DEF DatabaseInv, SignIn!RefusedOnlyWhenFull, SignIn!Within

(* A step in which only a call changes, which may have read the row.       *)
LEMMA CallMoves ==
  ASSUME SignIn!DatabaseAssumption, DatabaseInv,
         UNCHANGED <<signInTime, rateLimit, signInsAdmitted>>,
         SignIn!RefusedOnlyWhenFull',
         limitCall' \in [Calls -> LimitCalls],
         \A c \in Calls : /\ limitCall'[c].stamp <= signInTime
                          /\ limitCall'[c].pc = "check" =>
                               \/ limitCall'[c] = limitCall[c]
                               \/ limitCall'[c].row = rateLimit
                                  /\ rateLimit # SignIn!NoWindow,
         SignIn!Total(signInsAdmitted) + Cardinality(Open') <= MaxSignIns
             + Cardinality(Calls),
         Passing' \subseteq Passing \/ rateLimit.count < signInCount
  PROVE  DatabaseInv'
<1>1. DatabaseTypes'
  BY DEF DatabaseInv, DatabaseTypes, SignInBag
<1>2. RowsCovered'
  <2>1. \A window : CoveredNext(window) <=> Covered(window)
    BY DEF Covered, CoveredNext, SignInsIn, SignInsInNext
  <2>2. \A c \in Calls : limitCall'[c].pc = "check" => CoveredNext(limitCall'[c].row)
    BY <2>1 DEF DatabaseInv, RowsCovered
  <2>3. rateLimit' # SignIn!NoWindow => CoveredNext(rateLimit')
    BY <2>1 DEF DatabaseInv, RowsCovered
  <2>4. QED
    BY <2>2, <2>3 DEF RowsCovered, Covered, CoveredNext, SignInsIn, SignInsInNext
<1>3. RoomTaken'
  <2>1. Passing' \in SUBSET Calls
    BY DEF Passing
  <2>2. Cardinality(Passing') \in Nat /\ Cardinality(Passing') <= Cardinality(Calls)
    BY <2>1, CallSets
  <2>3. Passing' \subseteq Passing => Cardinality(Passing') <= Cardinality(Passing)
    BY <2>1, DatabaseParts, CallSets
  <2>4. rateLimit.count + Cardinality(Passing) <= signInCount + Cardinality(Calls) - 1
    BY DEF DatabaseInv, RoomTaken
  <2>5. rateLimit.count + Cardinality(Passing') <= signInCount + Cardinality(Calls) - 1
    BY <2>2, <2>3, <2>4, DatabaseParts, CallSets
  <2>6. QED
    BY <2>5 DEF RoomTaken
<1>4. QED
  BY <1>1, <1>2, <1>3 DEF DatabaseInv

(* A call that is admitted, and returns: the row it leaves is one the      *)
(* admissions cover, with room taken by the calls that are left.           *)
LEMMA CallAdmits ==
  ASSUME SignIn!DatabaseAssumption, DatabaseInv, NEW c \in Calls, limitCall[c].pc # "idle",
         SignIn!Admit, SignIn!Return(c), UNCHANGED signInTime,
         rateLimit' \in SignIn!Windows,
         CoveredNext(rateLimit'),
         rateLimit'.count + Cardinality(Passing') <= signInCount + Cardinality(Calls) - 1
  PROVE  DatabaseInv'
<1>1. /\ signInsAdmitted' \in [SignIn!Times -> Nat]
      /\ \A t \in SignIn!Times : t > signInTime => signInsAdmitted'[t] = 0
      /\ \A from, to \in Int :
           SignInsInNext(from, to) = SignInsIn(from, to)
               + (IF from <= signInTime /\ signInTime <= to THEN 1 ELSE 0)
      /\ SignIn!Total(signInsAdmitted') = SignIn!Total(signInsAdmitted) + 1
  BY DatabaseParts, SignInAdmitCounts
<1>2. /\ limitCall' \in [Calls -> LimitCalls] /\ limitCall'[c] = SignIn!NoCall
      /\ \A d \in Calls \ {c} : limitCall'[d] = limitCall[d]
  <2>1. SignIn!NoCall \in LimitCalls
    <3>1. 0 \in SignIn!Times
      BY DatabaseParts DEF SignIn!Times, SignIn!LimitAssumption
    <3>2. QED
      BY <3>1 DEF SignIn!NoCall, LimitCalls, SignIn!NoWindow, SignIn!Windows
  <2>2. QED
    BY <2>1, DatabaseParts DEF SignIn!Return
<1>3. DatabaseTypes'
  <2>1. Open' \subseteq Open \ {c} /\ c \in Open
    BY <1>2 DEF Open, SignIn!NoCall
  <2>2. Cardinality(Open') <= Cardinality(Open) - 1 /\ Cardinality(Open') \in Nat
    <3>1. Open' \in SUBSET Calls
      BY DEF Open
    <3>2. QED
      BY <2>1, <3>1, DatabaseParts, CallSets
  <2>3. SignIn!Total(signInsAdmitted') + Cardinality(Open') <= MaxSignIns
          + Cardinality(Calls)
    <3>1. SignIn!Total(signInsAdmitted) + Cardinality(Open) <= MaxSignIns
            + Cardinality(Calls)
      BY DEF DatabaseInv, DatabaseTypes
    <3>2. QED
      BY <1>1, <2>2, <3>1, DatabaseParts, CallSets
  <2>4. \A d \in Calls : limitCall'[d].stamp <= signInTime
    BY <1>2, DatabaseParts DEF SignIn!NoCall
  <2>5. SignInBag'
    BY <1>1, DatabaseParts DEF SignInBag
  <2>6. QED
    BY <1>2, <2>3, <2>4, <2>5 DEF DatabaseTypes
<1>4. RowsCovered'
  <2>1. \A window \in SignIn!Windows : Covered(window) => CoveredNext(window)
    <3>1. ASSUME NEW window \in SignIn!Windows, Covered(window) PROVE CoveredNext(window)
      <4>1. window.windowStart \in Int /\ window.count \in Nat /\ signInTime \in Int
        BY DatabaseParts, SignInTimesAre DEF SignIn!Windows
      <4>2. SignInsIn(window.windowStart, signInTime) \in Nat
        BY <4>1, DatabaseParts DEF SignInNatural
      <4>3. SignInsInNext(window.windowStart, signInTime) =
              SignInsIn(window.windowStart, signInTime)
                + (IF window.windowStart <= signInTime /\ signInTime <= signInTime
                   THEN 1 ELSE 0)
        BY <1>1, <4>1
      <4>4. QED
        BY <3>1, <4>1, <4>2, <4>3 DEF Covered, CoveredNext
    <3>2. QED
      BY <3>1
  <2>2. \A d \in Calls : limitCall'[d].pc = "check" => CoveredNext(limitCall'[d].row)
    BY <1>2, <2>1, DatabaseParts DEF DatabaseInv, RowsCovered, SignIn!NoCall
  <2>3. QED
    BY <2>2 DEF RowsCovered, Covered, CoveredNext, SignInsIn, SignInsInNext
<1>5. RoomTaken'
  BY DEF RoomTaken
<1>6. SignIn!RefusedOnlyWhenFull'
  BY DEF SignIn!RefusedOnlyWhenFull, SignIn!Admit
<1>7. QED
  BY <1>3, <1>4, <1>5, <1>6 DEF DatabaseInv

(* A call begins, or has read the row, or finds that it is too late.       *)
LEMMA SignInStartKeeps ==
  ASSUME SignIn!DatabaseAssumption, DatabaseInv, NEW c \in Calls, SignIn!Start(c),
         UNCHANGED signInTime
  PROVE  DatabaseInv'
<1>1. /\ UNCHANGED <<signInTime, rateLimit, signInsAdmitted, signInRefused>>
      /\ limitCall' \in [Calls -> LimitCalls] /\ SignIn!Total(signInsAdmitted) < MaxSignIns
      /\ limitCall'[c].pc = "find" /\ limitCall'[c].stamp = signInTime
      /\ \A d \in Calls \ {c} : limitCall'[d] = limitCall[d]
  <2>1. 0 \in SignIn!Times /\ signInTime \in SignIn!Times
    BY DatabaseParts DEF SignIn!Times, SignIn!LimitAssumption, SignInBag
  <2>2. [pc |-> "find", stamp |-> signInTime, row |-> SignIn!NoWindow] \in LimitCalls
    BY <2>1 DEF LimitCalls, SignIn!NoWindow, SignIn!Windows
  <2>3. QED
    BY <2>2, DatabaseParts DEF SignIn!Start
<1>2. Passing' \subseteq Passing
  BY <1>1 DEF Passing, SignIn!Expired, SignIn!Full
<1>3. SignIn!Total(signInsAdmitted) + Cardinality(Open') <= MaxSignIns + Cardinality(Calls)
  <2>1. Open' \in SUBSET Calls
    BY DEF Open
  <2>2. Cardinality(Open') \in Nat /\ Cardinality(Open') <= Cardinality(Calls)
    BY <2>1, CallSets
  <2>3. QED
    BY <1>1, <2>2, DatabaseParts, CallSets
<1>4. \A d \in Calls :
        /\ limitCall'[d].stamp <= signInTime
        /\ limitCall'[d].pc = "check" => limitCall'[d] = limitCall[d]
  BY <1>1, DatabaseParts
<1>5. QED
  BY <1>1, <1>2, <1>3, <1>4, CallMoves, NobodyRefused

(* A call that goes on to another statement, without a row.                *)
LEMMA CallGoesOn ==
  ASSUME SignIn!DatabaseAssumption, DatabaseInv, NEW c \in Calls, limitCall[c].pc # "idle",
         UNCHANGED <<signInTime, rateLimit, signInsAdmitted>>,
         limitCall' \in [Calls -> LimitCalls],
         SignIn!RefusedOnlyWhenFull', limitCall'[c].stamp <= signInTime,
         limitCall'[c].pc # "check",
         \A d \in Calls \ {c} : limitCall'[d] = limitCall[d]
  PROVE  DatabaseInv'
<1>1. Open' \subseteq Open
  BY DEF Open
<1>2. Cardinality(Open') \in Nat /\ Cardinality(Open') <= Cardinality(Open)
  <2>1. Open' \in SUBSET Calls
    BY DEF Open
  <2>2. QED
    BY <1>1, <2>1, DatabaseParts, CallSets
<1>3. SignIn!Total(signInsAdmitted) + Cardinality(Open') <= MaxSignIns + Cardinality(Calls)
  <2>1. SignIn!Total(signInsAdmitted) + Cardinality(Open) <= MaxSignIns + Cardinality(Calls)
    BY DEF DatabaseInv, DatabaseTypes
  <2>2. QED
    BY <1>2, <2>1, DatabaseParts, CallSets
<1>4. Passing' \subseteq Passing
  BY DEF Passing, SignIn!Expired, SignIn!Full
<1>5. \A d \in Calls :
        /\ limitCall'[d].stamp <= signInTime
        /\ limitCall'[d].pc = "check" => limitCall'[d] = limitCall[d]
  BY DatabaseParts
<1>6. QED
  BY <1>3, <1>4, <1>5, CallMoves

(* A call reads the row,                                                   *)
LEMMA FindRowKeeps ==
  ASSUME SignIn!DatabaseAssumption, DatabaseInv, NEW c \in Calls, SignIn!FindRow(c),
         UNCHANGED signInTime
  PROVE  DatabaseInv'
<1>1. /\ UNCHANGED <<signInTime, rateLimit, signInsAdmitted, signInRefused>>
      /\ limitCall[c].pc \in {"find", "findAgain"}
  BY DEF SignIn!FindRow
<1>2. SignIn!NoCall \in LimitCalls /\ SignIn!NoCall.stamp <= signInTime
  <2>1. 0 \in SignIn!Times
    BY DatabaseParts DEF SignIn!Times, SignIn!LimitAssumption
  <2>2. QED
    BY <2>1, DatabaseParts DEF SignIn!NoCall, LimitCalls, SignIn!NoWindow, SignIn!Windows
<1>3. CASE /\ rateLimit # SignIn!NoWindow
           /\ limitCall' = [limitCall EXCEPT ![c].row = rateLimit, ![c].pc = "check"]
  <2>1. /\ limitCall' \in [Calls -> LimitCalls] /\ limitCall'[c].row = rateLimit
        /\ limitCall'[c].stamp = limitCall[c].stamp
        /\ \A d \in Calls \ {c} : limitCall'[d] = limitCall[d]
    BY <1>3, DatabaseParts DEF LimitCalls
  <2>2. Passing' \subseteq Passing \/ rateLimit.count < signInCount
    <3>1. c \in Passing' => rateLimit.count < signInCount
      BY <2>1, DatabaseParts DEF Passing, SignIn!Full
    <3>2. Passing' \subseteq Passing \cup {c}
      BY <2>1 DEF Passing, SignIn!Expired, SignIn!Full
    <3>3. QED
      BY <3>1, <3>2
  <2>3. Open' = Open
    BY <1>1, <1>3, <2>1, DatabaseParts DEF Open
  <2>4. SignIn!Total(signInsAdmitted) + Cardinality(Open') <= MaxSignIns
          + Cardinality(Calls)
    BY <2>3 DEF DatabaseInv, DatabaseTypes
  <2>5. \A d \in Calls : /\ limitCall'[d].stamp <= signInTime
                         /\ \/ limitCall'[d] = limitCall[d]
                            \/ limitCall'[d].row = rateLimit /\ rateLimit # SignIn!NoWindow
    BY <1>3, <2>1, DatabaseParts
  <2>6. QED
    BY <1>1, <2>1, <2>2, <2>4, <2>5, CallMoves, NobodyRefused
<1>4. CASE \/ limitCall' = [limitCall EXCEPT ![c].pc = "create"]
           \/ limitCall' = [limitCall EXCEPT ![c] = SignIn!NoCall]
  <2>1. /\ limitCall' \in [Calls -> LimitCalls] /\ limitCall'[c].stamp <= signInTime
        /\ limitCall'[c].pc # "check"
        /\ \A d \in Calls \ {c} : limitCall'[d] = limitCall[d]
    BY <1>2, <1>4, DatabaseParts DEF LimitCalls, SignIn!NoCall
  <2>2. QED
    BY <1>1, <2>1, CallGoesOn, NobodyRefused
<1>5. QED
  BY <1>3, <1>4 DEF SignIn!FindRow, SignIn!Return

(* A call writes a new row, and is the first the row counts.               *)
LEMMA FreshAdmits ==
  ASSUME SignIn!DatabaseAssumption, DatabaseInv, NEW c \in Calls, limitCall[c].pc # "idle",
         rateLimit' = SignIn!Fresh(c), SignIn!Admit, SignIn!Return(c), UNCHANGED signInTime
  PROVE  DatabaseInv'
<1> DEFINE stamp == limitCall[c].stamp
<1>1. stamp \in SignIn!Times /\ stamp \in Int /\ signInTime \in Int /\ stamp <= signInTime
  BY DatabaseParts, SignInTimesAre DEF LimitCalls
<1>2. /\ rateLimit' \in SignIn!Windows /\ rateLimit'.count = 1
      /\ rateLimit'.windowStart = stamp
  BY <1>1 DEF SignIn!Fresh, SignIn!Windows
<1>3. CoveredNext(rateLimit')
  <2>1. SignInsInNext(stamp, signInTime) = SignInsIn(stamp, signInTime)
          + (IF stamp <= signInTime /\ signInTime <= signInTime THEN 1 ELSE 0)
    BY <1>1, DatabaseParts, SignInAdmitCounts
  <2>2. SignInsIn(stamp, signInTime) \in Nat
    BY <1>1, DatabaseParts DEF SignInNatural
  <2>3. SignInsInNext(stamp, signInTime) >= 1
    BY <1>1, <2>1, <2>2
  <2>4. QED
    BY <1>1, <1>2, <2>3 DEF CoveredNext
<1>4. rateLimit'.count + Cardinality(Passing') <= signInCount + Cardinality(Calls) - 1
  <2>1. Passing' \subseteq Calls \ {c} /\ Passing' \in SUBSET Calls
    BY DatabaseParts DEF Passing, SignIn!Return, SignIn!NoCall
  <2>2. Cardinality(Passing') <= Cardinality(Calls) - 1 /\ Cardinality(Passing') \in Nat
    BY <2>1, CallSets
  <2>3. QED
    BY <1>2, <2>2, DatabaseParts, CallSets
<1>5. QED
  BY <1>2, <1>3, <1>4, CallAdmits

(* creates it if there was none,                                           *)
LEMMA CreateRowKeeps ==
  ASSUME SignIn!DatabaseAssumption, DatabaseInv, NEW c \in Calls, SignIn!CreateRow(c),
         UNCHANGED signInTime
  PROVE  DatabaseInv'
<1>1. limitCall[c].pc = "create"
  BY DEF SignIn!CreateRow
<1>2. CASE rateLimit = SignIn!NoWindow
  <2>1. rateLimit' = SignIn!Fresh(c) /\ SignIn!Admit /\ SignIn!Return(c)
    BY <1>2 DEF SignIn!CreateRow
  <2>2. QED
    BY <1>1, <2>1, FreshAdmits
<1>3. CASE rateLimit # SignIn!NoWindow
  <2>1. /\ UNCHANGED <<signInTime, rateLimit, signInsAdmitted, signInRefused>>
        /\ limitCall' = [limitCall EXCEPT ![c].pc = "findAgain"]
    BY <1>3 DEF SignIn!CreateRow
  <2>2. /\ limitCall' \in [Calls -> LimitCalls] /\ limitCall'[c].stamp <= signInTime
        /\ limitCall'[c].pc # "check"
        /\ \A d \in Calls \ {c} : limitCall'[d] = limitCall[d]
    BY <2>1, DatabaseParts DEF LimitCalls
  <2>3. QED
    BY <1>1, <2>1, <2>2, CallGoesOn, NobodyRefused
<1>4. QED
  BY <1>2, <1>3

(* and writes what it made of what it read.                                *)
LEMMA UpdateRowKeeps ==
  ASSUME SignIn!DatabaseAssumption, DatabaseInv, NEW c \in Calls, SignIn!UpdateRow(c),
         UNCHANGED signInTime
  PROVE  DatabaseInv'
<1> DEFINE record == limitCall[c].row
           stamp == limitCall[c].stamp
<1>1. /\ limitCall[c].pc = "check" /\ SignIn!Return(c) /\ Covered(record)
      /\ record.count \in Nat /\ record.windowStart \in Int /\ stamp \in Int
      /\ stamp <= signInTime
      /\ signInTime \in Int
  BY DatabaseParts, SignInTimesAre
     DEF SignIn!UpdateRow, DatabaseInv, RowsCovered, LimitCalls, SignIn!Windows
<1>2. /\ limitCall' \in [Calls -> LimitCalls] /\ limitCall'[c].stamp <= signInTime
      /\ limitCall'[c].pc # "check"
      /\ \A d \in Calls \ {c} : limitCall'[d] = limitCall[d]
  <2>1. /\ SignIn!NoCall \in LimitCalls /\ SignIn!NoCall.stamp <= signInTime
        /\ SignIn!NoCall.pc = "idle"
    <3>1. 0 \in SignIn!Times
      BY DatabaseParts DEF SignIn!Times, SignIn!LimitAssumption
    <3>2. QED
      BY <3>1, DatabaseParts DEF SignIn!NoCall, LimitCalls, SignIn!NoWindow, SignIn!Windows
  <2>2. limitCall' = [limitCall EXCEPT ![c] = SignIn!NoCall]
    BY <1>1 DEF SignIn!Return
  <2>3. QED
    BY <2>1, <2>2, DatabaseParts
<1>3. CASE /\ ~SignIn!Expired(record, stamp) /\ SignIn!Full(record)
           /\ SignIn!Refuse(stamp) /\ UNCHANGED rateLimit
  <2>1. SignIn!RefusedOnlyWhenFull'
    <3>1. /\ stamp - signInWindowMs \in Int /\ stamp - signInWindowMs <= record.windowStart
          /\ record.count >= signInCount
      BY <1>1, <1>3, DatabaseParts DEF SignIn!Expired, SignIn!Full
    <3>2. SignInsIn(record.windowStart, signInTime) <= SignInsIn(stamp - signInWindowMs,
            signInTime)
      BY <1>1, <3>1, DatabaseParts DEF SignInMonotone
    <3>3. /\ SignInsIn(record.windowStart, signInTime) \in Nat
          /\ SignInsIn(stamp - signInWindowMs, signInTime) \in Nat
      BY <1>1, <3>1, DatabaseParts DEF SignInNatural
    <3>4. SignInsIn(stamp - signInWindowMs, signInTime) >= signInCount
      BY <1>1, <3>1, <3>2, <3>3, DatabaseParts DEF Covered
    <3>5. signInRefused' = <<stamp, signInTime>> /\ signInsAdmitted' = signInsAdmitted
      BY <1>3 DEF SignIn!Refuse
    <3>6. SignIn!Within(signInsAdmitted', signInRefused'[1] - signInWindowMs,
            signInRefused'[2]) = SignInsIn(stamp - signInWindowMs, signInTime)
      BY <3>5, SignInsInIs
    <3>7. QED
      BY <3>4, <3>6 DEF SignIn!RefusedOnlyWhenFull
  <2>2. QED
    BY <1>1, <1>2, <1>3, <2>1, CallGoesOn DEF SignIn!Refuse
<1>4. CASE UNCHANGED <<rateLimit, signInsAdmitted, signInRefused>>
  BY <1>1, <1>2, <1>4, CallGoesOn, NobodyRefused
<1>5. CASE rateLimit' = SignIn!Fresh(c) /\ SignIn!Admit
  BY <1>1, <1>5, FreshAdmits
<1>6. CASE /\ ~SignIn!Expired(record, stamp) /\ ~SignIn!Full(record)
           /\ rateLimit # SignIn!NoWindow
           /\ rateLimit' = [rateLimit EXCEPT !.count = @ + 1] /\ SignIn!Admit
  <2> DEFINE start == rateLimit.windowStart
  <2>1. /\ rateLimit' \in SignIn!Windows /\ rateLimit'.count = rateLimit.count + 1
        /\ rateLimit'.windowStart = start /\ start \in Int
    BY <1>6, DatabaseParts, SignInTimesAre DEF SignIn!Windows
  <2>2. CoveredNext(rateLimit')
    <3>1. rateLimit.count <= SignInsIn(start, signInTime)
      BY <1>6 DEF DatabaseInv, RowsCovered, Covered
    <3>2. SignInsIn(start, signInTime) \in Nat
      BY <1>1, <2>1, DatabaseParts DEF SignInNatural
    <3>3. start <= signInTime
      BY <1>6 DEF DatabaseInv, RowsCovered, Covered
    <3>4. SignInsInNext(start, signInTime) = SignInsIn(start, signInTime)
            + (IF start <= signInTime /\ signInTime <= signInTime THEN 1 ELSE 0)
      BY <1>1, <1>6, <2>1, DatabaseParts, SignInAdmitCounts
    <3>5. QED
      BY <1>1, <2>1, <3>1, <3>2, <3>3, <3>4, DatabaseParts DEF CoveredNext
  <2>3. rateLimit'.count + Cardinality(Passing') <= signInCount + Cardinality(Calls) - 1
    <3>1. c \in Passing /\ Passing' \subseteq Passing \ {c} /\ Passing' \in SUBSET Calls
      BY <1>1, <1>2, <1>6 DEF Passing, SignIn!Expired, SignIn!Full
    <3>2. Cardinality(Passing') <= Cardinality(Passing) - 1 /\ Cardinality(Passing') \in Nat
      BY <3>1, DatabaseParts, CallSets
    <3>3. rateLimit.count + Cardinality(Passing) <= signInCount + Cardinality(Calls) - 1
      BY DEF DatabaseInv, RoomTaken
    <3>4. QED
      BY <2>1, <3>2, <3>3, DatabaseParts, CallSets
  <2>4. QED
    BY <1>1, <1>6, <2>1, <2>2, <2>3, CallAdmits
<1>7. QED
  BY <1>3, <1>4, <1>5, <1>6 DEF SignIn!UpdateRow

\* the retention job: without a row all calls may be admitted again
LEMMA CleanKeeps ==
  ASSUME SignIn!DatabaseAssumption, DatabaseInv, SignIn!CleanRateLimits,
         UNCHANGED signInTime
  PROVE  DatabaseInv'
<1>1. /\ UNCHANGED <<signInTime, limitCall, signInsAdmitted, signInRefused>>
      /\ rateLimit' = SignIn!NoWindow
  BY DEF SignIn!CleanRateLimits
<1>2. SignIn!NoWindow \in SignIn!Windows /\ SignIn!NoWindow.count = 0
  <2>1. 0 \in SignIn!Times
    BY DatabaseParts DEF SignIn!Times, SignIn!LimitAssumption
  <2>2. QED
    BY <2>1 DEF SignIn!NoWindow, SignIn!Windows
<1>3. Passing' = Passing /\ Open' = Open
  BY <1>1 DEF Passing, Open, SignIn!Expired, SignIn!Full
<1>4. DatabaseTypes'
  BY <1>1, <1>2, <1>3 DEF DatabaseInv, DatabaseTypes, SignInBag
<1>5. RowsCovered'
  <2>1. \A window : CoveredNext(window) <=> Covered(window)
    BY <1>1 DEF Covered, CoveredNext, SignInsIn, SignInsInNext
  <2>2. \A c \in Calls : limitCall'[c].pc = "check" => CoveredNext(limitCall'[c].row)
    BY <1>1, <2>1 DEF DatabaseInv, RowsCovered
  <2>3. QED
    BY <1>1, <2>2 DEF RowsCovered, Covered, CoveredNext, SignInsIn, SignInsInNext
<1>6. RoomTaken'
  <2>1. rateLimit.count + Cardinality(Passing) <= signInCount + Cardinality(Calls) - 1
    BY DEF DatabaseInv, RoomTaken
  <2>2. rateLimit'.count + Cardinality(Passing') <= signInCount + Cardinality(Calls) - 1
    BY <1>1, <1>2, <1>3, <2>1, DatabaseParts, CallSets
  <2>3. QED
    BY <2>2 DEF RoomTaken
<1>7. QED
  BY <1>1, <1>4, <1>5, <1>6, NobodyRefused DEF DatabaseInv

(* Every step of the limiter of the sign-in keeps its invariant.           *)
LEMMA DatabaseStep ==
  ASSUME SignIn!DatabaseAssumption, DatabaseInv, SignIn!Next PROVE DatabaseInv'
<1>1. CASE SignIn!Tick
  BY <1>1, SignInTickKeeps
<1>2. ASSUME NEW c \in Calls, UNCHANGED signInTime,
             \/ SignIn!Start(c) \/ SignIn!FindRow(c)
             \/ SignIn!CreateRow(c) \/ SignIn!UpdateRow(c)
      PROVE  DatabaseInv'
  BY <1>2, SignInStartKeeps, FindRowKeeps, CreateRowKeeps, UpdateRowKeeps
<1>3. CASE SignIn!CleanRateLimits /\ UNCHANGED signInTime
  BY <1>3, CleanKeeps
<1>4. QED
  BY <1>1, <1>2, <1>3 DEF SignIn!Next

(* Nobody asked yet.                                                       *)
LEMMA DatabaseInitially == ASSUME SignIn!DatabaseAssumption, SignIn!Init PROVE DatabaseInv
<1>1. /\ signInTime = 0 /\ 0 \in SignIn!Times /\ signInsAdmitted \in [SignIn!Times -> Nat]
      /\ \A t \in SignIn!Times : signInsAdmitted[t] = 0
      /\ signInRefused = <<>> /\ rateLimit = SignIn!NoWindow
      /\ limitCall = [c \in Calls |-> SignIn!NoCall]
  BY SignInTimesAre
     DEF SignIn!Init, SignIn!NobodyAsked, SignIn!DatabaseAssumption, SignIn!Times,
         SignIn!LimitAssumption
<1>2. /\ IsFiniteSet(SignIn!Times) /\ signInCount \in Nat \ {0} /\ MaxSignIns \in Nat
      /\ SignIn!LimitAssumption
  BY SignInTimesAre DEF SignIn!DatabaseAssumption, SignIn!LimitAssumption
<1>3. SignIn!Total(signInsAdmitted) = 0
  <2>1. signInsAdmitted \in [SignIn!Times -> Int]
    BY <1>1
  <2>2. QED
    BY <1>1, <1>2, <2>1, SumZero DEF SignIn!Total
<1>4. /\ limitCall \in [Calls -> LimitCalls] /\ rateLimit \in SignIn!Windows
      /\ rateLimit.count = 0
      /\ \A c \in Calls : limitCall[c].stamp <= signInTime /\ limitCall[c].pc = "idle"
  BY <1>1 DEF SignIn!NoCall, LimitCalls, SignIn!NoWindow, SignIn!Windows
<1>5. Cardinality(Open) = 0 /\ Cardinality(Passing) = 0
  <2>1. Open = {} /\ Passing = {}
    BY <1>4 DEF Open, Passing
  <2>2. QED
    BY <2>1, FS_EmptySet
<1>6. DatabaseTypes
  <2>1. SignInBag
    BY <1>1 DEF SignInBag
  <2>2. QED
    BY <1>2, <1>3, <1>4, <1>5, <2>1, CallSets DEF DatabaseTypes
<1>7. RowsCovered
  BY <1>1, <1>4 DEF RowsCovered
<1>8. RoomTaken
  BY <1>2, <1>4, <1>5, CallSets DEF RoomTaken
<1>9. SignIn!RefusedOnlyWhenFull
  BY <1>1 DEF SignIn!RefusedOnlyWhenFull
<1>10. QED
  BY <1>6, <1>7, <1>8, <1>9 DEF DatabaseInv

(* What is said of the limiter follows from its invariant.                 *)
LEMMA DatabaseTyped ==
  ASSUME SignIn!DatabaseAssumption, DatabaseInv
  PROVE  SignIn!TypeOK /\ SignIn!OvershootBounded /\ SignIn!RefusedOnlyWhenFull
<1>1. \A t \in SignIn!Times : signInsAdmitted[t] <= SignIn!Total(signInsAdmitted)
  BY DatabaseParts, SumNat, SignInOperators DEF SignIn!Total, SignInBag
<1>2. SignIn!Total(signInsAdmitted) <= MaxSignIns + Cardinality(Calls)
  <2>1. SignIn!Total(signInsAdmitted) + Cardinality(Open) <= MaxSignIns + Cardinality(Calls)
    BY DEF DatabaseInv, DatabaseTypes
  <2>2. QED
    BY <2>1, DatabaseParts, CallSets
<1>3. signInsAdmitted \in [SignIn!Times -> 0..MaxSignIns + Cardinality(Calls)]
  <2>1. \A t \in SignIn!Times : signInsAdmitted[t] \in 0..MaxSignIns + Cardinality(Calls)
    BY <1>1, <1>2, DatabaseParts, CallSets DEF SignInBag
  <2>2. QED
    BY <2>1, DatabaseParts DEF SignInBag
<1>4. SignIn!OvershootBounded
  <2>1. rateLimit.count + Cardinality(Passing) <= signInCount + Cardinality(Calls) - 1
    BY DEF DatabaseInv, RoomTaken
  <2>2. QED
    BY <2>1, DatabaseParts, CallSets, SignInOperators DEF SignIn!OvershootBounded
<1>5. QED
  BY <1>3, <1>4, DatabaseParts, SignInOperators
     DEF SignIn!TypeOK, LimitCalls, DatabaseInv, SignInBag
=============================================================================
