------------------------------ MODULE Ingestion ------------------------------
(***************************************************************************)
(* Recording deploys (MiningEventIngestionService.ingestDeployment) and    *)
(* announcing them.  The same transaction is brought in by the client that *)
(* sent it, by the two log subscriptions and by the backfill, each in a    *)
(* call of its own; all of them run the same code against one database.    *)
(*                                                                         *)
(* Every await is a step.  A database transaction keeps what it inserted   *)
(* and updated locked, and invisible to others, until it commits: an       *)
(* insert of a key that is being inserted waits, and fails (P2002) if the  *)
(* other one commits; the row of the miner serialises the transactions of  *)
(* one wallet.  A transaction holds one deploy, as the client builds them. *)
(*                                                                         *)
(* External: the chain, the locks of the database, who calls.              *)
(***************************************************************************)
EXTENDS Integers, FiniteSets, Functions

CONSTANTS
  Txs, Wallets, Rounds,
  WalletOf, RoundOf,      \* Txs -> Wallets, Txs -> Rounds
  Mask,                   \* Txs -> squares asked for
  Callers,                \* calls that may be under way at once
  Attempts,               \* of findDeploymentByHashWithRetry
  MaxFailures,            \* bound: calls that fail or die
  MaxMinerChanges         \* bound: account notifications of miners

IngestionAssumption ==
  /\ IsFiniteSet(Txs) /\ Txs # {}
  /\ WalletOf \in [Txs -> Wallets] /\ RoundOf \in [Txs -> Rounds]
  /\ \A t \in Txs : Mask[t] \subseteq Nat /\ IsFiniteSet(Mask[t])
  /\ Attempts \in Nat \ {0} /\ {MaxFailures, MaxMinerChanges} \subseteq Nat

VARIABLES
  charged,            \* chain: the squares a transaction paid for; {}: not landed
  deployment,         \* the row of a transaction: squares, amount; squares {}: none
  rounds,             \* rounds that have a row
  participants,       \* rows of round_participants
  roundsPlayed, lifetimeDeployed,     \* columns of the miners
  call,
  announced,          \* broadcasts of each deploy
  failures, minerChanges

chain == <<charged>>
tables == <<deployment, rounds, participants, roundsPlayed>>
counts == <<failures, minerChanges>>
vars == <<chain, tables, lifetimeDeployed, call, announced, counts>>

Places == {"idle", "find", "dup", "round", "create", "miner", "book", "announce", "again"}
NoDeployment == [squares |-> {}, amount |-> 0]
Recorded(t) == deployment[t] # NoDeployment
Landed(t) == charged[t] # {}
Seat(t) == <<RoundOf[t], WalletOf[t]>>

\* handle_deploy charges the squares the miner does not hold yet
Held(w, r) == UNION {charged[t] : t \in {u \in Txs : Seat(u) = <<r, w>>}}
Deploy(t) ==
  /\ ~Landed(t)
  /\ LET selected == Mask[t] \ Held(WalletOf[t], RoundOf[t])
     IN selected # {} /\ charged' = [charged EXCEPT ![t] = selected]
  /\ UNCHANGED <<tables, lifetimeDeployed, call, announced, counts>>

\* the event says mask and total_squares; too few: the lowest of the mask
Lowest(S, n) == {s \in S : Cardinality({u \in S : u < s}) < n}
DecodeSquares(mask, total) == IF total > 0 THEN Lowest(mask, total) ELSE mask
\* mutant: an amount for every square of the mask
DeploymentOfMask(t) == [squares |-> DecodeSquares(Mask[t], Cardinality(charged[t])),
                        amount  |-> Cardinality(Mask[t])]
Deployment(t) == [squares |-> DecodeSquares(Mask[t], Cardinality(charged[t])),
                  amount  |-> Cardinality(charged[t])]
-----------------------------------------------------------------------------
NoCall == [pc |-> "idle", tx |-> CHOOSE t \in Txs : TRUE, first |-> FALSE, tries |-> 0]

GoTo(c, p) == call' = [call EXCEPT ![c].pc = p]
Return(c) == call' = [call EXCEPT ![c] = NoCall]

Start(c, t) ==
  /\ call[c].pc = "idle" /\ Landed(t)
  /\ call' = [call EXCEPT ![c] = [NoCall EXCEPT !.pc = "find", !.tx = t]]
  /\ UNCHANGED <<chain, tables, lifetimeDeployed, announced, counts>>

\* mutant: a deploy that was there is announced as well
FindAnnounced(c, at, next) ==
  /\ call[c].pc = at
  /\ GoTo(c, IF Recorded(call[c].tx) THEN "announce" ELSE next)
  /\ UNCHANGED tables
\* findUnique, outside the transaction and again as its first statement
Find(c, at, next) ==
  /\ call[c].pc = at
  /\ IF Recorded(call[c].tx) THEN Return(c) ELSE GoTo(c, next)
  /\ UNCHANGED tables

FindRound(c) ==
  /\ call[c].pc = "round"
  /\ call' = IF RoundOf[call[c].tx] \in rounds
               THEN [call EXCEPT ![c].pc = "miner"]
               ELSE [call EXCEPT ![c].pc = "create", ![c].first = TRUE]
  /\ UNCHANGED tables

\* the uncommitted row of a round, and the locked row of a miner
Inserting(r) == {c \in Callers : /\ call[c].pc \in {"miner", "book"} /\ call[c].first
                                 /\ RoundOf[call[c].tx] = r}
Locking(w) == {c \in Callers : call[c].pc = "book" /\ WalletOf[call[c].tx] = w}

CreateRound(c) ==
  /\ call[c].pc = "create"
  /\ Inserting(RoundOf[call[c].tx]) = {}
  /\ GoTo(c, IF RoundOf[call[c].tx] \in rounds THEN "again" ELSE "miner")
  /\ UNCHANGED tables

UpsertMiner(c) ==
  /\ call[c].pc = "miner"
  /\ Locking(WalletOf[call[c].tx]) = {}
  /\ GoTo(c, "book")
  /\ UNCHANGED tables

\* mutant: one more for every deploy
PlayedAlways(t) == [roundsPlayed EXCEPT ![WalletOf[t]] = @ + 1]
\* roundsPlayed counts a seat that createMany did not skip
Played(t) ==
  IF Seat(t) \in participants THEN roundsPlayed
  ELSE [roundsPlayed EXCEPT ![WalletOf[t]] = @ + 1]

Commit(t) ==
  /\ deployment' = [deployment EXCEPT ![t] = Deployment(t)]
  /\ rounds' = rounds \union {RoundOf[t]}
  /\ participants' = participants \union {Seat(t)}
  /\ roundsPlayed' = Played(t)
  /\ lifetimeDeployed' = [lifetimeDeployed EXCEPT ![WalletOf[t]] = @ + Deployment(t).amount]

\* mutant: createMany without skipDuplicates
BookUnskipped(c) ==
  /\ call[c].pc = "book"
  /\ LET t == call[c].tx IN
     \/ Seat(t) \notin participants /\ Commit(t) /\ GoTo(c, "announce")
     \/ Seat(t) \in participants /\ GoTo(c, "again") /\ UNCHANGED <<tables, lifetimeDeployed>>
\* the rest of the transaction: seat, statistics, row, commit or P2002
Book(c) ==
  /\ call[c].pc = "book"
  /\ LET t == call[c].tx IN
     \/ ~Recorded(t) /\ Commit(t) /\ GoTo(c, "announce")
     \/ Recorded(t) /\ GoTo(c, "again") /\ UNCHANGED <<tables, lifetimeDeployed>>

\* mutant: one attempt too many
AgainLate(c) ==
  /\ call[c].pc = "again"
  /\ IF Recorded(call[c].tx) \/ call[c].tries > Attempts
       THEN Return(c) ELSE call' = [call EXCEPT ![c].tries = @ + 1]
  /\ UNCHANGED tables
\* mutant: until the row is there
AgainUncounted(c) ==
  /\ call[c].pc = "again" /\ Recorded(call[c].tx) /\ Return(c)
  /\ UNCHANGED tables
\* findDeploymentByHashWithRetry
Again(c) ==
  /\ call[c].pc = "again"
  /\ IF Recorded(call[c].tx) \/ call[c].tries + 1 >= Attempts
       THEN Return(c) ELSE call' = [call EXCEPT ![c].tries = @ + 1]
  /\ UNCHANGED tables
\* broadcastNewDeploy, for a deploy this call created
Announce(c) ==
  /\ call[c].pc = "announce"
  /\ announced' = [announced EXCEPT ![call[c].tx] = @ + 1]
  /\ Return(c)
  /\ UNCHANGED tables

\* an error of the database, a transaction that takes too long, a dying process
Fail(c) ==
  /\ call[c].pc # "idle" /\ failures < MaxFailures
  /\ failures' = failures + 1
  /\ Return(c)
  /\ UNCHANGED <<chain, tables, lifetimeDeployed, announced, minerChanges>>

\* account notifications: handleRoundChange and handleMinerChange
RoundChange(r) ==
  /\ r \notin rounds /\ Inserting(r) = {}
  /\ rounds' = rounds \union {r}
  /\ UNCHANGED <<chain, deployment, participants, roundsPlayed, lifetimeDeployed,
                 call, announced, counts>>

OnChain(w) ==
  SumFunction([t \in {u \in Txs : WalletOf[u] = w} |-> Cardinality(charged[t])])
MinerChange(w) ==
  /\ Locking(w) = {} /\ minerChanges < MaxMinerChanges
  /\ minerChanges' = minerChanges + 1
  /\ lifetimeDeployed' = [lifetimeDeployed EXCEPT ![w] = OnChain(w)]
  /\ UNCHANGED <<chain, tables, call, announced, failures>>
-----------------------------------------------------------------------------
Step(c) ==
  /\ \/ /\ \/ Find(c, "find", "dup") \/ Find(c, "dup", "round") \/ FindRound(c)
           \/ CreateRound(c) \/ UpsertMiner(c) \/ Again(c)
        /\ UNCHANGED <<lifetimeDeployed, announced>>
     \/ Announce(c) /\ UNCHANGED lifetimeDeployed
     \/ Book(c) /\ UNCHANGED announced
  /\ UNCHANGED <<chain, counts>>

Init ==
  /\ charged = [t \in Txs |-> {}]
  /\ deployment = [t \in Txs |-> NoDeployment]
  /\ rounds = {} /\ participants = {}
  /\ roundsPlayed = [w \in Wallets |-> 0] /\ lifetimeDeployed = [w \in Wallets |-> 0]
  /\ call = [c \in Callers |-> NoCall]
  /\ announced = [t \in Txs |-> 0]
  /\ failures = 0 /\ minerChanges = 0

Next ==
  \/ \E t \in Txs : Deploy(t)
  \/ \E c \in Callers, t \in Txs : Start(c, t)
  \/ \E c \in Callers : Step(c) \/ Fail(c)
  \/ \E r \in Rounds : RoundChange(r)
  \/ \E w \in Wallets : MinerChange(w)

\* the event loop and the database keep a call going
Fairness == \A c \in Callers : WF_vars(Step(c))
Spec == Init /\ [][Next]_vars /\ Fairness
-----------------------------------------------------------------------------
TypeOK ==
  /\ charged \in [Txs -> SUBSET UNION {Mask[t] : t \in Txs}]
  /\ \A t \in Txs : deployment[t].squares \subseteq Mask[t] /\ deployment[t].amount \in Nat
  /\ rounds \subseteq Rounds /\ participants \subseteq Rounds \X Wallets
  /\ roundsPlayed \in [Wallets -> Nat] /\ lifetimeDeployed \in [Wallets -> Nat]
  /\ call \in [Callers -> [pc : Places, tx : Txs, first : BOOLEAN, tries : 0..Attempts]]
  /\ announced \in [Txs -> Nat]
  /\ failures \in 0..MaxFailures /\ minerChanges \in 0..MaxMinerChanges

(* Whatever calls race, fail or repeat, the tables tell one story: a seat  *)
(* for exactly the rounds and wallets with a recorded deploy, roundsPlayed *)
(* counts the seats, and each deploy is worth what the chain charged.      *)
BooksMatch ==
  LET recorded == {t \in Txs : Recorded(t)} IN
  /\ participants = {Seat(t) : t \in recorded}
  /\ \A p \in participants : p[1] \in rounds
  /\ \A w \in Wallets : roundsPlayed[w] = Cardinality({p \in participants : p[2] = w})
  /\ \A t \in recorded : deployment[t].amount = Cardinality(charged[t])

(* A deploy is announced once at most, and never before it is recorded,    *)
(* though up to four calls bring it in.                                    *)
AnnouncedOnce ==
  \A t \in Txs : announced[t] = 0 \/ (announced[t] = 1 /\ Recorded(t))

(* ingestDeployment gives up on a deploy only if it lost the race to       *)
(* create the row of its round: a call that found the row either records   *)
(* its deploy or finds it recorded.                                        *)
GivesUpOnFirst ==
  \A c \in Callers :
    (call[c].pc = "again" /\ call'[c].pc = "idle" /\ failures' = failures)
      => (Recorded(call[c].tx) \/ call[c].first)
OnlyFirstDeploysDropped == [][GivesUpOnFirst]_vars

(* No call waits for ever on the locks of the others.                      *)
EveryCallReturns == \A c \in Callers : call[c].pc # "idle" ~> call[c].pc = "idle"

(* What README.md:89 promises of client reports: the row of a deploy is    *)
(* derived from the chain, so it names the squares the chain charged.      *)
RecordedSquaresCharged ==
  \A t \in Txs : Recorded(t) => deployment[t].squares = charged[t]

(* What the test of the ingestion says of lifetimeDeployed: a deploy adds  *)
(* its amount once.                                                        *)
LifetimeCountedOnce == \A w \in Wallets : lifetimeDeployed[w] <= OnChain(w)
=============================================================================
