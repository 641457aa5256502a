-------------------------- MODULE SchedulingProofs --------------------------
(***************************************************************************)
(* The crank's commits, for every number of replicas, rounds, failures and *)
(* restarts, with no lease to keep the replicas apart.  The argument: what *)
(* a replica remembers is true (ReplicaInv), so by the time it asks for a  *)
(* draw it has made sure of every earlier round; and a round cannot end    *)
(* unless it was asked for, so a replica that remembers nothing has only   *)
(* one round to look at.                                                   *)
(*                                                                         *)
(* Then the lease, and the two of them beside each other.                  *)
(***************************************************************************)
EXTENDS Scheduling, TLAPS

USE CrankAssumption DEF Rounds, NotObserved, Places

\* a round that is played is not the last; copies of the board are older
Bounds ==
  /\ board.round_id <= MaxRound
  /\ board.phase # "waiting" => board.round_id < MaxRound
  /\ baseBoard.round_id <= board.round_id
  /\ \A commit \in commits : commit.board.round_id <= board.round_id

ChainInv == Bounds /\ OnlyFinishedCommitted /\ NothingLeftBehind /\ NextRoundReady

\* what a replica remembers, or has concluded in this tick, is so
ReplicaInv(r) ==
  /\ tick[r].roundId <= board.round_id
  /\ memory[r].observedRoundId # NotObserved =>
       \A k \in Rounds : k < memory[r].observedRoundId => Sent(k)
  /\ \A k \in memory[r].committedRounds : Sent(k)
  /\ memory[r].preparedRounds \subseteq delegated
  /\ \A k \in Rounds : k < tick[r].completed => Sent(k)
  /\ pc[r] = "sendCommit" => HasCompleted(r)
  /\ pc[r] \in {"request", "cancel"} => ~HasCompleted(r)
  /\ pc[r] \in {"commit", "sendCommit", "request", "cancel"} =>
       NextRound(r) \in delegated

CrankInv == TypeOK /\ ChainInv /\ \A r \in Replicas : ReplicaInv(r)

LEMMA CrankInitially == Init => CrankInv
<1> SUFFICES ASSUME Init PROVE CrankInv
  OBVIOUS
<1>1. board \in Board /\ baseBoard \in Board
  BY DEF Init, Board, Phases
<1>2. Started \in Memory /\ NoTick \in Tick
  BY DEF Started, Memory, NoTick, Tick, Phases
<1>3. TypeOK
  <2>1. /\ pc \in [Replicas -> Places]
        /\ memory \in [Replicas -> Memory] /\ tick \in [Replicas -> Tick]
    BY <1>2 DEF Init
  <2>2. /\ prepared \subseteq Rounds /\ delegated \subseteq Rounds
        /\ core \subseteq {"treasury", "board"} /\ resolved \subseteq Rounds
        /\ commits \subseteq [round : Rounds, board : Board]
    BY DEF Init
  <2>3. initialized \in BOOLEAN /\ failures \in Nat /\ restarts \in Nat
    BY DEF Init
  <2> QED BY <1>1, <2>1, <2>2, <2>3 DEF TypeOK
<1>4. ChainInv
  BY DEF Init, ChainInv, Bounds, OnlyFinishedCommitted, NothingLeftBehind,
     NextRoundReady, Sent, Drawing
<1>5. ASSUME NEW r \in Replicas PROVE ReplicaInv(r)
  BY <1>5 DEF Init, ReplicaInv, Started, NoTick, Memory, Tick
<1> QED
  BY <1>3, <1>4, <1>5 DEF CrankInv

\* The game moves on: rounds grow, and nothing that was sent is lost.
GameGrows ==
  /\ board'.round_id >= board.round_id
  /\ delegated \subseteq delegated'
  /\ \A k \in Rounds : Sent(k) => Sent(k)'

\* A replica that does nothing keeps knowing what it knew.
LEMMA OthersKeep ==
  ASSUME TypeOK, TypeOK', GameGrows, NEW r \in Replicas, ReplicaInv(r),
         memory'[r] = memory[r], tick'[r] = tick[r], pc'[r] = pc[r]
  PROVE  ReplicaInv(r)'
<1>1. memory[r] \in Memory /\ tick[r] \in Tick /\ board \in Board /\ board' \in Board
  BY DEF TypeOK
<1>2. memory[r].committedRounds \subseteq Rounds
  BY <1>1 DEF Memory
<1>3. /\ tick[r].roundId \in Rounds
      /\ board.round_id \in Rounds /\ board'.round_id \in Rounds
  BY <1>1 DEF Tick, Board
<1> QED
  BY <1>2, <1>3 DEF ReplicaInv, GameGrows, HasCompleted, NextRound

\* A replica whose tick is over is left with what it remembers.
LEMMA DoneKeeps ==
  ASSUME TypeOK, TypeOK', GameGrows, NEW r \in Replicas, Done(r),
         \A s \in Replicas : ReplicaInv(s), memory' = memory
  PROVE  \A s \in Replicas : ReplicaInv(s)'
<1> SUFFICES ASSUME NEW s \in Replicas PROVE ReplicaInv(s)'
  OBVIOUS
<1>0. /\ pc' = [pc EXCEPT ![r] = "idle"] /\ tick' = [tick EXCEPT ![r] = NoTick]
  BY DEF Done, GoTo
<1>1. CASE s # r
  BY <1>0, <1>1, OthersKeep DEF TypeOK
<1>2. CASE s = r
  <2>1. tick'[r].roundId = 0 /\ tick'[r].completed = 0 /\ pc'[r] = "idle"
    BY <1>0 DEF TypeOK, NoTick
  <2>2. memory[r].committedRounds \subseteq Rounds
    BY DEF TypeOK, Memory
  <2>3. board'.round_id \in Rounds
    BY DEF TypeOK, Board
  <2> QED BY <1>2, <2>1, <2>2, <2>3 DEF ReplicaInv, GameGrows
<1> QED BY <1>1, <1>2

-----------------------------------------------------------------------------
(***************************************************************************)
(* Steps of the game.                                                      *)
(***************************************************************************)
LEMMA BetKeeps == CrankInv /\ Bet => CrankInv'
<1> SUFFICES ASSUME CrankInv, Bet PROVE CrankInv'
  OBVIOUS
<1>1. board'.round_id = board.round_id /\ board'.phase = "betting" /\ board' \in Board
  BY DEF CrankInv, TypeOK, Bet, Board, Phases
<1>2. TypeOK'
  BY <1>1 DEF CrankInv, TypeOK, Bet, base, counts
<1>3. ChainInv'
  BY <1>1 DEF CrankInv, ChainInv, Bet, base, Bounds, OnlyFinishedCommitted,
     NothingLeftBehind, NextRoundReady, Sent, Drawing
<1>4. GameGrows
  BY <1>1 DEF GameGrows, Bet, base, Sent, CrankInv, TypeOK, Board
<1> QED
  BY <1>2, <1>3, <1>4, OthersKeep DEF CrankInv, Bet

\* The clock starts no draw that was not asked for.
LEMMA LaterKeeps ==
  ASSUME CrankInv, Deadline \/ VrfTimeout
  PROVE  CrankInv'
<1>1. /\ board'.round_id = board.round_id /\ board' \in Board
      /\ board.phase # "waiting" /\ Drawing' = Drawing
      /\ UNCHANGED <<base, baseBoard, commits, resolved, pc, memory, tick, counts>>
  BY DEF CrankInv, TypeOK, Deadline, VrfTimeout, Later, Board, Phases, Drawing
<1>2. TypeOK'
  BY <1>1 DEF CrankInv, TypeOK, base, counts
<1>3. ChainInv'
  BY <1>1 DEF CrankInv, ChainInv, base, Bounds, OnlyFinishedCommitted,
     NothingLeftBehind, NextRoundReady, Sent
<1>4. GameGrows
  BY <1>1 DEF GameGrows, base, Sent, CrankInv, TypeOK, Board
<1> QED
  BY <1>1, <1>2, <1>3, <1>4, OthersKeep DEF CrankInv

\* A draw that ends leaves one round to commit.
LEMMA AdvanceKeeps ==
  ASSUME CrankInv, TypeOK', Drawing, board' = AdvancedBoard,
         UNCHANGED <<base, baseBoard, commits, resolved>>
  PROVE  ChainInv' /\ GameGrows
<1>1. /\ board'.round_id = board.round_id + 1 /\ board'.phase = "waiting"
      /\ board.round_id \in Rounds /\ board.phase # "waiting"
  BY DEF AdvancedBoard, CrankInv, TypeOK, Board, Drawing
<1>2. Bounds' /\ OnlyFinishedCommitted'
  BY <1>1 DEF CrankInv, ChainInv, Bounds, OnlyFinishedCommitted, Sent, TypeOK, Board
<1>3. NothingLeftBehind' /\ NextRoundReady'
  BY <1>1 DEF CrankInv, ChainInv, NothingLeftBehind, NextRoundReady, Sent, Drawing
<1> QED
  BY <1>1, <1>2, <1>3 DEF ChainInv, GameGrows, Sent, base

LEMMA AdvancedBoardType == CrankInv /\ Drawing => AdvancedBoard \in Board
  BY DEF CrankInv, ChainInv, Bounds, Drawing, AdvancedBoard, TypeOK, Board, Phases

LEMMA CallbackKeeps == CrankInv /\ CallbackResolveRound => CrankInv'
<1> SUFFICES ASSUME CrankInv, CallbackResolveRound PROVE CrankInv'
  OBVIOUS
<1>1. Drawing /\ board' = AdvancedBoard
  BY DEF CallbackResolveRound, Drawing
<1>2. TypeOK'
  BY <1>1, AdvancedBoardType DEF CallbackResolveRound, CrankInv, TypeOK, base, counts
<1>3. ChainInv' /\ GameGrows
  BY <1>1, <1>2, AdvanceKeeps DEF CallbackResolveRound
<1> QED
  BY <1>2, <1>3, OthersKeep DEF CrankInv, CallbackResolveRound

LEMMA LandKeeps ==
  ASSUME CrankInv, NEW commit \in commits, Land(commit)
  PROVE  CrankInv'
<1>1. commit.round \in Rounds /\ commit.board \in Board
  BY DEF CrankInv, TypeOK
<1>2. TypeOK'
  <2>1. /\ commits' \subseteq [round : Rounds, board : Board]
        /\ resolved' \subseteq Rounds /\ baseBoard' \in Board
    BY <1>1 DEF CrankInv, TypeOK, Land
  <2> QED BY <2>1 DEF CrankInv, TypeOK, Land, base, counts
<1>3. \A k \in Rounds : Sent(k)' <=> Sent(k)
  BY <1>1 DEF Sent, Land
<1>4. ChainInv'
  <2>1. Bounds'
    BY DEF CrankInv, ChainInv, Bounds, Land
  <2>2. OnlyFinishedCommitted' /\ NothingLeftBehind' /\ NextRoundReady'
    BY <1>3 DEF CrankInv, ChainInv, Land, base, OnlyFinishedCommitted,
       NothingLeftBehind, NextRoundReady, Drawing
  <2> QED BY <2>1, <2>2 DEF ChainInv
<1>5. GameGrows
  BY <1>3 DEF GameGrows, Land, base, CrankInv, TypeOK, Board
<1> QED
  BY <1>2, <1>4, <1>5, OthersKeep DEF CrankInv, Land

-----------------------------------------------------------------------------
(***************************************************************************)
(* Steps of a replica.                                                     *)
(***************************************************************************)
\* A step that leaves the board and its commits alone keeps the invariant if
\* the replica it belongs to is still right.
LEMMA ReplicaKeeps ==
  ASSUME CrankInv, TypeOK', NEW r \in Replicas,
         UNCHANGED <<board, commits, resolved>>, delegated \subseteq delegated',
         baseBoard' \in {baseBoard, board},
         \A s \in Replicas \ {r} : /\ memory'[s] = memory[s] /\ tick'[s] = tick[s]
                                   /\ pc'[s] = pc[s],
         ReplicaInv(r)'
  PROVE  CrankInv'
<1>1. ChainInv'
  BY DEF CrankInv, ChainInv, Bounds, OnlyFinishedCommitted, NothingLeftBehind,
     NextRoundReady, Sent, Drawing, TypeOK, Board
<1>2. GameGrows
  BY DEF GameGrows, Sent, CrankInv, TypeOK, Board
<1>3. ASSUME NEW s \in Replicas, s # r PROVE ReplicaInv(s)'
  BY <1>2, <1>3, OthersKeep DEF CrankInv
<1> QED
  BY <1>1, <1>3 DEF CrankInv

\* The same for a step that ends the tick or throws.
LEMMA QuitKeeps ==
  ASSUME CrankInv, TypeOK', NEW r \in Replicas, Done(r), memory' = memory,
         UNCHANGED <<board, baseBoard, commits, resolved>>,
         delegated \subseteq delegated'
  PROVE  CrankInv'
<1>1. ChainInv'
  BY DEF CrankInv, ChainInv, Bounds, OnlyFinishedCommitted, NothingLeftBehind,
     NextRoundReady, Sent, Drawing
<1>2. GameGrows
  BY DEF GameGrows, Sent, CrankInv, TypeOK, Board
<1> QED
  BY <1>1, <1>2, DoneKeeps DEF CrankInv

LEMMA DoneTypes ==
  ASSUME TypeOK, NEW r \in Replicas, Done(r)
  PROVE  pc' \in [Replicas -> Places] /\ tick' \in [Replicas -> Tick]
<1>1. NoTick \in Tick
  BY DEF NoTick, Tick, Phases
<1> QED
  BY <1>1 DEF Done, GoTo, TypeOK

\* the facts about a replica that the lemmas below start from
LEMMA ReplicaFacts ==
  ASSUME CrankInv, NEW r \in Replicas
  PROVE  /\ memory[r] \in Memory /\ tick[r] \in Tick /\ ReplicaInv(r)
         /\ board \in Board /\ board.round_id <= MaxRound
         /\ NextRound(r) \in Rounds
<1>1. memory[r] \in Memory /\ tick[r] \in Tick /\ ReplicaInv(r) /\ board \in Board
  BY DEF CrankInv, TypeOK
<1> QED
  BY <1>1 DEF CrankInv, ChainInv, Bounds, ReplicaInv, NextRound, Tick, Board

\* Steps before the board is read again, which conclude nothing.
LEMMA EarlyKeeps ==
  ASSUME CrankInv, NEW r \in Replicas,
         CheckRoundStatus(r) \/ Initialize(r) \/ Connect(r) \/ RoundExists(r)
         \/ PrepareRound(r)
  PROVE  CrankInv'
<1>f. /\ memory[r] \in Memory /\ tick[r] \in Tick /\ ReplicaInv(r)
      /\ board \in Board /\ NextRound(r) \in Rounds
  BY ReplicaFacts
<1>t. TypeOK
  BY DEF CrankInv
<1>1. CASE CheckRoundStatus(r)
  <2>1. TypeOK'
    BY <1>1, <1>t DEF CheckRoundStatus, GoTo, TypeOK, chain, base, game, counts
  <2>2. ReplicaInv(r)'
    BY <1>1, <1>f, <1>t DEF CheckRoundStatus, GoTo, TypeOK, chain, base, game,
       ReplicaInv, Sent, HasCompleted, NextRound
  <2> QED BY <1>1, <1>t, <2>1, <2>2, ReplicaKeeps
          DEF CheckRoundStatus, GoTo, TypeOK, chain, base, game
<1>2. CASE Initialize(r)
  <2>1. CASE ~initialized
    <3>1. TypeOK'
      <4>0. initialized' = TRUE /\ prepared' = prepared \cup {0}
        BY <1>2, <2>1 DEF Initialize
      <4>1. initialized' \in BOOLEAN /\ prepared' \subseteq Rounds
        <5>1. 0 \in Rounds
          OBVIOUS
        <5> QED BY <4>0, <5>1, <1>t DEF TypeOK
      <4>2. pc' \in [Replicas -> Places] /\ tick' = tick
        BY <1>2, <2>1, <1>t DEF Initialize, GoTo, TypeOK
      <4> QED BY <1>2, <1>t, <4>1, <4>2 DEF Initialize, TypeOK, game, counts
    <3>2. ReplicaInv(r)'
      BY <1>2, <2>1, <1>f, <1>t DEF Initialize, GoTo, TypeOK, game, ReplicaInv,
         Sent, HasCompleted, NextRound
    <3> QED BY <1>2, <2>1, <1>t, <3>1, <3>2, ReplicaKeeps
            DEF Initialize, GoTo, TypeOK, game
  <2>2. CASE initialized
    <3>1. TypeOK'
      BY <1>2, <2>2, <1>t, DoneTypes DEF Initialize, TypeOK, game, counts
    <3> QED BY <1>2, <2>2, <3>1, QuitKeeps DEF Initialize, game
  <2> QED BY <2>1, <2>2
<1>3. CASE Connect(r)
  <2>1. PICK onRollup \in BOOLEAN : memory' = [memory EXCEPT ![r].onRollup = onRollup]
    BY <1>3 DEF Connect
  <2>2. /\ memory'[r] \in Memory
        /\ memory'[r].observedRoundId = memory[r].observedRoundId
        /\ memory'[r].committedRounds = memory[r].committedRounds
        /\ memory'[r].preparedRounds = memory[r].preparedRounds
    BY <2>1, <1>f, <1>t DEF TypeOK, Memory
  <2>3. failures' \in Nat /\ restarts' \in Nat
    BY <1>3, <1>t DEF Connect, TypeOK, counts
  <2>4. TypeOK'
    BY <1>3, <2>1, <2>2, <2>3, <1>t DEF Connect, GoTo, TypeOK, chain, base, game
  <2>5. ReplicaInv(r)'
    BY <1>3, <2>2, <1>f, <1>t DEF Connect, GoTo, TypeOK, chain, base, game,
       ReplicaInv, Sent, HasCompleted, NextRound
  <2> QED BY <1>3, <2>1, <1>t, <2>4, <2>5, ReplicaKeeps
          DEF Connect, GoTo, TypeOK, chain, base, game
<1>4. CASE RoundExists(r)
  <2>1. TypeOK'
    BY <1>4, <1>t DEF RoundExists, GoTo, TypeOK, chain, base, game, counts
  <2>2. ReplicaInv(r)'
    BY <1>4, <1>f, <1>t DEF RoundExists, GoTo, TypeOK, chain, base, game,
       ReplicaInv, Sent, HasCompleted, NextRound
  <2> QED BY <1>4, <1>t, <2>1, <2>2, ReplicaKeeps
          DEF RoundExists, GoTo, TypeOK, chain, base, game
<1>5. CASE PrepareRound(r)
  <2>1. CASE NextRound(r) \notin prepared
    <3>1. TypeOK'
      BY <1>5, <2>1, <1>f, <1>t DEF PrepareRound, GoTo, TypeOK, game, counts
    <3>2. ReplicaInv(r)'
      BY <1>5, <2>1, <1>f, <1>t DEF PrepareRound, GoTo, TypeOK, game, ReplicaInv,
         Sent, HasCompleted, NextRound
    <3> QED BY <1>5, <2>1, <1>t, <3>1, <3>2, ReplicaKeeps
            DEF PrepareRound, GoTo, TypeOK, game
  <2>2. CASE NextRound(r) \in prepared
    <3>1. TypeOK'
      BY <1>5, <2>2, <1>t, DoneTypes DEF PrepareRound, TypeOK, game, counts
    <3> QED BY <1>5, <2>2, <3>1, QuitKeeps DEF PrepareRound, game
  <2> QED BY <2>1, <2>2
<1> QED
  BY <1>1, <1>2, <1>3, <1>4, <1>5

\* What a replica reads of the board is not newer than the board.
LEMMA SeenIsOld ==
  ASSUME CrankInv, NEW r \in Replicas
  PROVE  Seen(r) \in Board /\ Seen(r).round_id <= board.round_id
  BY DEF CrankInv, TypeOK, ChainInv, Bounds, Seen, Board

LEMMA ReadBoardKeeps ==
  ASSUME CrankInv, NEW r \in Replicas, ReadBoard(r)
  PROVE  CrankInv'
<1>f. /\ memory[r] \in Memory /\ tick[r] \in Tick /\ ReplicaInv(r)
      /\ board \in Board /\ TypeOK
  BY ReplicaFacts DEF CrankInv
<1>1. /\ tick'[r] = [tick[r] EXCEPT !.roundId = Seen(r).round_id]
      /\ tick'[r] \in Tick
  BY <1>f, SeenIsOld DEF ReadBoard, TypeOK, Tick, Board
<1>2. TypeOK'
  BY <1>1, <1>f DEF ReadBoard, GoTo, TypeOK, chain, base, game, counts
<1>3. ReplicaInv(r)'
  BY <1>1, <1>f, SeenIsOld DEF ReadBoard, GoTo, TypeOK, chain, base, game,
     ReplicaInv, Sent, Tick
<1> QED
  BY <1>2, <1>3, <1>f, ReplicaKeeps DEF ReadBoard, GoTo, TypeOK, chain, base, game

\* The loop starts at a round before which nothing is missing: what was observed
\* was looked after, and with nothing observed only one round can be missing.
LEMMA FirstCompletedRight ==
  ASSUME CrankInv, NEW r \in Replicas
  PROVE  /\ FirstCompleted(r) \in Rounds
         /\ \A k \in Rounds : k < FirstCompleted(r) => Sent(k)
<1> DEFINE roundId == tick[r].roundId
           observed == memory[r].observedRoundId
<1>1. /\ roundId \in Rounds /\ observed \in Rounds \cup {NotObserved}
      /\ board.round_id \in Rounds /\ roundId <= board.round_id
      /\ observed # NotObserved => \A k \in Rounds : k < observed => Sent(k)
  BY ReplicaFacts DEF Memory, Tick, Board, ReplicaInv
<1>2. \A k \in Rounds : k + 1 < board.round_id => Sent(k)
  BY DEF CrankInv, ChainInv, NothingLeftBehind
<1>3. CASE observed = NotObserved /\ roundId > 0
  BY <1>1, <1>2, <1>3 DEF FirstCompleted
<1>4. CASE ~(observed = NotObserved /\ roundId > 0) /\ observed < roundId
  BY <1>1, <1>4 DEF FirstCompleted
<1>5. CASE ~(observed = NotObserved /\ roundId > 0) /\ ~(observed < roundId)
  BY <1>1, <1>5 DEF FirstCompleted
<1> QED
  BY <1>3, <1>4, <1>5

LEMMA RereadBoardKeeps ==
  ASSUME CrankInv, NEW r \in Replicas, RereadBoard(r)
  PROVE  CrankInv'
<1>f. /\ memory[r] \in Memory /\ tick[r] \in Tick /\ ReplicaInv(r)
      /\ board \in Board /\ TypeOK
  BY ReplicaFacts DEF CrankInv
<1>1. /\ tick'[r] = [tick[r] EXCEPT !.phase = Seen(r).phase,
                                   !.completed = FirstCompleted(r)]
      /\ tick'[r] \in Tick
  BY <1>f, SeenIsOld, FirstCompletedRight DEF RereadBoard, TypeOK, Tick, Board
<1>2. TypeOK'
  BY <1>1, <1>f DEF RereadBoard, GoTo, TypeOK, chain, base, game, counts
<1>3. /\ tick'[r].roundId = tick[r].roundId
      /\ tick'[r].completed = FirstCompleted(r)
      /\ pc'[r] \in {"commit", "exists"}
      /\ pc'[r] = "commit" => NextRound(r) \in memory[r].preparedRounds
  BY <1>1, <1>f DEF RereadBoard, GoTo, TypeOK, Tick
<1>4. ReplicaInv(r)'
  BY <1>3, <1>f, FirstCompletedRight DEF RereadBoard, chain, base, game,
     ReplicaInv, Sent, NextRound
<1> QED
  BY <1>2, <1>4, <1>f, ReplicaKeeps DEF RereadBoard, GoTo, TypeOK, chain, base, game

-----------------------------------------------------------------------------
(***************************************************************************)
(* Steps that leave a replica's loop where it is.                          *)
(***************************************************************************)
LEMMA TargetKeeps ==
  ASSUME CrankInv, NEW r \in Replicas, TargetStatus(r) \/ DelegateTarget(r)
  PROVE  CrankInv'
<1>f. /\ memory[r] \in Memory /\ tick[r] \in Tick /\ ReplicaInv(r)
      /\ board \in Board /\ board.round_id \in Rounds /\ TypeOK
  BY ReplicaFacts DEF CrankInv, Board
<1>1. ASSUME AfterTarget(r)
      PROVE  /\ memory' \in [Replicas -> Memory] /\ tick' \in [Replicas -> Tick]
             /\ pc' \in [Replicas -> Places] /\ pc'[r] \in {"reconnect", "status"}
             /\ \A s \in Replicas \ {r} : /\ memory'[s] = memory[s]
                                         /\ tick'[s] = tick[s] /\ pc'[s] = pc[s]
             /\ memory'[r].observedRoundId = memory[r].observedRoundId
             /\ memory'[r].committedRounds = memory[r].committedRounds
             /\ memory'[r].preparedRounds = memory[r].preparedRounds
             /\ tick'[r].roundId = tick[r].roundId
             /\ tick'[r].completed = tick[r].completed
  <2>1. CASE tick[r].target = "board"
    <3>1. /\ memory' = [memory EXCEPT ![r].coreDelegationReady = TRUE]
          /\ pc' = [pc EXCEPT ![r] = "reconnect"] /\ tick' = tick
      BY <1>1, <2>1 DEF AfterTarget, GoTo
    <3>2. memory'[r] = [memory[r] EXCEPT !.coreDelegationReady = TRUE]
      BY <3>1, <1>f DEF TypeOK
    <3>3. memory'[r] \in Memory
      BY <3>2, <1>f DEF Memory
    <3>4. /\ memory' \in [Replicas -> Memory]
          /\ pc' \in [Replicas -> Places] /\ pc'[r] = "reconnect"
      BY <3>1, <3>3, <1>f DEF TypeOK
    <3>5. /\ memory'[r].observedRoundId = memory[r].observedRoundId
          /\ memory'[r].committedRounds = memory[r].committedRounds
          /\ memory'[r].preparedRounds = memory[r].preparedRounds
      BY <3>2, <1>f DEF Memory
    <3> QED BY <3>1, <3>4, <3>5, <1>f DEF TypeOK
  <2>2. CASE tick[r].target # "board"
    BY <1>1, <2>2, <1>f DEF AfterTarget, GoTo, TypeOK, Tick
  <2> QED BY <2>1, <2>2
<1>2. ASSUME AfterTarget(r), UNCHANGED <<initialized, prepared, board, commits,
                                         resolved, counts>>,
             delegated \subseteq delegated', delegated' \subseteq Rounds,
             core' \subseteq {"treasury", "board"}, baseBoard' \in {baseBoard, board}
      PROVE  CrankInv'
  <2>1. TypeOK'
    BY <1>1, <1>2, <1>f DEF TypeOK, counts
  <2>2. ReplicaInv(r)'
    BY <1>1, <1>2, <1>f DEF ReplicaInv, Sent
  <2> QED BY <1>1, <1>2, <2>1, <2>2, ReplicaKeeps
<1>3. CASE TargetStatus(r)
  <2>1. CASE AfterTarget(r)
    BY <1>2, <1>3, <2>1, <1>f DEF TargetStatus, chain, base, game, TypeOK
  <2>2. CASE GoTo(r, "delegate") /\ UNCHANGED <<memory, tick>>
    <3>1. TypeOK'
      BY <1>3, <2>2, <1>f DEF TargetStatus, GoTo, TypeOK, chain, base, game, counts
    <3>2. ReplicaInv(r)'
      BY <1>3, <2>2, <1>f DEF TargetStatus, GoTo, TypeOK, chain, base, game,
         ReplicaInv, Sent
    <3> QED BY <1>3, <2>2, <1>f, <3>1, <3>2, ReplicaKeeps
            DEF TargetStatus, GoTo, TypeOK, chain, base, game
  <2> QED BY <1>3, <2>1, <2>2 DEF TargetStatus
<1>4. CASE DelegateTarget(r)
  <2>1. CASE AfterTarget(r) /\ ~TargetDelegated(r)
    <3>1. /\ delegated \subseteq delegated' /\ delegated' \subseteq Rounds
          /\ core' \subseteq {"treasury", "board"}
      BY <1>4, <2>1, <1>f DEF DelegateTarget, Tick, TypeOK
    <3>2. /\ baseBoard' \in {baseBoard, board}
          /\ UNCHANGED <<initialized, prepared, board, commits, resolved, counts>>
      BY <1>4, <2>1 DEF DelegateTarget
    <3> QED BY <1>2, <2>1, <3>1, <3>2
  <2>2. CASE Done(r) /\ UNCHANGED <<delegated, core, baseBoard, memory>>
    <3>1. TypeOK'
      BY <1>4, <2>2, <1>f, DoneTypes DEF DelegateTarget, TypeOK, counts
    <3> QED BY <1>4, <2>2, <3>1, QuitKeeps DEF DelegateTarget
  <2> QED BY <1>4, <2>1, <2>2 DEF DelegateTarget
<1> QED
  BY <1>3, <1>4

\* The next round is remembered as prepared once it is on the rollup.
LEMMA NextKeeps ==
  ASSUME CrankInv, NEW r \in Replicas, NextStatus(r) \/ DelegateNext(r)
  PROVE  CrankInv'
<1>f. /\ memory[r] \in Memory /\ tick[r] \in Tick /\ ReplicaInv(r)
      /\ board \in Board /\ NextRound(r) \in Rounds /\ TypeOK
  BY ReplicaFacts DEF CrankInv
<1>1. ASSUME FutureReady(r), UNCHANGED <<initialized, prepared, core, game, counts>>,
             delegated' = delegated \cup {NextRound(r)}
      PROVE  CrankInv'
  <2>1. /\ memory'[r] = [memory[r] EXCEPT !.preparedRounds = @ \cup {NextRound(r)}]
        /\ memory'[r] \in Memory
    BY <1>1, <1>f DEF FutureReady, TypeOK, Memory
  <2>2. memory' \in [Replicas -> Memory] /\ pc' \in [Replicas -> Places]
    BY <1>1, <2>1, <1>f DEF FutureReady, GoTo, TypeOK
  <2>3. TypeOK'
    BY <1>1, <2>2, <1>f DEF FutureReady, TypeOK, game, counts
  <2>4. /\ memory'[r].observedRoundId = memory[r].observedRoundId
        /\ memory'[r].committedRounds = memory[r].committedRounds
        /\ memory'[r].preparedRounds = memory[r].preparedRounds \cup {NextRound(r)}
        /\ tick' = tick /\ pc'[r] = "commit"
    BY <1>1, <2>1, <1>f DEF FutureReady, GoTo, TypeOK, Memory
  <2>5. ReplicaInv(r)'
    BY <1>1, <2>4, <1>f DEF ReplicaInv, Sent, game, NextRound
  <2> QED BY <1>1, <2>3, <2>5, <1>f, ReplicaKeeps
          DEF FutureReady, GoTo, TypeOK, game
<1>2. CASE NextStatus(r)
  <2>1. CASE NextRound(r) \in delegated
    <3>1. /\ FutureReady(r) /\ delegated' = delegated \cup {NextRound(r)}
          /\ UNCHANGED <<initialized, prepared, core, game, counts>>
      BY <1>2, <2>1 DEF NextStatus, chain, base
    <3> QED BY <1>1, <3>1
  <2>2. CASE NextRound(r) \notin delegated
    <3>1. TypeOK'
      BY <1>2, <2>2, <1>f DEF NextStatus, GoTo, TypeOK, chain, base, game, counts
    <3>2. ReplicaInv(r)'
      BY <1>2, <2>2, <1>f DEF NextStatus, GoTo, TypeOK, chain, base, game,
         ReplicaInv, Sent
    <3> QED BY <1>2, <2>2, <1>f, <3>1, <3>2, ReplicaKeeps
            DEF NextStatus, GoTo, TypeOK, chain, base, game
  <2> QED BY <2>1, <2>2
<1>3. CASE DelegateNext(r)
  <2>1. CASE NextRound(r) \notin delegated
    BY <1>1, <1>3, <2>1 DEF DelegateNext
  <2>2. CASE NextRound(r) \in delegated
    <3>1. TypeOK'
      BY <1>3, <2>2, <1>f, DoneTypes DEF DelegateNext, TypeOK, game, counts
    <3> QED BY <1>3, <2>2, <3>1, QuitKeeps DEF DelegateNext, game
  <2> QED BY <2>1, <2>2
<1> QED
  BY <1>2, <1>3

-----------------------------------------------------------------------------
(***************************************************************************)
(* The loop over the completed rounds, and what follows it.                *)
(***************************************************************************)
LEMMA CommitCompletedKeeps ==
  ASSUME CrankInv, NEW r \in Replicas, CommitCompleted(r)
  PROVE  CrankInv'
<1> DEFINE completed == tick[r].completed
<1>f. /\ memory[r] \in Memory /\ tick[r] \in Tick /\ ReplicaInv(r)
      /\ board \in Board /\ completed \in Rounds /\ tick[r].roundId \in Rounds
      /\ TypeOK
  BY ReplicaFacts DEF CrankInv, Tick
<1>0. /\ pc[r] = "commit" /\ completed < tick[r].roundId
      /\ UNCHANGED <<chain, counts>>
  BY DEF CommitCompleted, HasCompleted
<1>1. CASE /\ completed \in memory[r].committedRounds \/ completed \in resolved
           /\ memory' = [memory EXCEPT ![r].committedRounds = @ \cup {completed}]
           /\ tick' = [tick EXCEPT ![r].completed = @ + 1]
           /\ UNCHANGED pc
  <2>1. /\ memory'[r] = [memory[r] EXCEPT !.committedRounds = @ \cup {completed}]
        /\ tick'[r] = [tick[r] EXCEPT !.completed = completed + 1]
    BY <1>1, <1>f DEF TypeOK
  <2>2. memory'[r] \in Memory /\ tick'[r] \in Tick
    BY <2>1, <1>0, <1>f DEF Memory, Tick
  <2>3. TypeOK'
    BY <1>0, <1>1, <2>2, <1>f DEF TypeOK, chain, base, game, counts
  <2>4. /\ memory'[r].observedRoundId = memory[r].observedRoundId
        /\ memory'[r].committedRounds = memory[r].committedRounds \cup {completed}
        /\ memory'[r].preparedRounds = memory[r].preparedRounds
        /\ tick'[r].roundId = tick[r].roundId /\ tick'[r].completed = completed + 1
        /\ pc'[r] = "commit"
    BY <2>1, <1>0, <1>1, <1>f DEF Memory, Tick
  <2>5. Sent(completed)
    BY <1>1, <1>f DEF ReplicaInv, Sent
  <2>6. ReplicaInv(r)'
    BY <2>4, <2>5, <1>0, <1>f DEF ReplicaInv, Sent, chain, base, game, NextRound
  <2> QED BY <1>0, <1>1, <2>3, <2>6, <1>f, ReplicaKeeps DEF TypeOK, chain, base, game
<1>2. CASE GoTo(r, "sendCommit") /\ UNCHANGED <<memory, tick>>
  <2>1. TypeOK'
    BY <1>0, <1>2, <1>f DEF GoTo, TypeOK, chain, base, game, counts
  <2>2. pc'[r] = "sendCommit"
    BY <1>2, <1>f DEF GoTo, TypeOK
  <2>3. ReplicaInv(r)'
    BY <1>0, <1>2, <2>2, <1>f DEF chain, base, game, ReplicaInv, Sent,
       HasCompleted, NextRound
  <2> QED BY <1>0, <1>2, <1>f, <2>1, <2>3, ReplicaKeeps
          DEF GoTo, TypeOK, chain, base, game
<1> QED
  BY <1>1, <1>2 DEF CommitCompleted

\* What is committed has ended, because the reading of the board is old.
LEMMA SendCommitKeeps ==
  ASSUME CrankInv, NEW r \in Replicas, SendCommit(r)
  PROVE  CrankInv'
<1> DEFINE completed == tick[r].completed
           commit == [round |-> completed, board |-> board]
<1>f. /\ memory[r] \in Memory /\ tick[r] \in Tick /\ ReplicaInv(r)
      /\ board \in Board /\ board.round_id \in Rounds
      /\ completed \in Rounds /\ tick[r].roundId \in Rounds /\ TypeOK
  BY ReplicaFacts DEF CrankInv, Tick, Board
<1>0. /\ completed < tick[r].roundId /\ tick[r].roundId <= board.round_id
      /\ NextRound(r) \in delegated
      /\ UNCHANGED <<base, board, baseBoard, resolved, counts>>
  BY <1>f DEF SendCommit, ReplicaInv, HasCompleted
<1>1. CASE /\ commits' = commits \cup {commit}
           /\ memory' = [memory EXCEPT ![r].committedRounds = @ \cup {completed}]
           /\ tick' = [tick EXCEPT ![r].completed = @ + 1]
           /\ GoTo(r, "commit")
  <2>1. /\ memory'[r] = [memory[r] EXCEPT !.committedRounds = @ \cup {completed}]
        /\ tick'[r] = [tick[r] EXCEPT !.completed = completed + 1]
        /\ pc'[r] = "commit"
    BY <1>1, <1>f DEF GoTo, TypeOK
  <2>2. memory'[r] \in Memory /\ tick'[r] \in Tick
    BY <2>1, <1>0, <1>f DEF Memory, Tick
  <2>3. commits' \subseteq [round : Rounds, board : Board]
    BY <1>1, <1>f DEF TypeOK
  <2>4. /\ memory' \in [Replicas -> Memory] /\ tick' \in [Replicas -> Tick]
        /\ pc' \in [Replicas -> Places]
    BY <1>1, <2>2, <1>f DEF GoTo, TypeOK
  <2>5. TypeOK'
    BY <1>0, <2>3, <2>4, <1>f DEF TypeOK, base, counts
  <2>6. \A k \in Rounds : Sent(k)' <=> Sent(k) \/ k = completed
    <3>1. commit \in commits' /\ commit.round = completed
      BY <1>1
    <3>2. \A c \in commits' : c \in commits \/ c.round = completed
      BY <1>1
    <3>3. commits \subseteq commits' /\ resolved' = resolved
      BY <1>0, <1>1
    <3> HIDE DEF commit
    <3> QED BY <3>1, <3>2, <3>3 DEF Sent
  <2>7. GameGrows
    BY <2>6, <1>0, <1>f DEF GameGrows, base
  <2>8. ChainInv'
    <3>1. Bounds'
      BY <1>0, <1>1, <1>f DEF CrankInv, ChainInv, Bounds
    <3>2. OnlyFinishedCommitted'
      BY <2>6, <1>0, <1>f DEF CrankInv, ChainInv, OnlyFinishedCommitted
    <3>3. NothingLeftBehind' /\ NextRoundReady'
      BY <2>6, <1>0, <1>f DEF CrankInv, ChainInv, NothingLeftBehind,
         NextRoundReady, Drawing, base
    <3> QED BY <3>1, <3>2, <3>3 DEF ChainInv
  <2>9. /\ memory'[r].observedRoundId = memory[r].observedRoundId
        /\ memory'[r].committedRounds = memory[r].committedRounds \cup {completed}
        /\ memory'[r].preparedRounds = memory[r].preparedRounds
        /\ tick'[r].roundId = tick[r].roundId /\ tick'[r].completed = completed + 1
    BY <2>1, <1>f DEF Memory, Tick
  <2>10. ReplicaInv(r)'
    <3>1. memory[r].committedRounds \subseteq Rounds
      BY <1>f DEF Memory
    <3>2. \A k \in Rounds :
            memory'[r].observedRoundId # NotObserved /\ k < memory'[r].observedRoundId
              => Sent(k)'
      BY <2>6, <2>9, <1>f DEF ReplicaInv
    <3>3. \A k \in memory'[r].committedRounds : Sent(k)'
      BY <2>6, <2>9, <3>1, <1>f DEF ReplicaInv
    <3>4. \A k \in Rounds : k < tick'[r].completed => Sent(k)'
      BY <2>6, <2>9, <1>f DEF ReplicaInv
    <3>5. NextRound(r)' \in delegated'
      BY <2>9, <1>0 DEF NextRound, base
    <3> QED BY <2>1, <2>9, <3>2, <3>3, <3>4, <3>5, <1>0, <1>f DEF ReplicaInv, base
  <2>11. ASSUME NEW s \in Replicas, s # r PROVE ReplicaInv(s)'
    BY <1>1, <2>5, <2>7, <2>11, <1>f, OthersKeep DEF CrankInv, GoTo, TypeOK
  <2> QED BY <2>5, <2>8, <2>10, <2>11 DEF CrankInv
<1>2. CASE Done(r) /\ UNCHANGED <<commits, memory>>
  <2>1. TypeOK'
    BY <1>0, <1>2, <1>f, DoneTypes DEF TypeOK, base, counts
  <2> QED BY <1>0, <1>2, <2>1, QuitKeeps DEF base
<1> QED
  BY <1>1, <1>2 DEF SendCommit

\* The current round is remembered as observed when the loop is through.
LEMMA DecideKeeps ==
  ASSUME CrankInv, NEW r \in Replicas, Decide(r)
  PROVE  CrankInv'
<1>f. /\ memory[r] \in Memory /\ tick[r] \in Tick /\ ReplicaInv(r)
      /\ tick[r].roundId \in Rounds /\ tick[r].completed \in Rounds
      /\ board \in Board /\ board.round_id \in Rounds /\ TypeOK
  BY ReplicaFacts DEF CrankInv, Tick, Board
<1>0. /\ memory' = [memory EXCEPT ![r].observedRoundId = tick[r].roundId]
      /\ tick[r].roundId <= tick[r].completed /\ NextRound(r) \in delegated
      /\ UNCHANGED <<chain, counts>>
  BY <1>f DEF Decide, HasCompleted, ReplicaInv
<1>1. memory'[r] = [memory[r] EXCEPT !.observedRoundId = tick[r].roundId]
  BY <1>0, <1>f DEF TypeOK
<1>2. /\ memory'[r].observedRoundId = tick[r].roundId
      /\ memory'[r].committedRounds = memory[r].committedRounds
      /\ memory'[r].preparedRounds = memory[r].preparedRounds
  BY <1>1, <1>f DEF Memory
<1>3. memory' \in [Replicas -> Memory]
  <2>1. memory'[r] \in Memory
    BY <1>1, <1>f DEF Memory
  <2> QED BY <1>0, <2>1, <1>f DEF TypeOK
<1>4. \A k \in Rounds : k < tick[r].roundId => Sent(k)
  BY <1>0, <1>f DEF ReplicaInv
<1>5. CASE Done(r)
  <2>1. TypeOK'
    BY <1>0, <1>3, <1>5, <1>f, DoneTypes DEF TypeOK, chain, base, game, counts
  <2>2. tick'[r].roundId = 0 /\ tick'[r].completed = 0 /\ pc'[r] = "idle"
    BY <1>5, <1>f DEF Done, GoTo, TypeOK, NoTick
  <2>3. ReplicaInv(r)'
    BY <1>0, <1>2, <1>4, <2>2, <1>f DEF ReplicaInv, Sent, chain, base, game
  <2> QED BY <1>0, <1>5, <2>1, <2>3, <1>f, ReplicaKeeps
          DEF Done, GoTo, TypeOK, chain, base, game
<1>6. CASE (GoTo(r, "request") \/ GoTo(r, "cancel")) /\ UNCHANGED tick
  <2>1. pc' \in [Replicas -> Places] /\ pc'[r] \in {"request", "cancel"}
    BY <1>6, <1>f DEF GoTo, TypeOK
  <2>2. TypeOK'
    BY <1>0, <1>3, <1>6, <2>1, <1>f DEF TypeOK, chain, base, game, counts
  <2>3. ReplicaInv(r)'
    BY <1>0, <1>2, <1>4, <1>6, <2>1, <1>f DEF ReplicaInv, Sent, chain, base, game,
       HasCompleted, NextRound
  <2> QED BY <1>0, <1>6, <2>2, <2>3, <1>f, ReplicaKeeps
          DEF GoTo, TypeOK, chain, base, game
<1> QED
  BY <1>5, <1>6 DEF Decide

\* A draw starts with every earlier round sent and the next one on the rollup.
LEMMA RequestKeeps ==
  ASSUME CrankInv, NEW r \in Replicas, Request(r)
  PROVE  CrankInv'
<1>f. /\ tick[r] \in Tick /\ ReplicaInv(r) /\ tick[r].roundId \in Rounds
      /\ tick[r].completed \in Rounds /\ board \in Board
      /\ board.round_id \in Rounds /\ TypeOK
  BY ReplicaFacts DEF CrankInv, Tick, Board
<1>0. /\ Done(r) /\ pc[r] = "request"
      /\ UNCHANGED <<base, baseBoard, commits, resolved, memory, counts>>
  BY DEF Request
<1>1. CASE /\ Accepted(r) /\ board.phase = "due"
           /\ board' = [board EXCEPT !.phase = "requested"]
  <2>1. /\ board' \in Board /\ board'.round_id = board.round_id
        /\ board'.phase = "requested" /\ board.phase # "waiting"
    BY <1>1, <1>f DEF Board, Phases
  <2>2. TypeOK'
    BY <1>0, <2>1, <1>f, DoneTypes DEF TypeOK, base, counts
  <2>3. GameGrows
    BY <1>0, <2>1, <1>f DEF GameGrows, Sent, base
  <2>4. /\ \A k \in Rounds : k < board.round_id => Sent(k)
        /\ board.round_id + 1 \in delegated
    BY <1>0, <1>1, <1>f DEF Accepted, ReplicaInv, HasCompleted, NextRound
  <2>5. ChainInv'
    <3>1. Bounds' /\ OnlyFinishedCommitted'
      BY <1>0, <2>1 DEF CrankInv, ChainInv, Bounds, OnlyFinishedCommitted, Sent
    <3>2. NothingLeftBehind' /\ NextRoundReady'
      BY <1>0, <2>1, <2>4, <1>f DEF NothingLeftBehind, NextRoundReady, Sent,
         Drawing, base
    <3> QED BY <3>1, <3>2 DEF ChainInv
  <2> QED BY <1>0, <2>2, <2>3, <2>5, DoneKeeps DEF CrankInv
<1>2. CASE UNCHANGED board
  <2>1. TypeOK'
    BY <1>0, <1>2, <1>f, DoneTypes DEF TypeOK, base, counts
  <2> QED BY <1>0, <1>2, <2>1, QuitKeeps DEF base
<1> QED
  BY <1>1, <1>2 DEF Request

LEMMA CancelKeeps ==
  ASSUME CrankInv, NEW r \in Replicas, Cancel(r)
  PROVE  CrankInv'
<1>t. TypeOK
  BY DEF CrankInv
<1>0. /\ Done(r)
      /\ UNCHANGED <<base, baseBoard, commits, resolved, memory, counts>>
  BY DEF Cancel
<1>1. CASE board.phase = "overdue" /\ board' = AdvancedBoard
  <2>1. Drawing
    BY <1>1 DEF Drawing
  <2>2. TypeOK'
    BY <1>0, <1>1, <2>1, <1>t, AdvancedBoardType, DoneTypes
    DEF TypeOK, base, counts
  <2>3. ChainInv' /\ GameGrows
    BY <1>0, <1>1, <2>1, <2>2, AdvanceKeeps
  <2> QED BY <1>0, <2>2, <2>3, DoneKeeps DEF CrankInv
<1>2. CASE UNCHANGED board
  <2>1. TypeOK'
    BY <1>0, <1>2, <1>t, DoneTypes DEF TypeOK, base, counts
  <2> QED BY <1>0, <1>2, <2>1, QuitKeeps DEF base
<1> QED
  BY <1>1, <1>2 DEF Cancel

LEMMA ThrowKeeps ==
  ASSUME CrankInv, NEW r \in Replicas, Throw(r)
  PROVE  CrankInv'
<1>1. /\ Done(r) /\ failures' = failures + 1
      /\ UNCHANGED <<chain, memory, restarts>>
  BY DEF Throw
<1>2. TypeOK'
  BY <1>1, DoneTypes DEF CrankInv, TypeOK, chain, base, game
<1> QED
  BY <1>1, <1>2, QuitKeeps DEF chain, base, game

\* A replica that remembers nothing is wrong about nothing.
LEMMA RestartKeeps ==
  ASSUME CrankInv, NEW r \in Replicas, Restart(r)
  PROVE  CrankInv'
<1>t. TypeOK /\ board.round_id \in Rounds
  BY ReplicaFacts DEF CrankInv, Board
<1>1. /\ Done(r) /\ memory' = [memory EXCEPT ![r] = Started]
      /\ restarts' = restarts + 1 /\ UNCHANGED <<chain, failures>>
  BY DEF Restart
<1>2. Started \in Memory
  BY DEF Started, Memory
<1>3. TypeOK'
  BY <1>1, <1>2, <1>t, DoneTypes DEF TypeOK, chain, base, game
<1>4. /\ memory'[r] = Started /\ tick'[r].roundId = 0 /\ tick'[r].completed = 0
      /\ pc'[r] = "idle"
  BY <1>1, <1>t DEF Done, GoTo, TypeOK, NoTick
<1>5. ReplicaInv(r)'
  BY <1>1, <1>4, <1>t DEF ReplicaInv, Started, chain, base, game
<1> QED
  BY <1>1, <1>3, <1>5, <1>t, ReplicaKeeps DEF Done, GoTo, TypeOK, chain, base, game

-----------------------------------------------------------------------------
LEMMA CrankStep == CrankInv /\ [Next]_vars => CrankInv'
<1> SUFFICES ASSUME CrankInv, [Next]_vars PROVE CrankInv'
  OBVIOUS
<1>1. CASE Bet
  BY <1>1, BetKeeps
<1>2. CASE Deadline \/ VrfTimeout
  BY <1>2, LaterKeeps
<1>3. CASE CallbackResolveRound
  BY <1>3, CallbackKeeps
<1>4. CASE \E commit \in commits : Land(commit)
  BY <1>4, LandKeeps
<1>5. ASSUME NEW r \in Replicas, Step(r) PROVE CrankInv'
  BY <1>5, EarlyKeeps, ReadBoardKeeps, TargetKeeps, RereadBoardKeeps, NextKeeps,
     CommitCompletedKeeps, SendCommitKeeps, DecideKeeps, RequestKeeps, CancelKeeps
  DEF Step
<1>6. ASSUME NEW r \in Replicas, Throw(r) \/ Restart(r) PROVE CrankInv'
  BY <1>6, ThrowKeeps, RestartKeeps
<1>7. CASE UNCHANGED vars
  <2>1. TypeOK'
    BY <1>7 DEF CrankInv, TypeOK, vars, chain, base, game, counts
  <2>2. ChainInv'
    BY <1>7 DEF CrankInv, ChainInv, vars, chain, base, game, Bounds,
       OnlyFinishedCommitted, NothingLeftBehind, NextRoundReady, Sent, Drawing
  <2>3. GameGrows
    BY <1>7 DEF GameGrows, vars, chain, base, game, Sent, CrankInv, TypeOK, Board
  <2> QED BY <1>7, <2>1, <2>2, <2>3, OthersKeep DEF CrankInv, vars
<1> QED
  BY <1>1, <1>2, <1>3, <1>4, <1>5, <1>6, <1>7 DEF Next

LEMMA CrankAlways == Spec => []CrankInv
  BY CrankInitially, CrankStep, PTL DEF Spec

\* The accounts and what the replicas keep of them have their types, the round
\* ids the crank computes (roundId - 1, roundId + 1) among them.
THEOREM CrankTypeCorrect == Spec => []TypeOK
<1>1. CrankInv => TypeOK
  BY DEF CrankInv
<1> QED BY <1>1, CrankAlways, PTL

\* Only the last round can be missing on the base layer (advanceLifecycle), for
\* any number of replicas that run at once, throw and restart.
THEOREM CrankCommitsAll == Spec => []NothingLeftBehind
<1>1. CrankInv => NothingLeftBehind
  BY DEF CrankInv, ChainInv
<1> QED BY <1>1, CrankAlways, PTL

\* No draw without the next round's account on the rollup (ensureFutureRound).
THEOREM CrankReadiesNext == Spec => []NextRoundReady
<1>1. CrankInv => NextRoundReady
  BY DEF CrankInv, ChainInv
<1> QED BY <1>1, CrankAlways, PTL

\* No round that is played is committed (commitCompletedRound).
THEOREM CrankCommitsFinished == Spec => []OnlyFinishedCommitted
<1>1. CrankInv => OnlyFinishedCommitted
  BY DEF CrankInv, ChainInv
<1> QED BY <1>1, CrankAlways, PTL
-----------------------------------------------------------------------------
(***************************************************************************)
(* The lease excludes, for every number of processes, time to live, renewal *)
(* period and skew, and however many statements fail, are late or overtake *)
(* one another.  The invariant says why: a process whose lease cannot look *)
(* expired to anybody still owns the row, with the expiry it last wrote;   *)
(* and nobody compares that expiry with a time that is yet to come.        *)
(***************************************************************************)
USE SchedulingAssumption DEF Lock!LeaseAssumption

\* the time a statement compares the row with is over
StampsPast ==
  \A p \in Replicas : lockPc[p] \in {"acquiring", "creating"} => stamp[p] <= Lock!Clock(p)

\* the row of a running owner has the expiry that owner wrote
OwnerWrote ==
  \A p \in Replicas :
    lockPc[p] = "running" /\ lease.owner = p => lease.expiresAt = granted[p]

FreshOwns ==
  \A p \in Replicas : lockPc[p] = "running" /\ Lock!Fresh(p) => lease.owner = p

LeaseInv == Lock!TypeOK /\ StampsPast /\ OwnerWrote /\ FreshOwns

LEMMA ClockType == Lock!TypeOK => \A p \in Replicas : Lock!Clock(p) \in Nat
  BY DEF Lock!TypeOK, Lock!Clock

\* The types survive every step.
LEMMA LockStepTypes == Lock!TypeOK /\ [Lock!Next]_(Lock!vars) => Lock!TypeOK'
<1> SUFFICES ASSUME Lock!TypeOK, [Lock!Next]_(Lock!vars) PROVE Lock!TypeOK'
  OBVIOUS
<1>c. \A p \in Replicas : Lock!Clock(p) \in Nat
  BY ClockType
<1>1. ASSUME NEW p \in Replicas, Lock!Start(p) PROVE Lock!TypeOK'
  BY <1>1, <1>c DEF Lock!TypeOK, Lock!Start, Lock!counts
<1>2. ASSUME NEW p \in Replicas, Lock!Run(p), UNCHANGED <<now, skew, renewals, Lock!counts>>
      PROVE  Lock!TypeOK'
  <2>1. Lock!Mine(p) \in [owner : Replicas \cup {NoOwner}, expiresAt : Nat]
    BY DEF Lock!Mine, Lock!TypeOK
  <2> QED BY <1>2, <1>c, <2>1 DEF Lock!TypeOK, Lock!Run, Lock!counts
<1>3. ASSUME NEW p \in Replicas, NEW next \in {"idle", "dead"}, Lock!Return(p, next)
      PROVE  /\ lockPc' \in [Replicas -> {"idle", "acquiring", "creating", "running",
                                           "releasing", "dead"}]
             /\ stamp' \in [Replicas -> Nat] /\ renewAt' \in [Replicas -> Nat]
             /\ granted' \in [Replicas -> Nat]
  BY <1>3 DEF Lock!TypeOK, Lock!Return
<1>4. ASSUME NEW p \in Replicas, Lock!Acquire(p) PROVE Lock!TypeOK'
  <2>1. CASE Lock!Run(p)
    BY <2>1, <1>2, <1>4 DEF Lock!Acquire
  <2>2. CASE ~Lock!Run(p)
    BY <2>2, <1>4 DEF Lock!Acquire, Lock!TypeOK, Lock!counts
  <2> QED BY <2>1, <2>2
<1>5. ASSUME NEW p \in Replicas, Lock!Create(p) PROVE Lock!TypeOK'
  <2>1. CASE Lock!Run(p)
    BY <2>1, <1>2, <1>5 DEF Lock!Create
  <2>2. CASE ~Lock!Run(p)
    BY <2>2, <1>3, <1>5
       DEF Lock!Create, Lock!NotAcquired, Lock!Leave, Lock!TypeOK, Lock!counts
  <2> QED BY <2>1, <2>2
<1>6. ASSUME NEW p \in Replicas, Lock!AcquireFails(p) PROVE Lock!TypeOK'
  <2>1. Lock!Mine(p) \in [owner : Replicas \cup {NoOwner}, expiresAt : Nat]
    BY DEF Lock!Mine, Lock!TypeOK
  <2> QED BY <2>1, <1>3, <1>6 DEF Lock!AcquireFails, Lock!Fails, Lock!Leave, Lock!TypeOK
<1>7. ASSUME NEW p \in Replicas, Lock!RenewTimer(p) PROVE Lock!TypeOK'
  BY <1>7, <1>c DEF Lock!RenewTimer, Lock!TypeOK, Lock!counts
<1>8. ASSUME NEW renewal \in renewals, Lock!Renew(renewal) PROVE Lock!TypeOK'
  BY <1>8 DEF Lock!Renew, Lock!Renewed, Lock!TypeOK, Lock!process, Lock!counts
<1>9. ASSUME NEW renewal \in renewals, Lock!RenewFails(renewal) PROVE Lock!TypeOK'
  BY <1>9 DEF Lock!RenewFails, Lock!Fails, Lock!TypeOK, Lock!process
<1>10. ASSUME NEW p \in Replicas, Lock!Finish(p) PROVE Lock!TypeOK'
  BY <1>10, <1>c DEF Lock!Finish, Lock!TypeOK, Lock!counts
<1>11. ASSUME NEW p \in Replicas, Lock!Release(p) PROVE Lock!TypeOK'
  BY <1>11, <1>3 DEF Lock!Release, Lock!Leave, Lock!TypeOK, Lock!counts
<1>12. ASSUME NEW p \in Replicas, Lock!ReleaseFails(p) PROVE Lock!TypeOK'
  <2>1. /\ Lock!Return(p, "idle") /\ inProcessRunning' \in [Replicas -> BOOLEAN]
        /\ lockFailures' \in Nat /\ UNCHANGED <<now, skew, lease, renewals, crashes>>
    <3>1. /\ Lock!Return(p, "idle") /\ lockFailures' = lockFailures + 1
          /\ UNCHANGED <<now, skew, lease, renewals, crashes>>
      BY <1>12 DEF Lock!ReleaseFails, Lock!Fails, Lock!Leave
    <3>2. \/ inProcessRunning' = inProcessRunning
          \/ inProcessRunning' = [inProcessRunning EXCEPT ![p] = FALSE]
      BY <1>12 DEF Lock!ReleaseFails, Lock!Leave
    <3>3. lockFailures' \in Nat
      BY <3>1 DEF Lock!TypeOK
    <3>4. inProcessRunning' \in [Replicas -> BOOLEAN]
      BY <3>2 DEF Lock!TypeOK
    <3> QED BY <3>1, <3>3, <3>4
  <2> QED BY <2>1, <1>3 DEF Lock!TypeOK
<1>13. ASSUME NEW p \in Replicas, Lock!Crash(p) PROVE Lock!TypeOK'
  BY <1>13, <1>3 DEF Lock!Crash, Lock!TypeOK
<1>14. ASSUME Lock!Tick PROVE Lock!TypeOK'
  BY <1>14 DEF Lock!Tick, Lock!TypeOK, Lock!process, Lock!counts
<1>15. ASSUME UNCHANGED Lock!vars PROVE Lock!TypeOK'
  BY <1>15 DEF Lock!vars, Lock!TypeOK, Lock!process, Lock!counts
<1> QED
  BY <1>1, <1>4, <1>5, <1>6, <1>7, <1>8, <1>9, <1>10, <1>11, <1>12, <1>13, <1>14, <1>15
     DEF Lock!Next, Lock!Statement

\* Nobody can take the row from a running owner whose lease is fresh.
LEMMA FreshKeepsOthersOut ==
  ASSUME LeaseInv, NEW p \in Replicas, NEW q \in Replicas, p # q,
         lockPc[p] = "running", Lock!Fresh(p), lockPc[q] \in {"acquiring", "creating"}
  PROVE  ~Lock!Matches(q) /\ lease.owner # NoOwner
<1>1. lease.owner = p /\ lease.expiresAt = granted[p]
  BY DEF LeaseInv, FreshOwns, OwnerWrote
<1>2. stamp[q] <= Lock!Clock(q)
  BY DEF LeaseInv, StampsPast
<1>3. stamp[q] <= granted[p]
  BY <1>2 DEF LeaseInv, Lock!TypeOK, Lock!Fresh, Lock!Clock
<1> QED
  BY <1>1, <1>3 DEF Lock!Matches, LeaseInv, Lock!TypeOK

\* A process that writes the row with the lease it is given, running or not.
LEMMA TakeKeeps ==
  ASSUME LeaseInv, Lock!TypeOK', NEW q \in Replicas,
         lockPc[q] \in {"acquiring", "creating"},
         Lock!Matches(q) \/ lease.owner = NoOwner,
         lease' = Lock!Mine(q), now' = now, skew' = skew,
         \A p \in Replicas \ {q} : /\ lockPc'[p] = lockPc[p] /\ stamp'[p] = stamp[p]
                                   /\ granted'[p] = granted[p],
         \/ lockPc'[q] = "running" /\ granted'[q] = stamp[q] + TTL
         \/ lockPc'[q] = "idle"
  PROVE  LeaseInv'
<1>1. StampsPast'
  BY DEF LeaseInv, StampsPast, Lock!Clock
<1>2. OwnerWrote'
  BY DEF OwnerWrote, Lock!Mine
<1>3. FreshOwns'
  <2> SUFFICES ASSUME NEW p \in Replicas, lockPc'[p] = "running", Lock!Fresh(p)'
               PROVE  lease'.owner = p
    BY DEF FreshOwns
  <2>1. CASE p = q
    BY <2>1 DEF Lock!Mine
  <2>2. CASE p # q
    <3>1. lockPc[p] = "running" /\ Lock!Fresh(p)
      BY <2>2 DEF Lock!Fresh, Lock!Clock
    <3> QED
      BY <2>2, <3>1, FreshKeepsOthersOut
  <2> QED BY <2>1, <2>2
<1> QED
  BY <1>1, <1>2, <1>3 DEF LeaseInv

\* A step that leaves the row alone and starts no job keeps the invariant.
LEMMA QuietKeeps ==
  ASSUME LeaseInv, Lock!TypeOK', lease' = lease, skew' = skew, now' >= now,
         \A p \in Replicas :
           /\ lockPc'[p] = "running" => lockPc[p] = "running" /\ granted'[p] = granted[p]
           /\ lockPc'[p] \in {"acquiring", "creating"} =>
                \/ stamp'[p] = Lock!Clock(p)
                \/ lockPc[p] \in {"acquiring", "creating"} /\ stamp'[p] = stamp[p]
  PROVE  LeaseInv'
<1>1. \A p \in Replicas : Lock!Clock(p)' >= Lock!Clock(p)
  BY DEF Lock!Clock, LeaseInv, Lock!TypeOK
<1>2. StampsPast'
  BY <1>1 DEF LeaseInv, StampsPast, Lock!TypeOK, Lock!Clock
<1>3. OwnerWrote'
  BY DEF LeaseInv, OwnerWrote
<1>4. \A p \in Replicas : lockPc'[p] = "running" /\ Lock!Fresh(p)' => Lock!Fresh(p)
  BY DEF Lock!Fresh, Lock!Clock, LeaseInv, Lock!TypeOK
<1>5. FreshOwns'
  BY <1>4 DEF LeaseInv, FreshOwns
<1> QED
  BY <1>2, <1>3, <1>5 DEF LeaseInv

\* What a call that is over does to itself.
LEMMA ReturnEnds ==
  ASSUME Lock!TypeOK, NEW q \in Replicas, NEW next \in {"idle", "dead"},
         Lock!Return(q, next)
  PROVE  /\ lockPc'[q] = next
         /\ \A p \in Replicas \ {q} : /\ lockPc'[p] = lockPc[p] /\ stamp'[p] = stamp[p]
                                      /\ granted'[p] = granted[p]
  BY DEF Lock!Return, Lock!TypeOK

LEMMA LeaseInitially == Lock!Init => LeaseInv
<1> SUFFICES ASSUME Lock!Init PROVE LeaseInv
  OBVIOUS
<1>1. Lock!TypeOK
  BY DEF Lock!Init, Lock!TypeOK
<1> QED
  BY <1>1 DEF Lock!Init, LeaseInv, StampsPast, OwnerWrote, FreshOwns

LEMMA StepLease == LeaseInv /\ [Lock!Next]_(Lock!vars) => LeaseInv'
<1> SUFFICES ASSUME LeaseInv, [Lock!Next]_(Lock!vars) PROVE LeaseInv'
  OBVIOUS
<1>t. Lock!TypeOK /\ Lock!TypeOK'
  BY LockStepTypes DEF LeaseInv
<1>c. \A p \in Replicas : Lock!Clock(p) \in Nat
  BY <1>t, ClockType
<1>1. ASSUME NEW q \in Replicas, Lock!Start(q) PROVE LeaseInv'
  BY <1>1, <1>t, QuietKeeps DEF Lock!Start, Lock!TypeOK
<1>2. ASSUME NEW q \in Replicas, Lock!Acquire(q) PROVE LeaseInv'
  <2>1. CASE Lock!Matches(q) /\ Lock!Run(q)
    BY <2>1, <1>2, <1>t, TakeKeeps DEF Lock!Acquire, Lock!Run, Lock!TypeOK
  <2>2. CASE ~Lock!Matches(q)
    BY <2>2, <1>2, <1>t, QuietKeeps DEF Lock!Acquire, Lock!TypeOK
  <2> QED BY <2>1, <2>2, <1>2 DEF Lock!Acquire
<1>3. ASSUME NEW q \in Replicas, Lock!Create(q) PROVE LeaseInv'
  <2>1. CASE lease.owner = NoOwner
    BY <2>1, <1>3, <1>t, TakeKeeps DEF Lock!Create, Lock!Run, Lock!TypeOK
  <2>2. CASE lease.owner # NoOwner
    BY <2>2, <1>3, <1>t, ReturnEnds, QuietKeeps
       DEF Lock!Create, Lock!NotAcquired, Lock!Leave, Lock!TypeOK
  <2> QED BY <2>1, <2>2
<1>4. ASSUME NEW q \in Replicas, Lock!AcquireFails(q) PROVE LeaseInv'
  <2>0. /\ lockPc[q] \in {"acquiring", "creating"} /\ Lock!Return(q, "idle")
        /\ now' = now /\ skew' = skew
    BY <1>4 DEF Lock!AcquireFails, Lock!Fails, Lock!Leave
  <2>1. CASE lease' = lease
    BY <2>0, <2>1, <1>t, ReturnEnds, QuietKeeps DEF Lock!TypeOK
  <2>2. CASE lease' # lease
    <3>1. lease' = Lock!Mine(q) /\ (Lock!Matches(q) \/ lease.owner = NoOwner)
      BY <2>2, <1>4 DEF Lock!AcquireFails
    <3> QED BY <2>0, <3>1, <1>t, ReturnEnds, TakeKeeps
  <2> QED BY <2>1, <2>2
<1>5. ASSUME NEW q \in Replicas, Lock!RenewTimer(q) PROVE LeaseInv'
  BY <1>5, <1>t, QuietKeeps DEF Lock!RenewTimer, Lock!TypeOK
<1>6. ASSUME NEW renewal \in renewals, Lock!Renew(renewal) PROVE LeaseInv'
  <2> DEFINE q == renewal.process
  <2>1. q \in Replicas /\ renewal.stamp \in Nat
    BY <1>t DEF Lock!TypeOK
  <2>2. CASE lease.owner # q
    BY <2>2, <1>6, <1>t, QuietKeeps DEF Lock!Renew, Lock!process, Lock!TypeOK
  <2>3. CASE lease.owner = q
    <3>1. /\ lease'.owner = q /\ lease'.expiresAt = renewal.stamp + TTL
          /\ granted' = [granted EXCEPT ![q] = IF lockPc[q] = "running"
                                               THEN renewal.stamp + TTL ELSE @]
          /\ UNCHANGED <<now, skew, lockPc, stamp>>
      BY <2>3, <1>6, <1>t DEF Lock!Renew, Lock!Renewed, Lock!process, Lock!TypeOK
    <3>2. StampsPast'
      BY <3>1 DEF LeaseInv, StampsPast, Lock!Clock
    <3>3. OwnerWrote'
      BY <3>1, <2>1, <1>t DEF OwnerWrote, Lock!TypeOK
    <3>4. FreshOwns'
      BY <3>1, <2>1, <2>3, <1>t DEF LeaseInv, FreshOwns, Lock!Fresh, Lock!Clock, Lock!TypeOK
    <3> QED BY <3>2, <3>3, <3>4, <1>t DEF LeaseInv
  <2> QED BY <2>2, <2>3
<1>7. ASSUME NEW renewal \in renewals, Lock!RenewFails(renewal) PROVE LeaseInv'
  BY <1>7, <1>t, QuietKeeps DEF Lock!RenewFails, Lock!Fails, Lock!process, Lock!TypeOK
<1>8. ASSUME NEW q \in Replicas, Lock!Finish(q) PROVE LeaseInv'
  BY <1>8, <1>t, QuietKeeps DEF Lock!Finish, Lock!TypeOK
<1>9. ASSUME NEW q \in Replicas, Lock!Release(q) PROVE LeaseInv'
  <2>0. /\ Lock!Return(q, "idle") /\ UNCHANGED <<now, skew>>
        /\ lockPc[q] = "releasing"
    BY <1>9 DEF Lock!Release, Lock!Leave
  <2>1. CASE lease.owner # q
    BY <2>0, <2>1, <1>9, <1>t, ReturnEnds, QuietKeeps DEF Lock!Release, Lock!TypeOK
  <2>2. CASE lease.owner = q
    <3>1. lease'.owner = q
      BY <2>2, <1>9, <1>t DEF Lock!Release, Lock!TypeOK
    <3>2. /\ lockPc'[q] = "idle"
          /\ \A p \in Replicas \ {q} : /\ lockPc'[p] = lockPc[p] /\ stamp'[p] = stamp[p]
                                       /\ granted'[p] = granted[p]
      BY <2>0, <1>t, ReturnEnds
    <3>3. StampsPast'
      BY <3>2, <2>0 DEF LeaseInv, StampsPast, Lock!Clock
    <3>4. OwnerWrote'
      BY <3>1, <3>2 DEF OwnerWrote
    <3>5. FreshOwns'
      BY <3>1, <3>2, <2>0, <2>2 DEF LeaseInv, FreshOwns, Lock!Fresh, Lock!Clock
    <3> QED BY <3>3, <3>4, <3>5, <1>t DEF LeaseInv
  <2> QED BY <2>1, <2>2
<1>10. ASSUME NEW q \in Replicas, Lock!ReleaseFails(q) PROVE LeaseInv'
  <2>1. /\ Lock!Return(q, "idle") /\ UNCHANGED <<now, skew, lease>>
    BY <1>10 DEF Lock!ReleaseFails, Lock!Leave, Lock!Fails
  <2> QED BY <2>1, <1>t, ReturnEnds, QuietKeeps DEF Lock!TypeOK
<1>11. ASSUME NEW q \in Replicas, Lock!Crash(q) PROVE LeaseInv'
  BY <1>11, <1>t, ReturnEnds, QuietKeeps DEF Lock!Crash, Lock!TypeOK
<1>12. ASSUME Lock!Tick PROVE LeaseInv'
  BY <1>12, <1>t, QuietKeeps DEF Lock!Tick, Lock!process, Lock!TypeOK
<1>13. ASSUME UNCHANGED Lock!vars PROVE LeaseInv'
  BY <1>13, <1>t, QuietKeeps DEF Lock!vars, Lock!process, Lock!TypeOK
<1> QED
  BY <1>1, <1>2, <1>3, <1>4, <1>5, <1>6, <1>7, <1>8, <1>9, <1>10, <1>11, <1>12, <1>13
     DEF Lock!Next, Lock!Statement

\* The lease's invariant holds in every state.
LEMMA LeaseAlways == Lock!Spec => []LeaseInv
  BY LeaseInitially, StepLease, PTL DEF Lock!Spec

\* The row and the processes have their types, for every instance.
THEOREM LockTypeCorrect == Lock!Spec => []Lock!TypeOK
<1>1. LeaseInv => Lock!TypeOK
  BY DEF LeaseInv
<1> QED
  BY <1>1, LeaseAlways, PTL

\* No two jobs run while both their leases are fresh: renewed within the time
\* to live less the skew (runWithLease).
LEMMA JobsExcluded == Lock!Spec => []Lock!Exclusive
<1>1. LeaseInv => Lock!Exclusive
  BY DEF LeaseInv, FreshOwns, Lock!Exclusive
<1> QED
  BY <1>1, LeaseAlways, PTL

-----------------------------------------------------------------------------
\* No reading of a clock is ahead of every clock, in a statement or in the row.
Readings ==
  /\ \A p \in Replicas : stamp[p] <= now + MaxSkew
  /\ \A renewal \in renewals : renewal.stamp <= now + MaxSkew
  /\ Lock!SoonExpired

LEMMA ReadingsStep == Lock!TypeOK /\ Lock!TypeOK' /\ Readings /\ [Lock!Next]_(Lock!vars)
    => Readings'
<1> SUFFICES ASSUME Lock!TypeOK, Lock!TypeOK', Readings, [Lock!Next]_(Lock!vars)
      PROVE Readings'
  OBVIOUS
<1>0. \A p \in Replicas : Lock!Clock(p) \in Nat /\ Lock!Clock(p) <= now + MaxSkew
  BY DEF Lock!TypeOK, Lock!Clock
<1>1. ASSUME UNCHANGED <<now, lease, renewals>>,
             \A p \in Replicas : stamp'[p] \in {stamp[p], 0, Lock!Clock(p)}
      PROVE  Readings'
  BY <1>0, <1>1 DEF Readings, Lock!SoonExpired, Lock!TypeOK
<1>2. ASSUME NEW q \in Replicas, lease' = Lock!Mine(q), UNCHANGED <<now, renewals>>,
             \A p \in Replicas : stamp'[p] \in {stamp[p], 0}
      PROVE  Readings'
  BY <1>2 DEF Readings, Lock!SoonExpired, Lock!Mine, Lock!TypeOK
<1>3. ASSUME NEW q \in Replicas, Lock!Return(q, "idle") \/ Lock!Return(q, "dead")
      PROVE  \A p \in Replicas : stamp'[p] \in {stamp[p], 0}
  BY <1>3 DEF Lock!Return, Lock!TypeOK
<1>4. ASSUME NEW q \in Replicas, Lock!Start(q) \/ Lock!Finish(q) PROVE Readings'
  BY <1>4, <1>1 DEF Lock!Start, Lock!Finish, Lock!TypeOK
<1>5. ASSUME NEW q \in Replicas, Lock!Acquire(q) PROVE Readings'
  <2>1. CASE Lock!Run(q)
    BY <2>1, <1>5, <1>2 DEF Lock!Acquire, Lock!Run, Lock!TypeOK
  <2>2. CASE ~Lock!Run(q)
    BY <2>2, <1>5, <1>1 DEF Lock!Acquire, Lock!TypeOK
  <2> QED BY <2>1, <2>2
<1>6. ASSUME NEW q \in Replicas, Lock!Create(q) PROVE Readings'
  <2>1. CASE Lock!Run(q)
    BY <2>1, <1>6, <1>2 DEF Lock!Create, Lock!Run, Lock!TypeOK
  <2>2. CASE ~Lock!Run(q)
    BY <2>2, <1>6, <1>1, <1>3 DEF Lock!Create, Lock!NotAcquired, Lock!Leave
  <2> QED BY <2>1, <2>2
<1>7. ASSUME NEW q \in Replicas, Lock!AcquireFails(q) PROVE Readings'
  <2>1. Lock!Return(q, "idle") /\ UNCHANGED <<now, renewals>>
          /\ lease' \in {lease, Lock!Mine(q)}
    BY <1>7 DEF Lock!AcquireFails, Lock!Leave, Lock!Fails
  <2> QED BY <2>1, <1>1, <1>2, <1>3
<1>8. ASSUME NEW q \in Replicas, Lock!RenewTimer(q) PROVE Readings'
  BY <1>8, <1>0 DEF Lock!RenewTimer, Readings, Lock!SoonExpired, Lock!TypeOK
<1>9. ASSUME NEW renewal \in renewals, Lock!Renew(renewal) PROVE Readings'
  BY <1>9
     DEF Lock!Renew, Lock!Renewed, Lock!process, Readings, Lock!SoonExpired, Lock!TypeOK
<1>10. ASSUME NEW renewal \in renewals, Lock!RenewFails(renewal) PROVE Readings'
  BY <1>10
     DEF Lock!RenewFails, Lock!Fails, Lock!process, Readings, Lock!SoonExpired, Lock!TypeOK
<1>11. ASSUME NEW q \in Replicas, Lock!Release(q) PROVE Readings'
  <2>1. UNCHANGED <<now, renewals>> /\ \A p \in Replicas : stamp'[p] \in {stamp[p], 0}
    BY <1>11, <1>3 DEF Lock!Release, Lock!Leave
  <2>2. Lock!SoonExpired'
    BY <1>11 DEF Lock!Release, Readings, Lock!SoonExpired, Lock!TypeOK
  <2> QED BY <2>1, <2>2 DEF Readings, Lock!TypeOK
<1>12. ASSUME NEW q \in Replicas, Lock!ReleaseFails(q) PROVE Readings'
  BY <1>12, <1>1, <1>3 DEF Lock!ReleaseFails, Lock!Leave, Lock!Fails
<1>13. ASSUME NEW q \in Replicas, Lock!Crash(q) PROVE Readings'
  BY <1>13, <1>1, <1>3 DEF Lock!Crash
<1>14. ASSUME Lock!Tick PROVE Readings'
  BY <1>14 DEF Lock!Tick, Lock!process, Readings, Lock!SoonExpired, Lock!TypeOK
<1>15. ASSUME UNCHANGED Lock!vars PROVE Readings'
  BY <1>15, <1>1 DEF Lock!vars, Lock!process
<1> QED
  BY <1>4, <1>5, <1>6, <1>7, <1>8, <1>9, <1>10, <1>11, <1>12, <1>13, <1>14, <1>15
     DEF Lock!Next, Lock!Statement

\* A lease never reaches further ahead than the time to live, so a process that
\* dies holds up the others no longer than that (acquire, renew).
LEMMA SoonFree == Lock!Spec => []Lock!SoonExpired
<1>1. Lock!Init => Readings
  BY DEF Lock!Init, Readings, Lock!SoonExpired
<1>2. Readings => Lock!SoonExpired
  BY DEF Readings
<1> QED
  BY <1>1, <1>2, ReadingsStep, LockTypeCorrect, PTL DEF Lock!Spec

-----------------------------------------------------------------------------
(* Side by side, the crank and the lease each do what their module says.   *)
THEOREM BothAreImplemented == SchedulingSpec => Spec /\ Lock!Spec
<1>1. SchedulingInit => Init /\ Lock!Init
  BY DEF SchedulingInit
<1>2. [SchedulingNext]_<<vars, lockVars>> => [Next]_vars /\ [Lock!Next]_(Lock!vars)
  <2>1. UNCHANGED lockVars => UNCHANGED Lock!vars
    BY DEF lockVars, Lock!vars, Lock!process, Lock!counts
  <2>2. QED
    BY <2>1 DEF SchedulingNext
<1>3. QED
  BY <1>1, <1>2, PTL DEF SchedulingSpec, Spec, Lock!Spec

(* Two processes are in the job at once only if one of them has not        *)
(* renewed its lease in time (acquire, renew, release), whatever the crank *)
(* does meanwhile.                                                         *)
THEOREM LeaseExcludes == SchedulingSpec => []Exclusive
  BY BothAreImplemented, JobsExcluded, PTL DEF Exclusive

(* A process that dies holds up the others no longer than the time to live *)
(* (acquire, renew), whatever the crank does meanwhile.                    *)
THEOREM LeaseSoonExpires == SchedulingSpec => []SoonExpired
  BY BothAreImplemented, SoonFree, PTL DEF SoonExpired
=============================================================================
