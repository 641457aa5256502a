-------------------------------- MODULE Crank --------------------------------
(***************************************************************************)
(* The lifecycle crank (RoundManagerService and the gateway methods of     *)
(* SolanaService it awaits).  Once a second a replica readies the accounts *)
(* the game needs on the rollup, prepares the next round, commits the      *)
(* rounds that have ended to the base layer, and asks for randomness or    *)
(* cancels.  Every await is a step; it may throw, which ends the tick; and *)
(* what a replica knows of earlier ticks is gone after a restart.          *)
(*                                                                         *)
(* Nothing here keeps the replicas apart: the lease (SchedulerLock) can be *)
(* lost while a tick goes on, and the properties hold without it.          *)
(*                                                                         *)
(* Times are abstracted to the phases of a round.  The crank compares a    *)
(* deadline it has read with its own clock, so it may ask too early; the   *)
(* program decides.  External: the players, the oracle, the router (which  *)
(* may not answer), the delegation program, and the rollup's commits,      *)
(* which arrive after the transaction that schedules them, in any order.   *)
(***************************************************************************)
EXTENDS Integers

CONSTANTS
  Replicas,
  MaxRound,         \* bound: the last round, which nobody bets on
  MaxFailures,      \* bound: awaits that throw, router calls without answer
  MaxRestarts       \* bound: replicas that restart

ASSUME CrankAssumption == {MaxRound, MaxFailures, MaxRestarts} \subseteq Nat

Rounds == 0 .. MaxRound + 1     \* the crank prepares one ahead
NotObserved == MaxRound + 2     \* observedRoundId is null

\* what board.end_ts, vrf_requested and the clock say of the current round
Phases == {"waiting", "betting", "due", "requested", "overdue"}
Board == [round_id : Rounds, phase : Phases]

VARIABLES
  initialized,
  prepared,         \* rounds that have an account
  delegated,        \* rounds whose account lives on the rollup
  core,             \* which of the treasury and the board do
  board,            \* the board, wherever it lives
  baseBoard,        \* the base layer's copy of a delegated board
  commits,          \* commits on their way to the base layer
  resolved,         \* rounds that are resolved on the base layer
  pc,
  memory,           \* a replica's fields: what earlier ticks have done
  tick,             \* its local variables in this tick
  failures, restarts

base == <<initialized, prepared, delegated, core>>
game == <<board, baseBoard, commits, resolved>>
chain == <<base, game>>
counts == <<failures, restarts>>
vars == <<chain, pc, memory, tick, counts>>

Memory == [observedRoundId : Rounds \cup {NotObserved},
           preparedRounds : SUBSET Rounds, committedRounds : SUBSET Rounds,
           coreDelegationReady : BOOLEAN, onRollup : BOOLEAN]

Tick == [roundId : Rounds, phase : Phases, target : {"treasury", "board", "round"},
         completed : Rounds]

Started == [observedRoundId |-> NotObserved, preparedRounds |-> {},
            committedRounds |-> {}, coreDelegationReady |-> FALSE,
            onRollup |-> FALSE]
NoTick == [roundId |-> 0, phase |-> "waiting", target |-> "treasury",
           completed |-> 0]

\* the awaits of a tick
Places == {"idle", "initialize", "connect", "readBoard", "status", "delegate",
           "reconnect", "rereadBoard", "exists", "prepare", "nextStatus",
           "delegateNext", "commit", "sendCommit", "request", "cancel"}

GoTo(r, next) == pc' = [pc EXCEPT ![r] = next]

\* the tick is over, having done all it had to or having thrown
Done(r) ==
  /\ GoTo(r, "idle")
  /\ tick' = [tick EXCEPT ![r] = NoTick]

-----------------------------------------------------------------------------
(***************************************************************************)
(* The game's accounts.                                                    *)
(***************************************************************************)
Bet ==
  /\ board.phase = "waiting"
  /\ board.round_id < MaxRound
  /\ "board" \in core /\ board.round_id \in delegated
  /\ board' = [board EXCEPT !.phase = "betting"]
  /\ UNCHANGED <<base, baseBoard, commits, resolved, pc, memory, tick, counts>>

Later(before, after) ==
  /\ board.phase = before
  /\ board' = [board EXCEPT !.phase = after]
  /\ UNCHANGED <<base, baseBoard, commits, resolved, pc, memory, tick, counts>>

Deadline == Later("betting", "due")
VrfTimeout == Later("requested", "overdue")

AdvancedBoard == [round_id |-> board.round_id + 1, phase |-> "waiting"]

\* the oracle's answer, which writes the next round's account too
CallbackResolveRound ==
  /\ board.phase \in {"requested", "overdue"}
  /\ board.round_id + 1 \in delegated
  /\ board' = AdvancedBoard
  /\ UNCHANGED <<base, baseBoard, commits, resolved, pc, memory, tick, counts>>

\* a commit reaches the base layer
Land(commit) ==
  /\ commit \in commits
  /\ commits' = commits \ {commit}
  /\ resolved' = resolved \cup {commit.round}
  /\ baseBoard' = commit.board
  /\ UNCHANGED <<base, board, pc, memory, tick, counts>>

-----------------------------------------------------------------------------
(***************************************************************************)
(* A tick: advanceLifecycle.                                               *)
(***************************************************************************)
\* ensureInitialized: nothing, or all four accounts, exist
CheckRoundStatus(r) ==
  /\ pc[r] = "idle"
  /\ GoTo(r, IF initialized THEN "connect" ELSE "initialize")
  /\ UNCHANGED <<chain, memory, tick, counts>>

Initialize(r) ==
  /\ pc[r] = "initialize"
  /\ \/ /\ ~initialized
        /\ initialized' = TRUE
        /\ prepared' = prepared \cup {0}
        /\ GoTo(r, "connect")
        /\ UNCHANGED tick
     \/ initialized /\ Done(r) /\ UNCHANGED <<initialized, prepared>>
  /\ UNCHANGED <<delegated, core, game, memory, counts>>

\* refreshGameConnection: to the rollup, or to the base layer while the board
\* is there or the router does not answer
Connect(r) ==
  /\ pc[r] \in {"connect", "reconnect"}
  /\ \E onRollup \in BOOLEAN :
       /\ memory' = [memory EXCEPT ![r].onRollup = onRollup]
       /\ \/ (onRollup \/ "board" \notin core) /\ UNCHANGED counts
          \/ /\ ~onRollup /\ "board" \in core
             /\ failures < MaxFailures
             /\ failures' = failures + 1 /\ UNCHANGED restarts
  /\ GoTo(r, IF pc[r] = "connect" THEN "readBoard" ELSE "rereadBoard")
  /\ UNCHANGED <<chain, tick>>

\* a connection to the base layer shows a delegated board as it was committed
Seen(r) == IF memory[r].onRollup \/ "board" \notin core THEN board ELSE baseBoard

\* the round of the first reading is used to the end of the tick
ReadBoard(r) ==
  /\ pc[r] = "readBoard"
  /\ tick' = [tick EXCEPT ![r].roundId = Seen(r).round_id]
  /\ GoTo(r, IF memory[r].coreDelegationReady THEN "reconnect" ELSE "status")
  /\ UNCHANGED <<chain, memory, counts>>

\* does the account the tick is about to delegate live on the rollup already?
TargetDelegated(r) ==
  IF tick[r].target = "round" THEN tick[r].roundId \in delegated
                              ELSE tick[r].target \in core

AfterTarget(r) ==
  IF tick[r].target = "board"
  THEN /\ memory' = [memory EXCEPT ![r].coreDelegationReady = TRUE]
       /\ GoTo(r, "reconnect")
       /\ UNCHANGED tick
  ELSE /\ tick' = [tick EXCEPT ![r].target =
                     IF @ = "treasury" THEN "round" ELSE "board"]
       /\ GoTo(r, "status")
       /\ UNCHANGED memory

\* ensureCoreDelegated: the treasury, the current round, and the board last
TargetStatus(r) ==
  /\ pc[r] = "status"
  /\ \/ TargetDelegated(r) /\ AfterTarget(r)
     \/ /\ ~TargetDelegated(r)
        /\ GoTo(r, "delegate")
        /\ UNCHANGED <<memory, tick>>
  /\ UNCHANGED <<chain, counts>>

\* refused when another replica was faster
DelegateTarget(r) ==
  /\ pc[r] = "delegate"
  /\ \/ /\ ~TargetDelegated(r)
        /\ IF tick[r].target = "round"
           THEN delegated' = delegated \cup {tick[r].roundId} /\ UNCHANGED core
           ELSE core' = core \cup {tick[r].target} /\ UNCHANGED delegated
        /\ baseBoard' = IF tick[r].target = "board" THEN board ELSE baseBoard
        /\ AfterTarget(r)
     \/ /\ TargetDelegated(r)
        /\ Done(r)
        /\ UNCHANGED <<delegated, core, baseBoard, memory>>
  /\ UNCHANGED <<initialized, prepared, board, commits, resolved, counts>>

\* mutant: a restarted replica takes the current round for observed
FirstCompletedObserved(r) ==
  IF memory[r].observedRoundId < tick[r].roundId
  THEN memory[r].observedRoundId ELSE tick[r].roundId

\* mutant: round 0 has a predecessor too
FirstCompletedAlways(r) ==
  IF memory[r].observedRoundId = NotObserved THEN tick[r].roundId - 1
  ELSE FirstCompletedObserved(r)

\* where the loop over the completed rounds starts: at the round observed last,
\* or at the one before the current if none has been
FirstCompleted(r) ==
  LET roundId == tick[r].roundId
      observed == memory[r].observedRoundId
  IN  CASE observed = NotObserved /\ roundId > 0 -> roundId - 1
        [] observed < roundId -> observed
        [] OTHER -> roundId

NextRound(r) == tick[r].roundId + 1

\* mutant: the next round is marked before it is awaited
RereadBoardMarked(r) ==
  /\ pc[r] = "rereadBoard"
  /\ tick' = [tick EXCEPT ![r].phase = Seen(r).phase,
                          ![r].completed = FirstCompleted(r)]
  /\ memory' = [memory EXCEPT ![r].preparedRounds = @ \cup {NextRound(r)}]
  /\ GoTo(r, IF NextRound(r) \in memory[r].preparedRounds THEN "commit" ELSE "exists")
  /\ UNCHANGED <<chain, counts>>

RereadBoard(r) ==
  /\ pc[r] = "rereadBoard"
  /\ tick' = [tick EXCEPT ![r].phase = Seen(r).phase,
                          ![r].completed = FirstCompleted(r)]
  /\ GoTo(r, IF NextRound(r) \in memory[r].preparedRounds THEN "commit" ELSE "exists")
  /\ UNCHANGED <<chain, memory, counts>>

\* mutant: an account that exists is taken for ready
RoundExistsReady(r) ==
  /\ pc[r] = "exists"
  /\ GoTo(r, IF NextRound(r) \in prepared THEN "commit" ELSE "prepare")
  /\ UNCHANGED <<chain, memory, tick, counts>>

\* ensureFutureRound, ensureRoundPreparedAndDelegated
RoundExists(r) ==
  /\ pc[r] = "exists"
  /\ GoTo(r, IF NextRound(r) \in prepared THEN "nextStatus" ELSE "prepare")
  /\ UNCHANGED <<chain, memory, tick, counts>>

PrepareRound(r) ==
  /\ pc[r] = "prepare"
  /\ \/ /\ NextRound(r) \notin prepared
        /\ prepared' = prepared \cup {NextRound(r)}
        /\ GoTo(r, "nextStatus")
        /\ UNCHANGED tick
     \/ NextRound(r) \in prepared /\ Done(r) /\ UNCHANGED prepared
  /\ UNCHANGED <<initialized, delegated, core, game, memory, counts>>

FutureReady(r) ==
  /\ memory' = [memory EXCEPT ![r].preparedRounds = @ \cup {NextRound(r)}]
  /\ GoTo(r, "commit")
  /\ UNCHANGED tick

NextStatus(r) ==
  /\ pc[r] = "nextStatus"
  /\ \/ NextRound(r) \in delegated /\ FutureReady(r)
     \/ /\ NextRound(r) \notin delegated
        /\ GoTo(r, "delegateNext")
        /\ UNCHANGED <<memory, tick>>
  /\ UNCHANGED <<chain, counts>>

DelegateNext(r) ==
  /\ pc[r] = "delegateNext"
  /\ \/ /\ NextRound(r) \notin delegated
        /\ delegated' = delegated \cup {NextRound(r)}
        /\ FutureReady(r)
     \/ NextRound(r) \in delegated /\ Done(r) /\ UNCHANGED <<delegated, memory>>
  /\ UNCHANGED <<initialized, prepared, core, game, counts>>

\* mutant: an off-by-one in the loop
HasCompletedToo(r) == tick[r].completed <= tick[r].roundId

HasCompleted(r) == tick[r].completed < tick[r].roundId

\* one turn of the loop: known to be committed, found to be, or to be committed
CommitCompleted(r) ==
  LET completed == tick[r].completed
      known == completed \in memory[r].committedRounds
  IN  /\ pc[r] = "commit"
      /\ HasCompleted(r)
      /\ \/ /\ known \/ completed \in resolved
            /\ memory' = [memory EXCEPT ![r].committedRounds = @ \cup {completed}]
            /\ tick' = [tick EXCEPT ![r].completed = @ + 1]
            /\ UNCHANGED pc
         \/ /\ ~known /\ completed \notin resolved
            /\ GoTo(r, "sendCommit")
            /\ UNCHANGED <<memory, tick>>
      /\ UNCHANGED <<chain, counts>>

\* mutant: the round is marked before the transaction is sent
SendCommitMarked(r) ==
  LET completed == tick[r].completed
  IN  /\ pc[r] = "sendCommit"
      /\ memory' = [memory EXCEPT ![r].committedRounds = @ \cup {completed}]
      /\ \/ /\ memory[r].onRollup
            /\ commits' = commits \cup {[round |-> completed, board |-> board]}
            /\ tick' = [tick EXCEPT ![r].completed = @ + 1]
            /\ GoTo(r, "commit")
         \/ ~memory[r].onRollup /\ Done(r) /\ UNCHANGED commits
      /\ UNCHANGED <<base, board, baseBoard, resolved, counts>>

\* commit_game, which only the rollup understands
SendCommit(r) ==
  LET completed == tick[r].completed
  IN  /\ pc[r] = "sendCommit"
      /\ \/ /\ memory[r].onRollup
            /\ commits' = commits \cup {[round |-> completed, board |-> board]}
            /\ memory' = [memory EXCEPT ![r].committedRounds = @ \cup {completed}]
            /\ tick' = [tick EXCEPT ![r].completed = @ + 1]
            /\ GoTo(r, "commit")
         \/ ~memory[r].onRollup /\ Done(r) /\ UNCHANGED <<commits, memory>>
      /\ UNCHANGED <<base, board, baseBoard, resolved, counts>>

\* nothing to do, or by this replica's clock not yet
Decide(r) ==
  /\ pc[r] = "commit"
  /\ ~HasCompleted(r)
  /\ memory' = [memory EXCEPT ![r].observedRoundId = tick[r].roundId]
  /\ \/ tick[r].phase \in {"waiting", "betting", "requested"} /\ Done(r)
     \/ /\ tick[r].phase \in {"betting", "due"}
        /\ GoTo(r, "request") /\ UNCHANGED tick
     \/ /\ tick[r].phase \in {"requested", "overdue"}
        /\ GoTo(r, "cancel") /\ UNCHANGED tick
  /\ UNCHANGED <<chain, counts>>

\* the transaction names the accounts of the tick's round; the next round's may
\* be read wherever it lives
Accepted(r) ==
  /\ memory[r].onRollup
  /\ board.round_id = tick[r].roundId
  /\ NextRound(r) \in prepared

\* whether the program takes it or not, the tick ends
Request(r) ==
  /\ pc[r] = "request"
  /\ \/ /\ Accepted(r) /\ board.phase = "due"
        /\ board' = [board EXCEPT !.phase = "requested"]
     \/ ~(Accepted(r) /\ board.phase = "due") /\ UNCHANGED board
  /\ Done(r)
  /\ UNCHANGED <<base, baseBoard, commits, resolved, memory, counts>>

Cancel(r) ==
  /\ pc[r] = "cancel"
  /\ \/ /\ Accepted(r) /\ board.phase = "overdue"
        /\ board' = AdvancedBoard
     \/ ~(Accepted(r) /\ board.phase = "overdue") /\ UNCHANGED board
  /\ Done(r)
  /\ UNCHANGED <<base, baseBoard, commits, resolved, memory, counts>>

Throw(r) ==
  /\ pc[r] # "idle"
  /\ failures < MaxFailures
  /\ failures' = failures + 1
  /\ Done(r)
  /\ UNCHANGED <<chain, memory, restarts>>

Restart(r) ==
  /\ restarts < MaxRestarts
  /\ restarts' = restarts + 1
  /\ memory' = [memory EXCEPT ![r] = Started]
  /\ Done(r)
  /\ UNCHANGED <<chain, failures>>

Step(r) ==
  \/ CheckRoundStatus(r) \/ Initialize(r) \/ Connect(r) \/ ReadBoard(r)
  \/ TargetStatus(r) \/ DelegateTarget(r) \/ RereadBoard(r)
  \/ RoundExists(r) \/ PrepareRound(r) \/ NextStatus(r) \/ DelegateNext(r)
  \/ CommitCompleted(r) \/ SendCommit(r) \/ Decide(r) \/ Request(r) \/ Cancel(r)

-----------------------------------------------------------------------------
Init ==
  /\ initialized = FALSE
  /\ prepared = {}
  /\ delegated = {} /\ core = {}
  /\ board = [round_id |-> 0, phase |-> "waiting"]
  /\ baseBoard = board
  /\ commits = {}
  /\ resolved = {}
  /\ pc = [r \in Replicas |-> "idle"]
  /\ memory = [r \in Replicas |-> Started]
  /\ tick = [r \in Replicas |-> NoTick]
  /\ failures = 0 /\ restarts = 0

Next ==
  \/ Bet \/ Deadline \/ VrfTimeout \/ CallbackResolveRound
  \/ \E commit \in commits : Land(commit)
  \/ \E r \in Replicas : Step(r) \/ Throw(r) \/ Restart(r)

Spec == Init /\ [][Next]_vars

\* time passes, commits arrive, and cron keeps calling every replica; nothing
\* is assumed of the oracle or of the players
Fairness ==
  /\ WF_vars(Deadline) /\ WF_vars(VrfTimeout)
  /\ WF_vars(\E commit \in commits : Land(commit))
  /\ \A r \in Replicas : WF_vars(Step(r))

FairSpec == Spec /\ Fairness

-----------------------------------------------------------------------------
\* Type invariant of the game's accounts and of the replicas.
TypeOK ==
  /\ initialized \in BOOLEAN
  /\ prepared \subseteq Rounds
  /\ delegated \subseteq Rounds /\ core \subseteq {"treasury", "board"}
  /\ {board, baseBoard} \subseteq Board
  /\ commits \subseteq [round : Rounds, board : Board]
  /\ resolved \subseteq Rounds
  /\ pc \in [Replicas -> Places]
  /\ memory \in [Replicas -> Memory]
  /\ tick \in [Replicas -> Tick]
  /\ {failures, restarts} \subseteq Nat

Sent(k) == k \in resolved \/ \E commit \in commits : commit.round = k

Drawing == board.phase \in {"requested", "overdue"}

\* A round is asked to end only after every earlier one has been committed, so
\* however often the crank forgets what it has done, at most the last round is
\* missing on the base layer: looking one round back after a restart
\* (advanceLifecycle) is enough.
NothingLeftBehind ==
  \A k \in Rounds :
    k + 1 < board.round_id \/ (k < board.round_id /\ Drawing) => Sent(k)

\* While a draw is under way the next round's account is on the rollup, where
\* the oracle's answer has to write it (ensureFutureRound before the request),
\* although the request itself only reads it.
NextRoundReady == Drawing => board.round_id + 1 \in delegated

\* The base layer is never shown a round that is still being played, whatever
\* reading of the board a replica went by.
OnlyFinishedCommitted == \A k \in Rounds : Sent(k) => k < board.round_id

\* Every round with a bet ends, and is committed to the base layer, although
\* replicas throw, restart, and overtake each other, and the oracle is silent.
EveryRoundEnds ==
  \A k \in 0 .. MaxRound - 1 :
    board = [round_id |-> k, phase |-> "betting"] ~> k \in resolved
=============================================================================
