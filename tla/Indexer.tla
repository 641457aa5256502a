------------------------------- MODULE Indexer -------------------------------
(***************************************************************************)
(* The indexer (IndexerService): it projects the program's transactions    *)
(* and accounts into the database and announces the end of rounds.  Logs   *)
(* arrive live from two subscriptions (game and VRF program, so the answer *)
(* of the oracle arrives twice), are read again by the backfill from a     *)
(* cursor on, and by the reconciliation of rounds that ended without a     *)
(* winner; account notifications arrive besides, and land in any order.    *)
(*                                                                         *)
(* Transactions are numbered in the order they landed.  Recording a deploy *)
(* (module Ingestion) is one step here.  A worker is one call of           *)
(* processProgramLogs; Recovery is the one of recoverMissedLogs.  The      *)
(* table of the cursor exists, so backfillMissedDeployLogs reaches its     *)
(* loop.                                                                   *)
(*                                                                         *)
(* External: the chain, its subscriptions and queries, errors, restarts.   *)
(***************************************************************************)
EXTENDS Integers, Sequences, FiniteSets, FiniteSetsExt

CONSTANTS
  Rounds, NoSquare,
  Known,                  \* rounds whose row an earlier notification has created
  Log,                    \* what lands, in order: [kind, round, winner]
  Workers, Recovery,      \* live calls, and the recovery
  Limit, MaxPages,        \* limit, maxPages
  MaxFailures, MaxCrashes, MaxLost    \* bounds: errors, restarts, lost logs

\* the program draws a round once
IndexerAssumption ==
  /\ Log \in Seq([kind : {"deploy", "fulfil"}, round : Rounds,
                  winner : {Log[i].winner : i \in DOMAIN Log}])
  /\ \A i, j \in DOMAIN Log :
       (Log[i].kind = "fulfil" /\ Log[j].kind = "fulfil" /\ Log[i].round = Log[j].round)
         => Log[i].winner = Log[j].winner
  /\ Known \subseteq Rounds /\ Recovery \notin Workers
  /\ {Limit, MaxPages} \subseteq Nat \ {0}
  /\ {MaxFailures, MaxCrashes, MaxLost} \subseteq Nat

VARIABLES
  head,               \* chain: transactions that landed
  pending,            \* live logs not delivered yet: <<program, transaction>>
  notes,              \* account notifications of rounds not delivered yet
  writes,             \* upserts of handleRoundChange under way
  recorded, row, cursor,              \* database: deployments, rounds, indexerCursor
  resolvedWinners, processedRoundEnds,            \* memory of the process
  worker,             \* calls of processProgramLogs
  recovery,           \* recoverMissedLogs
  announced,          \* broadcastRoundEnd of each transaction since the start
  failures, crashes, lost

database == <<recorded, row, cursor>>
memory == <<resolvedWinners, processedRoundEnds, announced>>
counts == <<failures, crashes, lost>>
vars == <<head, pending, notes, writes, database, memory, worker, recovery, counts>>

Txs == 1..Len(Log)
AllWorkers == Workers \union {Recovery}
Places == {"idle", "deploy", "mark", "read", "write", "cursor", "thrown"}
Row == [status : {"none", "active", "completed"}, winningSquare : {Log[t].winner : t \in Txs} \union {NoSquare}]
NoRow == [status |-> "none", winningSquare |-> NoSquare]
RoundOf(t) == Log[t].round
Fulfils == {t \in Txs : Log[t].kind = "fulfil"}

\* the chain: a transaction lands, is logged to its subscribers and changes the round
Land ==
  /\ head < Len(Log)
  /\ head' = head + 1
  /\ LET t == head' IN
     /\ pending' = pending \union
          ({"game"} \union (IF t \in Fulfils THEN {"vrf"} ELSE {})) \X {t}
     /\ notes' = notes \union {[round |-> RoundOf(t), resolved |-> t \in Fulfils]}
  /\ UNCHANGED <<writes, database, memory, worker, recovery, counts>>

Lose ==
  /\ lost < MaxLost /\ lost' = lost + 1
  /\ \/ \E p \in pending : pending' = pending \ {p} /\ UNCHANGED notes
     \/ \E n \in notes : notes' = notes \ {n} /\ UNCHANGED pending
  /\ UNCHANGED <<head, writes, database, memory, worker, recovery, failures, crashes>>
-----------------------------------------------------------------------------
(* processProgramLogs *)
Idle == [pc |-> "idle", tx |-> 0]
GoTo(w, p) == worker' = [worker EXCEPT ![w].pc = p]
Process(w, t) ==
  worker' = [worker EXCEPT ![w] = [pc |-> IF t \in Fulfils THEN "mark" ELSE "deploy", tx |-> t]]

Deliver(w) ==
  /\ worker[w] = Idle
  /\ \E p \in pending : pending' = pending \ {p} /\ Process(w, p[2])
  /\ UNCHANGED <<head, notes, writes, database, memory, recovery, counts>>

IngestDeployment(w) ==
  /\ worker[w].pc = "deploy"
  /\ recorded' = recorded \union {worker[w].tx}
  /\ row' = [row EXCEPT ![RoundOf(worker[w].tx)].status = IF @ = "none" THEN "active" ELSE @]
  /\ GoTo(w, "cursor")
  /\ UNCHANGED <<cursor, memory>>

Winner(w) == Log[worker[w].tx].winner
Conflicts(known, square) == known \notin {NoSquare, square}

\* mutant: marked when it is done
MarkLate(w) ==
  /\ worker[w].pc = "mark"
  /\ GoTo(w, IF worker[w].tx \in processedRoundEnds THEN "cursor" ELSE "read")
  /\ UNCHANGED <<database, memory>>
\* applyFulfillEvent, up to its first await
Mark(w) ==
  /\ worker[w].pc = "mark"
  /\ IF worker[w].tx \in processedRoundEnds
       THEN GoTo(w, "cursor") /\ UNCHANGED processedRoundEnds
       ELSE /\ ~Conflicts(resolvedWinners[RoundOf(worker[w].tx)], Winner(w))
            /\ processedRoundEnds' = processedRoundEnds \union {worker[w].tx}
            /\ GoTo(w, "read")
  /\ UNCHANGED <<database, resolvedWinners, announced>>

ReadRow(w) ==
  /\ worker[w].pc = "read"
  /\ LET r == RoundOf(worker[w].tx) IN
     /\ ~Conflicts(row[r].winningSquare, Winner(w))
     /\ resolvedWinners' = [resolvedWinners EXCEPT ![r] = Winner(w)]
  /\ GoTo(w, "write")
  /\ UNCHANGED <<database, processedRoundEnds, announced>>

\* updateMany: no row, nothing written; announced all the same
WriteEnd(w) ==
  /\ worker[w].pc = "write"
  /\ LET r == RoundOf(worker[w].tx) IN
     row' = IF row[r] = NoRow THEN row
            ELSE [row EXCEPT ![r] = [status |-> "completed", winningSquare |-> Winner(w)]]
  /\ announced' = [announced EXCEPT ![worker[w].tx] = @ + 1]
  /\ GoTo(w, "cursor")
  /\ UNCHANGED <<recorded, cursor, resolvedWinners, processedRoundEnds>>

UpsertDeployCursor(w) ==
  /\ worker[w].pc = "cursor"
  /\ cursor' = worker[w].tx
  /\ worker' = [worker EXCEPT ![w] = Idle]
  /\ UNCHANGED <<recorded, row, memory>>

\* mutant: it forgets nothing
StillMarked(w) == processedRoundEnds
\* what the catch of applyFulfillEvent forgets again
Unmarked(w) ==
  IF worker[w].pc \in {"read", "write"} THEN processedRoundEnds \ {worker[w].tx}
  ELSE processedRoundEnds
Throw(w) ==
  /\ worker[w].pc \notin {"idle", "mark", "thrown"}
  /\ failures < MaxFailures /\ failures' = failures + 1
  /\ processedRoundEnds' = Unmarked(w)
  /\ worker' = [worker EXCEPT ![w] =
                  IF w = Recovery THEN [@ EXCEPT !.pc = "thrown"] ELSE Idle]
  /\ UNCHANGED <<head, pending, notes, writes, database, resolvedWinners, announced,
                 recovery, crashes, lost>>

Work(w) ==
  /\ \/ IngestDeployment(w) \/ Mark(w) \/ ReadRow(w) \/ WriteEnd(w) \/ UpsertDeployCursor(w)
  /\ UNCHANGED <<head, pending, notes, writes, recovery, counts>>
-----------------------------------------------------------------------------
(* handleRoundChange: the winner is read from memory before the write, and *)
(* a write of a round in play may be throttled                             *)
RoundChange ==
  /\ \E n \in notes :
       /\ notes' = notes \ {n}
       /\ LET write == [round |-> n.round, winningSquare |-> resolvedWinners[n.round],
                        status |-> IF n.resolved THEN "completed" ELSE "active"]
          IN \/ writes' = writes \union {write}
             \/ ~n.resolved /\ UNCHANGED writes
  /\ UNCHANGED <<head, pending, database, memory, worker, recovery, counts>>

\* mutant: null for undefined
UpsertedNull(u) == [status |-> u.status, winningSquare |-> u.winningSquare]
\* `undefined' leaves the column alone
Upserted(u) ==
  [status |-> u.status,
   winningSquare |-> IF u.winningSquare = NoSquare THEN row[u.round].winningSquare
                     ELSE u.winningSquare]
Upsert ==
  /\ \E u \in writes :
       /\ writes' = writes \ {u}
       /\ row' = [row EXCEPT ![u.round] = Upserted(u)]
  /\ UNCHANGED <<head, pending, notes, recorded, cursor, memory, worker, recovery, counts>>
-----------------------------------------------------------------------------
(* recoverMissedLogs: mode, the exclusive bounds of the next page, what is *)
(* left of this one, pages read, rounds to reconcile                       *)
NoRecovery == [mode |-> "off", until |-> 0, before |-> 0, page |-> {},
               pages |-> 0, unresolved |-> {}]

\* a page is dealt with from its oldest transaction on
First(page) == Min(page)

Goes(fields) == recovery' = fields
Resting == worker[Recovery] = Idle

\* the cron, and onModuleInit; the cursor is read
Recover ==
  /\ recovery.mode = "off"
  /\ Goes([NoRecovery EXCEPT !.mode = "pages", !.until = cursor, !.before = head + 1])
  /\ UNCHANGED <<worker, cursor>>

\* mutant: both bounds taken off twice, as if `before' were the last one wanted
SignaturesBelow ==
  LET found == (recovery.until + 1)..(recovery.before - 2)
  IN {t \in found : Cardinality({u \in found : u > t}) < Limit}
\* getSignaturesForAddress: the newest of (until, before), up to the limit
Signatures ==
  LET found == (recovery.until + 1)..(recovery.before - 1)
  IN {t \in found : Cardinality({u \in found : u > t}) < Limit}

FetchPage ==
  /\ recovery.mode = "pages" /\ recovery.page = {}
  /\ IF Signatures = {} \/ recovery.pages = MaxPages
       THEN Goes([NoRecovery EXCEPT !.mode = "rounds"])
       ELSE Goes([recovery EXCEPT
              !.mode = IF Cardinality(Signatures) < Limit THEN "lastPage" ELSE @,
              !.page = Signatures, !.before = Min(Signatures),
              !.pages = @ + 1])
  /\ UNCHANGED <<worker, cursor>>

PageDone ==
  /\ recovery.mode = "lastPage" /\ recovery.page = {}
  /\ Goes([NoRecovery EXCEPT !.mode = "rounds"])
  /\ UNCHANGED <<worker, cursor>>

\* processSignature of the next one; after it, whatever came of it, the cursor
StartSignature ==
  /\ recovery.mode \in {"pages", "lastPage"} /\ recovery.page # {} /\ Resting
  /\ Process(Recovery, First(recovery.page))
  /\ Goes([recovery EXCEPT !.mode = IF @ = "pages" THEN "page+" ELSE "lastPage+"])
  /\ UNCHANGED cursor

EndSignature ==
  /\ recovery.mode \in {"page+", "lastPage+"} /\ worker[Recovery].pc \in {"idle", "thrown"}
  /\ cursor' = First(recovery.page)
  /\ worker' = [worker EXCEPT ![Recovery] = Idle]
  /\ Goes([recovery EXCEPT !.page = @ \ {First(@)},
             !.mode = IF @ = "page+" THEN "pages" ELSE "lastPage"])

\* reconcileMissingRoundEnds: the VRF program's transactions, newest first
ReadMissing ==
  /\ recovery.mode = "rounds"
  /\ LET missing == {r \in Rounds : row[r] = [status |-> "completed", winningSquare |-> NoSquare]}
     IN Goes(IF missing = {} THEN NoRecovery
             ELSE [NoRecovery EXCEPT !.mode = "ends", !.unresolved = missing,
                     !.page = Fulfils \cap 1..head])
  /\ UNCHANGED <<worker, cursor>>

Newest(page) == Max(page)

\* one that is not wanted only moves the cursor
StartEnd ==
  /\ recovery.mode = "ends" /\ Resting
  /\ recovery.page # {} /\ recovery.unresolved # {}
  /\ LET t == Newest(recovery.page) IN
     IF RoundOf(t) \in recovery.unresolved THEN Process(Recovery, t)
     ELSE worker' = [worker EXCEPT ![Recovery] = [pc |-> "cursor", tx |-> t]]
  /\ Goes([recovery EXCEPT !.mode = "ends+"])
  /\ UNCHANGED cursor

EndEnd ==
  /\ recovery.mode = "ends+" /\ Resting
  /\ Goes([recovery EXCEPT !.mode = "ends", !.page = @ \ {Newest(@)},
             !.unresolved = @ \ {RoundOf(Newest(recovery.page))}])
  /\ UNCHANGED <<worker, cursor>>

\* mutant: not in a `finally'
FinishUnlessFailed(failed) ==
  recovery' = IF failed THEN [NoRecovery EXCEPT !.mode = "stuck"] ELSE NoRecovery
\* recoveryRunning = false, in a `finally'
Finish(failed) == recovery' = NoRecovery

\* a query of its own fails
RecoveryFails ==
  /\ recovery.mode \in {"pages", "rounds"} /\ recovery.page = {}
  /\ failures < MaxFailures /\ failures' = failures + 1
  /\ Finish(TRUE)
  /\ UNCHANGED <<head, pending, notes, writes, database, memory, worker, crashes, lost>>

StopRecovery ==
  /\ \/ recovery.mode = "ends" /\ (recovery.page = {} \/ recovery.unresolved = {})
     \/ recovery.mode = "ends+" /\ worker[Recovery].pc = "thrown"
  /\ Finish(worker[Recovery].pc = "thrown")
  /\ worker' = [worker EXCEPT ![Recovery] = Idle]
  /\ UNCHANGED cursor

Recovering ==
  /\ \/ Recover \/ FetchPage \/ PageDone \/ StartSignature \/ EndSignature
     \/ ReadMissing \/ StartEnd \/ EndEnd \/ StopRecovery
  /\ UNCHANGED <<head, pending, notes, writes, recorded, row, memory, counts>>
-----------------------------------------------------------------------------
\* the process dies, with what it was told and had not dealt with, and starts again
Restart ==
  /\ crashes < MaxCrashes /\ crashes' = crashes + 1
  /\ pending' = {} /\ notes' = {} /\ writes' = {}
  /\ worker' = [w \in AllWorkers |-> Idle]
  /\ recovery' = NoRecovery
  /\ resolvedWinners' = [r \in Rounds |-> NoSquare]
  /\ processedRoundEnds' = {}
  /\ announced' = [t \in Txs |-> 0]
  /\ UNCHANGED <<head, database, failures, lost>>

Init ==
  /\ head = 0 /\ cursor = 0
  /\ pending = {} /\ notes = {} /\ writes = {}
  /\ recorded = {}
  /\ row = [r \in Rounds |-> [NoRow EXCEPT !.status = IF r \in Known THEN "active" ELSE @]]
  /\ resolvedWinners = [r \in Rounds |-> NoSquare] /\ processedRoundEnds = {}
  /\ announced = [t \in Txs |-> 0]
  /\ worker = [w \in AllWorkers |-> Idle] /\ recovery = NoRecovery
  /\ failures = 0 /\ crashes = 0 /\ lost = 0

Next ==
  \/ Land \/ Lose \/ Restart \/ RoundChange \/ Upsert
  \/ Recovering \/ RecoveryFails
  \/ \E w \in Workers : Deliver(w)
  \/ \E w \in AllWorkers : Work(w) \/ Throw(w)

\* the event loop goes on, the cron fires every minute, subscriptions deliver
Fairness ==
  /\ WF_vars(Land) /\ WF_vars(RoundChange) /\ WF_vars(Upsert) /\ WF_vars(Recovering)
  /\ WF_vars(\E w \in Workers : Deliver(w))
  /\ \A w \in AllWorkers : WF_vars(Work(w))
Spec == Init /\ [][Next]_vars /\ Fairness
-----------------------------------------------------------------------------
TypeOK ==
  /\ head \in 0..Len(Log) /\ cursor \in 0..head
  /\ pending \subseteq {"game", "vrf"} \X (1..head)
  /\ notes \subseteq [round : Rounds, resolved : BOOLEAN]
  /\ recorded \subseteq 1..head /\ row \in [Rounds -> Row]
  /\ processedRoundEnds \subseteq Fulfils
  /\ worker \in [AllWorkers -> [pc : Places, tx : 0..Len(Log)]]
  /\ failures \in 0..MaxFailures /\ crashes \in 0..MaxCrashes /\ lost \in 0..MaxLost

(* A winner, once a row shows it, is never taken back or changed, whatever *)
(* old notification is written after it.                                   *)
KeepsWinner ==
  \A r \in Rounds : row[r].winningSquare # NoSquare
    => row'[r].winningSquare = row[r].winningSquare
WinnerKept == [][KeepsWinner]_vars

(* Two subscriptions, the backfill and the reconciliation announce the end *)
(* of a round once, as long as the process lives.                          *)
AnnouncedOnce == \A t \in Txs : announced[t] <= 1

(* No round is shown as completed without its winner for ever.             *)
EndsReconciled ==
  \A r \in Rounds :
    []<>(row[r] # [status |-> "completed", winningSquare |-> NoSquare])

(* When the chain is quiet the cursor comes to rest at its newest          *)
(* transaction, though live calls and the older pages move it back.  A     *)
(* deploy is missed for a reason: the newest only if its ingestion failed, *)
(* and as long as the process lives, no more of them than there were       *)
(* failures and lost logs; those may be passed over by the cursor.         *)
Missed == Txs \ (Fulfils \union recorded)
MissedForAReason ==
  /\ Len(Log) \in Missed => failures > 0
  /\ crashes = 0 => Cardinality(Missed) <= failures + lost
CursorCatchesUp == <>[](cursor = Len(Log) /\ MissedForAReason)

(* What README.md:64 says of the backend: the events of the program are    *)
(* indexed; every deploy is recorded in the end.                           *)
EveryDeployIndexed == <>(Txs \ Fulfils \subseteq recorded)
=============================================================================
