---------------------------- MODULE SchedulerLock ----------------------------
(***************************************************************************)
(* The lease that keeps the replicas of the backend from running the same  *)
(* job at once (SchedulerLockService): a database row with an owner and an *)
(* expiry, taken with one conditional UPDATE or, the first time, created;  *)
(* renewed by a timer while the job runs; expired when it ends.  One lease *)
(* name is modelled, since names are independent.                          *)
(*                                                                         *)
(* A process computes the time first and the database acts on it later, so *)
(* every time in the row is a stale reading of some process's clock.  The  *)
(* clocks differ by at most MaxSkew.  A restarted process has another      *)
(* ownerId and is another member of Processes.                             *)
(*                                                                         *)
(* External: the database, which applies one statement at a time, and may  *)
(* fail before or after it has.                                            *)
(***************************************************************************)
EXTENDS Integers

CONSTANTS
  Processes,        \* ownerIds
  NoOwner,          \* the row does not exist yet
  TTL,              \* ttlMs
  RENEW,            \* renewMs: half of ttlMs, at least a second
  MaxSkew,          \* how far two clocks may be apart
  Faults,           \* "pool": no connection was free; "error": anything else
  MaxTime,          \* bound: the clock
  MaxFailures,      \* bound: statements that fail
  MaxCrashes        \* bound: processes that die

ASSUME LeaseAssumption ==
  /\ NoOwner \notin Processes
  /\ {TTL, RENEW, MaxSkew, MaxTime, MaxFailures, MaxCrashes} \subseteq Nat
  /\ Faults \subseteq {"pool", "error"}

VARIABLES
  now,
  skew,               \* how far ahead a process's clock is
  lease,              \* the row: owner, expiresAt
  pc,
  stamp,              \* `now' of the statement under way
  inProcessRunning,
  renewAt,            \* when the renewal timer fires next
  renewals,           \* renewals under way
  granted,            \* history: the expiry a process last wrote as owner
  failures, crashes

process == <<pc, stamp, inProcessRunning, renewAt>>
counts == <<failures, crashes>>
vars == <<now, skew, lease, process, renewals, granted, counts>>

Clock(p) == now + skew[p]

\* the call is over and forgets its readings of the clock
Return(p, next) ==
  /\ pc' = [pc EXCEPT ![p] = next]
  /\ stamp' = [stamp EXCEPT ![p] = 0]
  /\ renewAt' = [renewAt EXCEPT ![p] = 0]
  /\ granted' = [granted EXCEPT ![p] = 0]

\* the rest of runWithLease's `finally'
Leave(p) ==
  /\ Return(p, "idle")
  /\ inProcessRunning' = [inProcessRunning EXCEPT ![p] = FALSE]

\* mutant: not acquired, and returned before the `finally'
LeaveMarked(p) ==
  /\ Return(p, "idle")
  /\ UNCHANGED inProcessRunning

NotAcquired(p) == Leave(p)

Start(p) ==
  /\ pc[p] = "idle" /\ ~inProcessRunning[p]
  /\ pc' = [pc EXCEPT ![p] = "acquiring"]
  /\ inProcessRunning' = [inProcessRunning EXCEPT ![p] = TRUE]
  /\ stamp' = [stamp EXCEPT ![p] = Clock(p)]
  /\ UNCHANGED <<now, skew, lease, renewAt, renewals, granted, counts>>

\* mutant: `lte' for `lt'
MatchesAtExpiry(p) ==
  /\ lease.owner # NoOwner
  /\ lease.expiresAt <= stamp[p] \/ lease.owner = p

\* the WHERE of acquire
Matches(p) ==
  /\ lease.owner # NoOwner
  /\ lease.expiresAt < stamp[p] \/ lease.owner = p

Mine(p) == [owner |-> p, expiresAt |-> stamp[p] + TTL]

\* the row is the process's: the timer is set and the job starts
Run(p) ==
  /\ lease' = Mine(p)
  /\ granted' = [granted EXCEPT ![p] = stamp[p] + TTL]
  /\ pc' = [pc EXCEPT ![p] = "running"]
  /\ renewAt' = [renewAt EXCEPT ![p] = Clock(p) + RENEW]
  /\ stamp' = [stamp EXCEPT ![p] = 0]
  /\ UNCHANGED inProcessRunning

Acquire(p) ==
  /\ pc[p] = "acquiring"
  /\ \/ Matches(p) /\ Run(p)
     \/ /\ ~Matches(p)
        /\ pc' = [pc EXCEPT ![p] = "creating"]
        /\ UNCHANGED <<lease, stamp, inProcessRunning, renewAt, granted>>
  /\ UNCHANGED <<now, skew, renewals, counts>>

\* a row that exists by now violates the key
Create(p) ==
  /\ pc[p] = "creating"
  /\ \/ lease.owner = NoOwner /\ Run(p)
     \/ lease.owner # NoOwner /\ NotAcquired(p) /\ UNCHANGED lease
  /\ UNCHANGED <<now, skew, renewals, counts>>

Fails(fault) ==
  /\ fault \in Faults
  /\ failures < MaxFailures
  /\ failures' = failures + 1
  /\ UNCHANGED <<now, skew, crashes>>

\* false or an exception: either way the lease counts as not acquired, even
\* when the row was written before the connection broke
AcquireFails(p) ==
  /\ pc[p] \in {"acquiring", "creating"}
  /\ \/ Fails("pool") /\ lease' = lease
     \/ /\ Fails("error")
        /\ \/ lease' = lease
           \/ /\ IF pc[p] = "acquiring" THEN Matches(p) ELSE lease.owner = NoOwner
              /\ lease' = Mine(p)
  /\ Leave(p)
  /\ UNCHANGED renewals

RenewTimer(p) ==
  /\ pc[p] = "running"
  /\ Clock(p) >= renewAt[p]
  /\ renewals' = renewals \cup {[process |-> p, stamp |-> Clock(p)]}
  /\ renewAt' = [renewAt EXCEPT ![p] = Clock(p) + RENEW]
  /\ UNCHANGED <<now, skew, lease, pc, stamp, inProcessRunning, granted, counts>>

\* mutant: another time to live on top of what is left
RenewedFromExpiry(renewal) == lease.expiresAt + TTL

Renewed(renewal) == renewal.stamp + TTL

\* it may be overtaken by a later one, or by the end of the job
Renew(renewal) ==
  LET p == renewal.process
      expiresAt == Renewed(renewal)
  IN  /\ renewal \in renewals
      /\ renewals' = renewals \ {renewal}
      /\ \/ /\ lease.owner = p
            /\ lease' = [lease EXCEPT !.expiresAt = expiresAt]
            /\ granted' = [granted EXCEPT ![p] =
                             IF pc[p] = "running" THEN expiresAt ELSE @]
         \/ lease.owner # p /\ UNCHANGED <<lease, granted>>
      /\ UNCHANGED <<now, skew, process, counts>>

RenewFails(renewal) ==
  /\ renewal \in renewals
  /\ renewals' = renewals \ {renewal}
  /\ \E fault \in Faults : Fails(fault)
  /\ UNCHANGED <<lease, process, granted>>

\* the job returned or threw
Finish(p) ==
  /\ pc[p] = "running"
  /\ pc' = [pc EXCEPT ![p] = "releasing"]
  /\ stamp' = [stamp EXCEPT ![p] = Clock(p)]
  /\ UNCHANGED <<now, skew, lease, inProcessRunning, renewAt, renewals, granted,
                 counts>>

Release(p) ==
  /\ pc[p] = "releasing"
  /\ lease' = IF lease.owner = p THEN [lease EXCEPT !.expiresAt = stamp[p]] ELSE lease
  /\ Leave(p)
  /\ UNCHANGED <<now, skew, renewals, counts>>

\* bound: a lease left behind now is seen to expire before the clock ends
LeaseOutlasted == now + TTL + MaxSkew < MaxTime

\* a busy pool is swallowed; another error leaves the `finally' before the
\* name is deleted from inProcessRunning
ReleaseFails(p) ==
  /\ pc[p] = "releasing"
  /\ \/ Fails("pool") /\ Leave(p)
     \/ /\ Fails("error") /\ LeaseOutlasted
        /\ Return(p, "idle")
        /\ UNCHANGED inProcessRunning
  /\ UNCHANGED <<lease, renewals>>

Crash(p) ==
  /\ pc[p] # "dead"
  /\ crashes < MaxCrashes /\ LeaseOutlasted
  /\ Return(p, "dead")
  /\ inProcessRunning' = [inProcessRunning EXCEPT ![p] = FALSE]
  /\ crashes' = crashes + 1
  /\ UNCHANGED <<now, skew, lease, renewals, failures>>

Tick ==
  /\ now < MaxTime
  /\ now' = now + 1
  /\ UNCHANGED <<skew, lease, process, renewals, granted, counts>>

-----------------------------------------------------------------------------
Init ==
  /\ now = 0
  /\ skew \in [Processes -> 0 .. MaxSkew]
  /\ lease = [owner |-> NoOwner, expiresAt |-> 0]
  /\ pc = [p \in Processes |-> "idle"]
  /\ stamp = [p \in Processes |-> 0]
  /\ inProcessRunning = [p \in Processes |-> FALSE]
  /\ renewAt = [p \in Processes |-> 0]
  /\ renewals = {}
  /\ granted = [p \in Processes |-> 0]
  /\ failures = 0 /\ crashes = 0

Statement(p) == Acquire(p) \/ Create(p) \/ Release(p)

Next ==
  \/ \E p \in Processes :
       \/ Start(p) \/ Statement(p) \/ Finish(p) \/ RenewTimer(p)
       \/ AcquireFails(p) \/ ReleaseFails(p) \/ Crash(p)
  \/ \E renewal \in renewals : Renew(renewal) \/ RenewFails(renewal)
  \/ Tick

Spec == Init /\ [][Next]_vars

\* cron fires every second in every live process, statements are answered,
\* jobs end
Fairness ==
  /\ WF_vars(Tick)
  /\ \A p \in Processes : WF_vars(Start(p)) /\ WF_vars(Statement(p)) /\ WF_vars(Finish(p))

FairSpec == Spec /\ Fairness

-----------------------------------------------------------------------------
\* Type invariant of the row and of the processes.
TypeOK ==
  /\ now \in Nat
  /\ skew \in [Processes -> 0 .. MaxSkew]
  /\ lease \in [owner : Processes \cup {NoOwner}, expiresAt : Nat]
  /\ pc \in [Processes -> {"idle", "acquiring", "creating", "running",
                           "releasing", "dead"}]
  /\ stamp \in [Processes -> Nat]
  /\ inProcessRunning \in [Processes -> BOOLEAN]
  /\ renewAt \in [Processes -> Nat]
  /\ renewals \subseteq [process : Processes, stamp : Nat]
  /\ granted \in [Processes -> Nat]
  /\ {failures, crashes} \subseteq Nat

\* the lease a process last wrote cannot look expired to anybody
Fresh(p) == Clock(p) + MaxSkew <= granted[p]

\* Two jobs overlap only when one of them has let its lease run out: as long as
\* renewals reach the database before the time to live is over, less the skew
\* of the clocks, no other process gets in, whatever statements are late,
\* overtake each other or fail.
Exclusive ==
  \A p, q \in Processes :
    p # q /\ pc[p] = "running" /\ pc[q] = "running" => ~(Fresh(p) /\ Fresh(q))

\* Nobody has to wait longer than the time to live for an owner that died,
\* however often it had renewed and whatever it had still sent.
SoonExpired == lease.expiresAt <= now + MaxSkew + TTL

\* The job is run again and again, by one process or another, although a
\* process that holds the lease may die and statements may fail.
JobKeepsRunning == []<>(\E p \in Processes : pc[p] = "running")
=============================================================================
