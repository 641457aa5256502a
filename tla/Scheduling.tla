----------------------------- MODULE Scheduling -----------------------------
(***************************************************************************)
(* What keeps the rounds going: the crank of every replica (Crank) and the *)
(* lease that lets one process at a time run it (SchedulerLock).  They     *)
(* share nothing but the replicas.  The lease may be lost while the crank  *)
(* goes on, so the crank is not held back by it here.                      *)
(***************************************************************************)
EXTENDS Crank

CONSTANTS NoOwner, TTL, RENEW, MaxSkew, Faults, MaxTime, MaxLockFailures, MaxCrashes

VARIABLES
  now, skew, lease, stamp, inProcessRunning, renewAt, renewals, granted, crashes,
  lockPc, lockFailures

lockVars == <<now, skew, lease, stamp, inProcessRunning, renewAt, renewals,
              granted, crashes, lockPc, lockFailures>>

Lock == INSTANCE SchedulerLock WITH
  Processes <- Replicas, MaxFailures <- MaxLockFailures,
  pc <- lockPc, failures <- lockFailures

ASSUME SchedulingAssumption == Lock!LeaseAssumption

SchedulingInit == Init /\ Lock!Init
SchedulingNext == (Next /\ UNCHANGED lockVars) \/ (Lock!Next /\ UNCHANGED vars)
SchedulingSpec == SchedulingInit /\ [][SchedulingNext]_<<vars, lockVars>>
-----------------------------------------------------------------------------
(* Two jobs overlap only when one of them has let its lease run out, although  *)
(* clocks are skewed, and statements late, overtaken or lost (acquire, renew,  *)
(* release; SchedulerLock).                                                    *)
Exclusive == Lock!Exclusive

(* Nobody waits longer than the time to live for an owner that died, however   *)
(* often it had renewed and whatever it had still sent (acquire, renew).       *)
SoonExpired == Lock!SoonExpired
=============================================================================
