---------------------------- MODULE MCScheduling ----------------------------
(***************************************************************************)
(* A small instance of Scheduling.  The crank or the lease takes all the   *)
(* steps of a behaviour, so each is explored as if it were alone.          *)
(***************************************************************************)
EXTENDS Scheduling, TLC

VARIABLES part      \* what runs: "crank" or "lock"

\* the clocks matter to the lock only
MCInit ==
  /\ part \in {"crank", "lock"} /\ SchedulingInit
  /\ part = "crank" => skew = [r \in Replicas |-> 0]

MCNext ==
  \/ part = "crank" /\ Next /\ UNCHANGED <<part, lockVars>>
  \/ part = "lock" /\ Lock!Next /\ UNCHANGED <<part, vars>>

MCSpec == MCInit /\ [][MCNext]_<<part, vars, lockVars>>

\* replicas are interchangeable
MCSymmetry == Permutations(Replicas)
=============================================================================
