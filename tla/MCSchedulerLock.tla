-------------------------- MODULE MCSchedulerLock --------------------------
(***************************************************************************)
(* Small instances of SchedulerLock under its fairness, alone or beside an *)
(* instance of Crank with which it shares nothing.  One of the two takes   *)
(* all the steps of a behaviour, so each is explored as if it were alone.  *)
(***************************************************************************)
EXTENDS SchedulerLock, TLC

VARIABLES
  part,               \* the component that runs: "lock" or "crank"
  initialized, prepared, delegated, core, board, baseBoard, commits, resolved,
  crankPc, memory, tick, crankFailures, restarts

crankVars == <<initialized, prepared, delegated, core, board, baseBoard, commits,
               resolved, crankPc, memory, tick, crankFailures, restarts>>

C == INSTANCE Crank WITH
  Replicas <- {"replica"}, MaxRound <- 2, MaxFailures <- 2, MaxRestarts <- 1,
  pc <- crankPc, failures <- crankFailures

MCInit == part \in {"lock", "crank"} /\ Init /\ C!Init

MCNext ==
  \/ part = "lock" /\ Next /\ UNCHANGED <<part, crankVars>>
  \/ part = "crank" /\ C!Next /\ UNCHANGED <<part, vars>>

\* the fairness of the one that runs
MCFairness ==
  /\ WF_vars(part = "lock" /\ Tick)
  /\ \A p \in Processes :
       /\ WF_vars(part = "lock" /\ Start(p))
       /\ WF_vars(part = "lock" /\ Statement(p))
       /\ WF_vars(part = "lock" /\ Finish(p))
  /\ WF_crankVars(part = "crank" /\ C!Deadline)
  /\ WF_crankVars(part = "crank" /\ C!VrfTimeout)
  /\ WF_crankVars(part = "crank" /\ \E commit \in commits : C!Land(commit))
  /\ WF_crankVars(part = "crank" /\ C!Step("replica"))

MCSpec == MCInit /\ [][MCNext]_<<part, vars, crankVars>> /\ MCFairness

-----------------------------------------------------------------------------
\* Every round with a bet ends, and is committed to the base layer, although
\* the replica throws and restarts, and the oracle is silent (Crank).
EveryRoundEnds == C!EveryRoundEnds

\* The job is run again and again, by one process or another, although a
\* process that holds the lease may die and statements may fail.
JobKeeps == part = "lock" => JobKeepsRunning
=============================================================================
