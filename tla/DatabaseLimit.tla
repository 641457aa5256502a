---------------------------- MODULE DatabaseLimit ----------------------------
(***************************************************************************)
(* The limiter of the sign-in (AuthService.consumeRateLimit, the same      *)
(* statements as RateLimitService.consumeDatabaseWindow): it counts in a   *)
(* row of the database that it reads first and writes later, in calls that *)
(* run concurrently, while the retention job deletes rows whose window     *)
(* began long ago.                                                         *)
(*                                                                         *)
(* External: the database.                                                 *)
(***************************************************************************)
EXTENDS RateLimit

CONSTANTS
  RetentionMs,            \* age at which the retention job deletes a row
  Callers                 \* concurrent calls

DatabaseAssumption ==
  /\ LimitAssumption /\ RetentionMs \in Nat /\ RetentionMs >= windowMs
  /\ IsFiniteSet(Callers)

VARIABLES
  rateLimit,          \* the row
  call                \* calls of consumeRateLimit: pc, stamp, row read

vars == <<now, rateLimit, call, admitted, refused>>

Tick == TimePasses /\ UNCHANGED <<rateLimit, call>>

NoCall == [pc |-> "idle", stamp |-> 0, row |-> NoWindow]
Return(c) == call' = [call EXCEPT ![c] = NoCall]

Start(c) ==
  /\ call[c].pc = "idle" /\ Total(admitted) < MaxAdmitted
  /\ call' = [call EXCEPT ![c] = [pc |-> "find", stamp |-> now, row |-> NoWindow]]
  /\ UNCHANGED <<rateLimit, admitted, refused>>

\* findUnique, again after a create that lost the race; then no row is an error
FindRow(c) ==
  /\ call[c].pc \in {"find", "findAgain"}
  /\ \/ /\ rateLimit # NoWindow
        /\ call' = [call EXCEPT ![c].row = rateLimit, ![c].pc = "check"]
     \/ /\ rateLimit = NoWindow /\ call[c].pc = "find"
        /\ call' = [call EXCEPT ![c].pc = "create"]
     \/ rateLimit = NoWindow /\ call[c].pc = "findAgain" /\ Return(c)
  /\ UNCHANGED <<rateLimit, admitted, refused>>

Fresh(c) == [count |-> 1, windowStart |-> call[c].stamp]

CreateRow(c) ==
  /\ call[c].pc = "create"
  /\ IF rateLimit = NoWindow
       THEN rateLimit' = Fresh(c) /\ Admit /\ Return(c)
       ELSE call' = [call EXCEPT ![c].pc = "findAgain"] /\ UNCHANGED <<rateLimit, admitted, refused>>

\* mutant: `>' for `>='
FullAbove(row) == row.count > maxCount
Full(row) == row.count >= maxCount

\* what is read decides, what is there is written; no row any more is an error
UpdateRow(c) ==
  /\ call[c].pc = "check"
  /\ LET row == call[c].row IN
     \/ /\ ~Expired(row, call[c].stamp) /\ Full(row)
        /\ Refuse(call[c].stamp) /\ UNCHANGED rateLimit
     \/ /\ Expired(row, call[c].stamp) \/ ~Full(row)
        /\ rateLimit = NoWindow /\ UNCHANGED <<rateLimit, admitted, refused>>
     \/ /\ Expired(row, call[c].stamp) /\ rateLimit # NoWindow
        /\ rateLimit' = Fresh(c) /\ Admit
     \/ /\ ~Expired(row, call[c].stamp) /\ ~Full(row) /\ rateLimit # NoWindow
        /\ rateLimit' = [rateLimit EXCEPT !.count = @ + 1] /\ Admit
  /\ Return(c)

\* the retention job
CleanRateLimits ==
  /\ rateLimit # NoWindow /\ now - rateLimit.windowStart > RetentionMs
  /\ rateLimit' = NoWindow
  /\ UNCHANGED <<call, admitted, refused>>

Init == NobodyAsked /\ rateLimit = NoWindow /\ call = [c \in Callers |-> NoCall]

Next ==
  \/ Tick
  \/ /\ \/ \E c \in Callers : Start(c) \/ FindRow(c) \/ CreateRow(c) \/ UpdateRow(c)
        \/ CleanRateLimits
     /\ UNCHANGED now

Spec == Init /\ [][Next]_vars
-----------------------------------------------------------------------------
TypeOK ==
  /\ now \in Times /\ rateLimit \in Windows
  /\ admitted \in [Times -> 0..MaxAdmitted + Cardinality(Callers)]
  /\ call \in [Callers -> [pc : {"idle", "find", "create", "findAgain", "check"}, stamp : Times,
                           row : Windows]]

(* Calls that read the same count overshoot the limit by one less than     *)
(* there are of them, never more, in the window they write to.             *)
OvershootBounded == rateLimit.count < maxCount + Cardinality(Callers)
=============================================================================
