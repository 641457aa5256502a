------------------------------ MODULE RateLimit ------------------------------
(***************************************************************************)
(* How requests of one identifier for one action are counted: what the two *)
(* limiters of the backend have in common.  RealtimeLimit counts in Redis  *)
(* or in the memory of the process, DatabaseLimit in a row of the          *)
(* database.  Both compare the time of a request with the start of a       *)
(* window; what they should have counted is kept as a history here.        *)
(*                                                                         *)
(* External: time.                                                         *)
(***************************************************************************)
EXTENDS Integers, Sequences, FiniteSets, Functions

CONSTANTS
  maxCount, windowMs,
  MaxTime,                \* bound: the clock
  MaxAdmitted             \* bound: admissions an instance looks at

LimitAssumption ==
  {maxCount, windowMs} \subseteq Nat \ {0} /\ {MaxTime, MaxAdmitted} \subseteq Nat

VARIABLES
  now,
  admitted,           \* history: admissions at each time
  refused             \* history: the last refusal: stamp of the call, and when

Times == 0..MaxTime
\* a window: count, windowStart; count 0: none
Windows == [count : Nat, windowStart : Times]
NoWindow == [count |-> 0, windowStart |-> 0]

\* a bag of times, and how much of it lies within an interval
Within(bag, from, to) ==
  SumFunction([t \in {u \in Times : from <= u /\ u <= to} |-> bag[t]])
Total(bag) == SumFunction(bag)

Admit == admitted' = [admitted EXCEPT ![now] = @ + 1] /\ refused' = <<>>
Refuse(stamp) == refused' = <<stamp, now>> /\ UNCHANGED admitted

\* mutant: a window is never renewed
ExpiredNever(window, stamp) == FALSE
Expired(window, stamp) == stamp - window.windowStart > windowMs

TimePasses == now < MaxTime /\ now' = now + 1 /\ refused' = <<>> /\ UNCHANGED admitted

NobodyAsked == now = 0 /\ admitted = [t \in Times |-> 0] /\ refused = <<>>
-----------------------------------------------------------------------------
(* Nobody is refused who has not used the limit up: whichever store counts *)
(* and however calls overlap, a refusal means that maxCount requests were  *)
(* admitted since a window before the refused call began.                  *)
RefusedOnlyWhenFull ==
  refused # <<>> => Within(admitted, refused[1] - windowMs, refused[2]) >= maxCount
=============================================================================
