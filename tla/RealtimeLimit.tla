---------------------------- MODULE RealtimeLimit ----------------------------
(***************************************************************************)
(* The limiter of the socket (RateLimitService.assertRealtimeRateLimit):   *)
(* it counts in Redis, a sliding window kept by an atomic script, and in a *)
(* fixed window in the memory of the process before Redis is ready and     *)
(* after it has failed or refused.                                         *)
(*                                                                         *)
(* The commands of one process reach Redis in the order it sent them, with *)
(* the time they were sent, so sending and executing are one step.         *)
(*                                                                         *)
(* External: Redis answering the connection, and going away.               *)
(***************************************************************************)
EXTENDS RateLimit

CONSTANTS RedisConfigured

RealtimeAssumption == LimitAssumption /\ RedisConfigured \in BOOLEAN

VARIABLES
  redisState,         \* "connecting", "ready", or "gone" for good
  redisWindow,        \* the sorted set: the times of its members, a bag
  memoryWindow,       \* memoryWindows
  viaRedis            \* history: admissions by Redis at each time

redisVars == <<redisState, redisWindow, viaRedis>>
vars == <<now, redisVars, memoryWindow, admitted, refused>>

redisReady == redisState = "ready"

Tick == TimePasses /\ UNCHANGED <<redisVars, memoryWindow>>

\* what is not older than a window counts
Kept == [t \in Times |-> IF t <= now - windowMs THEN 0 ELSE redisWindow[t]]
\* mutant: `>' for `>='
ConsumeRedisWindowAbove ==
  IF Total(Kept) > maxCount THEN redisWindow' = Kept
  ELSE redisWindow' = [Kept EXCEPT ![now] = @ + 1]
ConsumeRedisWindow ==
  IF Total(Kept) >= maxCount THEN redisWindow' = Kept
  ELSE redisWindow' = [Kept EXCEPT ![now] = @ + 1]

\* mutant: the first request of a window is not counted
FreshWindowEmpty == [count |-> 0, windowStart |-> now]
FreshWindow == [count |-> 1, windowStart |-> now]

ConsumeMemoryWindow ==
  IF memoryWindow = NoWindow \/ Expired(memoryWindow, now)
    THEN memoryWindow' = FreshWindow /\ Admit
    ELSE IF memoryWindow.count >= maxCount
      THEN Refuse(now) /\ UNCHANGED memoryWindow
      ELSE memoryWindow' = [memoryWindow EXCEPT !.count = @ + 1] /\ Admit

\* a refusal of Redis is thrown inside the `try', and taken for an outage
AssertRealtimeRateLimit ==
  /\ Total(admitted) < MaxAdmitted
  /\ IF ~redisReady
       THEN ConsumeMemoryWindow /\ UNCHANGED redisVars
       ELSE /\ ConsumeRedisWindow
            /\ IF Total(redisWindow') > Total(Kept)
                 THEN /\ Admit /\ viaRedis' = [viaRedis EXCEPT ![now] = @ + 1]
                      /\ UNCHANGED <<redisState, memoryWindow>>
                 ELSE ConsumeMemoryWindow /\ redisState' = "gone" /\ UNCHANGED viaRedis
  /\ UNCHANGED now

\* the connection that initializeRedis does not wait for
RedisReady ==
  /\ redisState = "connecting" /\ redisState' = "ready"
  /\ UNCHANGED <<now, redisWindow, viaRedis, memoryWindow, admitted, refused>>

\* an error or the end of the connection; it is not opened again
RedisEnds ==
  /\ redisState # "gone" /\ redisState' = "gone"
  /\ UNCHANGED <<now, redisWindow, viaRedis, memoryWindow, admitted, refused>>

Init ==
  /\ NobodyAsked /\ redisState = IF RedisConfigured THEN "connecting" ELSE "gone"
  /\ redisWindow = [t \in Times |-> 0] /\ viaRedis = [t \in Times |-> 0]
  /\ memoryWindow = NoWindow

Next == Tick \/ AssertRealtimeRateLimit \/ RedisReady \/ RedisEnds

Spec == Init /\ [][Next]_vars
-----------------------------------------------------------------------------
TypeOK ==
  /\ now \in Times /\ redisState \in {"connecting", "ready", "gone"}
  /\ redisWindow \in [Times -> 0..maxCount]
  /\ {admitted, viaRedis} \subseteq [Times -> 0..MaxAdmitted]
  /\ memoryWindow \in Windows

(* How far one process exceeds the limit when Redis becomes ready late and *)
(* refuses or goes away early: within a window it admits what Redis lets   *)
(* pass, maxCount, and what two fixed windows in memory do, one before and *)
(* one after, of which the first has spent a request before the window.    *)
FallbackBounded ==
  \A t \in Times : Within(admitted, t, t + windowMs - 1) <= 3 * maxCount - 1

(* What the warning of rate-limit.service.ts:119 says: with Redis the      *)
(* limit is strict.                                                        *)
StrictWithRedis ==
  RedisConfigured => \A t \in Times : Within(admitted, t, t + windowMs - 1) <= maxCount
=============================================================================
