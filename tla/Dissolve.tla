------------------------------ MODULE Dissolve ------------------------------
(***************************************************************************)
(* The picture of a round's end: the tiles of the board darken one after   *)
(* the other until the winner is left (round-dissolve.ts, the animation of *)
(* useMiningRuntime and grid-block.tsx).  The order is drawn from a seed:  *)
(* any order that the sort allows.  Frames come when the browser draws     *)
(* them, with any gap.  The winner may be known before the dissolve, in    *)
(* the middle of it or after it (RoundView has the phases in full).        *)
(*                                                                         *)
(* Times are in units of 100 ms.                                           *)
(***************************************************************************)
EXTENDS Integers, FiniteSets, SequencesExt

CONSTANTS
  Rows, Cols,           \* of the board, 5 and 5
  Eased,                \* Eased[n][i]: 1000 * ((i - 1) / (n - 1)) ^ 1.7
  Frames                \* bound: times from the start at which a frame may come

Blocks == 1..(Rows * Cols)
NoBlock == 0            \* null

DissolveAssumption ==
  /\ {Rows, Cols} \subseteq Nat \ {0} /\ Frames \subseteq Nat
  /\ \A n \in 1..(Rows * Cols) :
       /\ Eased[n] \in [1..n -> 0..1000] /\ Eased[n][n] = 1000
       /\ \A i \in 1..n, j \in 1..n : i < j => Eased[n][i] <= Eased[n][j]

DissolveTarget == 50    \* DISSOLVE_TARGET_MS
DimFade == 7            \* DEFAULT_DIM_FADE_MS
\* mutant: tiles start to darken until the very end
WindowWhole == DissolveTarget
ScheduleWindow == (DissolveTarget * 78) \div 100

VARIABLES
  roundPhase, roundEnd,         \* roundEnd: the winner of round_end, or NoBlock
  schedule,                     \* when each tile starts to darken
  elapsed, isDissolveComplete,  \* since dissolvingStartedAtMs
  dim,                          \* dissolveProgressByBlock, 0 to DimFade
  isWinnerRevealed, resolutionWinningBlock

vars == <<roundPhase, roundEnd, schedule, elapsed, isDissolveComplete, dim,
          isWinnerRevealed, resolutionWinningBlock>>

Undimmed == [b \in Blocks |-> 0]
-----------------------------------------------------------------------------
Row(b) == (b - 1) \div Cols
Col(b) == (b - 1) % Cols
Apart(m, n) == IF m > n THEN m - n ELSE n - m
GridDistance(a, b) == Apart(Row(a), Row(b)) + Apart(Col(a), Col(b))

\* mutant: the nearest first
NearerFirst(a, b, winner) == GridDistance(a, winner) <= GridDistance(b, winner)
FartherFirst(a, b, winner) == GridDistance(a, winner) >= GridDistance(b, winner)

BuildDissolveOrder(order, winner) ==
  winner # NoBlock =>
    \A i, j \in DOMAIN order : i < j => FartherFirst(order[i], order[j], winner)

BuildDissolveSchedule(winner) ==
  {[b \in Blocks \ {winner} |->
      (Eased[Len(order)][CHOOSE i \in DOMAIN order : order[i] = b] * ScheduleWindow) \div 1000] :
    order \in {o \in SetToSeqs(Blocks \ {winner}) : BuildDissolveOrder(o, winner)}}

\* mutant: a tile whose time has not come
ClampHigh(n, low, high) == IF n > high THEN high ELSE n
Clamp(n, low, high) == IF n < low THEN low ELSE IF n > high THEN high ELSE n
\* computeBlockDimLevel, and the winner of round_end undimmed
DimLevel(time) ==
  [b \in Blocks |-> IF b = roundEnd \/ b \notin DOMAIN schedule THEN 0
                    ELSE Clamp(time - schedule[b], 0, DimFade)]
-----------------------------------------------------------------------------
EnterZeroBuffer(event) ==
  /\ roundPhase = "ACTIVE"
  /\ roundPhase' = "ZERO_BUFFER" /\ roundEnd' = event
  /\ schedule' = <<>> /\ elapsed' = 0 /\ isDissolveComplete' = FALSE /\ dim' = Undimmed
  /\ isWinnerRevealed' = FALSE /\ resolutionWinningBlock' = NoBlock

\* mutant: the winner becomes known and the dissolve starts again around it
RoundEndRestarts(winner) ==
  /\ roundEnd = NoBlock /\ roundPhase # "ACTIVE"
  /\ roundEnd' = winner
  /\ IF roundPhase = "DISSOLVING"
     THEN schedule' \in BuildDissolveSchedule(winner) /\ elapsed' = 0 /\ dim' = Undimmed
     ELSE UNCHANGED <<schedule, elapsed, dim>>
  /\ UNCHANGED <<roundPhase, isDissolveComplete, isWinnerRevealed, resolutionWinningBlock>>
RoundEndArrives(winner) ==
  /\ roundEnd = NoBlock /\ roundPhase # "ACTIVE"
  /\ roundEnd' = winner
  /\ UNCHANGED <<roundPhase, schedule, elapsed, isDissolveComplete, dim,
                 isWinnerRevealed, resolutionWinningBlock>>

EnterDissolve ==
  /\ roundPhase = "ZERO_BUFFER"
  /\ roundPhase' = "DISSOLVING"
  /\ schedule' \in BuildDissolveSchedule(roundEnd)
  /\ elapsed' = 0 /\ isDissolveComplete' = FALSE /\ dim' = Undimmed
  /\ UNCHANGED <<roundEnd, isWinnerRevealed, resolutionWinningBlock>>

Drawn(time) == DimLevel(IF time > DissolveTarget THEN DissolveTarget ELSE time)

Tick(time) ==
  /\ roundPhase = "DISSOLVING" /\ ~isDissolveComplete /\ time > elapsed
  /\ elapsed' = time /\ dim' = Drawn(time)
  /\ isDissolveComplete' = (time >= DissolveTarget)
  /\ UNCHANGED <<roundPhase, roundEnd, schedule, isWinnerRevealed, resolutionWinningBlock>>

FocusWinner ==
  /\ roundPhase = "DISSOLVING" /\ isDissolveComplete /\ ~isWinnerRevealed
  /\ isWinnerRevealed' = TRUE /\ roundPhase' = "WINNER_FOCUS"
  /\ resolutionWinningBlock' = roundEnd
  /\ UNCHANGED <<roundEnd, schedule, elapsed, isDissolveComplete, dim>>

RevealInFocus ==
  /\ roundPhase = "WINNER_FOCUS" /\ roundEnd # NoBlock /\ resolutionWinningBlock = NoBlock
  /\ resolutionWinningBlock' = roundEnd
  /\ UNCHANGED <<roundPhase, roundEnd, schedule, elapsed, isDissolveComplete, dim, isWinnerRevealed>>

NextRoundVisible ==
  /\ roundPhase = "WINNER_FOCUS"
  /\ roundPhase' = "ACTIVE" /\ roundEnd' = NoBlock
  /\ schedule' = <<>> /\ elapsed' = 0 /\ isDissolveComplete' = FALSE /\ dim' = Undimmed
  /\ isWinnerRevealed' = FALSE /\ resolutionWinningBlock' = NoBlock

\* GridBlock
Darkness(b) ==
  IF roundPhase \notin {"DISSOLVING", "WINNER_FOCUS"} \/ b = resolutionWinningBlock THEN 0
  ELSE dim[b]
-----------------------------------------------------------------------------
Init ==
  /\ roundPhase = "ACTIVE" /\ roundEnd = NoBlock /\ schedule = <<>> /\ elapsed = 0
  /\ isDissolveComplete = FALSE /\ dim = Undimmed
  /\ isWinnerRevealed = FALSE /\ resolutionWinningBlock = NoBlock

Next ==
  \/ \E event \in Blocks \union {NoBlock} : EnterZeroBuffer(event)
  \/ \E winner \in Blocks : RoundEndArrives(winner)
  \/ EnterDissolve
  \/ \E time \in Frames : Tick(time)
  \/ FocusWinner \/ RevealInFocus \/ NextRoundVisible

Spec == Init /\ [][Next]_vars
-----------------------------------------------------------------------------
TypeOK ==
  /\ roundPhase \in {"ACTIVE", "ZERO_BUFFER", "DISSOLVING", "WINNER_FOCUS"}
  /\ roundEnd \in Blocks \union {NoBlock} /\ resolutionWinningBlock \in {NoBlock, roundEnd}
  /\ DOMAIN schedule \in {Blocks, {}} \union {Blocks \ {w} : w \in Blocks}
  /\ \A b \in DOMAIN schedule : schedule[b] \in 0..DissolveTarget
  /\ elapsed \in Frames \union {0} /\ dim \in [Blocks -> 0..DimFade]
  /\ {isDissolveComplete, isWinnerRevealed} \subseteq BOOLEAN

\* round-dissolve.ts: "far tiles dim first, nearby tiles dim last, winner never dims",
\* when the winner was known at the start.
ClosesInOnTheWinner ==
  \A w \in Blocks : roundPhase \in {"DISSOLVING", "WINNER_FOCUS"} /\ DOMAIN schedule = Blocks \ {w} =>
    /\ Darkness(w) = 0
    /\ \A b, c \in Blocks : GridDistance(b, w) > GridDistance(c, w) => Darkness(b) >= Darkness(c)

\* However few frames the browser drew, the winner is shown on a board that is all
\* dark: no tile is caught in the middle of its fade.  Before the winner is known no
\* tile is picked out.
WinnerStandsAlone ==
  roundPhase = "WINNER_FOCUS" =>
    \A b \in Blocks : Darkness(b) = IF b = resolutionWinningBlock THEN 0 ELSE DimFade

\* A tile that has darkened does not light up again before the next round, except the
\* winner.
StaysDark ==
  (roundPhase \in {"DISSOLVING", "WINNER_FOCUS"} /\ roundPhase' # "ACTIVE") =>
    (\A b \in Blocks : b = roundEnd' \/ Darkness(b)' >= Darkness(b))
DarkStaysDark == [][StaysDark]_vars
=============================================================================
