------------------------------ MODULE RoundView ------------------------------
(***************************************************************************)
(* What a player's page shows when a round ends (useMiningRuntime): the    *)
(* countdown reaches zero or a round_end comes, the board that was played  *)
(* is kept, its tiles dissolve, the winner is shown, and the page moves on *)
(* to the next round.                                                      *)
(*                                                                         *)
(* Three clocks that know nothing of each other drive it: the page's own   *)
(* countdown, the poll of the current round, and round_end over the        *)
(* WebSocket, which may be late, repeated or lost; a cancelled round has   *)
(* none.  A winning tile, a board and a result are the round they are of.  *)
(*                                                                         *)
(* React runs an effect a moment after the commit that asked for it; that  *)
(* moment is modelled for the countdown (zeroDue), whose effect forgets    *)
(* what came meanwhile.  External: the program, the backend, the network.  *)
(***************************************************************************)
EXTENDS Integers, FiniteSets

CONSTANTS
  MaxRounds,              \* bound: rounds played
  Hidden                  \* the tab may be hidden for as long as a round takes

RoundViewAssumption == MaxRounds \in Nat \ {0} /\ Hidden \in BOOLEAN

Rounds == 1..MaxRounds
None == 0

VARIABLES
  chain,              \* the backend's current round: id, is its clock running
  roundEnds,          \* round_end messages on the way
  currentRound,       \* roundQuery.data
  visibleRoundId,     \* visibleRoundIdRef
  roundPhase,
  zeroDue,            \* the round an effect was asked for when its countdown ended
  roundEndEvent,      \* resolutionRoundEndEvent
  resolutionRoundId, resolutionBlocks, resolutionWinningBlock, roundResult,
  dissolveSchedule, isDissolveComplete, isWinnerRevealed,
  dissolveStartGuard,
  processed,          \* processedRoundEndIdsRef
  shown,              \* history: rounds whose end was shown
  missed              \* history: round_ends that were ignored or forgotten

backend == <<chain, roundEnds>>
polled == <<currentRound, visibleRoundId>>
resolution == <<roundEndEvent, resolutionRoundId, resolutionBlocks, resolutionWinningBlock, roundResult>>
dissolve == <<dissolveSchedule, isDissolveComplete, isWinnerRevealed, dissolveStartGuard>>
vars == <<backend, polled, roundPhase, zeroDue, resolution, dissolve, processed, shown, missed>>

\* a round takes a minute at least, its end on the page half that: the page has
\* seen a round run and is done with the one before, unless its tab is hidden
\* and draws no frame
KeptUp ==
  /\ currentRound = chain
  /\ \/ roundPhase = "ACTIVE" \/ resolutionRoundId = chain.id
     \/ Hidden /\ roundPhase = "DISSOLVING"
-----------------------------------------------------------------------------
ClockStarts ==
  /\ chain.id < MaxRounds /\ ~chain.timerActive
  /\ chain' = [chain EXCEPT !.timerActive = TRUE]
  /\ UNCHANGED <<roundEnds, polled, roundPhase, zeroDue, resolution, dissolve, processed, shown, missed>>

RoundEnds ==
  /\ chain.timerActive /\ KeptUp
  /\ chain' = [id |-> chain.id + 1, timerActive |-> FALSE]
  /\ roundEnds' \in {roundEnds, roundEnds \union {chain.id}}      \* cancelled, or drawn
  /\ UNCHANGED <<polled, roundPhase, zeroDue, resolution, dissolve, processed, shown, missed>>

\* roundQuery
FetchCurrentRound ==
  /\ zeroDue = None /\ currentRound # chain
  /\ currentRound' = chain /\ visibleRoundId' = chain.id
  /\ UNCHANGED <<backend, roundPhase, zeroDue, resolution, dissolve, processed, shown, missed>>
-----------------------------------------------------------------------------
\* the state in which the end of a round begins
ZeroBuffer ==
  /\ roundPhase' = "ZERO_BUFFER"
  /\ dissolveSchedule' = FALSE /\ isDissolveComplete' = FALSE /\ isWinnerRevealed' = FALSE
  /\ dissolveStartGuard' = FALSE

\* timeRemaining is 0 when the page is drawn ...
CountdownEnds ==
  /\ roundPhase = "ACTIVE" /\ currentRound.timerActive /\ zeroDue = None
  /\ zeroDue' = currentRound.id
  /\ UNCHANGED <<backend, polled, roundPhase, resolution, dissolve, processed, shown, missed>>

\* ... and the effect runs
TimerZero ==
  /\ zeroDue # None /\ zeroDue' = None
  /\ resolutionBlocks' = zeroDue /\ resolutionRoundId' = zeroDue
  /\ roundEndEvent' = None /\ resolutionWinningBlock' = None
  /\ missed' = IF roundEndEvent = zeroDue THEN missed \union {zeroDue} ELSE missed
  /\ ZeroBuffer /\ shown' = shown \union {zeroDue}
  /\ UNCHANGED <<backend, polled, roundResult, processed>>

\* mutant: whatever round it is about
VisibleAlways(r) == TRUE
IsVisibleRound(r) == currentRound.id = r \/ visibleRoundId = r

\* mutant: remembered only when it is taken up
ProcessedVisible(r) == IF IsVisibleRound(r) THEN processed \union {r} ELSE processed
Processed(r) == processed \union {r}

\* ws.onRoundEnd
OnRoundEnd(r) ==
  /\ r \in roundEnds
  /\ UNCHANGED <<backend, polled, zeroDue>>         \* it may come again
  /\ IF r \in processed
       THEN UNCHANGED <<roundPhase, resolution, dissolve, processed, shown, missed>>
       ELSE
         /\ processed' = Processed(r)
         /\ missed' = IF IsVisibleRound(r) THEN missed ELSE missed \union {r}
         /\ IF IsVisibleRound(r)
              THEN /\ roundEndEvent' = r /\ resolutionRoundId' = r /\ roundResult' = r
                   /\ resolutionBlocks' = IF resolutionBlocks = None /\ currentRound.id = r
                                            THEN r ELSE resolutionBlocks
                   /\ UNCHANGED resolutionWinningBlock
              ELSE UNCHANGED resolution
         /\ IF IsVisibleRound(r) /\ roundPhase = "ACTIVE"
              THEN ZeroBuffer /\ shown' = shown \union {r}
              ELSE UNCHANGED <<roundPhase, dissolve, shown>>

LoseRoundEnd(r) ==
  /\ r \in roundEnds /\ roundEnds' = roundEnds \ {r}
  /\ UNCHANGED <<chain, polled, roundPhase, zeroDue, resolution, dissolve, processed, shown, missed>>
-----------------------------------------------------------------------------
\* after 3 s with a round_end, or after 3.5 s without
EnterDissolve ==
  /\ roundPhase = "ZERO_BUFFER" /\ zeroDue = None /\ ~dissolveStartGuard
  /\ dissolveStartGuard' = TRUE
  /\ resolutionRoundId' = IF roundEndEvent # None THEN roundEndEvent ELSE resolutionRoundId
  /\ dissolveSchedule' = TRUE /\ isDissolveComplete' = FALSE
  /\ roundPhase' = "DISSOLVING"
  /\ UNCHANGED <<backend, polled, zeroDue, roundEndEvent, resolutionBlocks, resolutionWinningBlock,
                 roundResult, isWinnerRevealed, processed, shown, missed>>

\* the animation's last frame
DissolveCompletes ==
  /\ roundPhase = "DISSOLVING" /\ dissolveSchedule /\ ~isDissolveComplete
  /\ isDissolveComplete' = TRUE
  /\ UNCHANGED <<backend, polled, roundPhase, zeroDue, resolution, dissolveSchedule,
                 isWinnerRevealed, dissolveStartGuard, processed, shown, missed>>

Reveal == IF roundEndEvent # None THEN roundEndEvent ELSE resolutionWinningBlock

FocusWinner ==
  /\ roundPhase = "DISSOLVING" /\ isDissolveComplete /\ ~isWinnerRevealed
  /\ isWinnerRevealed' = TRUE /\ resolutionWinningBlock' = Reveal
  /\ roundPhase' = "WINNER_FOCUS"
  /\ UNCHANGED <<backend, polled, zeroDue, roundEndEvent, resolutionRoundId, resolutionBlocks,
                 roundResult, dissolveSchedule, isDissolveComplete, dissolveStartGuard,
                 processed, shown, missed>>

\* mutant: the winner is what was known when the focus began
LateRevealNever == FALSE
\* a round_end came during the focus
LateReveal ==
  roundPhase = "WINNER_FOCUS" /\ roundEndEvent # None /\ resolutionWinningBlock = None
RevealInFocus ==
  /\ LateReveal
  /\ resolutionWinningBlock' = roundEndEvent
  /\ UNCHANGED <<backend, polled, roundPhase, zeroDue, roundEndEvent, resolutionRoundId,
                 resolutionBlocks, roundResult, dissolve, processed, shown, missed>>

\* mutant: the focus ends when its time is over
NextRoundAlways == TRUE
\* mutant: the focus ends when the next round runs
NextRoundRuns == currentRound.id # resolutionRoundId /\ currentRound.timerActive
HasNextRound == currentRound.id # resolutionRoundId

\* the focus has lasted and the next round is there
NextRoundVisible ==
  /\ roundPhase = "WINNER_FOCUS" /\ HasNextRound /\ ~LateReveal
  /\ roundEndEvent' = None /\ resolutionWinningBlock' = None /\ resolutionRoundId' = None
  /\ resolutionBlocks' = None /\ roundResult' = None
  /\ dissolveSchedule' = FALSE /\ isDissolveComplete' = FALSE /\ isWinnerRevealed' = FALSE
  /\ dissolveStartGuard' = FALSE
  /\ visibleRoundId' = currentRound.id
  /\ roundPhase' = "ACTIVE"
  /\ UNCHANGED <<backend, currentRound, zeroDue, processed, shown, missed>>

Init ==
  /\ chain = [id |-> 1, timerActive |-> FALSE] /\ roundEnds = {}
  /\ currentRound = chain /\ visibleRoundId = 1
  /\ roundPhase = "ACTIVE" /\ zeroDue = None
  /\ roundEndEvent = None /\ resolutionRoundId = None /\ resolutionBlocks = None
  /\ resolutionWinningBlock = None /\ roundResult = None
  /\ dissolveSchedule = FALSE /\ isDissolveComplete = FALSE /\ isWinnerRevealed = FALSE
  /\ dissolveStartGuard = FALSE
  /\ processed = {} /\ shown = {} /\ missed = {}

Next ==
  \/ ClockStarts \/ RoundEnds \/ FetchCurrentRound
  \/ CountdownEnds \/ TimerZero
  \/ \E r \in Rounds : OnRoundEnd(r) \/ LoseRoundEnd(r)
  \/ EnterDissolve \/ DissolveCompletes \/ FocusWinner \/ RevealInFocus \/ NextRoundVisible

\* timers, frames and effects run, the poll comes back, a round that runs ends
Fairness ==
  /\ WF_vars(RoundEnds) /\ WF_vars(FetchCurrentRound) /\ WF_vars(TimerZero)
  /\ WF_vars(EnterDissolve) /\ WF_vars(DissolveCompletes) /\ WF_vars(FocusWinner)
  /\ WF_vars(RevealInFocus) /\ WF_vars(NextRoundVisible)
Spec == Init /\ [][Next]_vars /\ Fairness
-----------------------------------------------------------------------------
MaybeRound == Rounds \union {None}

TypeOK ==
  /\ chain \in [id : Rounds, timerActive : BOOLEAN] /\ roundEnds \subseteq Rounds
  /\ currentRound \in [id : Rounds, timerActive : BOOLEAN] /\ visibleRoundId \in Rounds
  /\ currentRound.id <= chain.id
  /\ roundPhase \in {"ACTIVE", "ZERO_BUFFER", "DISSOLVING", "WINNER_FOCUS"}
  /\ {zeroDue, roundEndEvent, resolutionRoundId, resolutionBlocks, resolutionWinningBlock,
      roundResult} \subseteq MaybeRound
  /\ {dissolveSchedule, isDissolveComplete, isWinnerRevealed, dissolveStartGuard} \subseteq BOOLEAN
  /\ processed \subseteq Rounds /\ missed \subseteq processed /\ shown \subseteq Rounds
  /\ (roundPhase # "ACTIVE") => resolutionRoundId # None

(* The tile that is shown as the winner's is on the board it won on, and   *)
(* the result next to it is of the same round, while the next round is     *)
(* already polled and may already be running.                              *)
WinnerOfTheBoard ==
  (roundPhase # "ACTIVE" /\ zeroDue = None) =>
    /\ {roundEndEvent, resolutionWinningBlock, roundResult} \subseteq {resolutionRoundId, None}
    /\ resolutionBlocks = resolutionRoundId

(* The end of a round is shown once, however its countdown, its poll and   *)
(* its round_end are ordered.                                              *)
StartsUnshown ==
  (roundPhase # "ZERO_BUFFER" /\ roundPhase' = "ZERO_BUFFER") => resolutionRoundId' \notin shown
EndShownOnce == [][StartsUnshown]_vars

(* A round_end that is taken up while the end of its round is shown leads  *)
(* to its winner being shown before the page moves on, in whichever phase  *)
(* it came.                                                                *)
LeavesRevealed ==
  (roundPhase = "WINNER_FOCUS" /\ roundPhase' = "ACTIVE" /\ resolutionRoundId \in processed \ missed)
    => resolutionWinningBlock = resolutionRoundId
TakenUpIsRevealed == [][LeavesRevealed]_vars

(* The page comes back to the game, with or without a round_end.           *)
InTheGame == roundPhase = "ACTIVE"
BackToTheGame == ~InTheGame ~> InTheGame

(* What indexer.service.ts:492 says, "Gameplay reveal must be driven       *)
(* exclusively by round_end.": whether a winner is revealed depends on     *)
(* whether its round_end came, and not on the poll and the countdown.      *)
RevealByRoundEnd ==
  [][(roundPhase = "WINNER_FOCUS" /\ roundPhase' = "ACTIVE" /\ resolutionRoundId \in processed)
       => resolutionWinningBlock = resolutionRoundId]_vars

(* What round-board.spec.ts:5 says, "keeps the completed tile values while *)
(* the next round is already live", of a tab that was hidden meanwhile.    *)
KeepsCompletedTiles ==
  (roundPhase # "ACTIVE" /\ zeroDue = None) => resolutionBlocks = resolutionRoundId
=============================================================================
