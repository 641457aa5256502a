------------------------------- MODULE MCPage -------------------------------
(***************************************************************************)
(* Small instances of the parts of the page that share no state.  In a     *)
(* behaviour one of them runs and the others are off, so each is explored  *)
(* as if it were alone.                                                    *)
(***************************************************************************)
EXTENDS Integers, TLC

CONSTANTS a, b,           \* wallets, clicks, calls or batches, whichever part runs
          NoWallet

MCSymmetry == Permutations({a, b})

VARIABLES
  part,                   \* the part that runs
  wallet, activeWallet, inFlight, signedIn, authState, authSession, signInFlow, issued,
  dead, authSocket, dispatched, authenticating, logout, switches, signInTroubles,
  outlived, saidExpired,
  messages, pending, timers, typed, chatSocket, canSend, frame, inbox, roomHistory,
  rememberedRows, visit, gaveUp, told,
  mounted, shouldReconnect, wsRef, lastSocket, reconnectTimer, outageActive,
  isConnected, chatAuthed, authAttempted, ready, events, clients, pinged, broken,
  troubles,
  cardProfile, authors, cardName, cache, batch,
  chain, viewEnds, currentRound, visibleRoundId, viewPhase, zeroDue, roundEndEvent,
  resolutionRoundId, resolutionBlocks, viewBlock, roundResult, dissolveSchedule,
  viewComplete, viewRevealed, dissolveStartGuard, viewProcessed, shown, missed,
  playedRound, sent, paidFor, recorded, newDeploys, roundEnds, bet, deployFlow,
  isDeployPending, deployRoundId, pendingDeploys, deploymentLedger, roundDeployments,
  processed,
  chainRound, result, winner, charged, miner, bets, unrecorded, resolvedWinners, row,
  currentRoundId, roundHistory, balance,
  now, profile, update, backendAuthenticated, profileQuery, fetch, userName, userPfp,
  failures, hadNames, heldNames, rushed,
  roundPhase, roundEnd, schedule, elapsed, isDissolveComplete, dim, isWinnerRevealed,
  resolutionWinningBlock

signInVars == <<wallet, activeWallet, inFlight, signedIn, authState, authSession,
                signInFlow, issued, dead, authSocket, dispatched, authenticating,
                logout, switches, signInTroubles, outlived, saidExpired>>
messagesVars == <<messages, pending, timers, typed, chatSocket, canSend, frame, inbox,
                  roomHistory, rememberedRows, visit, gaveUp, told>>
socketVars == <<mounted, shouldReconnect, wsRef, lastSocket, reconnectTimer,
                outageActive, isConnected, chatAuthed, authAttempted, ready, events,
                clients, pinged, broken, troubles>>
cardsVars == <<cardProfile, authors, cardName, cache, batch>>
roundViewVars == <<chain, viewEnds, currentRound, visibleRoundId, viewPhase, zeroDue,
                   roundEndEvent, resolutionRoundId, resolutionBlocks, viewBlock,
                   roundResult, dissolveSchedule, viewComplete, viewRevealed,
                   dissolveStartGuard, viewProcessed, shown, missed>>
deployViewVars == <<playedRound, sent, paidFor, recorded, newDeploys, roundEnds, bet,
                    deployFlow, isDeployPending, deployRoundId, pendingDeploys,
                    deploymentLedger, roundDeployments, processed>>
cashOutVars == <<chainRound, result, winner, charged, miner, bets, unrecorded,
                 resolvedWinners, row, currentRoundId, roundHistory, balance>>
profileVars == <<now, profile, update, backendAuthenticated, profileQuery, fetch,
                 userName, userPfp, failures, hadNames, heldNames, rushed>>
dissolveVars == <<roundPhase, roundEnd, schedule, elapsed, isDissolveComplete, dim,
                  isWinnerRevealed, resolutionWinningBlock>>

SignIn == INSTANCE ClientAuth WITH
  Wallets <- {a, b}, MaxTokens <- 2, MaxSockets <- 1, MaxFlows <- 2,
  MaxExchanges <- 1, MaxSwitches <- 2, MaxTroubles <- 1,
  flow <- signInFlow, troubles <- signInTroubles, socket <- authSocket,
  backendAuthenticated <- signedIn

Messages == INSTANCE ChatClient WITH
  Messages <- {1, 2}, MaxFrames <- 2, MaxSockets <- 2, MaxVisits <- 2,
  MaxRows <- 3, CacheLimit <- 2,
  socket <- chatSocket, cache <- rememberedRows, history <- roomHistory

Socket == INSTANCE RealtimeSocket WITH MaxTroubles <- 3

Cards == INSTANCE HoverCards WITH
  Wallets <- {"me", "w1"}, Own <- "me", Batches <- {a, b}, ChunkSize <- 1,
  MaxChanges <- 2, profile <- cardProfile, userName <- cardName

RoundView == INSTANCE RoundView WITH
  MaxRounds <- 4, Hidden <- FALSE,
  roundPhase <- viewPhase, isDissolveComplete <- viewComplete,
  isWinnerRevealed <- viewRevealed, resolutionWinningBlock <- viewBlock,
  roundEnds <- viewEnds, processed <- viewProcessed

DeployView == INSTANCE DeployView WITH
  Squares <- {1, 2}, Clicks <- {a, b}, OtherTab <- {}, MaxRounds <- 2,
  flow <- deployFlow, chainRound <- playedRound, charged <- paidFor,
  currentRoundId <- deployRoundId

\* one bet in two rounds, and two bets that may overlap in one
CashOut == INSTANCE CashOutView WITH
  Squares <- {0, 1}, Overlap <- TRUE, HistoryLimit <- 1, MaxRounds <- 2, MaxBets <- 1
Overlap == INSTANCE CashOutView WITH
  Squares <- {0, 1}, Overlap <- TRUE, HistoryLimit <- 1, MaxRounds <- 1, MaxBets <- 2

\* two wallets, of which one may take the name the other wants
Profile == INSTANCE Profile WITH
  Me <- "me", Others <- {"other"}, Letters <- {"ann", "root"},
  Cases <- {"lower", "upper"}, Reserved <- {"root"}, Pictures <- {}, Saves <- {},
  Calls <- {a, b}, MaxMonths <- 2, MaxFailures <- 0

\* one wallet, with the drawer and its picture, signing out and failed requests
MyProfile == INSTANCE Profile WITH
  Me <- "me", Others <- {}, Letters <- {"ann", "bob"}, Cases <- {"lower"},
  Reserved <- {}, Pictures <- {"https:"}, Saves <- {"save"}, Calls <- {},
  MaxMonths <- 1, MaxFailures <- 1

Dissolve == INSTANCE Dissolve WITH
  Rows <- 2, Cols <- 3, Frames <- {1, 8, 14, 25, 38, 46, 49, 50, 80},
  Eased <- << <<1000>>, <<0, 1000>>, <<0, 308, 1000>>, <<0, 154, 502, 1000>>,
              <<0, 95, 308, 613, 1000>>, <<0, 65, 211, 420, 684, 1000>> >>

ASSUME InstancesAssumption ==
  /\ SignIn!ClientAuthAssumption /\ Messages!ChatClientAssumption
  /\ Socket!RealtimeSocketAssumption /\ Cards!HoverCardsAssumption
  /\ RoundView!RoundViewAssumption /\ DeployView!DeployViewAssumption
  /\ CashOut!CashOutViewAssumption /\ Overlap!CashOutViewAssumption
  /\ Profile!ProfileAssumption /\ MyProfile!ProfileAssumption
  /\ Dissolve!DissolveAssumption

-----------------------------------------------------------------------------
\* a part that does not run
Off == 0
signInOff ==
  /\ wallet = Off /\ activeWallet = Off /\ inFlight = Off /\ signedIn = Off
  /\ authState = Off /\ authSession = Off /\ signInFlow = Off /\ issued = Off
  /\ dead = Off /\ authSocket = Off /\ dispatched = Off /\ authenticating = Off
  /\ logout = Off /\ switches = Off /\ signInTroubles = Off /\ outlived = Off
  /\ saidExpired = Off
messagesOff ==
  /\ messages = Off /\ pending = Off /\ timers = Off /\ typed = Off /\ chatSocket = Off
  /\ canSend = Off /\ frame = Off /\ inbox = Off /\ roomHistory = Off
  /\ rememberedRows = Off /\ visit = Off /\ gaveUp = Off /\ told = Off
socketOff ==
  /\ mounted = Off /\ shouldReconnect = Off /\ wsRef = Off /\ lastSocket = Off
  /\ reconnectTimer = Off /\ outageActive = Off /\ isConnected = Off
  /\ chatAuthed = Off /\ authAttempted = Off /\ ready = Off /\ events = Off
  /\ clients = Off /\ pinged = Off /\ broken = Off /\ troubles = Off
cardsOff ==
  /\ cardProfile = Off /\ authors = Off /\ cardName = Off /\ cache = Off /\ batch = Off
roundViewOff ==
  /\ chain = Off /\ viewEnds = Off /\ currentRound = Off /\ visibleRoundId = Off
  /\ viewPhase = Off /\ zeroDue = Off /\ roundEndEvent = Off /\ resolutionRoundId = Off
  /\ resolutionBlocks = Off /\ viewBlock = Off /\ roundResult = Off
  /\ dissolveSchedule = Off /\ viewComplete = Off /\ viewRevealed = Off
  /\ dissolveStartGuard = Off /\ viewProcessed = Off /\ shown = Off /\ missed = Off
deployViewOff ==
  /\ playedRound = Off /\ sent = Off /\ paidFor = Off /\ recorded = Off
  /\ newDeploys = Off /\ roundEnds = Off /\ bet = Off /\ deployFlow = Off
  /\ isDeployPending = Off /\ deployRoundId = Off /\ pendingDeploys = Off
  /\ deploymentLedger = Off /\ roundDeployments = Off /\ processed = Off
cashOutOff ==
  /\ chainRound = Off /\ result = Off /\ winner = Off /\ charged = Off /\ miner = Off
  /\ bets = Off /\ unrecorded = Off /\ resolvedWinners = Off /\ row = Off
  /\ currentRoundId = Off /\ roundHistory = Off /\ balance = Off
profileOff ==
  /\ now = Off /\ profile = Off /\ update = Off /\ backendAuthenticated = Off
  /\ profileQuery = Off /\ fetch = Off /\ userName = Off /\ userPfp = Off
  /\ failures = Off /\ hadNames = Off /\ heldNames = Off /\ rushed = Off
dissolveOff ==
  /\ roundPhase = Off /\ roundEnd = Off /\ schedule = Off /\ elapsed = Off
  /\ isDissolveComplete = Off /\ dim = Off /\ isWinnerRevealed = Off
  /\ resolutionWinningBlock = Off

Init ==
  /\ part \in {"signIn", "messages", "socket", "cards", "roundView",
               "deployView", "cashOut", "overlap", "profile",
               "myProfile", "dissolve"}
  /\ IF part = "signIn" THEN SignIn!Init ELSE signInOff
  /\ IF part = "messages" THEN Messages!Init ELSE messagesOff
  /\ IF part = "socket" THEN Socket!Init ELSE socketOff
  /\ IF part = "cards" THEN Cards!Init ELSE cardsOff
  /\ IF part = "roundView" THEN RoundView!Init ELSE roundViewOff
  /\ IF part = "deployView" THEN DeployView!Init ELSE deployViewOff
  /\ CASE part = "cashOut" -> CashOut!Init
       [] part = "overlap" -> Overlap!Init
       [] OTHER -> cashOutOff
  /\ CASE part = "profile" -> Profile!Init
       [] part = "myProfile" -> MyProfile!Init
       [] OTHER -> profileOff
  /\ IF part = "dissolve" THEN Dissolve!Init ELSE dissolveOff

Next ==
  \/ /\ part = "signIn" /\ SignIn!Next
     /\ UNCHANGED <<part, messagesVars, socketVars, cardsVars, roundViewVars,
                    deployViewVars, cashOutVars, profileVars, dissolveVars>>
  \/ /\ part = "messages" /\ Messages!Next
     /\ UNCHANGED <<part, signInVars, socketVars, cardsVars, roundViewVars,
                    deployViewVars, cashOutVars, profileVars, dissolveVars>>
  \/ /\ part = "socket" /\ Socket!Next
     /\ UNCHANGED <<part, signInVars, messagesVars, cardsVars, roundViewVars,
                    deployViewVars, cashOutVars, profileVars, dissolveVars>>
  \/ /\ part = "cards" /\ Cards!Next
     /\ UNCHANGED <<part, signInVars, messagesVars, socketVars, roundViewVars,
                    deployViewVars, cashOutVars, profileVars, dissolveVars>>
  \/ /\ part = "roundView" /\ RoundView!Next
     /\ UNCHANGED <<part, signInVars, messagesVars, socketVars, cardsVars,
                    deployViewVars, cashOutVars, profileVars, dissolveVars>>
  \/ /\ part = "deployView" /\ DeployView!Next
     /\ UNCHANGED <<part, signInVars, messagesVars, socketVars, cardsVars,
                    roundViewVars, cashOutVars, profileVars, dissolveVars>>
  \/ /\ \/ part = "cashOut" /\ CashOut!Next
        \/ part = "overlap" /\ Overlap!Next
     /\ UNCHANGED <<part, signInVars, messagesVars, socketVars, cardsVars,
                    roundViewVars, deployViewVars, profileVars, dissolveVars>>
  \/ /\ \/ part = "profile" /\ Profile!Next
        \/ part = "myProfile" /\ MyProfile!Next
     /\ UNCHANGED <<part, signInVars, messagesVars, socketVars, cardsVars,
                    roundViewVars, deployViewVars, cashOutVars, dissolveVars>>
  \/ /\ part = "dissolve" /\ Dissolve!Next
     /\ UNCHANGED <<part, signInVars, messagesVars, socketVars, cardsVars,
                    roundViewVars, deployViewVars, cashOutVars, profileVars>>

Spec == Init /\ [][Next]_<<part, signInVars, messagesVars, socketVars, cardsVars,
                         roundViewVars, deployViewVars, cashOutVars, profileVars,
                         dissolveVars>>
-----------------------------------------------------------------------------
\* Type invariant of the part that runs.
TypeOK ==
  CASE part = "signIn" -> SignIn!TypeOK
    [] part = "messages" -> Messages!TypeOK
    [] part = "socket" -> Socket!TypeOK
    [] part = "cards" -> Cards!TypeOK
    [] part = "roundView" -> RoundView!TypeOK
    [] part = "deployView" -> DeployView!TypeOK
    [] part = "cashOut" -> CashOut!TypeOK
    [] part = "overlap" -> Overlap!TypeOK
    [] part = "profile" -> Profile!TypeOK
    [] part = "myProfile" -> MyProfile!TypeOK
    [] part = "dissolve" -> Dissolve!TypeOK

(* Who signed out, or took his wallet away, is left with no session, whatever  *)
(* exchange was under way; and once a new wallet was noticed, the session of   *)
(* the old one is not used, unless an exchange for it succeeded after that     *)
(* (privy-provider.tsx).                                                       *)
SessionIsTheUsers ==
  part = "signIn" => SignIn!SignedOutHoldsNothing /\ SignIn!SessionFollowsWallet

(* What the page shows of the chat and its people is so.  History, broadcasts, *)
(* acknowledgements and what was remembered never give a message two rows;     *)
(* what is being sent is watched, so that it becomes sent or failed; a message *)
(* is stored twice only if the page gave up on it in between                   *)
(* (use-home-chat-controller.ts).  A page has one connection, none when it is  *)
(* gone, and says it is connected only if it is or is about to hear otherwise  *)
(* (use-websocket.ts).  No card is left loading without a call that answers    *)
(* for it (prefetchHoverBatch).  Whoever was told that the profile is saved    *)
(* has had the name, and one is refused as taken only if another wallet had it *)
(* during the call (updateProfile).                                            *)
ChatIsTrue ==
  /\ part = "messages" => /\ Messages!NoRowTwice
                          /\ Messages!PendingIsWatched
                          /\ Messages!TwiceOnlyAfterTimeout
  /\ part = "socket" => Socket!OneLiveSocket /\ Socket!ConnectedIsTrue
  /\ part = "cards" => Cards!LoadingIsAwaited
  /\ part = "profile" => Profile!SavedNameWasStored /\ Profile!TakenByAnother
  /\ part = "myProfile" => MyProfile!SavedNameWasStored /\ MyProfile!TakenByAnother

(* What the page shows of the game is so.  The winning tile is shown on the    *)
(* board it won on, while the next round is already polled                     *)
(* (use-mining-runtime.ts).  No pending bet is left behind that nothing will   *)
(* take away; the tiles of a bet under way stay blocked until the page has     *)
(* heard the end of its round or the bet, or another of the wallet on the very *)
(* same tiles, is recorded; a bet that came as a message and in a poll is one  *)
(* entry of the sum (handleManualDeploy, mergeDeployments).  Winnings are      *)
(* announced only to who won, and a round is called pending only when it is    *)
(* over on the chain (cash-out-state.ts).  Far tiles darken first, the winner  *)
(* not at all, and however few frames were drawn it is shown on a board all    *)
(* dark (round-dissolve.ts).                                                   *)
GameIsTrue ==
  /\ part = "roundView" => RoundView!WinnerOfTheBoard
  /\ part = "deployView" => /\ DeployView!PendingHasFlow
                            /\ DeployView!UnderWayIsBlocked
                            /\ DeployView!OneEntryPerBet
  /\ part = "cashOut" => CashOut!WinningsAreReal /\ CashOut!PendingIsOver
  /\ part = "overlap" => Overlap!WinningsAreReal /\ Overlap!PendingIsOver
  /\ part = "dissolve" => Dissolve!ClosesInOnTheWinner /\ Dissolve!WinnerStandsAlone

(* What was shown is not taken back or shown again: a delivered message is     *)
(* never shown as failed or being sent; the heartbeat ends only connections    *)
(* that left a ping unanswered; the end of a round is shown once, however its  *)
(* countdown, poll and round_end are ordered, and one that is taken up leads   *)
(* to its winner being shown before the page moves on; a bet seen recorded is  *)
(* not taken away by an older answer of the poll; a tile that has darkened     *)
(* does not light up again before the next round.                              *)
ShownIsNotTakenBack ==
  [][ /\ part = "messages" => Messages!KeepsSent
      /\ part = "socket" => Socket!EndsUnanswered
      /\ part = "roundView" => RoundView!StartsUnshown /\ RoundView!LeavesRevealed
      /\ part = "deployView" => DeployView!KeepsDeployments
      /\ part = "dissolve" => Dissolve!StaysDark
    ]_<<messagesVars, socketVars, roundViewVars, deployViewVars, dissolveVars>>
=============================================================================
