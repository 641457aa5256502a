------------------------------ MODULE MCAnswers ------------------------------
(***************************************************************************)
(* What must happen in the end: smaller instances of the services and of   *)
(* the parts of the page, under their fairness.  In a behaviour one of     *)
(* them runs and the others are off, so each is explored as if it were     *)
(* alone; the fairness of each part is that of its module.                 *)
(***************************************************************************)
EXTENDS Integers, Sequences

CONSTANTS NoOne, NoSquare, NoWallet

VARIABLES
  part,                   \* the part that runs
  charged, deployment, rounds, participants, roundsPlayed, lifetimeDeployed,
  deployCall, deployAnnounced, deployFailures, minerChanges,
  authSession, consumed, authCall, issued, authFailures,
  head, pending, notes, writes, recorded, roundRow, cursor, resolvedWinners,
  processedRoundEnds, worker, recovery, endAnnounced, indexerFailures, crashes, lost,
  meta, handler, check, save, bus, pubReady, subReady, revoked, miner, chatMessage,
  chatFailures, delivered, proven, lostAttempts,
  wallet, activeWallet, inFlight, signedIn, authState, pageSession, signInFlow, tokens,
  dead, authSocket, dispatched, authenticating, logout, switches, signInTroubles,
  outlived, saidExpired,
  messages, pendingMessages, timers, typed, chatSocket, canSend, frame, inbox,
  roomHistory, rememberedRows, visit, gaveUp, told,
  mounted, shouldReconnect, wsRef, lastSocket, reconnectTimer, outageActive,
  isConnected, chatAuthed, authAttempted, ready, events, clients, pinged, broken,
  troubles,
  cardProfile, authors, cardName, cache, batch,
  chain, viewEnds, currentRound, visibleRoundId, viewPhase, zeroDue, roundEndEvent,
  resolutionRoundId, resolutionBlocks, viewBlock, roundResult, dissolveSchedule,
  viewComplete, viewRevealed, dissolveStartGuard, viewProcessed, shown, missed,
  playedRound, sent, paidFor, recordedBets, newDeploys, roundEnds, bet, deployFlow,
  isDeployPending, deployRoundId, pendingDeploys, deploymentLedger, roundDeployments,
  processed,
  chainRound, result, winner, paidSquares, minerAccount, bets, unrecorded, appliedEnds,
  row, currentRoundId, roundHistory, balance,
  now, profile, update, backendAuthenticated, profileQuery, fetch, userName, userPfp,
  failures, hadNames, heldNames, rushed

ingestionVars == <<charged, deployment, rounds, participants, roundsPlayed,
                   lifetimeDeployed, deployCall, deployAnnounced, deployFailures,
                   minerChanges>>
authVars == <<authSession, consumed, authCall, issued, authFailures>>
indexerVars == <<head, pending, notes, writes, recorded, roundRow, cursor,
                 resolvedWinners, processedRoundEnds, worker, recovery, endAnnounced,
                 indexerFailures, crashes, lost>>
chatVars == <<meta, handler, check, save, bus, pubReady, subReady, revoked, miner,
              chatMessage, chatFailures, delivered, proven, lostAttempts>>
signInVars == <<wallet, activeWallet, inFlight, signedIn, authState, pageSession,
                signInFlow, tokens, dead, authSocket, dispatched, authenticating,
                logout, switches, signInTroubles, outlived, saidExpired>>
messagesVars == <<messages, pendingMessages, timers, typed, chatSocket, canSend, frame,
                  inbox, roomHistory, rememberedRows, visit, gaveUp, told>>
socketVars == <<mounted, shouldReconnect, wsRef, lastSocket, reconnectTimer,
                outageActive, isConnected, chatAuthed, authAttempted, ready, events,
                clients, pinged, broken, troubles>>
cardsVars == <<cardProfile, authors, cardName, cache, batch>>
roundViewVars == <<chain, viewEnds, currentRound, visibleRoundId, viewPhase, zeroDue,
                   roundEndEvent, resolutionRoundId, resolutionBlocks, viewBlock,
                   roundResult, dissolveSchedule, viewComplete, viewRevealed,
                   dissolveStartGuard, viewProcessed, shown, missed>>
deployViewVars == <<playedRound, sent, paidFor, recordedBets, newDeploys, roundEnds,
                    bet, deployFlow, isDeployPending, deployRoundId, pendingDeploys,
                    deploymentLedger, roundDeployments, processed>>
cashOutVars == <<chainRound, result, winner, paidSquares, minerAccount, bets,
                 unrecorded, appliedEnds, row, currentRoundId, roundHistory, balance>>
profileVars == <<now, profile, update, backendAuthenticated, profileQuery, fetch,
                 userName, userPfp, failures, hadNames, heldNames, rushed>>

\* two deploys of one wallet, the second for a square it holds and another
Ingestion == INSTANCE Ingestion WITH
  Txs <- {"d1", "d2"}, Wallets <- {"alice"}, Rounds <- {"r1"},
  WalletOf <- [d1 |-> "alice", d2 |-> "alice"], RoundOf <- [d1 |-> "r1", d2 |-> "r1"],
  Mask <- [d1 |-> {1}, d2 |-> {1, 2}],
  Callers <- {1, 2}, Attempts <- 2, MaxFailures <- 0, MaxMinerChanges <- 1,
  call <- deployCall, announced <- deployAnnounced, failures <- deployFailures

Auth == INSTANCE AuthSessions WITH
  Callers <- {1, 2}, Challenges <- {}, MaxSessions <- 2, MaxFailures <- 1,
  call <- authCall, failures <- authFailures

\* a round with a bet that the database knows, and its draw
Transactions == << [kind |-> "fulfil", round |-> "r1", winner |-> 7] >>
Indexer == INSTANCE Indexer WITH
  Rounds <- {"r1"}, Known <- {"r1"}, Workers <- {"logs"}, Recovery <- "recovery",
  Log <- Transactions,
  Limit <- 1, MaxPages <- 2, MaxFailures <- 1, MaxCrashes <- 1, MaxLost <- 0,
  announced <- endAnnounced, failures <- indexerFailures, row <- roundRow

\* two bets: the live logs and the older page move the cursor back
Deploys ==
  LET deploy == [kind |-> "deploy", round |-> "r1", winner |-> 7] IN <<deploy, deploy>>
Backlog == INSTANCE Indexer WITH
  Rounds <- {"r1"}, Known <- {"r1"}, Workers <- {"logs"}, Recovery <- "recovery",
  Log <- Deploys,
  Limit <- 1, MaxPages <- 2, MaxFailures <- 1, MaxCrashes <- 1, MaxLost <- 1,
  announced <- endAnnounced, failures <- indexerFailures, row <- roundRow

Chat == INSTANCE ChatGateway WITH
  Instances <- {"i1"}, Sockets <- {"s1"}, Sessions <- {"n1"}, Wallets <- {"w1"},
  InstanceOf <- [s1 |-> "i1"], WalletOf <- [n1 |-> "w1"], Requests <- {1, 2},
  Kinds <- {"authenticate", "send_message"},
  MaxPerWindow <- 1, MaxAttempts <- 2, MaxFailures <- 2,
  failures <- chatFailures, lost <- lostAttempts

\* a wallet that comes and goes, and two exchanges; and one that stays, and three sockets
SignIn == INSTANCE ClientAuth WITH
  Wallets <- {"w1"}, MaxTokens <- 1, MaxSockets <- 1, MaxFlows <- 2,
  MaxExchanges <- 1, MaxSwitches <- 1, MaxTroubles <- 1,
  flow <- signInFlow, troubles <- signInTroubles, socket <- authSocket,
  backendAuthenticated <- signedIn, authSession <- pageSession, issued <- tokens
Reconnecting == INSTANCE ClientAuth WITH
  Wallets <- {"w1"}, MaxTokens <- 1, MaxSockets <- 3, MaxFlows <- 1,
  MaxExchanges <- 1, MaxSwitches <- 0, MaxTroubles <- 1,
  flow <- signInFlow, troubles <- signInTroubles, socket <- authSocket,
  backendAuthenticated <- signedIn, authSession <- pageSession, issued <- tokens

Messages == INSTANCE ChatClient WITH
  Messages <- {1}, MaxFrames <- 2, MaxSockets <- 2, MaxVisits <- 2, MaxRows <- 3,
  CacheLimit <- 2,
  socket <- chatSocket, cache <- rememberedRows, history <- roomHistory,
  pending <- pendingMessages

Socket == INSTANCE RealtimeSocket WITH MaxTroubles <- 2

Cards == INSTANCE HoverCards WITH
  Wallets <- {"me", "w1"}, Own <- "me", Batches <- {1}, ChunkSize <- 1,
  MaxChanges <- 1,
  profile <- cardProfile, userName <- cardName

RoundView == INSTANCE RoundView WITH
  MaxRounds <- 3, Hidden <- FALSE,
  roundPhase <- viewPhase, isDissolveComplete <- viewComplete,
  isWinnerRevealed <- viewRevealed, resolutionWinningBlock <- viewBlock,
  roundEnds <- viewEnds, processed <- viewProcessed

\* a click, and a bet of another tab
DeployView == INSTANCE DeployView WITH
  Squares <- {1}, Clicks <- {"click"}, OtherTab <- {"tab"}, MaxRounds <- 2,
  flow <- deployFlow, chainRound <- playedRound, charged <- paidFor,
  currentRoundId <- deployRoundId, recorded <- recordedBets

\* a bet that leaves the history of one round, and one that stays in a history of two
CashOut == INSTANCE CashOutView WITH
  Squares <- {0}, Overlap <- FALSE, HistoryLimit <- 1, MaxRounds <- 2, MaxBets <- 1,
  charged <- paidSquares, miner <- minerAccount, resolvedWinners <- appliedEnds
LastRound == INSTANCE CashOutView WITH
  Squares <- {0}, Overlap <- FALSE, HistoryLimit <- 2, MaxRounds <- 2, MaxBets <- 1,
  charged <- paidSquares, miner <- minerAccount, resolvedWinners <- appliedEnds

Profile == INSTANCE Profile WITH
  Me <- "me", Others <- {}, Letters <- {"ann"}, Cases <- {"lower"}, Reserved <- {},
  Pictures <- {}, Saves <- {"save"}, Calls <- {"call"}, MaxMonths <- 1,
  MaxFailures <- 1

ASSUME InstancesAssumption ==
  /\ Ingestion!IngestionAssumption /\ Auth!AuthAssumption /\ Indexer!IndexerAssumption
  /\ Chat!GatewayAssumption /\ SignIn!ClientAuthAssumption
  /\ Messages!ChatClientAssumption /\ Socket!RealtimeSocketAssumption
  /\ Cards!HoverCardsAssumption /\ RoundView!RoundViewAssumption
  /\ DeployView!DeployViewAssumption /\ CashOut!CashOutViewAssumption
  /\ Profile!ProfileAssumption /\ LastRound!CashOutViewAssumption
  /\ Backlog!IndexerAssumption /\ Reconnecting!ClientAuthAssumption

-----------------------------------------------------------------------------
\* the parts that do not run stay at their beginning
Init ==
  /\ part \in {"ingestion", "auth", "indexer", "chat", "signIn", "messages", "socket",
               "cards", "roundView", "deployView", "cashOut", "profile", "backlog",
               "reconnecting", "lastRound"}
  /\ Ingestion!Init /\ Auth!Init /\ Chat!Init /\ Messages!Init /\ Socket!Init
  /\ Cards!Init /\ RoundView!Init /\ DeployView!Init /\ Profile!Init
  /\ IF part = "backlog" THEN Backlog!Init ELSE Indexer!Init
  /\ IF part = "reconnecting" THEN Reconnecting!Init ELSE SignIn!Init
  /\ IF part = "lastRound" THEN LastRound!Init ELSE CashOut!Init
  /\ part \notin {"signIn", "reconnecting"} => wallet = NoWallet

Next ==
  \/ /\ part = "ingestion" /\ Ingestion!Next
     /\ UNCHANGED <<part, authVars, indexerVars, chatVars, signInVars, messagesVars,
                    socketVars, cardsVars, roundViewVars, deployViewVars, cashOutVars,
                    profileVars>>
  \/ /\ part = "auth" /\ Auth!Next
     /\ UNCHANGED <<part, ingestionVars, indexerVars, chatVars, signInVars,
                    messagesVars, socketVars, cardsVars, roundViewVars, deployViewVars,
                    cashOutVars, profileVars>>
  \/ /\ \/ part = "indexer" /\ Indexer!Next
        \/ part = "backlog" /\ Backlog!Next
     /\ UNCHANGED <<part, ingestionVars, authVars, chatVars, signInVars, messagesVars,
                    socketVars, cardsVars, roundViewVars, deployViewVars, cashOutVars,
                    profileVars>>
  \/ /\ part = "chat" /\ Chat!Next
     /\ UNCHANGED <<part, ingestionVars, authVars, indexerVars, signInVars,
                    messagesVars, socketVars, cardsVars, roundViewVars, deployViewVars,
                    cashOutVars, profileVars>>
  \/ /\ \/ part = "signIn" /\ SignIn!Next
        \/ part = "reconnecting" /\ Reconnecting!Next
     /\ UNCHANGED <<part, ingestionVars, authVars, indexerVars, chatVars, messagesVars,
                    socketVars, cardsVars, roundViewVars, deployViewVars, cashOutVars,
                    profileVars>>
  \/ /\ part = "messages" /\ Messages!Next
     /\ UNCHANGED <<part, ingestionVars, authVars, indexerVars, chatVars, signInVars,
                    socketVars, cardsVars, roundViewVars, deployViewVars, cashOutVars,
                    profileVars>>
  \/ /\ part = "socket" /\ Socket!Next
     /\ UNCHANGED <<part, ingestionVars, authVars, indexerVars, chatVars, signInVars,
                    messagesVars, cardsVars, roundViewVars, deployViewVars,
                    cashOutVars, profileVars>>
  \/ /\ part = "cards" /\ Cards!Next
     /\ UNCHANGED <<part, ingestionVars, authVars, indexerVars, chatVars, signInVars,
                    messagesVars, socketVars, roundViewVars, deployViewVars,
                    cashOutVars, profileVars>>
  \/ /\ part = "roundView" /\ RoundView!Next
     /\ UNCHANGED <<part, ingestionVars, authVars, indexerVars, chatVars, signInVars,
                    messagesVars, socketVars, cardsVars, deployViewVars, cashOutVars,
                    profileVars>>
  \/ /\ part = "deployView" /\ DeployView!Next
     /\ UNCHANGED <<part, ingestionVars, authVars, indexerVars, chatVars, signInVars,
                    messagesVars, socketVars, cardsVars, roundViewVars, cashOutVars,
                    profileVars>>
  \/ /\ \/ part = "cashOut" /\ CashOut!Next
        \/ part = "lastRound" /\ LastRound!Next
     /\ UNCHANGED <<part, ingestionVars, authVars, indexerVars, chatVars, signInVars,
                    messagesVars, socketVars, cardsVars, roundViewVars, deployViewVars,
                    profileVars>>
  \/ /\ part = "profile" /\ Profile!Next
     /\ UNCHANGED <<part, ingestionVars, authVars, indexerVars, chatVars, signInVars,
                    messagesVars, socketVars, cardsVars, roundViewVars, deployViewVars,
                    cashOutVars>>

Bet(k) == <<"click", "tab">>[k]
Card(k) == <<"me", "w1">>[k]

\* what the running part is made of
Running ==
  CASE part = "ingestion" -> ingestionVars
    [] part = "auth" -> authVars
    [] part \in {"indexer", "backlog"} -> indexerVars
    [] part = "chat" -> chatVars
    [] part \in {"signIn", "reconnecting"} -> signInVars
    [] part = "messages" -> messagesVars
    [] part = "socket" -> socketVars
    [] part = "cards" -> cardsVars
    [] part = "roundView" -> roundViewVars
    [] part = "deployView" -> deployViewVars
    [] part \in {"cashOut", "lastRound"} -> cashOutVars
    [] part = "profile" -> profileVars

\* what a part is fair to, numbered
Duty(n) ==
  \/ part = "ingestion" /\ n \in {1, 2} /\ Ingestion!Step(n)
  \/ part = "auth" /\ n \in {1, 2} /\ Auth!Step(n)
  \/ part = "chat" /\ n \in {1, 2} /\ Chat!Step(n)
  \/ /\ part = "indexer"
     /\ \/ n = 1 /\ Indexer!Land
        \/ n = 2 /\ Indexer!RoundChange
        \/ n = 3 /\ Indexer!Upsert
        \/ n = 4 /\ Indexer!Recovering
        \/ n = 5 /\ Indexer!Deliver("logs")
        \/ n = 6 /\ Indexer!Work("logs")
        \/ n = 7 /\ Indexer!Work("recovery")
  \/ /\ part = "backlog"
     /\ \/ n = 1 /\ Backlog!Land
        \/ n = 2 /\ Backlog!RoundChange
        \/ n = 3 /\ Backlog!Upsert
        \/ n = 4 /\ Backlog!Recovering
        \/ n = 5 /\ Backlog!Deliver("logs")
        \/ n = 6 /\ Backlog!Work("logs")
        \/ n = 7 /\ Backlog!Work("recovery")
  \/ /\ part = "signIn"
     /\ \/ n \in {1, 2} /\ SignIn!Flow(n)
        \/ n = 3 /\ SignIn!Effect
        \/ n = 4 /\ SignIn!Authenticate
        \/ n = 5 /\ SignIn!Hear
  \/ /\ part = "reconnecting"
     /\ \/ n = 1 /\ Reconnecting!Flow(n)
        \/ n = 3 /\ Reconnecting!Effect
        \/ n = 4 /\ Reconnecting!Authenticate
        \/ n = 5 /\ Reconnecting!Hear
  \/ part = "messages" /\ n = 1 /\ Messages!PendingTimer(1)
  \/ /\ part = "socket"
     /\ \/ n \in 1..3 /\ Socket!Handlers(n)
        \/ n \in 4..6 /\ (Socket!Connection(n - 3) \/ Socket!Refused(n - 3))
        \/ n \in 7..9 /\ Socket!ClientClose(n - 6)
        \/ n \in 10..12 /\ Socket!Pong(n - 9)
        \/ n = 13 /\ Socket!TimerFires
        \/ n = 14 /\ Socket!AuthenticateWithToken
        \/ n = 15 /\ Socket!Heartbeat
  \/ /\ part = "cards"
     /\ \/ n = 1 /\ Cards!Step(1)
        \/ n = 2 /\ Cards!Interval(1)
        \/ n \in {3, 4} /\ Cards!Expire(Card(n - 2))
        \/ n = 5 /\ Cards!OwnProfile
  \/ /\ part = "roundView"
     /\ \/ n = 1 /\ RoundView!RoundEnds
        \/ n = 2 /\ RoundView!FetchCurrentRound
        \/ n = 3 /\ RoundView!TimerZero
        \/ n = 4 /\ RoundView!EnterDissolve
        \/ n = 5 /\ RoundView!DissolveCompletes
        \/ n = 6 /\ RoundView!FocusWinner
        \/ n = 7 /\ RoundView!RevealInFocus
        \/ n = 8 /\ RoundView!NextRoundVisible
  \/ /\ part = "deployView"
     /\ \/ n = 1 /\ DeployView!Answered("click")
        \/ n = 2 /\ DeployView!FetchCurrentRound
        \/ n = 3 /\ DeployView!Fetched
        \/ n = 4 /\ DeployView!Fetch /\ roundDeployments' # {}
  \/ /\ part = "cashOut"
     /\ \/ n \in {1, 2} /\ CashOut!HandleRoundChange(n)
        \/ n \in {3, 4} /\ CashOut!ApplyFulfillEvent(n - 2)
        \/ n = 5 /\ \E b \in unrecorded : CashOut!Ingest(b)
        \/ n = 6 /\ CashOut!FetchCurrentRound
        \/ n = 7 /\ CashOut!FetchRecentRounds
        \/ n = 8 /\ CashOut!FetchBalance
  \/ /\ part = "lastRound"
     /\ \/ n \in {1, 2} /\ LastRound!HandleRoundChange(n)
        \/ n \in {3, 4} /\ LastRound!ApplyFulfillEvent(n - 2)
        \/ n = 5 /\ \E b \in unrecorded : LastRound!Ingest(b)
        \/ n = 6 /\ LastRound!FetchCurrentRound
        \/ n = 7 /\ LastRound!FetchRecentRounds
        \/ n = 8 /\ LastRound!FetchBalance
  \/ /\ part = "profile"
     /\ \/ n = 1 /\ Profile!Serve("save")
        \/ n = 2 /\ Profile!Serve("call")
        \/ n = 3 /\ Profile!OnSuccess("save")
        \/ n = 4 /\ Profile!OnSuccess("call")
        \/ n = 5 /\ Profile!SetUserName("save")
        \/ n = 6 /\ Profile!SetUserName("call")
        \/ n = 7 /\ Profile!Ask
        \/ n = 8 /\ Profile!FetchReads
        \/ n = 9 /\ Profile!FetchArrives
        \/ n = 10 /\ Profile!Effects

\* the part that runs does not change, so each is fair to its own duties
Fairness == \A n \in 1..15 : WF_Running(part' = part /\ Duty(n))

Spec ==
  /\ Init
  /\ [][Next]_<<part, ingestionVars, authVars, indexerVars, chatVars, signInVars,
                messagesVars, socketVars, cardsVars, roundViewVars, deployViewVars,
                cashOutVars, profileVars>>
  /\ Fairness
-----------------------------------------------------------------------------
(* Two transactions that wait for each other's rows both come to an end, as    *)
(* does every other call; calls are alike, so one stands for all               *)
(* (createDeployment, Ingestion; refresh and logout, AuthSessions).            *)
EveryCallReturns == []<>(deployCall[1].pc = "idle" /\ authCall[1].pc = "idle")

(* Nothing waits for ever.  A completed round gets its winner, although        *)
(* ingestion fails and the process dies in between (reconcileMissingRoundEnds, *)
(* Indexer); a message that the room was sent is stored, unless each of the    *)
(* attempts to save it met a failure (persistRealtimeMessage, ChatGateway);    *)
(* none stays "sending", unless it comes from the memory of an earlier visit,  *)
(* where nobody waits for it any more (pendingTimeoutsRef, ChatClient); a      *)
(* sign-in ends signed in or failed, however exchanges overlap, unless an      *)
(* answer was not JSON, and who is signed in gets into the chat, again after   *)
(* every reconnect, or is told that the session expired, unless the gateway    *)
(* answered RATE_LIMITED on this very socket (privy-provider.tsx,              *)
(* use-websocket.ts, ClientAuth); after a round the page comes back to the     *)
(* running game (RoundView); a recorded bet is listed and no longer pending    *)
(* (DeployView); a payout that is due can be cashed out, also when its round   *)
(* has left the history (CashOutView); a card that failed is asked for again   *)
(* (HoverCards); the gateway forgets a client that is gone (RealtimeSocket).   *)
Open(k) ==
  \/ part = "indexer" /\ roundRow["r1"] = [status |-> "completed", winningSquare |-> NoSquare]
  \/ part = "chat" /\ Chat!Emitted(1)
  \/ part = "messages" /\ IF k = 1 THEN pendingMessages[1] = "sent" ELSE Messages!Sending(1)
  \/ part = "signIn" /\ IF k = 1 THEN authState = "wallet_connected" ELSE SignIn!MayChat
  \/ part = "reconnecting" /\ Reconnecting!MayChat
  \/ part = "roundView" /\ ~RoundView!InTheGame
  \/ part = "deployView" /\ Bet(k) \in recordedBets
  \/ part = "cashOut" /\ CashOut!Due(k)
  \/ part = "cards" /\ Cards!Failed(Card(k))
  \/ part = "socket" /\ Socket!Gone(k)
Closed(k) ==
  /\ part = "indexer" =>
       roundRow["r1"] # [status |-> "completed", winningSquare |-> NoSquare]
  /\ part = "chat" => 1 \in chatMessage \/ Chat!GivenUp(1)
  /\ part = "messages" =>
       IF k = 1 THEN pendingMessages[1] # "sent"
       ELSE ~Messages!Sending(1) \/ Messages!FromEarlierVisit(1)
  /\ part = "signIn" => IF k = 1 THEN SignIn!SignedInOrNot ELSE SignIn!InTheChat
  /\ part = "reconnecting" => Reconnecting!InTheChat
  /\ part = "roundView" => RoundView!InTheGame
  /\ part = "deployView" => DeployView!Counted(Bet(k))
  /\ part = "cashOut" => ~CashOut!Due(k) \/ CashOut!Offered
  /\ part = "cards" => cache[Card(k)].status = "ready" \/ Cards!Awaits(1, Card(k))
  /\ part = "socket" => ~Socket!Registered(k)
NothingWaitsForEver == \A k \in {1, 2} : Open(k) ~> Closed(k)

(* When the world has come to rest, each part comes to agree with it: the      *)
(* cursor of the indexer with the newest transaction, from wherever live logs, *)
(* older pages and failed items took it, with no more deploys missed than      *)
(* there was a reason for, the page's name with the stored one while it is     *)
(* signed in, the cards with the profiles they show, an open page with its     *)
(* connection, and what is said of a payout that waits with what settlement    *)
(* pays, unless it says that it does not know.                                 *)
AtRest ==
  /\ part = "profile" => backendAuthenticated
  /\ part = "socket" => mounted
  /\ part = "lastRound" => \E r \in {1, 2} : LastRound!Waiting(r)
Agrees ==
  /\ part = "indexer" => cursor = Len(Transactions)
  /\ part = "backlog" => cursor = Len(Deploys) /\ Backlog!MissedForAReason
  /\ part = "profile" => Profile!ShowsTheStored
  /\ part = "cards" => \A k \in {1, 2} : Cards!UpToDate(Card(k))
  /\ part = "socket" => Socket!Back
  /\ part = "lastRound" =>
       \A r \in {1, 2} : LastRound!Waiting(r) =>
         \E b \in balance : b.round = r /\ b.kind \in {LastRound!Payout(r), "unknown"}
EveryPartCatchesUp == <>[]AtRest => <>[]Agrees
=============================================================================
