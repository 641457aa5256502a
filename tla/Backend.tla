------------------------------- MODULE Backend -------------------------------
(***************************************************************************)
(* The services of the backend side by side: recording deploys             *)
(* (Ingestion), the indexer (Indexer), the two limiters (RealtimeLimit,    *)
(* DatabaseLimit), sessions (AuthSessions), the chat (ChatGateway) and its *)
(* reactions (ChatReactions).  They share the process and nothing else     *)
(* that the modules look at: a step of the backend is a step of one of     *)
(* them, and what each promises it promises whatever the others do.        *)
(* Which of them run is open, from one alone to all of them.               *)
(***************************************************************************)
EXTENDS Integers, Sequences, FiniteSets

CONSTANTS
  Wallets, Rounds, Instances, NoOne, NoSquare,
  Calls,                  \* concurrent calls, of whichever service
  \* Ingestion
  Deploys, PayerOf, DeployRound, Mask, Attempts, MaxIngestionFailures, MaxMinerChanges,
  \* Indexer
  Known, Log, Workers, Recovery, PageLimit, MaxPages, MaxIndexerFailures, MaxCrashes,
  MaxLost,
  \* RealtimeLimit
  maxCount, windowMs, MaxTime, MaxAdmitted, RedisConfigured,
  \* DatabaseLimit
  signInCount, signInWindowMs, MaxSignInTime, MaxSignIns, RetentionMs,
  \* AuthSessions
  SignIns, Challenges, MaxSessions, MaxAuthFailures,
  \* ChatGateway
  Sockets, InstanceOf, Sessions, WalletOf, Kinds, MaxPerWindow, MaxAttempts, MaxChatFailures,
  \* ChatReactions
  Tabs, TabWallet, TabInstance, MaxReactionFailures

VARIABLES
  running,                \* the services that run
  charged, deployment, rounds, participants, roundsPlayed, lifetimeDeployed,
  deployCall, deployAnnounced, deployFailures, minerChanges,
  head, pending, notes, writes, recorded, row, cursor, resolvedWinners,
  processedRoundEnds, worker, recovery, endAnnounced, indexerFailures, crashes, lost,
  now, redisState, redisWindow, viaRedis, memoryWindow, admitted, refused,
  signInTime, rateLimit, limitCall, signInsAdmitted, signInRefused,
  authSession, consumed, authCall, issued, authFailures,
  meta, handler, check, save, bus, pubReady, subReady, revoked, miner, chatMessage,
  chatFailures, delivered, proven, lostAttempts,
  chatReaction, view, click, clickFailures, told, overlaps

ingestionVars == <<charged, deployment, rounds, participants, roundsPlayed, lifetimeDeployed,
                   deployCall, deployAnnounced, deployFailures, minerChanges>>
indexerVars == <<head, pending, notes, writes, recorded, row, cursor, resolvedWinners,
                 processedRoundEnds, worker, recovery, endAnnounced, indexerFailures,
                 crashes, lost>>
realtimeVars ==
  <<now, redisState, redisWindow, viaRedis, memoryWindow, admitted, refused>>
signInVars == <<signInTime, rateLimit, limitCall, signInsAdmitted, signInRefused>>
authVars == <<authSession, consumed, authCall, issued, authFailures>>
chatVars == <<meta, handler, check, save, bus, pubReady, subReady, revoked, miner,
              chatMessage, chatFailures, delivered, proven, lostAttempts>>
reactionVars == <<chatReaction, view, click, clickFailures, told, overlaps>>
vars == <<ingestionVars, indexerVars, realtimeVars, signInVars, authVars, chatVars,
          reactionVars, running>>

Ingestion == INSTANCE Ingestion WITH
  Txs <- Deploys, WalletOf <- PayerOf, RoundOf <- DeployRound, Callers <- Calls,
  MaxFailures <- MaxIngestionFailures,
  call <- deployCall, announced <- deployAnnounced, failures <- deployFailures

Indexer == INSTANCE Indexer WITH
  Limit <- PageLimit, MaxFailures <- MaxIndexerFailures,
  announced <- endAnnounced, failures <- indexerFailures

Realtime == INSTANCE RealtimeLimit

SignIn == INSTANCE DatabaseLimit WITH
  maxCount <- signInCount, windowMs <- signInWindowMs, MaxTime <- MaxSignInTime,
  MaxAdmitted <- MaxSignIns, Callers <- Calls,
  now <- signInTime, call <- limitCall, admitted <- signInsAdmitted, refused <- signInRefused

Auth == INSTANCE AuthSessions WITH
  Callers <- SignIns, MaxFailures <- MaxAuthFailures,
  call <- authCall, failures <- authFailures

Chat == INSTANCE ChatGateway WITH
  Requests <- Calls, MaxFailures <- MaxChatFailures,
  failures <- chatFailures, lost <- lostAttempts

Reactions == INSTANCE ChatReactions WITH
  Sockets <- Tabs, WalletOf <- TabWallet, InstanceOf <- TabInstance,
  MaxFailures <- MaxReactionFailures, call <- click, failures <- clickFailures

ASSUME BackendAssumption ==
  /\ Ingestion!IngestionAssumption /\ Indexer!IndexerAssumption
  /\ Realtime!RealtimeAssumption /\ SignIn!DatabaseAssumption
  /\ Auth!AuthAssumption /\ Chat!GatewayAssumption /\ Reactions!ReactionsAssumption

-----------------------------------------------------------------------------
Services == {"ingestion", "indexer", "realtimeLimit", "signInLimit", "auth", "chat", "reactions"}
Runs(service) == service \in running

\* a service that does not run
Off == 0
ingestionOff ==
  /\ charged = Off /\ deployment = Off /\ rounds = Off /\ participants = Off
  /\ roundsPlayed = Off /\ lifetimeDeployed = Off /\ deployCall = Off
  /\ deployAnnounced = Off /\ deployFailures = Off /\ minerChanges = Off
indexerOff ==
  /\ head = Off /\ pending = Off /\ notes = Off /\ writes = Off /\ recorded = Off
  /\ row = Off /\ cursor = Off /\ resolvedWinners = Off /\ processedRoundEnds = Off
  /\ worker = Off /\ recovery = Off /\ endAnnounced = Off /\ indexerFailures = Off
  /\ crashes = Off /\ lost = Off
realtimeOff ==
  /\ now = Off /\ redisState = Off /\ redisWindow = Off /\ viaRedis = Off
  /\ memoryWindow = Off /\ admitted = Off /\ refused = Off
signInOff ==
  /\ signInTime = Off /\ rateLimit = Off /\ limitCall = Off /\ signInsAdmitted = Off
  /\ signInRefused = Off
authOff ==
  /\ authSession = Off /\ consumed = Off /\ authCall = Off /\ issued = Off
  /\ authFailures = Off
chatOff ==
  /\ meta = Off /\ handler = Off /\ check = Off /\ save = Off /\ bus = Off
  /\ pubReady = Off /\ subReady = Off /\ revoked = Off /\ miner = Off
  /\ chatMessage = Off /\ chatFailures = Off /\ delivered = Off /\ proven = Off
  /\ lostAttempts = Off
reactionsOff ==
  /\ chatReaction = Off /\ view = Off /\ click = Off /\ clickFailures = Off
  /\ told = Off /\ overlaps = Off

Init ==
  /\ running \in SUBSET Services
  /\ IF Runs("ingestion") THEN Ingestion!Init ELSE ingestionOff
  /\ IF Runs("indexer") THEN Indexer!Init ELSE indexerOff
  /\ IF Runs("realtimeLimit") THEN Realtime!Init ELSE realtimeOff
  /\ IF Runs("signInLimit") THEN SignIn!Init ELSE signInOff
  /\ IF Runs("auth") THEN Auth!Init ELSE authOff
  /\ IF Runs("chat") THEN Chat!Init ELSE chatOff
  /\ IF Runs("reactions") THEN Reactions!Init ELSE reactionsOff

Next ==
  /\ UNCHANGED running
  /\ \/ /\ Runs("ingestion") /\ Ingestion!Next
        /\ UNCHANGED <<indexerVars, realtimeVars, signInVars, authVars, chatVars, reactionVars>>
     \/ /\ Runs("indexer") /\ Indexer!Next
        /\ UNCHANGED <<ingestionVars, realtimeVars, signInVars, authVars, chatVars, reactionVars>>
     \/ /\ Runs("realtimeLimit") /\ Realtime!Next
        /\ UNCHANGED <<ingestionVars, indexerVars, signInVars, authVars, chatVars, reactionVars>>
     \/ /\ Runs("signInLimit") /\ SignIn!Next
        /\ UNCHANGED <<ingestionVars, indexerVars, realtimeVars, authVars, chatVars, reactionVars>>
     \/ /\ Runs("auth") /\ Auth!Next
        /\ UNCHANGED <<ingestionVars, indexerVars, realtimeVars, signInVars, chatVars, reactionVars>>
     \/ /\ Runs("chat") /\ Chat!Next
        /\ UNCHANGED <<ingestionVars, indexerVars, realtimeVars, signInVars, authVars, reactionVars>>
     \/ /\ Runs("reactions") /\ Reactions!Next
        /\ UNCHANGED <<ingestionVars, indexerVars, realtimeVars, signInVars, authVars, chatVars>>

Spec == Init /\ [][Next]_vars
-----------------------------------------------------------------------------
\* Type invariant of the services.
TypeOK ==
  /\ Runs("ingestion") => Ingestion!TypeOK
  /\ Runs("indexer") => Indexer!TypeOK
  /\ Runs("realtimeLimit") => Realtime!TypeOK
  /\ Runs("signInLimit") => SignIn!TypeOK
  /\ Runs("auth") => Auth!TypeOK
  /\ Runs("chat") => Chat!TypeOK
  /\ Runs("reactions") => Reactions!TypeOK

(* What several calls, workers and notifications bring in at once is recorded  *)
(* and told once: deployments, seats and miners tell one story                 *)
(* (ingestDeployment), and a deploy and the end of a round are announced once  *)
(* at most (processProgramLogs).                                               *)
RecordedOnce ==
  /\ Runs("ingestion") => Ingestion!BooksMatch /\ Ingestion!AnnouncedOnce
  /\ Runs("indexer") => Indexer!AnnouncedOnce

(* The limiters: nobody is refused who has not used the limit up; a process    *)
(* never admits thrice the limit within a window, though it counts in memory   *)
(* until Redis is ready and anew when Redis refuses or goes away               *)
(* (assertRealtimeRateLimit); calls that read the same count overshoot the     *)
(* limit by one less than there are of them (enforceRateLimit).                *)
LimitsHold ==
  /\ Runs("realtimeLimit") =>
       Realtime!RefusedOnlyWhenFull /\ Realtime!FallbackBounded
  /\ Runs("signInLimit") =>
       SignIn!RefusedOnlyWhenFull /\ SignIn!OvershootBounded

(* The sessions of a family are a chain of which one at most is live, however  *)
(* many tabs refresh at once and also when a refresh fails between its two     *)
(* statements (refreshSession); a challenge yields one session, however many   *)
(* calls present it.                                                           *)
SessionsAreChains ==
  Runs("auth") =>
    Auth!OneLivePerFamily /\ Auth!FamilyIsChain /\ Auth!ChallengeUsedOnce

(* The chat: a socket receives what the room is sent once, though its instance *)
(* gets its own publications back from Redis, and a message is given up after  *)
(* all attempts to store it and not before (websocket.service.ts); it speaks   *)
(* for a wallet its socket proved, also when the socket changes its session    *)
(* meanwhile; two concurrent clicks come to the same as one after the other    *)
(* (toggleReaction), and when all is quiet the screens show what is stored.    *)
SpokenOnce ==
  /\ Runs("chat") =>
       Chat!DeliveredOnce /\ Chat!GivenUpAfterAllAttempts /\ Chat!OnlyProvenWallets
  /\ Runs("reactions") => Reactions!ClicksAddUp /\ Reactions!ScreensShowTheStored

(* What a service has said or done it does not take back without a reason:     *)
(* ingestDeployment gives up on a deploy only if it lost the race to create    *)
(* the row of its round; no old notification takes a winner away               *)
(* (handleRoundChange); a family without a live session never gets one again,  *)
(* by a refresh that read its row before the logout, say, and a session dies   *)
(* only of its replacement, a logout, a reuse or its age; a socket loses its   *)
(* session because it is revoked or a token was rejected, not by the late      *)
(* check of a message of the session before (runPostSendChecks).               *)
NothingTakenBack ==
  [][ /\ Runs("ingestion") => Ingestion!GivesUpOnFirst
      /\ Runs("indexer") => Indexer!KeepsWinner
      /\ Runs("auth") => Auth!StaysClosed /\ Auth!RevokingHasAReason
      /\ Runs("chat") => Chat!ClearingHasAReason
    ]_<<ingestionVars, indexerVars, authVars, chatVars>>
=============================================================================
