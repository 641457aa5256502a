----------------------------- MODULE ChatGateway -----------------------------
(***************************************************************************)
(* The WebSocket gateway (WebSocketService) and what it does with the chat *)
(* (ChatService).  Several instances of the backend serve sockets of the   *)
(* same room; what one of them sends to the room it also publishes on a    *)
(* Redis channel, which brings it to the sockets of the others.            *)
(*                                                                         *)
(* Handlers are asynchronous: between two awaits of one, the others run.   *)
(* A message goes to the room before it is stored and before its session   *)
(* is looked at again.  A step below is what a handler does between two    *)
(* awaits; an answer of the database is decided when the database gives    *)
(* it, which may be before the handler goes on.                            *)
(*                                                                         *)
(* One room: the client joins no other.  Contents, replies' previews and   *)
(* acknowledgements are left out (the other end is in ChatClient), and so  *)
(* are reactions (ChatReactions).                                          *)
(* External: clients, sessions being revoked, the database, Redis, time.   *)
(***************************************************************************)
EXTENDS Integers, Sequences, FiniteSets

CONSTANTS
  Instances, Sockets, Sessions, Wallets, NoOne,
  InstanceOf,             \* the instance a socket is connected to
  WalletOf,               \* the wallet a session belongs to
  Requests,               \* what clients ask, and the ids of their messages
  Kinds,                  \* the kinds of request an instance of the model looks at
  MaxPerWindow,           \* 20: messages of a socket in 10 s
  MaxAttempts,            \* 3: attempts to store a message
  MaxFailures             \* bound: failures of the database and of Redis

GatewayAssumption ==
  /\ InstanceOf \in [Sockets -> Instances] /\ WalletOf \in [Sessions -> Wallets]
  /\ NoOne \notin Wallets \union Sessions
  /\ Kinds \subseteq {"authenticate", "send_message", "announce"}
  /\ {MaxPerWindow, MaxAttempts} \subseteq Nat \ {0} /\ MaxFailures \in Nat

VARIABLES
  meta,               \* ClientMeta: authSessionId, messageCount; open
  handler,            \* request -> kind, pc, socket, session of a token, sender
  check,              \* runPostSendChecks: pc, session it was started for
  save,               \* persistRealtimeMessage: pc, attempts left, sender given
  bus,                \* what Redis has still to bring to an instance
  pubReady, subReady,
  revoked,            \* sessions that are not active
  miner, chatMessage, \* database rows
  failures,
  delivered,          \* history: how often a socket was sent a message
  proven,             \* history: sessions a socket was authenticated for
  lost                \* history: failures met by the attempts to store a message

sockets == <<meta, delivered, proven>>
work == <<handler, check, save>>
redis == <<bus, pubReady, subReady>>
database == <<revoked, miner, chatMessage>>
vars == <<sockets, work, redis, database, failures, lost>>

WalletIn(session) == IF session = NoOne THEN NoOne ELSE WalletOf[session]
\* mutant: the token a socket presents counts before it is verified
WalletClaimed(s) ==
  WalletIn(IF \E r \in Requests : handler[r].pc = "verify" /\ handler[r].socket = s
             THEN handler[CHOOSE r \in Requests : handler[r].pc = "verify" /\ handler[r].socket = s].session
             ELSE meta[s].authSessionId)
\* meta.wallet
Wallet(s) == WalletIn(meta[s].authSessionId)
Room(i) == {s \in Sockets : InstanceOf[s] = i /\ meta[s].open}
Fails == failures < MaxFailures /\ failures' = failures + 1

NoHandler == [kind |-> "none", pc |-> "idle", socket |-> NoOne, session |-> NoOne, sender |-> NoOne]
GoTo(r, p) == handler' = [handler EXCEPT ![r].pc = p]
Done(r) == GoTo(r, "done")
Receive(r, kind, s, session, p) ==
  /\ handler[r] = NoHandler /\ kind \in Kinds /\ meta[s].open
  /\ handler' = [handler EXCEPT ![r] =
       [kind |-> kind, pc |-> p, socket |-> s, session |-> session, sender |-> NoOne]]

\* broadcast, broadcastToRoom
Deliver(i, r) ==
  delivered' = [s \in Sockets |->
    [delivered[s] EXCEPT ![r] = IF s \in Room(i) THEN @ + 1 ELSE @]]

\* Redis gives a publication to every subscriber, the publisher among them
PublishDistributedEvent(i, r) ==
  bus' = IF pubReady[i]
           THEN [j \in Instances |-> IF subReady[j] THEN Append(bus[j], [instanceId |-> i, id |-> r])
                                     ELSE bus[j]]
           ELSE bus
-----------------------------------------------------------------------------
(* authenticate *)
Authenticate(r, s, session) ==
  /\ Receive(r, "authenticate", s, session, "verify")
  /\ UNCHANGED <<sockets, check, save, redis, database, failures>>

\* what the database says of a session
Active(session) == session # NoOne /\ session \notin revoked

VerifyAccessToken(r) ==
  /\ handler[r].pc = "verify"
  /\ GoTo(r, IF Active(handler[r].session) THEN "verified" ELSE "rejected")
  /\ UNCHANGED <<sockets, check, save, redis, database, failures>>

ClearClientAuth(s) == meta' = [meta EXCEPT ![s].authSessionId = NoOne]

\* only while the socket is in `clients'
Authenticated(r) ==
  /\ handler[r].pc \in {"verified", "rejected"}
  /\ LET s == handler[r].socket IN
     \/ ~meta[s].open /\ UNCHANGED <<meta, proven>>
     \/ /\ meta[s].open /\ handler[r].pc = "verified"
        /\ meta' = [meta EXCEPT ![s].authSessionId = handler[r].session]
        /\ proven' = [proven EXCEPT ![s] = @ \union {handler[r].session}]
     \/ /\ meta[s].open /\ handler[r].pc = "rejected"
        /\ ClearClientAuth(s) /\ UNCHANGED proven
  /\ Done(r)
  /\ UNCHANGED <<delivered, check, save, redis, database, failures>>
-----------------------------------------------------------------------------
(* send_message *)
Counted(s) == [meta EXCEPT ![s].messageCount = IF @ > MaxPerWindow THEN @ ELSE @ + 1]

\* a message that replies waits for validateReplyTo, any other is built at once
SendMessage(r, s) ==
  /\ \/ /\ Wallet(s) = NoOne
        /\ Receive(r, "send_message", s, NoOne, "done")
        /\ UNCHANGED meta
     \/ /\ Wallet(s) # NoOne /\ meta' = Counted(s)
        /\ \/ meta'[s].messageCount > MaxPerWindow /\ Receive(r, "send_message", s, NoOne, "done")
           \/ /\ meta'[s].messageCount <= MaxPerWindow
              /\ Receive(r, "send_message", s, NoOne, "replying")
           \/ /\ meta'[s].messageCount <= MaxPerWindow
              /\ handler[r] = NoHandler /\ "send_message" \in Kinds /\ meta[s].open
              /\ handler' = [handler EXCEPT ![r] =
                   [kind |-> "send_message", pc |-> "built", socket |-> s,
                    session |-> NoOne, sender |-> Wallet(s)]]
  /\ UNCHANGED <<delivered, proven, check, save, redis, database, failures>>

\* the reply's target exists; buildRealtimeMessage reads meta.wallet now
BuildRealtimeMessage(r) ==
  /\ handler[r].pc = "replying"
  /\ \/ Done(r)                                    \* INVALID_REPLY
     \/ handler' = [handler EXCEPT ![r].pc = "built", ![r].sender = Wallet(handler[r].socket)]
  /\ UNCHANGED <<sockets, check, save, redis, database, failures>>

\* the preview is there: the message goes out, is looked at and stored
Emit(r) ==
  /\ handler[r].pc = "built"
  /\ LET s == handler[r].socket IN
     /\ Deliver(InstanceOf[s], r)
     /\ PublishDistributedEvent(InstanceOf[s], r)
     /\ \E p \in {"revalidate", "limit"} :         \* validated longer than 3 s ago, or not
          check' = [check EXCEPT ![r] = [pc |-> p, session |-> meta[s].authSessionId]]
     /\ save' = [save EXCEPT ![r] = [pc |-> "create", left |-> MaxAttempts, sender |-> Wallet(s)]]
     /\ handler' = [handler EXCEPT ![r].pc = "emitted"]
  /\ UNCHANGED <<meta, proven, pubReady, subReady, database, failures>>

\* the preview cannot be read: the handler ends, the client is not told
HydrateFails(r) ==
  /\ handler[r].pc = "built" /\ Fails /\ Done(r)
  /\ UNCHANGED <<sockets, check, save, redis, database>>
-----------------------------------------------------------------------------
(* runPostSendChecks *)
CheckDone(r) == check' = [check EXCEPT ![r].pc = "done"]

\* mutant: the wallet of the socket alone is compared
CheckedWallet(r) == Wallet(handler[r].socket) = WalletIn(check[r].session)
\* the socket is still authenticated for the session the check is about
Checked(r) ==
  /\ meta[handler[r].socket].open
  /\ meta[handler[r].socket].authSessionId = check[r].session

AssertSessionActive(r) ==
  /\ check[r].pc = "revalidate"
  /\ check' = [check EXCEPT ![r].pc = IF Active(check[r].session) THEN "limit" ELSE "inactive"]
  /\ UNCHANGED <<sockets, handler, save, redis, database, failures>>

SessionInactive(r) ==
  /\ check[r].pc = "inactive"
  /\ IF Checked(r) THEN ClearClientAuth(handler[r].socket) ELSE UNCHANGED meta
  /\ CheckDone(r)
  /\ UNCHANGED <<delivered, proven, handler, save, redis, database, failures>>

\* the limits of the wallet and of the address (RateLimit); refused: muted
Limit(r) ==
  /\ check[r].pc = "limit"
  /\ \/ UNCHANGED meta
     \/ /\ Checked(r)
        /\ meta' = [meta EXCEPT ![handler[r].socket].messageCount = MaxPerWindow + 1]
  /\ CheckDone(r)
  /\ UNCHANGED <<delivered, proven, handler, save, redis, database, failures>>

WindowPasses(s) ==
  /\ meta[s].messageCount > 0
  /\ meta' = [meta EXCEPT ![s].messageCount = 0]
  /\ UNCHANGED <<delivered, proven, work, redis, database, failures, lost>>
-----------------------------------------------------------------------------
(* persistRealtimeMessage *)
\* mutants: one attempt too few, one too many
LastAttemptEarly(r) == save[r].left <= 2
LastAttemptLate(r) == save[r].left <= 0
LastAttempt(r) == save[r].left <= 1

AttemptFails(r) ==
  /\ lost' = [lost EXCEPT ![r] = @ + 1]
  /\ save' = [save EXCEPT ![r].pc = IF LastAttempt(r) THEN "failed" ELSE "create",
                          ![r].left = @ - 1]

\* without a sender the row is refused; without the sender's miner the key is
CreateMessage(r) ==
  /\ save[r].pc \in {"create", "createAgain"}
  /\ LET sender == handler[r].sender IN
     \/ /\ sender \in miner
        /\ chatMessage' = chatMessage \union {r}
        /\ save' = [save EXCEPT ![r].pc = "stored"] /\ UNCHANGED <<failures, lost>>
     \/ /\ sender \in Wallets \ miner /\ save[r].pc = "create"
        /\ save' = [save EXCEPT ![r].pc = "upsert"] /\ UNCHANGED <<chatMessage, failures, lost>>
     \/ /\ sender = NoOne \/ (sender \notin miner /\ save[r].pc = "createAgain")
        /\ AttemptFails(r) /\ UNCHANGED <<chatMessage, failures>>
     \/ Fails /\ AttemptFails(r) /\ UNCHANGED chatMessage
  /\ UNCHANGED <<sockets, handler, check, redis, revoked, miner>>

\* mutant: the miner is not created
MinersWithout(sender) == miner
MinersWith(sender) == miner \union ({sender} \ {NoOne})

UpsertMiner(r) ==
  /\ save[r].pc = "upsert"
  /\ \/ /\ miner' = MinersWith(save[r].sender)
        /\ save' = [save EXCEPT ![r].pc = "createAgain"] /\ UNCHANGED <<failures, lost>>
     \/ Fails /\ AttemptFails(r) /\ UNCHANGED miner
  /\ UNCHANGED <<sockets, handler, check, redis, revoked, chatMessage>>
-----------------------------------------------------------------------------
(* broadcastRoundUpdate, broadcastBoardUpdate, broadcastRoundEnd and        *)
(* broadcastNewDeploy: the socket stands for the instance                  *)
Announce(r, s) ==
  /\ Receive(r, "announce", s, NoOne, "emitted")
  /\ Deliver(InstanceOf[s], r)
  /\ PublishDistributedEvent(InstanceOf[s], r)
  /\ UNCHANGED <<meta, proven, check, save, pubReady, subReady, database, failures>>

\* mutant: an instance relays its own publications too
RelaysAll(i, event) == TRUE
Relays(i, event) == event.instanceId # i

HandleDistributedMessage(i) ==
  /\ bus[i] # <<>> /\ bus' = [bus EXCEPT ![i] = Tail(@)]
  /\ IF Relays(i, Head(bus[i])) THEN Deliver(i, Head(bus[i]).id) ELSE UNCHANGED delivered
  /\ UNCHANGED <<meta, proven, work, pubReady, subReady, database, failures, lost>>

\* a connection to Redis ends; it is not opened again
RedisEnds(i) ==
  /\ Fails
  /\ \/ pubReady[i] /\ pubReady' = [pubReady EXCEPT ![i] = FALSE] /\ UNCHANGED <<bus, subReady>>
     \/ /\ subReady[i] /\ subReady' = [subReady EXCEPT ![i] = FALSE]
        /\ bus' = [bus EXCEPT ![i] = <<>>] /\ UNCHANGED pubReady
  /\ UNCHANGED <<sockets, work, database, lost>>
-----------------------------------------------------------------------------
\* closed by the client, by an error, or by the heartbeat
Close(s) ==
  /\ meta[s].open /\ meta' = [meta EXCEPT ![s].open = FALSE]
  /\ UNCHANGED <<delivered, proven, work, redis, database, failures, lost>>

\* a logout, elsewhere
Revoke(session) ==
  /\ revoked' = revoked \union {session}
  /\ UNCHANGED <<sockets, work, redis, miner, chatMessage, failures, lost>>

Init ==
  /\ meta = [s \in Sockets |-> [authSessionId |-> NoOne, messageCount |-> 0, open |-> TRUE]]
  /\ handler = [r \in Requests |-> NoHandler]
  /\ check = [r \in Requests |-> [pc |-> "none", session |-> NoOne]]
  /\ save = [r \in Requests |-> [pc |-> "none", left |-> 0, sender |-> NoOne]]
  /\ bus = [i \in Instances |-> <<>>]
  /\ pubReady = [i \in Instances |-> TRUE] /\ subReady = [i \in Instances |-> TRUE]
  /\ revoked = {} /\ miner = {} /\ chatMessage = {}
  /\ failures = 0
  /\ delivered = [s \in Sockets |-> [r \in Requests |-> 0]]
  /\ proven = [s \in Sockets |-> {}]
  /\ lost = [r \in Requests |-> 0]

Ask(r, s) ==
  /\ \/ \E session \in Sessions \union {NoOne} : Authenticate(r, s, session)
     \/ SendMessage(r, s) \/ Announce(r, s)
  /\ UNCHANGED lost

Step(r) ==
  \/ CreateMessage(r) \/ UpsertMiner(r)
  \/ /\ \/ VerifyAccessToken(r) \/ Authenticated(r)
        \/ BuildRealtimeMessage(r) \/ Emit(r) \/ HydrateFails(r)
        \/ AssertSessionActive(r) \/ SessionInactive(r) \/ Limit(r)
     /\ UNCHANGED lost

Next ==
  \/ \E r \in Requests, s \in Sockets : Ask(r, s)
  \/ \E r \in Requests : Step(r)
  \/ \E i \in Instances : HandleDistributedMessage(i) \/ RedisEnds(i)
  \/ \E s \in Sockets : WindowPasses(s) \/ Close(s)
  \/ \E session \in Sessions : Revoke(session)

\* the process goes on with what it awaits
Fairness == \A r \in Requests : WF_vars(Step(r))
Spec == Init /\ [][Next]_vars /\ Fairness
-----------------------------------------------------------------------------
MaybeSession == Sessions \union {NoOne}
MaybeWallet == Wallets \union {NoOne}
Event == [instanceId : Instances, id : Requests]

TypeOK ==
  /\ meta \in [Sockets -> [authSessionId : MaybeSession, messageCount : 0..MaxPerWindow + 1, open : BOOLEAN]]
  /\ handler \in [Requests ->
       [kind : Kinds \union {"none"}, socket : Sockets \union {NoOne}, session : MaybeSession,
        sender : MaybeWallet,
        pc : {"idle", "verify", "verified", "rejected", "replying", "built", "emitted", "done"}]]
  /\ check \in [Requests -> [pc : {"none", "revalidate", "inactive", "limit", "done"}, session : MaybeSession]]
  /\ save \in [Requests -> [pc : {"none", "create", "upsert", "createAgain", "stored", "failed"},
                            left : 0..MaxAttempts, sender : MaybeWallet]]
  /\ \A i \in Instances : \A n \in 1..Len(bus[i]) : bus[i][n] \in Event
  /\ pubReady \in [Instances -> BOOLEAN] /\ subReady \in [Instances -> BOOLEAN]
  /\ revoked \subseteq Sessions /\ miner \subseteq Wallets /\ chatMessage \subseteq Requests
  /\ failures \in 0..MaxFailures

(* A socket receives what the room is sent once, though its instance also  *)
(* gets its own publications back from Redis.                              *)
DeliveredOnce == \A s \in Sockets, r \in Requests : delivered[s][r] <= 1

(* A message speaks for a wallet its socket proved, also when the socket   *)
(* changes its session while the message waits for a database.             *)
OnlyProvenWallets ==
  \A r \in Requests : handler[r].sender # NoOne =>
    \E session \in proven[handler[r].socket] : WalletOf[session] = handler[r].sender

(* A message is given up after MaxAttempts failures and not before, with   *)
(* or without the detour over a miner that did not exist.                  *)
GivenUpAfterAllAttempts ==
  \A r \in Requests : (save[r].pc = "failed") = (lost[r] = MaxAttempts)

(* A socket loses its session for a reason: the session is revoked, or it  *)
(* presented a token that is not accepted.  The check of an older message, *)
(* sent under another session, does not end the new one.                   *)
ClearingHasAReason ==
  \A s \in Sockets :
    (meta[s].authSessionId # NoOne /\ meta'[s].authSessionId = NoOne) =>
      \/ meta[s].authSessionId \in revoked
      \/ \E r \in Requests : handler[r].pc = "rejected" /\ handler[r].socket = s
ClearedForAReason == [][ClearingHasAReason]_vars

(* A message the room was sent is stored, the first of a wallet too, if    *)
(* the socket still had the session it was built with when it went out and *)
(* the database did not fail in each of the attempts to store it.          *)
Emitted(r) == save[r].pc = "create" /\ save[r].sender = handler[r].sender /\ save[r].sender # NoOne
GivenUp(r) == lost[r] = MaxAttempts /\ failures >= MaxAttempts
EmittedIsStored == \A r \in Requests : Emitted(r) ~> (r \in chatMessage \/ GivenUp(r))

(* A message of the room has a sender (the type of its field).             *)
SenderKnown == \A r \in Requests : save[r].pc # "none" => handler[r].sender # NoOne
=============================================================================
