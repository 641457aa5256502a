----------------------------- MODULE ChatClient ------------------------------
(***************************************************************************)
(* What a browser does with a chat message from the moment it is typed     *)
(* (useHomeChatController over useWebSocket): an optimistic row, a frame   *)
(* on the socket, fifteen seconds for the gateway to answer, a retry by    *)
(* hand or after a reconnect, and a list of rows in which the room's       *)
(* history, what the gateway broadcasts and what the browser remembered    *)
(* from an earlier visit all meet.                                         *)
(*                                                                         *)
(* Ids are numbers: the k-th frame that reaches the socket is message k of *)
(* the gateway if the gateway lets it through, `pending:c' is -c.  What is *)
(* typed elsewhere comes like any frame this page did not send.            *)
(* External: the gateway and the database (ChatGateway has their inside),  *)
(* the network, the user.                                                  *)
(***************************************************************************)
EXTENDS Integers, Sequences, FiniteSets

CONSTANTS
  Messages,               \* clientMessageIds, in the order they are created
  MaxFrames,              \* bound: frames sent, of this page and elsewhere
  MaxSockets,             \* bound: sockets opened
  MaxVisits,              \* bound: times the page is loaded
  MaxRows,                \* 250: rows upsertMessage keeps
  CacheLimit              \* 120: rows remembered

ChatClientAssumption ==
  /\ Messages \subseteq Nat \ {0}
  /\ {MaxFrames, MaxSockets, MaxVisits, MaxRows, CacheLimit} \subseteq Nat \ {0}

Frames == 1..MaxFrames
None == 0

VARIABLES
  messages,           \* the rows: id, clientMessageId, deliveryStatus
  pending,            \* pendingOutboundRef: no, sent or not
  timers,             \* pendingTimeoutsRef
  typed,              \* messages typed so far
  socket,             \* id; open, closing (dead, not noticed), closed
  canSend,
  frame,              \* what became of each frame: client, socket, pc
  inbox,              \* events on the way to the browser
  history,            \* loadRoomHistory: idle, asked, or the rows of the answer
  cache,              \* localStorage
  visit,
  gaveUp,             \* history: messages that waited in vain for 15 s
  told                \* history: messages of which "Tap retry." was said

outbound == <<pending, timers>>
wire == <<socket, canSend, inbox>>
page == <<history, cache, visit>>
vars == <<messages, outbound, typed, wire, frame, page, gaveUp, told>>

\* mutant: one too many
LastAndOne(s, n) == IF Len(s) > n THEN SubSeq(s, Len(s) - n, Len(s)) ELSE s
Last(s, n) == IF Len(s) > n THEN SubSeq(s, Len(s) - n + 1, Len(s)) ELSE s
Row(id, c, status) == [id |-> id, client |-> c, status |-> status]
ServerRow(k) == Row(k, frame[k].client, "sent")
IsOf(row, c) == row.client = c \/ row.id = -c

\* every change of the rows is remembered, unless none is left
Show(rows) ==
  /\ messages' = rows
  /\ cache' = IF rows = <<>> THEN cache ELSE Last(rows, CacheLimit)

\* mutant: a message that is there already is added again
UpsertAppends(rows, row) == Last(Append(rows, row), MaxRows)
UpsertMessage(rows, row) ==
  IF \E i \in DOMAIN rows : rows[i].id = row.id THEN rows ELSE Last(Append(rows, row), MaxRows)

\* mutant: the row of the message is added and the optimistic one stays
ReplacePendingAdds(rows, c, row) == UpsertMessage(rows, row)
ReplacePendingMessage(rows, c, row) ==
  LET mine == {i \in DOMAIN rows : IsOf(rows[i], c)} IN
  IF mine = {} THEN UpsertMessage(rows, row)
  ELSE [rows EXCEPT ![CHOOSE i \in mine : \A j \in mine : i <= j] = row]

SetMessageDeliveryState(rows, cs, status) ==
  [i \in DOMAIN rows |-> IF \E c \in cs : IsOf(rows[i], c) THEN [rows[i] EXCEPT !.status = status]
                         ELSE rows[i]]
-----------------------------------------------------------------------------
Used == {k \in Frames : frame[k].pc # "none"}
NextFrame == Cardinality(Used) + 1

\* send: messages cs leave on socket s, in the order they were created
Leave(cs, s) ==
  /\ Cardinality(Used) + Cardinality(cs) <= MaxFrames
  /\ frame' = [k \in Frames |->
       IF \E c \in cs : k = NextFrame + Cardinality({d \in cs : d < c})
         THEN [pc |-> "sent", socket |-> s,
               client |-> CHOOSE c \in cs : k = NextFrame + Cardinality({d \in cs : d < c})]
         ELSE frame[k]]

\* mutant: what was sent already is sent again after a reconnect
UnsentOrSent == {c \in Messages : pending[c] # "no"}
Unsent == {c \in Messages : pending[c] = "unsent"}

\* dispatchPendingMessage, the socket being open
\* mutant: no timer is armed
DispatchedUnarmed(cs) ==
  /\ pending' = [c \in Messages |-> IF c \in cs THEN "sent" ELSE pending[c]]
  /\ UNCHANGED timers
Dispatched(cs) ==
  /\ pending' = [c \in Messages |-> IF c \in cs THEN "sent" ELSE pending[c]]
  /\ timers' = timers \union cs

(* handleSendGlobal: when the socket takes it; else the row and the text   *)
(* are taken back at once and nothing has changed                          *)
HandleSendGlobal(c) ==
  /\ canSend /\ c \notin typed /\ \A d \in Messages : d < c => d \in typed
  /\ socket.state = "open"
  /\ typed' = typed \union {c}
  /\ Show(UpsertMessage(messages, Row(-c, c, "pending")))
  /\ Dispatched({c})
  /\ Leave({c}, socket.id)
  /\ UNCHANGED <<wire, history, visit, gaveUp, told>>

\* the retry of a failed row
RetryMessage(c) ==
  /\ pending[c] # "no" /\ canSend
  /\ \E i \in DOMAIN messages : messages[i].client = c /\ messages[i].status = "failed"
  /\ IF socket.state = "open"
       THEN /\ Dispatched({c}) /\ Leave({c}, socket.id)
            /\ Show(SetMessageDeliveryState(messages, {c}, "pending"))
       ELSE /\ pending' = [pending EXCEPT ![c] = "unsent"]
            /\ Show(SetMessageDeliveryState(messages, {c}, "failed"))
            /\ UNCHANGED <<timers, frame>>
  /\ UNCHANGED <<typed, wire, history, visit, gaveUp, told>>

\* armPendingTimer
PendingTimer(c) ==
  /\ c \in timers /\ timers' = timers \ {c}
  /\ pending[c] # "no" /\ pending' = [pending EXCEPT ![c] = "unsent"]
  /\ Show(SetMessageDeliveryState(messages, {c}, "failed"))
  /\ gaveUp' = gaveUp \union {c}
  /\ UNCHANGED <<typed, wire, frame, history, visit, told>>
-----------------------------------------------------------------------------
(* The gateway: it may read a frame after the browser lost the socket, and *)
(* broadcasts to whatever socket is then there                             *)
Tell(events) == inbox' = IF socket.state = "open" THEN inbox \o events ELSE inbox
Event(type, k) == [type |-> type, id |-> k]

Emit(k) ==
  /\ frame[k].pc = "sent"
  /\ frame' = [frame EXCEPT ![k].pc = "emitted"]
  /\ Tell(<<Event("new_message", k)>> \o
          (IF frame[k].socket = socket.id THEN <<Event("message_ack", k)>> ELSE <<>>))
  /\ UNCHANGED <<messages, outbound, typed, socket, canSend, page, gaveUp, told>>

Refuse(k) ==
  /\ frame[k].pc = "sent"
  /\ frame' = [frame EXCEPT ![k].pc = "refused"]
  /\ Tell(IF frame[k].socket = socket.id THEN <<Event("message_error", k)>> ELSE <<>>)
  /\ UNCHANGED <<messages, outbound, typed, socket, canSend, page, gaveUp, told>>

Persist(k) ==
  /\ frame[k].pc = "emitted"
  /\ frame' = [frame EXCEPT ![k].pc = "stored"]
  /\ UNCHANGED <<messages, outbound, typed, wire, page, gaveUp, told>>

\* somebody else writes, or the same user in another window
TypedElsewhere(c) ==
  /\ c \notin typed /\ \A d \in Messages : d < c => d \in typed
  /\ typed' = typed \union {c} /\ Leave({c}, None)
  /\ UNCHANGED <<messages, outbound, wire, page, gaveUp, told>>

Gateway == \E k \in Frames : Emit(k) \/ Refuse(k) \/ Persist(k)
-----------------------------------------------------------------------------
Delivered(c) == pending' = [pending EXCEPT ![c] = "no"] /\ timers' = timers \ {c}
\* mutant: an answer is taken without looking whether it is waited for
AwaitedAlways(c) == TRUE
Awaited(c) == pending[c] # "no"

\* onChatMessage and onMessageAck do the same with the rows
NewMessage(k) ==
  /\ Delivered(frame[k].client)
  /\ Show(ReplacePendingMessage(messages, frame[k].client, ServerRow(k)))
  /\ UNCHANGED told

MessageError(c) ==
  IF Awaited(c)
    THEN /\ pending' = [pending EXCEPT ![c] = "unsent"] /\ timers' = timers \ {c}
         /\ Show(SetMessageDeliveryState(messages, {c}, "failed"))
         /\ told' = told \union {c}
    ELSE UNCHANGED <<messages, cache, outbound, told>>

OnMessage ==
  /\ inbox # <<>> /\ inbox' = Tail(inbox) /\ socket.state = "open"
  /\ LET event == Head(inbox) IN
       IF event.type = "message_error" THEN MessageError(frame[event.id].client)
       ELSE NewMessage(event.id)
  /\ UNCHANGED <<typed, socket, canSend, frame, history, visit, gaveUp>>
-----------------------------------------------------------------------------
\* the socket is authenticated: what waits is sent
CanSend ==
  /\ ~canSend /\ canSend' = TRUE /\ socket.id < MaxSockets
  /\ socket' = [id |-> socket.id + 1, state |-> "open"] /\ inbox' = <<>>
  /\ Dispatched(Unsent) /\ Leave(Unsent, socket'.id)
  /\ Show(SetMessageDeliveryState(messages, Unsent, "pending"))
  /\ UNCHANGED <<typed, history, visit, gaveUp, told>>

SocketDies ==
  /\ socket.state = "open" /\ socket' = [socket EXCEPT !.state = "closing"] /\ inbox' = <<>>
  /\ UNCHANGED <<messages, outbound, typed, canSend, frame, page, gaveUp, told>>

OnClose ==
  /\ socket.state = "closing" /\ socket' = [socket EXCEPT !.state = "closed"]
  /\ canSend' = FALSE
  /\ UNCHANGED <<messages, outbound, typed, inbox, frame, page, gaveUp, told>>

\* fetchChatMessages: what is stored when the query runs
HistoryRead ==
  /\ history = "asked" /\ history' = "read"
  /\ cache' = cache /\ visit' = [visit EXCEPT !.answer = {k \in Frames : frame[k].pc = "stored"}]
  /\ UNCHANGED <<messages, outbound, typed, wire, frame, gaveUp, told>>

\* the answer takes the place of every row; a failure leaves them
LoadRoomHistory ==
  /\ history \in {"asked", "read"} /\ history' = "idle"
  /\ \/ /\ history = "read"
        /\ LET stored == visit.answer IN
             Show([i \in 1..Cardinality(stored) |->
                     Row(CHOOSE k \in stored : Cardinality({l \in stored : l <= k}) = i, None, "sent")])
     \/ UNCHANGED <<messages, cache>>
  /\ visit' = [visit EXCEPT !.answer = {}]
  /\ UNCHANGED <<outbound, typed, wire, frame, gaveUp, told>>

\* the page is left and loaded again: rows are what was remembered
Reload ==
  /\ visit.number < MaxVisits /\ visit' = [number |-> visit.number + 1, answer |-> {}]
  /\ messages' = Last(cache, CacheLimit) /\ history' = "asked"
  /\ pending' = [c \in Messages |-> "no"] /\ timers' = {}
  /\ socket' = [socket EXCEPT !.state = "closed"] /\ canSend' = FALSE /\ inbox' = <<>>
  /\ UNCHANGED <<typed, frame, cache, gaveUp, told>>

Init ==
  /\ messages = <<>> /\ cache = <<>>
  /\ pending = [c \in Messages |-> "no"] /\ timers = {} /\ typed = {}
  /\ socket = [id |-> 0, state |-> "closed"] /\ canSend = FALSE /\ inbox = <<>>
  /\ frame = [k \in Frames |-> [pc |-> "none", socket |-> None, client |-> None]]
  /\ history = "asked" /\ visit = [number |-> 1, answer |-> {}]
  /\ gaveUp = {} /\ told = {}

Next ==
  \/ \E c \in Messages : HandleSendGlobal(c) \/ RetryMessage(c) \/ PendingTimer(c) \/ TypedElsewhere(c)
  \/ Gateway \/ OnMessage
  \/ CanSend \/ SocketDies \/ OnClose
  \/ HistoryRead \/ LoadRoomHistory \/ Reload

\* timers fire; that is all a browser can count on
Fairness == \A c \in Messages : WF_vars(PendingTimer(c))
Spec == Init /\ [][Next]_vars /\ Fairness
-----------------------------------------------------------------------------
Events == [type : {"new_message", "message_ack", "message_error"}, id : Frames]

TypeOK ==
  /\ Len(messages) <= MaxRows /\ Len(cache) <= CacheLimit
  /\ \A rows \in {messages, cache} : \A i \in DOMAIN rows :
       /\ rows[i].id \in Frames \union {-c : c \in Messages}
       /\ rows[i].client \in Messages \union {None}
       /\ (rows[i].status = "sent") <=> (rows[i].id > 0)
  /\ pending \in [Messages -> {"no", "unsent", "sent"}] /\ timers \subseteq Messages
  /\ typed \subseteq Messages
  /\ socket \in [id : 0..MaxSockets, state : {"open", "closing", "closed"}] /\ canSend \in BOOLEAN
  /\ frame \in [Frames -> [pc : {"none", "sent", "emitted", "stored", "refused"},
                           socket : 0..MaxSockets, client : Messages \union {None}]]
  /\ \A i \in DOMAIN inbox : inbox[i] \in Events
  /\ history \in {"idle", "asked", "read"}
  /\ visit \in [number : 1..MaxVisits, answer : SUBSET Frames]
  /\ gaveUp \subseteq typed /\ told \subseteq typed

(* A message is on the screen once: history, broadcasts, acknowledgements  *)
(* and what was remembered never give it two rows, unless the page gave up *)
(* on it and sent it again.                                                *)
NoRowTwice ==
  \A i, j \in DOMAIN messages :
    messages[i].id = messages[j].id => i = j \/ frame[messages[i].id].client \in gaveUp

(* What this page says is being sent it also keeps watch on, so that it    *)
(* becomes sent or failed; and only what is sent and unanswered has one.   *)
PendingIsWatched ==
  /\ timers = {c \in Messages : pending[c] = "sent"}
  /\ \A i \in DOMAIN messages : messages[i].status = "pending" =>
       (messages[i].client \in timers \/ visit.number > 1)

(* A message is stored twice only if the page gave up on it in between,    *)
(* whatever sockets come and go.                                           *)
TwiceOnlyAfterTimeout ==
  \A k, l \in Frames :
    (k # l /\ frame[k].pc = "stored" /\ frame[l].pc = "stored" /\ frame[k].client = frame[l].client)
      => frame[k].client \in gaveUp

(* What was delivered is never shown as failed or as being sent again.     *)
KeepsSent ==
  \A i \in DOMAIN messages, j \in DOMAIN messages' :
    (messages[i].status = "sent" /\ messages[i].client # None /\ messages'[j].client = messages[i].client)
      => messages'[j].status = "sent"
SentStaysSent == [][KeepsSent]_messages

(* Whatever a user sends becomes sent or failed, and is shown so; only a   *)
(* row remembered from an earlier visit says "sending" with nobody waiting *)
(* for an answer.                                                          *)
Sending(c) == \E i \in DOMAIN messages : messages[i].status = "pending" /\ IsOf(messages[i], c)
FromEarlierVisit(c) == visit.number > 1 /\ pending[c] = "no"
EverySendSettles ==
  \A c \in Messages :
    /\ pending[c] = "sent" ~> pending[c] # "sent"
    /\ Sending(c) ~> (~Sending(c) \/ FromEarlierVisit(c))

(* What use-home-chat-controller.ts:766 says, "Message failed to send. Tap *)
(* retry.": there is a row to tap.                                         *)
RetryIsThere ==
  \A c \in told : pending[c] = "unsent" =>
    \E i \in DOMAIN messages : messages[i].client = c /\ messages[i].status = "failed"
=============================================================================
