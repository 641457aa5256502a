--------------------------- MODULE RealtimeSocket ---------------------------
(***************************************************************************)
(* The connection under the chat and the live board: connecting,           *)
(* reconnecting and unmounting in the page (useWebSocket), the registry of *)
(* clients and its heartbeat in the gateway (WebSocketService).  A socket  *)
(* that was replaced or closed still has events to come, a link may die    *)
(* without either side being told, and a pong may come too late.           *)
(* What is said over the connection is in ChatGateway, ChatClient and      *)
(* ClientAuth; delays are any.                                             *)
(***************************************************************************)
EXTENDS Integers, FiniteSets, SequencesExt

CONSTANT MaxTroubles    \* bound: losses, refusals, late pongs and unmounts

RealtimeSocketAssumption == MaxTroubles \in Nat

Sockets == 1..(MaxTroubles + 1)
None == 0

VARIABLES
  mounted, shouldReconnect,
  wsRef, lastSocket,            \* lastSocket: wsInstanceCounter
  reconnectTimer, outageActive,
  isConnected, chatAuthed, authAttempted,
  ready,                        \* readyState of a socket
  events,                       \* of a socket, that its handlers have still to see
  clients,                      \* the gateway's registry: alive and authenticated, by socket
  pinged,                       \* pings that were not answered yet
  broken,                       \* links that died
  troubles

page == <<mounted, shouldReconnect, wsRef, lastSocket, reconnectTimer, outageActive,
          isConnected, chatAuthed, authAttempted>>
network == <<ready, events, broken>>
gateway == <<clients, pinged>>
vars == <<page, network, gateway, troubles>>

Trouble == troubles < MaxTroubles /\ troubles' = troubles + 1
Registered(s) == clients[s] # {}
Unregistered == {}
Add(s, event) == [events EXCEPT ![s] = Append(@, event)]
-----------------------------------------------------------------------------
(* The page. *)
Connect ==
  LET s == lastSocket + 1
  IN /\ reconnectTimer' = FALSE
     /\ lastSocket' = s /\ wsRef' = s
     /\ isConnected' = FALSE /\ chatAuthed' = FALSE /\ authAttempted' = FALSE
     /\ ready' = [q \in Sockets |-> IF q = s THEN "connecting"
                                    ELSE IF q = wsRef THEN "closed" ELSE ready[q]]
     /\ UNCHANGED <<events, broken, gateway>>

Mount ==
  /\ ~mounted /\ mounted' = TRUE /\ shouldReconnect' = TRUE
  /\ Connect
  /\ UNCHANGED <<outageActive, troubles>>

\* mutant: the timer goes on
UnmountTimer == reconnectTimer
UnmountClears == FALSE

Unmount ==
  /\ mounted /\ Trouble
  /\ mounted' = FALSE /\ shouldReconnect' = FALSE
  /\ reconnectTimer' = UnmountClears /\ authAttempted' = FALSE /\ wsRef' = None
  /\ ready' = [s \in Sockets |-> IF s = wsRef THEN "closed" ELSE ready[s]]
  /\ UNCHANGED <<lastSocket, outageActive, isConnected, chatAuthed, events, broken, gateway>>

TimerFires ==
  /\ reconnectTimer /\ Connect
  /\ UNCHANGED <<mounted, shouldReconnect, outageActive, troubles>>

\* mutant: events of any socket
AnySocket(s) == TRUE
IsCurrentSocket(s) == wsRef = s

Handled(s) == events' = [events EXCEPT ![s] = Tail(@)]
Sees(s, event) == events[s] # <<>> /\ Head(events[s]) = event

OnOpen(s) ==
  /\ Sees(s, "open") /\ Handled(s)
  /\ IF IsCurrentSocket(s)
     THEN isConnected' = TRUE /\ authAttempted' = FALSE /\ outageActive' = FALSE
     ELSE UNCHANGED <<isConnected, authAttempted, outageActive>>
  /\ UNCHANGED <<mounted, shouldReconnect, wsRef, lastSocket, reconnectTimer, chatAuthed,
                 ready, broken, gateway, troubles>>

\* mutant: only the first loss starts the timer
OnlyFirstLoss == shouldReconnect /\ ~outageActive
Reconnects == shouldReconnect

OnClose(s) ==
  /\ Sees(s, "close") /\ Handled(s)
  /\ IF IsCurrentSocket(s)
     THEN /\ wsRef' = None /\ isConnected' = FALSE /\ chatAuthed' = FALSE /\ authAttempted' = FALSE
          /\ reconnectTimer' = (reconnectTimer \/ Reconnects)
          /\ outageActive' = (outageActive \/ shouldReconnect)
     ELSE UNCHANGED <<wsRef, isConnected, chatAuthed, authAttempted, reconnectTimer, outageActive>>
  /\ UNCHANGED <<mounted, shouldReconnect, lastSocket, ready, broken, gateway, troubles>>

OnAuthenticated(s) ==
  /\ Sees(s, "authenticated") /\ Handled(s)
  /\ chatAuthed' = (chatAuthed \/ IsCurrentSocket(s))
  /\ UNCHANGED <<mounted, shouldReconnect, wsRef, lastSocket, reconnectTimer, outageActive,
                 isConnected, authAttempted, ready, broken, gateway, troubles>>

AuthenticateWithToken ==
  /\ wsRef # None /\ ready[wsRef] = "open" /\ ~authAttempted
  /\ authAttempted' = TRUE
  /\ IF Registered(wsRef) /\ wsRef \notin broken
     THEN /\ clients' = [clients EXCEPT ![wsRef] = {[c EXCEPT !.authenticated = TRUE] : c \in @}]
          /\ events' = Add(wsRef, "authenticated")
     ELSE UNCHANGED <<clients, events>>
  /\ UNCHANGED <<mounted, shouldReconnect, wsRef, lastSocket, reconnectTimer, outageActive,
                 isConnected, chatAuthed, ready, broken, pinged, troubles>>
-----------------------------------------------------------------------------
(* The gateway and the network between. *)
\* mutant: a client is not alive before its first pong
NewClientUnheard == {[alive |-> FALSE, authenticated |-> FALSE]}
NewClient == {[alive |-> TRUE, authenticated |-> FALSE]}

Connection(s) ==
  /\ ready[s] = "connecting"
  /\ clients' = [clients EXCEPT ![s] = NewClient]
  /\ ready' = [ready EXCEPT ![s] = "open"] /\ events' = Add(s, "open")
  /\ UNCHANGED <<page, broken, pinged, troubles>>

\* onerror closes the socket
Refused(s) ==
  /\ ready[s] = "connecting" /\ Trouble
  /\ ready' = [ready EXCEPT ![s] = "closed"] /\ events' = Add(s, "close")
  /\ UNCHANGED <<page, broken, gateway>>

Break(s) ==
  /\ ready[s] = "open" /\ s \notin broken /\ Trouble
  /\ broken' = broken \union {s}
  /\ UNCHANGED <<page, ready, events, gateway>>

\* what the browser makes of a link that died
Notice(s) ==
  /\ ready[s] = "open" /\ s \in broken
  /\ ready' = [ready EXCEPT ![s] = "closed"] /\ events' = Add(s, "close")
  /\ UNCHANGED <<page, broken, gateway, troubles>>

\* mutant: the registry keeps who was terminated
KeptClients(dead) == clients
Remaining(dead) == [s \in Sockets |-> IF s \in dead THEN Unregistered ELSE clients[s]]

\* mutant: no "continue" after a client was terminated
PingedAll(dead) == {s \in Sockets : Registered(s)}
Pinged(dead) == {s \in Sockets : Registered(s)} \ dead
Silent == {s \in Sockets : Registered(s) /\ \A c \in clients[s] : ~c.alive}
Heartbeat ==
  /\ \E s \in Sockets : Registered(s)
  /\ clients' = [s \in Sockets |-> {[c EXCEPT !.alive = FALSE] : c \in Remaining(Silent)[s]}]
  /\ pinged' = Pinged(Silent)
  /\ ready' = [s \in Sockets |-> IF s \in Silent \ broken /\ ready[s] = "open" THEN "closed" ELSE ready[s]]
  /\ events' = [s \in Sockets |-> IF s \in Silent \ broken /\ ready[s] = "open"
                                  THEN Append(events[s], "close") ELSE events[s]]
  \* a beat that comes before a pong on its way
  /\ IF \E s \in Silent : s \notin broken /\ ready[s] = "open" THEN Trouble ELSE UNCHANGED troubles
  /\ UNCHANGED <<page, broken>>

Pong(s) ==
  /\ s \in pinged /\ s \notin broken /\ ready[s] = "open"
  /\ pinged' = pinged \ {s}
  /\ clients' = [clients EXCEPT ![s] = {[c EXCEPT !.alive = TRUE] : c \in @}]
  /\ UNCHANGED <<page, network, troubles>>

\* the gateway sees that the page closed the socket
ClientClose(s) ==
  /\ Registered(s) /\ ready[s] = "closed" /\ s \notin broken
  /\ clients' = [clients EXCEPT ![s] = Unregistered] /\ pinged' = pinged \ {s}
  /\ UNCHANGED <<page, network, troubles>>
-----------------------------------------------------------------------------
Init ==
  /\ mounted = FALSE /\ shouldReconnect = TRUE /\ wsRef = None /\ lastSocket = 0
  /\ reconnectTimer = FALSE /\ outageActive = FALSE
  /\ isConnected = FALSE /\ chatAuthed = FALSE /\ authAttempted = FALSE
  /\ ready = [s \in Sockets |-> "none"] /\ events = [s \in Sockets |-> <<>>]
  /\ clients = [s \in Sockets |-> Unregistered] /\ pinged = {} /\ broken = {} /\ troubles = 0

Handlers(s) == OnOpen(s) \/ OnClose(s) \/ OnAuthenticated(s)
Next ==
  \/ Mount \/ Unmount \/ TimerFires \/ AuthenticateWithToken \/ Heartbeat
  \/ \E s \in Sockets :
       \/ Handlers(s) \/ Connection(s) \/ Refused(s) \/ Break(s) \/ Notice(s)
       \/ Pong(s) \/ ClientClose(s)

(* Timers fire, events are dispatched, a connection that is tried is made   *)
(* or refused, the gateway's interval goes on, browsers answer pings.       *)
(* Nothing makes the browser notice a link that died.                       *)
Fairness ==
  /\ WF_vars(TimerFires) /\ WF_vars(AuthenticateWithToken) /\ WF_vars(Heartbeat)
  /\ \A s \in Sockets :
       /\ WF_vars(Handlers(s)) /\ WF_vars(Connection(s) \/ Refused(s))
       /\ WF_vars(ClientClose(s)) /\ WF_vars(Pong(s))
Spec == Init /\ [][Next]_vars /\ Fairness
-----------------------------------------------------------------------------
Live(s) == ready[s] \in {"connecting", "open"}
TypeOK ==
  /\ {mounted, shouldReconnect, reconnectTimer, outageActive, isConnected, chatAuthed,
      authAttempted} \subseteq BOOLEAN
  /\ wsRef \in Sockets \union {None} /\ lastSocket \in Sockets \union {None}
  /\ \A s \in Sockets :
       /\ ready[s] \in {"none", "connecting", "open", "closed"}
       /\ (ready[s] = "none") <=> (s > lastSocket)
       /\ Registered(s) => clients[s] \subseteq [alive : BOOLEAN, authenticated : BOOLEAN]
       /\ Cardinality(clients[s]) <= 1
  /\ pinged \subseteq {s \in Sockets : Registered(s)} /\ broken \subseteq Sockets

\* Never two connections of one page, and none of a page that is gone, however mounts,
\* timers and losses fall.
OneLiveSocket ==
  /\ \A s \in Sockets : Live(s) => mounted /\ s = wsRef
  /\ reconnectTimer => mounted /\ wsRef = None

\* A page that says it is connected has an open socket, or is about to hear that it was
\* closed; one that may send was let in over that socket and no earlier one.
ConnectedIsTrue ==
  mounted =>
    /\ isConnected => wsRef # None /\ (ready[wsRef] = "open" \/ Contains(events[wsRef], "close"))
    /\ chatAuthed => isConnected /\ (Registered(wsRef) => \A c \in clients[wsRef] : c.authenticated)

\* The heartbeat ends only connections that left a ping unanswered.
EndsUnanswered ==
  \A s \in Sockets : (Registered(s) /\ ~Registered(s)' /\ ready[s] = "open") => s \in pinged
EndedUnanswered == [][EndsUnanswered]_vars

\* A page that stays is connected again in the end; but not over a link that died and
\* nobody told it of, since only the gateway has a heartbeat.
Back == isConnected \/ (wsRef # None /\ wsRef \in broken)
ComesBack == <>[]mounted => <>[]Back

\* The gateway forgets every client that is gone.
Gone(s) == Registered(s) /\ (s \in broken \/ ~Live(s))
GoneAreForgotten == \A s \in Sockets : Gone(s) ~> ~Registered(s)
=============================================================================
