----------------------------- MODULE ClientAuth ------------------------------
(***************************************************************************)
(* How a browser signs in and stays signed in: the wallet that Privy says  *)
(* is connected (PrivyAuthBridge), the backend session it is exchanged for *)
(* and that auth-client keeps in memory, and the WebSocket that is         *)
(* authenticated with its token (useWebSocket, useHomeChatController).     *)
(*                                                                         *)
(* An exchange is a flow of awaits; the wallet it was started for is in    *)
(* its closure and may no longer be the one that is connected when an      *)
(* answer comes.  React runs an effect after what it depends on changed;   *)
(* here an effect is a step that may be taken while it would do something. *)
(*                                                                         *)
(* Token candidates, their order and the delays between attempts are one   *)
(* number of attempts.  External: Privy, the wallet, the network, the      *)
(* backend (AuthSessions, ChatGateway).                                    *)
(***************************************************************************)
EXTENDS Integers, FiniteSets

CONSTANTS
  Wallets, NoWallet,
  MaxTokens,              \* bound: backend sessions issued
  MaxSockets,             \* bound: sockets opened
  MaxFlows,               \* bound: exchanges started
  MaxExchanges,           \* attempts of a flow (candidates x delays)
  MaxSwitches,            \* bound: changes of the wallet
  MaxTroubles             \* bound: garbled answers, and answers RATE_LIMITED

ClientAuthAssumption ==
  /\ NoWallet \notin Wallets
  /\ {MaxTokens, MaxSockets, MaxFlows, MaxExchanges} \subseteq Nat \ {0} /\ {MaxSwitches, MaxTroubles} \subseteq Nat

Tokens == 1..MaxTokens
Flows == 1..MaxFlows
None == 0

VARIABLES
  wallet,             \* what Privy says
  activeWallet, inFlight,                \* activeWalletRef, ensureInFlight
  backendAuthenticated, authState,
  authSession,        \* auth-client: a token, or None
  flow,               \* ensureBackendAuth: pc, wallet of the closure, attempts left
  issued,             \* the wallet of each token the backend gave
  dead,               \* tokens past their time, and tokens revoked
  socket,             \* socketInstanceId, isConnected, chatAuthed; history: the
                      \* tokens the gateway did not look at on it, RATE_LIMITED
  dispatched,         \* wsAuthDispatchedKeyRef: socket and token
  authenticating,     \* authenticate messages the gateway has not answered
  logout,             \* handleLogout
  switches, troubles,
  outlived,           \* history: an exchange succeeded for a wallet that was gone
  saidExpired         \* history: "Session expired. Please sign in again." shown

privy == <<activeWallet, inFlight, backendAuthenticated, authState>>
server == <<issued, dead>>
web == <<socket, dispatched, authenticating>>
vars == <<wallet, privy, authSession, flow, server, web, logout, switches, troubles, outlived, saidExpired>>

WalletOf(t) == IF t = None THEN NoWallet ELSE issued[t]
States == {"idle", "wallet_connected", "privy_verified", "backend_authenticated",
           "socket_authenticated", "failed"}

\* getCachedAccessToken(expectedWallet): the token, and what it leaves cached
Cached(w) == IF WalletOf(authSession) = w /\ authSession \notin dead.expired THEN authSession ELSE None
Kept(w) == IF WalletOf(authSession) = w THEN authSession ELSE None

NoFlow == [pc |-> "none", wallet |-> NoWallet, left |-> 0]
-----------------------------------------------------------------------------
\* mutant: the flag of the backend session is not reset
ResetFlagKept == backendAuthenticated
ResetFlag == FALSE

ResetLocalAuth ==
  /\ authSession' = None
  /\ backendAuthenticated' = ResetFlag
  /\ inFlight' = None /\ activeWallet' = NoWallet /\ authState' = "idle"

\* with a wallet; `force' also after a failure
EnsureBackendAuth(force) ==
  /\ wallet # NoWallet
  /\ authSession' = Kept(wallet)
  /\ \/ /\ Cached(wallet) # None
        /\ backendAuthenticated' = TRUE /\ authState' = "backend_authenticated"
        /\ UNCHANGED <<inFlight, flow>>
     \/ /\ Cached(wallet) = None /\ (authState # "failed" \/ force) /\ inFlight = None
        /\ \E f \in Flows :
             /\ flow[f] = NoFlow /\ \A g \in Flows : g < f => flow[g] # NoFlow
             /\ flow' = [flow EXCEPT ![f] = [pc |-> "tokens", wallet |-> wallet, left |-> MaxExchanges]]
             /\ inFlight' = f
        /\ authState' = "wallet_connected" /\ UNCHANGED backendAuthenticated
     \/ /\ Cached(wallet) = None /\ ((authState = "failed" /\ ~force) \/ inFlight # None)
        /\ UNCHANGED <<inFlight, flow, backendAuthenticated, authState>>
  /\ UNCHANGED <<activeWallet, issued, dead>>

(* The flow: Privy's tokens, then attempts to exchange them.  Every end    *)
(* takes `ensureInFlight' with it, whosever it is by then.                 *)
\* mutant: `finally' is forgotten
EndsInFlight(f, how) == flow' = [flow EXCEPT ![f].pc = how] /\ UNCHANGED inFlight
Ends(f, how) == flow' = [flow EXCEPT ![f].pc = how] /\ inFlight' = None
Failed(f) ==
  /\ Ends(f, "done") /\ authSession' = None
  /\ backendAuthenticated' = FALSE /\ authState' = "failed"

CollectTokens(f) ==
  /\ flow[f].pc = "tokens"
  /\ \/ Failed(f)                                  \* Privy has none
     \/ /\ flow' = [flow EXCEPT ![f].pc = "exchange"]
        /\ authState' = "privy_verified"
        /\ UNCHANGED <<authSession, inFlight, backendAuthenticated>>
  /\ UNCHANGED <<activeWallet, issued, dead, troubles, outlived>>

\* exchangePrivyTokenForBackendSession, answered; its wallet is the closure's
Exchanged(f) ==
  /\ flow[f].pc = "exchange"
  /\ \E t \in Tokens :
       /\ issued[t] = NoWallet /\ \A u \in Tokens : u < t => issued[u] # NoWallet
       /\ issued' = [issued EXCEPT ![t] = flow[f].wallet]
       /\ authSession' = t
  /\ backendAuthenticated' = TRUE /\ authState' = "backend_authenticated"
  /\ outlived' = (outlived \/ flow[f].wallet # wallet)
  /\ Ends(f, "done")
  /\ UNCHANGED <<activeWallet, dead, troubles>>

\* refused, no answer, or not the wallet asked for
ExchangeFails(f) ==
  /\ flow[f].pc = "exchange"
  /\ IF flow[f].left > 1
       THEN /\ flow' = [flow EXCEPT ![f].left = @ - 1]
            /\ authSession' = None
            /\ authState' \in {authState, "privy_verified"}      \* the same candidate, or the next
            /\ UNCHANGED <<inFlight, backendAuthenticated>>
       ELSE Failed(f)
  /\ UNCHANGED <<activeWallet, issued, dead, troubles, outlived>>

\* an answer that is not JSON: the exception leaves the flow
ExchangeThrows(f) ==
  /\ flow[f].pc = "exchange" /\ troubles < MaxTroubles /\ troubles' = troubles + 1
  /\ Ends(f, "thrown")
  /\ UNCHANGED <<activeWallet, authSession, backendAuthenticated, authState, issued, dead, outlived>>

Flow(f) ==
  /\ CollectTokens(f) \/ Exchanged(f) \/ ExchangeFails(f) \/ ExchangeThrows(f)
  /\ UNCHANGED <<wallet, web, logout, switches, saidExpired>>
-----------------------------------------------------------------------------
(* The effect of PrivyAuthBridge *)
WalletGone ==
  /\ wallet = NoWallet /\ (activeWallet # NoWallet \/ authState # "idle")
  /\ ResetLocalAuth
  /\ UNCHANGED <<flow, server>>

\* mutant: the session of the wallet before stays
NewWalletKeeps ==
  /\ wallet # NoWallet /\ activeWallet # wallet
  /\ activeWallet' = wallet /\ inFlight' = None
  /\ backendAuthenticated' = FALSE /\ authState' = "wallet_connected"
  /\ UNCHANGED <<flow, server, authSession>>
NewWallet ==
  /\ wallet # NoWallet /\ activeWallet # wallet
  /\ activeWallet' = wallet /\ inFlight' = None
  /\ authSession' = None /\ backendAuthenticated' = FALSE
  /\ authState' = "wallet_connected"
  /\ UNCHANGED <<flow, server>>

\* mutant: the sign-in is looked for before the wallet is noted
WalletConnectedFirst ==
  /\ activeWallet = NoWallet /\ authState = "wallet_connected"
  /\ EnsureBackendAuth(FALSE)
WalletConnected ==
  /\ activeWallet = wallet /\ authState = "wallet_connected"
  /\ EnsureBackendAuth(FALSE)

\* the first effect of the chat: the socket waits for a token
ChatNeedsToken ==
  /\ socket.isConnected /\ ~socket.chatAuthed /\ authState # "failed"
  /\ ~(backendAuthenticated /\ Cached(wallet) # None)
  /\ EnsureBackendAuth(FALSE)

Effect ==
  /\ WalletGone \/ NewWallet \/ WalletConnected \/ ChatNeedsToken
  /\ UNCHANGED <<wallet, web, logout, switches, troubles, outlived, saidExpired>>

\* what the composer asks the user to do
ComposerGateState ==
  IF socket.isConnected /\ socket.chatAuthed THEN "READY"
  ELSE IF wallet = NoWallet THEN "CONNECT_WALLET"
  ELSE IF ~backendAuthenticated \/ authState = "failed" THEN "SIGNING_IN"
  ELSE "CONNECTING_SOCKET"

\* handleDisabledInputAction
SignIn ==
  /\ ComposerGateState = "SIGNING_IN"
  /\ EnsureBackendAuth(TRUE)
  /\ UNCHANGED <<wallet, web, logout, switches, troubles, outlived, saidExpired>>
-----------------------------------------------------------------------------
SetSocketAuthenticated(yes) ==
  authState' = IF wallet # NoWallet /\ yes THEN "socket_authenticated"
               ELSE IF wallet # NoWallet /\ backendAuthenticated THEN "backend_authenticated"
               ELSE authState

\* mutant: tokens sent on an earlier socket are remembered without it
DispatchKeyToken(t) == <<0, t>>
DispatchKey(t) == <<socket.id, t>>

\* the second effect of the chat
Authenticate ==
  /\ socket.isConnected /\ wallet # NoWallet /\ ~socket.chatAuthed /\ authState # "failed"
  /\ backendAuthenticated
  /\ authSession' = Kept(wallet)
  /\ LET t == Cached(wallet) IN
       /\ t # None /\ dispatched # DispatchKey(t)
       /\ dispatched' = DispatchKey(t)
       /\ authenticating' = authenticating \union {t}
  /\ UNCHANGED <<wallet, privy, flow, server, socket, logout, switches, troubles, outlived, saidExpired>>

\* the gateway answers; only what comes on the current socket is heard
Authenticated(t) ==
  /\ t \in authenticating /\ t \notin dead.revoked
  /\ authenticating' = authenticating \ {t}
  /\ socket' = [socket EXCEPT !.chatAuthed = TRUE]
  /\ SetSocketAuthenticated(TRUE)
  /\ UNCHANGED <<saidExpired, troubles, server>>

AuthError(t) ==
  /\ t \in authenticating
  /\ authenticating' = authenticating \ {t}
  /\ \/ /\ troubles < MaxTroubles /\ troubles' = troubles + 1           \* RATE_LIMITED
        /\ socket' = [socket EXCEPT !.limited = @ \union {t}]
        /\ UNCHANGED <<authState, saidExpired>>
     \/ /\ t \in dead.revoked \union dead.expired
        /\ socket' = [socket EXCEPT !.chatAuthed = FALSE]
        /\ SetSocketAuthenticated(FALSE) /\ saidExpired' = TRUE /\ UNCHANGED troubles
  /\ UNCHANGED server

\* the check after a message: SESSION_REVOKED
SessionRevoked ==
  /\ socket.chatAuthed
  /\ \E t \in dead.revoked : WalletOf(t) # NoWallet
  /\ socket' = [socket EXCEPT !.chatAuthed = FALSE]
  /\ SetSocketAuthenticated(FALSE) /\ saidExpired' = TRUE
  /\ UNCHANGED <<authenticating, troubles, server>>

Hear ==
  /\ socket.isConnected
  /\ (\E t \in Tokens : Authenticated(t) \/ AuthError(t)) \/ SessionRevoked
  /\ UNCHANGED <<wallet, activeWallet, inFlight, backendAuthenticated, authSession, flow,
                 dispatched, logout, switches, outlived>>

SocketOpens ==
  /\ ~socket.isConnected /\ socket.id < MaxSockets
  /\ socket' = [id |-> socket.id + 1, isConnected |-> TRUE, chatAuthed |-> FALSE,
                 limited |-> {}]
  /\ saidExpired' = FALSE
  /\ UNCHANGED <<authState, authenticating>>

\* a timer opens the next
SocketCloses ==
  /\ socket.isConnected
  /\ socket' = [socket EXCEPT !.isConnected = FALSE, !.chatAuthed = FALSE]
  /\ SetSocketAuthenticated(FALSE) /\ authenticating' = {}
  /\ UNCHANGED saidExpired

Reconnect ==
  /\ SocketOpens \/ SocketCloses
  /\ UNCHANGED <<wallet, activeWallet, inFlight, backendAuthenticated, authSession, flow,
                 server, dispatched, logout, switches, troubles, outlived>>
-----------------------------------------------------------------------------
(* handleLogout: the backend first, then what is local, then Privy *)
LogoutStarts ==
  /\ logout = "no" /\ wallet # NoWallet /\ logout' = "backend"
  /\ UNCHANGED <<wallet, privy, authSession, dead>>

LogoutBackend ==
  /\ logout = "backend" /\ logout' = "privy"
  /\ \/ dead' = [dead EXCEPT !.revoked = @ \union ({authSession} \ {None})]
     \/ UNCHANGED dead                              \* best effort
  /\ ResetLocalAuth /\ UNCHANGED wallet

LogoutPrivy ==
  /\ logout = "privy" /\ logout' = "no"
  /\ wallet' \in {NoWallet, wallet}                 \* best effort
  /\ UNCHANGED <<privy, authSession, dead>>

Logout ==
  /\ LogoutStarts \/ LogoutBackend \/ LogoutPrivy
  /\ UNCHANGED <<flow, issued, web, switches, troubles, outlived, saidExpired>>

\* the user connects, changes or disconnects the wallet; React has run the
\* effects of one change before the next
SwitchWallet ==
  /\ activeWallet = wallet
  /\ switches < MaxSwitches /\ switches' = switches + 1
  /\ wallet' \in (Wallets \union {NoWallet}) \ {wallet}
  /\ UNCHANGED <<privy, authSession, flow, server, web, logout, troubles, outlived, saidExpired>>

\* time passes for a token, or its session is revoked elsewhere
TokenDies ==
  /\ \E t \in Tokens :
       /\ issued[t] # NoWallet
       /\ \/ dead' = [dead EXCEPT !.expired = @ \union {t}]
          \/ dead' = [dead EXCEPT !.revoked = @ \union {t}]
  /\ UNCHANGED <<wallet, privy, authSession, flow, issued, web, logout, switches, troubles, outlived, saidExpired>>

Init ==
  /\ wallet \in Wallets \union {NoWallet}
  /\ activeWallet = NoWallet /\ inFlight = None
  /\ backendAuthenticated = FALSE /\ authState = "idle"
  /\ authSession = None
  /\ flow = [f \in Flows |-> NoFlow]
  /\ issued = [t \in Tokens |-> NoWallet] /\ dead = [expired |-> {}, revoked |-> {}]
  /\ socket = [id |-> 0, isConnected |-> FALSE, chatAuthed |-> FALSE, limited |-> {}]
  /\ dispatched = <<0, None>> /\ authenticating = {}
  /\ logout = "no" /\ switches = 0 /\ troubles = 0 /\ outlived = FALSE /\ saidExpired = FALSE

Next ==
  \/ \E f \in Flows : Flow(f)
  \/ Effect \/ SignIn \/ Authenticate \/ Hear \/ Reconnect
  \/ Logout \/ SwitchWallet \/ TokenDies

(* React runs effects; Privy and the backend answer, as the delays and     *)
(* timeouts of fetch have it; the gateway answers; the timer reconnects    *)
Fairness ==
  /\ WF_vars(Effect) /\ WF_vars(Authenticate) /\ WF_vars(Hear)
  /\ \A f \in Flows : WF_vars(Flow(f))
Spec == Init /\ [][Next]_vars /\ Fairness
-----------------------------------------------------------------------------
MaybeWallet == Wallets \union {NoWallet}

TypeOK ==
  /\ {wallet, activeWallet} \subseteq MaybeWallet
  /\ inFlight \in Flows \union {None} /\ backendAuthenticated \in BOOLEAN /\ authState \in States
  /\ authSession \in Tokens \union {None}
  /\ flow \in [Flows -> [pc : {"none", "tokens", "exchange", "done", "thrown"}, wallet : MaybeWallet,
                         left : 0..MaxExchanges]]
  /\ issued \in [Tokens -> MaybeWallet] /\ dead \in [{"expired", "revoked"} -> SUBSET Tokens]
  /\ authSession # None => issued[authSession] # NoWallet
  /\ inFlight # None => flow[inFlight].pc \in {"tokens", "exchange"}
  /\ socket \in [id : 0..MaxSockets, isConnected : BOOLEAN, chatAuthed : BOOLEAN,
                  limited : SUBSET Tokens]
  /\ dispatched \in (0..MaxSockets) \X (Tokens \union {None}) /\ authenticating \subseteq Tokens
  /\ logout \in {"no", "backend", "privy"} /\ switches \in 0..MaxSwitches /\ troubles \in 0..MaxTroubles

(* Who signed out, or took his wallet away, is left with no session,       *)
(* whatever exchange was under way meanwhile.                              *)
SignedOutHoldsNothing ==
  (wallet = NoWallet /\ activeWallet = NoWallet /\ authState = "idle") =>
    authSession = None /\ ~backendAuthenticated

(* Once the new wallet was noticed, the old one's session is not used,     *)
(* unless an exchange for the old one succeeded after that.                *)
SessionFollowsWallet ==
  (activeWallet = wallet /\ wallet # NoWallet /\ ~outlived) => WalletOf(authSession) \in {wallet, NoWallet}

(* A sign-in comes to an end: the browser does not stay between connected  *)
(* and signed in, however wallets change and exchanges overlap.  Only an   *)
(* answer that is not JSON leaves it there, and the end of the bound.      *)
OutOfFlows ==
  /\ authState = "wallet_connected" /\ inFlight = None /\ Cached(wallet) = None
  /\ \A f \in Flows : flow[f] # NoFlow
SignedInOrNot ==
  \/ authState \in {"backend_authenticated", "socket_authenticated", "failed", "idle"}
  \/ inFlight = None /\ \E f \in Flows : flow[f].pc = "thrown"
  \/ OutOfFlows
SignInSettles == authState = "wallet_connected" ~> SignedInOrNot

(* A browser that is signed in gets into the chat, and again after every   *)
(* reconnect, or its user is told to sign in again.  The token that the    *)
(* gateway answered with RATE_LIMITED is not sent again on that socket, so *)
(* with it the user stays out until the socket or the token changes.       *)
MayChat == socket.isConnected /\ wallet # NoWallet /\ backendAuthenticated /\ Cached(wallet) # None
InTheChat ==
  \/ socket.chatAuthed \/ ~socket.isConnected \/ Cached(wallet) = None \/ saidExpired
  \/ Cached(wallet) \in socket.limited
ChatGetsIn == MayChat ~> InTheChat

(* What auth-client.ts:250 checks (WALLET_MISMATCH): the session is of the *)
(* wallet that is connected.                                               *)
SessionIsOfTheWallet ==
  (activeWallet = wallet /\ wallet # NoWallet) => WalletOf(authSession) \in {wallet, NoWallet}

(* What use-websocket.ts:377 says, "Session expired. Please sign in        *)
(* again.": who is told so can do so, or is let in again.                  *)
CanSignInAgain ==
  saidExpired ~> (ComposerGateState # "CONNECTING_SOCKET" \/ ~socket.isConnected)
=============================================================================
