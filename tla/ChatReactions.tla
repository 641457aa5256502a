---------------------------- MODULE ChatReactions ----------------------------
(***************************************************************************)
(* A reaction under a message, from the click to the other screens.  The   *)
(* client flips its own reaction at once and asks the gateway to toggle    *)
(* it; ChatService.toggleReaction deletes the row, or creates it when      *)
(* there was none, reads who reacts and the gateway tells the room; every  *)
(* client shows what it was told last.  The handlers of several clicks run *)
(* concurrently, those of one socket too.                                  *)
(*                                                                         *)
(* One message, which is there, and one emoji.  What the gateway sends is  *)
(* received in order and at once.  External: the clicks, the database, the *)
(* network.                                                                *)
(***************************************************************************)
EXTENDS Integers, FiniteSets

CONSTANTS
  Wallets, Sockets, Instances,
  WalletOf, InstanceOf,   \* of a socket
  Calls,                  \* clicks
  MaxFailures             \* bound: calls that fail

ReactionsAssumption ==
  /\ WalletOf \in [Sockets -> Wallets] /\ InstanceOf \in [Sockets -> Instances]
  /\ IsFiniteSet(Calls) /\ MaxFailures \in Nat

VARIABLES
  chatReaction,       \* rows: wallets that react
  view,               \* reactors each client shows
  call,               \* pc, socket, reactors read
  failures,
  told,               \* history: clients whose last news is the last there was
  overlaps            \* history: pairs of calls that ran at the same time

vars == <<chatReaction, view, call, failures, told, overlaps>>

NoCall == [pc |-> "idle", socket |-> {}, reactors |-> {}]
Of(r) == CHOOSE s \in call[r].socket : TRUE
Reactor(r) == WalletOf[Of(r)]
Open(r) == call[r].pc \notin {"idle", "done"}
GoTo(r, p) == call' = [call EXCEPT ![r].pc = p]
Flip(set, w) == (set \ {w}) \union ({w} \ set)

\* handleToggleReaction; a frame that cannot be sent is forgotten
ToggleReaction(r, s) ==
  /\ call[r] = NoCall
  /\ view' = [view EXCEPT ![s] = Flip(@, WalletOf[s])]
  /\ \/ /\ call' = [call EXCEPT ![r] = [NoCall EXCEPT !.pc = "delete", !.socket = {s}]]
        /\ overlaps' = overlaps \union {{q, r} : q \in {q \in Calls : Open(q)}}
        /\ UNCHANGED failures
     \/ /\ failures < MaxFailures /\ failures' = failures + 1
        /\ call' = [call EXCEPT ![r] = [NoCall EXCEPT !.pc = "done", !.socket = {s}]]
        /\ UNCHANGED overlaps
  /\ UNCHANGED <<chatReaction, told>>

DeleteReaction(r) ==
  /\ call[r].pc \in {"delete", "deleteAgain"}
  /\ chatReaction' = chatReaction \ {Reactor(r)}
  /\ GoTo(r, IF Reactor(r) \in chatReaction \/ call[r].pc = "deleteAgain" THEN "read" ELSE "create")
  /\ UNCHANGED <<view, failures, told, overlaps>>

\* mutants: that it exists already is taken for success; the call stops there
WhenItExistsRead == "read"
WhenItExistsStop == "removed"
\* another call of the wallet created it meanwhile: this one removes it
WhenItExists == "deleteAgain"

CreateReaction(r) ==
  /\ call[r].pc = "create"
  /\ chatReaction' = chatReaction \union {Reactor(r)}
  /\ GoTo(r, IF Reactor(r) \in chatReaction THEN WhenItExists ELSE "read")
  /\ UNCHANGED <<view, failures, told, overlaps>>

ReadReactions(r) ==
  /\ call[r].pc = "read"
  /\ call' = [call EXCEPT ![r].pc = "broadcast", ![r].reactors = chatReaction]
  /\ UNCHANGED <<chatReaction, view, failures, told, overlaps>>

\* mutants: the news is added to what is shown; an empty list is skipped
UpdatedAdds(s, reactors) == view[s] \union reactors
UpdatedUnlessEmpty(s, reactors) == IF reactors = {} THEN view[s] ELSE reactors
\* onReactionUpdate
Updated(s, reactors) == reactors

\* broadcastToRoom: the sockets of this instance
Broadcast(r) ==
  /\ call[r].pc = "broadcast"
  /\ LET room == {s \in Sockets : InstanceOf[s] = InstanceOf[Of(r)]} IN
     /\ view' = [s \in Sockets |-> IF s \in room THEN Updated(s, call[r].reactors) ELSE view[s]]
     /\ told' = room
  /\ call' = [call EXCEPT ![r].pc = "done", ![r].reactors = {}]
  /\ UNCHANGED <<chatReaction, failures, overlaps>>

\* REACTION_FAILED goes to the client, which does not listen to it
Fail(r) ==
  /\ Open(r) /\ call[r].pc # "broadcast"
  /\ failures < MaxFailures /\ failures' = failures + 1
  /\ GoTo(r, "done")
  /\ UNCHANGED <<chatReaction, view, told, overlaps>>

\* the page is loaded again: the history has the reactions
LoadHistory(s) ==
  /\ view' = [view EXCEPT ![s] = chatReaction]
  /\ UNCHANGED <<chatReaction, call, failures, told, overlaps>>

Init ==
  /\ chatReaction = {} /\ failures = 0
  /\ view = [s \in Sockets |-> {}]
  /\ call = [r \in Calls |-> NoCall]
  /\ told = Sockets
  /\ overlaps = {}

Next ==
  \/ \E r \in Calls :
       \/ \E s \in Sockets : ToggleReaction(r, s)
       \/ DeleteReaction(r) \/ CreateReaction(r) \/ ReadReactions(r) \/ Broadcast(r) \/ Fail(r)
  \/ \E s \in Sockets : LoadHistory(s)

Spec == Init /\ [][Next]_vars
-----------------------------------------------------------------------------
Quiet == \A r \in Calls : ~Open(r)
Toggles(w) == {r \in Calls : call[r].pc = "done" /\ Reactor(r) = w}

TypeOK ==
  /\ chatReaction \subseteq Wallets /\ view \in [Sockets -> SUBSET Wallets]
  /\ call \in [Calls -> [pc : {"idle", "delete", "deleteAgain", "create", "read", "broadcast", "done"},
                         socket : SUBSET Sockets, reactors : SUBSET Wallets]]
  /\ \A r \in Calls : call[r].pc # "idle" => Cardinality(call[r].socket) = 1
  /\ failures \in 0..MaxFailures /\ told \subseteq Sockets
  /\ overlaps \subseteq SUBSET Calls

\* calls of the same wallet that ran at the same time
Met(r) == {q \in Calls \ {r} : {q, r} \in overlaps /\ Reactor(q) = Reactor(r)}

(* Two clicks that run concurrently, from one tab or two, come to the same *)
(* as one after the other: nobody's reaction is there unless he clicked an *)
(* odd number of times.  (A third at the same time breaks this: two of     *)
(* them then remove the row the other made.)                               *)
ClicksAddUp ==
  (Quiet /\ failures = 0 /\ \A r \in Calls : Cardinality(Met(r)) <= 1) =>
    \A w \in Wallets : (w \in chatReaction) = (Cardinality(Toggles(w)) % 2 = 1)

(* When all is quiet and every call ran alone, the screens of an instance  *)
(* show what is stored, whatever they had flipped on their own and however *)
(* late they were loaded.  (Two calls at the same time break this: the     *)
(* older list may be told last.)                                           *)
ScreensShowTheStored ==
  (Quiet /\ failures = 0 /\ overlaps = {}) => \A s \in told : view[s] = chatReaction

(* What the comment at websocket.service.ts:442 says: the news of a        *)
(* reaction goes to all clients in the room.                               *)
ReactionsReachTheRoom == Quiet => told = Sockets
=============================================================================
