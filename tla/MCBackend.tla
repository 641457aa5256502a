------------------------------ MODULE MCBackend ------------------------------
(***************************************************************************)
(* A small instance of Backend.  In a behaviour one of the services runs   *)
(* and the others are off, so each is explored as if it were alone; the    *)
(* chat runs in two ways, whose bounds are RoomBound and SocketBound.      *)
(***************************************************************************)
EXTENDS Backend, TLC

CONSTANTS c1, c2, c3      \* the calls

MCSymmetry == Permutations(Calls)

\* three deploys of one round, the second of a wallet that holds a square already
MCPayerOf == [d1 |-> "alice", d2 |-> "alice", d3 |-> "bob"]
MCDeployRound == [d1 |-> "r1", d2 |-> "r1", d3 |-> "r1"]
MCMask == [d1 |-> {1}, d2 |-> {1, 2}, d3 |-> {2}]

\* a round with a bet and its draw
MCLog == << [kind |-> "deploy", round |-> "r1", winner |-> NoSquare],
            [kind |-> "fulfil", round |-> "r1", winner |-> 7] >>

\* one socket at each of two instances, and two sessions of one wallet
MCInstanceOf == [s1 |-> "i1", s2 |-> "i2"]
MCWalletOf == [n1 |-> "alice", n2 |-> "alice"]

\* a wallet with two tabs, and another one at another instance
MCTabWallet == [t1 |-> "alice", t2 |-> "alice", t3 |-> "bob"]
MCTabInstance == [t1 |-> "i1", t2 |-> "i1", t3 |-> "i2"]

VARIABLES part            \* the service that runs, and of the chat, how

MCInit ==
  /\ Init
  /\ \/ \E service \in Services \ {"chat"} : running = {service} /\ part = service
     \/ running = {"chat"} /\ part \in {"room", "socket"}

\* two requests of one session, to two instances that Redis joins
RoomBound ==
  /\ Cardinality({r \in Calls : handler'[r].kind # "none"}) <= 2
  /\ "n2" \notin revoked' /\ \A r \in Calls : handler'[r].session # "n2"
\* three requests of one socket that changes its session; Redis is slow
SocketBound ==
  /\ \A r \in Calls : handler'[r].kind # "announce" /\ handler'[r].socket # "s2"
  /\ \A i \in Instances : Len(bus'[i]) >= Len(bus[i])
  /\ chatFailures' = 0 /\ meta'["s2"].open

MCNext ==
  /\ Next /\ UNCHANGED part
  /\ part = "room" => RoomBound
  /\ part = "socket" => SocketBound

MCSpec == MCInit /\ [][MCNext]_<<part, vars>>
=============================================================================
