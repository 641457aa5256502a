--------------------------- MODULE RoundLifecycle ---------------------------
(***************************************************************************)
(* What BlitzMine promises its players, without accounts, lamport moves,   *)
(* clocks or oracle requests: rounds are played strictly one after the     *)
(* other; a round collects bets while it is open; it is drawn only if it   *)
(* holds a bet and after betting has stopped; it ends once, either with a  *)
(* winning square or with a refund; its pot only shrinks after that, one   *)
(* payment at a time.                                                      *)
(***************************************************************************)
EXTENDS Integers

CONSTANTS Squares, NoSquare, MaxRound

RoundIds == 0 .. MaxRound

VARIABLES
  current,   \* the round being played
  status,    \* RoundIds -> "future", "open", "drawing", "drawn", "refunded"
  bets,      \* RoundIds -> lamports bet
  winner,    \* RoundIds -> winning square of a drawn round
  pot        \* RoundIds -> lamports the round still holds

vars == <<current, status, bets, winner, pot>>

Init ==
  /\ current = 0
  /\ status = [id \in RoundIds |-> IF id = 0 THEN "open" ELSE "future"]
  /\ bets = [id \in RoundIds |-> 0]
  /\ winner = [id \in RoundIds |-> NoSquare]
  /\ pot = [id \in RoundIds |-> 0]

\* f changes at id only, to some number of lamports
Changes(f, id) ==
  /\ f'[id] \in Nat
  /\ f' = [f EXCEPT ![id] = f'[id]]

\* somebody adds a bet to the open round, and the pot grows with it
Bet ==
  /\ status[current] = "open"
  /\ Changes(bets, current)
  /\ bets'[current] > bets[current]
  /\ pot' = [pot EXCEPT ![current] = bets'[current]]
  /\ UNCHANGED <<current, status, winner>>

StopBetting ==
  /\ status[current] = "open"
  /\ bets[current] > 0
  /\ status' = [status EXCEPT ![current] = "drawing"]
  /\ UNCHANGED <<current, bets, winner, pot>>

OpenNext(outcome) ==
  /\ current + 1 \in RoundIds
  /\ current' = current + 1
  /\ status' = [status EXCEPT ![current] = outcome, ![current + 1] = "open"]

\* the draw moves fees and jackpot, so the pot is whatever is left to pay
Draw ==
  /\ status[current] = "drawing"
  /\ OpenNext("drawn")
  /\ \E s \in Squares : winner' = [winner EXCEPT ![current] = s]
  /\ Changes(pot, current)
  /\ UNCHANGED bets

Refund ==
  /\ status[current] = "drawing"
  /\ OpenNext("refunded")
  /\ UNCHANGED <<bets, winner, pot>>

\* a player of a closed round is paid out of its pot
Pay ==
  /\ \E id \in RoundIds :
       /\ status[id] \in {"drawn", "refunded"}
       /\ Changes(pot, id)
       /\ pot'[id] < pot[id]
  /\ UNCHANGED <<current, status, bets, winner>>

Next == Bet \/ StopBetting \/ Draw \/ Refund \/ Pay

Spec == Init /\ [][Next]_vars
=============================================================================
