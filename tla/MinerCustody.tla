---------------------------- MODULE MinerCustody ----------------------------
(***************************************************************************)
(* What a player is promised about the mining balance, wherever it is: it  *)
(* is one balance.  It is deposited into and withdrawn from on the base    *)
(* layer, bet and settled on the rollup, and carrying it from one to the   *)
(* other neither adds to it nor takes from it.  A balance with a round     *)
(* still to settle never leaves the rollup.  MinerSession implements this. *)
(***************************************************************************)
EXTENDS Integers

CONSTANT Opening          \* lamports the wallet starts with

VARIABLES
  wallet,                 \* lamports in the player's wallet
  balance,                \* lamports the program keeps for the player
  place,                  \* "base" or "rollup"
  unsettled               \* a round the player bet on is yet to be settled

custodyVars == <<wallet, balance, place, unsettled>>

Init ==
  /\ wallet = Opening
  /\ balance = 0
  /\ place = "base"
  /\ unsettled = FALSE

Deposit ==
  /\ place = "base"
  /\ balance' > balance
  /\ wallet' = wallet - (balance' - balance)
  /\ UNCHANGED <<place, unsettled>>

Withdraw ==
  /\ place = "base" /\ ~unsettled
  /\ balance' < balance
  /\ wallet' = wallet + (balance - balance')
  /\ UNCHANGED <<place, unsettled>>

Depart ==
  /\ place = "base"
  /\ place' = "rollup"
  /\ UNCHANGED <<wallet, balance, unsettled>>

\* a bet on the current round
Bet ==
  /\ place = "rollup"
  /\ balance' < balance
  /\ unsettled' = TRUE
  /\ UNCHANGED <<wallet, place>>

\* a round is settled once, in the player's favour or not
Settle ==
  /\ place = "rollup" /\ unsettled
  /\ unsettled' = FALSE
  /\ balance' \in Int
  /\ UNCHANGED <<wallet, place>>

Return ==
  /\ place = "rollup" /\ ~unsettled
  /\ place' = "base"
  /\ UNCHANGED <<wallet, balance, unsettled>>

Next == Deposit \/ Withdraw \/ Depart \/ Bet \/ Settle \/ Return

Spec == Init /\ [][Next]_custodyVars
=============================================================================
