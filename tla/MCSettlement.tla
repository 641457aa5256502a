---------------------------- MODULE MCSettlement ----------------------------
(***************************************************************************)
(* Checks the arithmetic of Settlement over a bounded set of pots.  A      *)
(* state is one finished round seen from its winning square: what each     *)
(* winner staked there, what lies on the other squares and the jackpot     *)
(* carried in.  Bets are added one at a time, so TLC visits every pot that *)
(* the stakes below can build.                                             *)
(***************************************************************************)
EXTENDS Settlement, FiniteSets, Functions

CONSTANTS Winners, Stakes, MaxLosing, Jackpots

VARIABLES stake,    \* what each winner has on the winning square
          losing,   \* what lies on the 24 other squares
          jackpot   \* round.motherlode

vars == <<stake, losing, jackpot>>

winning == SumFunction(stake)
total == winning + losing
settlement == CalculateSettlement(total, winning)
share == [w \in Winners |->
            IF stake[w] = 0 THEN 0 ELSE WinnerShare(total, winning, jackpot, stake[w])]

Init ==
  /\ stake = [w \in Winners |-> 0]
  /\ losing = 0
  /\ jackpot \in Jackpots

BetOnWinner(w, amount) ==
  /\ stake[w] = 0
  /\ stake' = [stake EXCEPT ![w] = amount]
  /\ UNCHANGED <<losing, jackpot>>

BetElsewhere(amount) ==
  /\ losing + amount <= MaxLosing
  /\ losing' = losing + amount
  /\ UNCHANGED <<stake, jackpot>>

Next == \E amount \in Stakes :
          \/ \E w \in Winners : BetOnWinner(w, amount)
          \/ BetElsewhere(amount)

Spec == Init /\ [][Next]_vars

-----------------------------------------------------------------------------
(* Every lamport of the pot is in exactly one of the four parts, for every *)
(* split of the pot, not just the three that settlement_conserves_every_   *)
(* lamport (reset.rs) tries.                                               *)
ConservesEveryLamport ==
  settlement.admin_fee + settlement.principal
    + settlement.winnings + settlement.vaulted = total

(* The shares handle_checkpoint pays never exceed what the round holds for *)
(* its winners, and rounding strands less than three lamports per winner   *)
(* beyond the first: a lone winner empties the round.                      *)
SharesFitThePot ==
  LET owed == settlement.principal + settlement.winnings + jackpot
      paid == SumFunction(share)
      winners == {w \in Winners : stake[w] > 0}
  IN  winners # {} => /\ paid <= owed
                      /\ owed - paid <= 3 * (Cardinality(winners) - 1)

(* A winner is never worse off than by the admin fee on its own stake,     *)
(* rounded up, however the roundings of calculate_settlement and           *)
(* calculate_rewards fall.                                                 *)
WinnerPaysAtMostTheFee ==
  \A w \in Winners :
    LET fee == (stake[w] * ADMIN_FEE + DENOMINATOR_BPS - 1) \div DENOMINATOR_BPS
    IN  share[w] >= stake[w] - fee

=============================================================================
