----------------------------- MODULE Settlement -----------------------------
(***************************************************************************)
(* The arithmetic that splits the pot of a BlitzMine round: pure functions *)
(* of the on-chain program (calculate_settlement of instructions/reset.rs  *)
(* and the pro-rata shares of instructions/checkpoint.rs).  The program    *)
(* computes every product in u128 and every result is at most its first    *)
(* factor, so no narrowing to u64 loses bits and plain integers are exact. *)
(***************************************************************************)
EXTENDS Integers

CONSTANTS
  ADMIN_FEE,        \* basis points of the pot kept by the operator
  MOTHERLODE_FEE,   \* basis points of the winnings moved to the jackpot
  DENOMINATOR_BPS   \* what one whole is in basis points

ASSUME FeeAssumption ==
  /\ DENOMINATOR_BPS \in Nat \ {0}
  /\ ADMIN_FEE \in 0 .. DENOMINATOR_BPS
  /\ MOTHERLODE_FEE \in 0 .. DENOMINATOR_BPS

\* u64::saturating_sub
SaturatingSub(a, b) == IF a >= b THEN a - b ELSE 0

MulDivRoundedUp(a, b, c) == (a * b + c - 1) \div c  \* mutant

\* `(a as u128) * (b as u128) / (c as u128)`, rounding down
MulDiv(a, b, c) == (a * b) \div c

\* the fee is shared between the two sides of the pot by what they staked
AdminFromWinning(admin_fee, winning_deployed, total) ==
  MulDiv(admin_fee, winning_deployed, total)

AdminFromLosingWhole(admin_fee, from_winning) == admin_fee  \* mutant
AdminFromLosing(admin_fee, from_winning) == SaturatingSub(admin_fee, from_winning)

CalculateSettlement(total, winning_deployed) ==
  LET admin_fee == MulDiv(total, ADMIN_FEE, DENOMINATOR_BPS)
      losing == SaturatingSub(total, winning_deployed)
      admin_from_winning == AdminFromWinning(admin_fee, winning_deployed, total)
      admin_from_losing == AdminFromLosing(admin_fee, admin_from_winning)
      pool == SaturatingSub(losing, admin_from_losing)
      vaulted == MulDiv(pool, MOTHERLODE_FEE, DENOMINATOR_BPS)
  IN  IF winning_deployed = 0
      THEN [admin_fee |-> admin_fee, principal |-> 0, winnings |-> 0,
            vaulted |-> SaturatingSub(total, admin_fee)]
      ELSE [admin_fee |-> admin_fee,
            principal |-> SaturatingSub(winning_deployed, admin_from_winning),
            winnings |-> SaturatingSub(pool, vaulted),
            vaulted |-> vaulted]

\* mutant: pro rata of the whole pot instead of the winning stakes
WinnerShareOfPot(total, winning_deployed, motherlode, stake) ==
  LET settlement == CalculateSettlement(total, winning_deployed)
  IN  MulDiv(settlement.principal + settlement.winnings + motherlode, stake, total)

(***************************************************************************)
(* What one miner with `stake' lamports on the winning square receives:    *)
(* its share of the principal, of the winnings and of the jackpot, each    *)
(* rounded down on its own.                                                *)
(***************************************************************************)
WinnerShare(total, winning_deployed, motherlode, stake) ==
  LET settlement == CalculateSettlement(total, winning_deployed)
  IN  MulDiv(settlement.principal, stake, winning_deployed)
        + MulDiv(settlement.winnings, stake, winning_deployed)
        + MulDiv(motherlode, stake, winning_deployed)
=============================================================================
