--------------------------- MODULE BlitzMineProofs --------------------------
(***************************************************************************)
(* Machine-checked safety of the on-chain program, for any players, any    *)
(* number of squares and rounds, any amounts, windows, fees and rents that *)
(* satisfy the assumptions of BlitzMine, in three parts:                   *)
(*   what the settlement guarantees, for every pot, not only the ones      *)
(*   MCSettlement enumerates;                                              *)
(*   the types of the program;                                             *)
(*   the phases of its rounds, and what may not change in which.           *)
(***************************************************************************)
EXTENDS BlitzMine, SumProofs

-----------------------------------------------------------------------------
(***************************************************************************)
(* The settlement. All of it rests on one fact about division that rounds  *)
(* down: a fraction of a natural number, with a proper fraction b/c, lies  *)
(* between 0 and the number itself.                                        *)
(***************************************************************************)

(* Division rounds down: multiplying back never overshoots.                *)
LEMMA DivisionRoundsDown ==
  ASSUME NEW n \in Nat, NEW c \in Nat \ {0}
  PROVE  /\ n \div c \in Nat
         /\ c * (n \div c) <= n
         /\ n < c * (n \div c) + c
  OBVIOUS

(* A product of naturals is a natural.                                     *)
LEMMA ProductNat ==
  ASSUME NEW a \in Nat, NEW b \in Nat
  PROVE  a * b \in Nat
  OBVIOUS

(* A proper fraction of a, rounded down, is at most a.                     *)
LEMMA MulDivBounded ==
  ASSUME NEW a \in Nat, NEW c \in Nat \ {0}, NEW b \in 0 .. c
  PROVE  MulDiv(a, b, c) \in 0 .. a
<1> DEFINE q == (a * b) \div c
<1>1. a * b \in Nat
  BY ProductNat
<1>2. q \in Nat /\ c * q <= a * b
  BY <1>1, DivisionRoundsDown
<1>3. a * b <= a * c
  OBVIOUS
<1>4. c * q <= c * a
  BY <1>2, <1>3
<1>5. q <= a
  <2>1. SUFFICES ASSUME q > a PROVE FALSE
    BY <1>2
  <2>2. q >= a + 1
    BY <2>1, <1>2
  <2>3. c * q >= c * (a + 1)
    BY <2>2, <1>2
  <2>4. QED
    BY <2>3, <1>4
<1>6. QED
  BY <1>2, <1>5 DEF MulDiv

(* Swapping the factors of a rounded-down product changes nothing.         *)
LEMMA MulDivCommutes ==
  ASSUME NEW a \in Nat, NEW b \in Nat, NEW c \in Nat \ {0}
  PROVE  MulDiv(a, b, c) = MulDiv(b, a, c)
<1>1. a * b = b * a
  OBVIOUS
<1>2. QED
  BY <1>1 DEF MulDiv

(* The admin fee is a part of the pot.                                     *)
LEMMA AdminFeeWithinPot ==
  ASSUME NEW total \in Nat
  PROVE  MulDiv(total, ADMIN_FEE, DENOMINATOR_BPS) \in 0 .. total
  BY FeeAssumption, MulDivBounded

(* Whatever part of the fee falls on the winning side, the rest fits in    *)
(* what the losing side staked: calculate_settlement never saturates.      *)
LEMMA FeeSplitFits ==
  ASSUME NEW total \in Nat \ {0}, NEW winning \in 0 .. total,
         NEW fee \in 0 .. total
  PROVE  LET from_winning == MulDiv(fee, winning, total)
         IN  /\ from_winning \in 0 .. fee
             /\ from_winning <= winning
             /\ fee - from_winning <= total - winning
<1> DEFINE q == MulDiv(fee, winning, total)
<1>1. q \in 0 .. fee
  BY MulDivBounded
<1>2. q <= winning
  <2>1. q = MulDiv(winning, fee, total)
    BY MulDivCommutes
  <2>2. MulDiv(winning, fee, total) \in 0 .. winning
    BY MulDivBounded
  <2>3. QED
    BY <2>1, <2>2
<1>3. fee - q <= total - winning
  <2> DEFINE gain == total - winning
             rest == total - fee
  <2>1. SUFFICES ASSUME fee - q > gain PROVE FALSE
    BY <1>1
  <2>2. fee * winning < total * q + total
    BY ProductNat, DivisionRoundsDown DEF MulDiv
  <2>3. q + 1 <= winning - rest
    BY <2>1, <1>1
  <2>4. total * (q + 1) <= total * (winning - rest)
    BY <2>3, <1>1
  <2>5. fee * winning < total * (winning - rest)
    BY <2>2, <2>4, <1>1
  <2>6. total * (winning - rest) = fee * winning - rest * gain
    OBVIOUS
  <2>7. rest * gain \in Nat
    BY ProductNat
  <2>8. QED
    BY <2>5, <2>6, <2>7
<1>4. QED
  BY <1>1, <1>2, <1>3

(* The parts of a settlement are natural numbers, so the unsigned          *)
(* arithmetic of calculate_settlement neither wraps nor truncates, and     *)
(* they add up to the pot.                                                 *)
LEMMA SettlementParts ==
  ASSUME NEW total \in Nat, NEW winning \in 0 .. total
  PROVE  LET settlement == CalculateSettlement(total, winning)
         IN  /\ settlement \in [admin_fee : 0 .. total, principal : 0 .. winning,
                                winnings : Nat, vaulted : Nat]
             /\ settlement.admin_fee + settlement.principal
                  + settlement.winnings + settlement.vaulted = total
<1> DEFINE fee == MulDiv(total, ADMIN_FEE, DENOMINATOR_BPS)
           q == MulDiv(fee, winning, total)
           pool == (total - winning) - (fee - q)
           vaulted == MulDiv(pool, MOTHERLODE_FEE, DENOMINATOR_BPS)
<1>1. fee \in 0 .. total
  BY AdminFeeWithinPot
<1>2. CASE winning = 0
  BY <1>1, <1>2 DEF CalculateSettlement, SaturatingSub
<1>3. CASE winning # 0
  <2>1. total \in Nat \ {0}
    BY <1>3
  <2>2. q \in 0 .. fee /\ q <= winning /\ fee - q <= total - winning
    <3> HIDE DEF fee
    <3>1. QED
      BY <1>1, <2>1, FeeSplitFits
  <2>3. pool \in Nat
    BY <1>1, <2>2
  <2>4. vaulted \in 0 .. pool
    BY <2>3, FeeAssumption, MulDivBounded
  <2>5. SaturatingSub(total, winning) = total - winning
    BY DEF SaturatingSub
  <2>6. AdminFromLosing(fee, q) = fee - q
    BY <1>1, <2>2 DEF AdminFromLosing, SaturatingSub
  <2>7. SaturatingSub(total - winning, fee - q) = pool
    BY <1>1, <2>2 DEF SaturatingSub
  <2>8. SaturatingSub(winning, q) = winning - q
    BY <1>1, <2>2 DEF SaturatingSub
  <2>9. SaturatingSub(pool, vaulted) = pool - vaulted
    BY <2>3, <2>4 DEF SaturatingSub
  <2>10. CalculateSettlement(total, winning)
           = [admin_fee |-> fee, principal |-> winning - q,
              winnings |-> pool - vaulted, vaulted |-> vaulted]
    BY <1>3, <2>5, <2>6, <2>7, <2>8, <2>9
       DEF CalculateSettlement, AdminFromWinning
  <2>11. fee + (winning - q) + (pool - vaulted) + vaulted = total
    <3> HIDE DEF fee, q, vaulted
    <3>1. QED
      BY <1>1, <2>2, <2>4
  <2> HIDE DEF fee, q, pool, vaulted
  <2>12. QED
    BY <1>1, <2>2, <2>3, <2>4, <2>10, <2>11
<1>4. QED
  BY <1>2, <1>3

(* The parts one by one, as the provers need them.                         *)
LEMMA PartsNat ==
  ASSUME NEW total \in Nat, NEW winning \in 0 .. total
  PROVE  /\ CalculateSettlement(total, winning).admin_fee \in Nat
         /\ CalculateSettlement(total, winning).principal \in Nat
         /\ CalculateSettlement(total, winning).winnings \in Nat
         /\ CalculateSettlement(total, winning).vaulted \in Nat
<1> DEFINE settlement == CalculateSettlement(total, winning)
<1>1. settlement \in [admin_fee : 0 .. total, principal : 0 .. winning,
                      winnings : Nat, vaulted : Nat]
  BY SettlementParts
<1> HIDE DEF settlement
<1>2. /\ settlement.admin_fee \in Nat /\ settlement.principal \in Nat
      /\ settlement.winnings \in Nat /\ settlement.vaulted \in Nat
  BY <1>1
<1>3. QED
  BY <1>2 DEF settlement

(* settlement_conserves_every_lamport, for every pot and every split of it *)
(* instead of the 10 000 totals and three splits of the unit test.         *)
THEOREM SettlementConserves ==
  ASSUME NEW total \in Nat, NEW winning \in 0 .. total
  PROVE  LET settlement == CalculateSettlement(total, winning)
         IN  settlement.admin_fee + settlement.principal
               + settlement.winnings + settlement.vaulted = total
  BY SettlementParts

(* A winner's share never exceeds what the round holds for all winners,    *)
(* and the only winner of a round empties it: rounding strands nothing.    *)
THEOREM ShareWithinPot ==
  ASSUME NEW total \in Nat, NEW winning \in 1 .. total,
         NEW motherlode \in Nat, NEW stake \in 0 .. winning
  PROVE  LET settlement == CalculateSettlement(total, winning)
             pot == settlement.principal + settlement.winnings + motherlode
             share == WinnerShare(total, winning, motherlode, stake)
         IN  /\ share \in 0 .. pot
             /\ stake = winning => share = pot
<1> DEFINE settlement == CalculateSettlement(total, winning)
<1>1. settlement.principal \in Nat /\ settlement.winnings \in Nat
  <2>1. winning \in 0 .. total
    OBVIOUS
  <2>2. QED
    BY <2>1, SettlementParts
<1> HIDE DEF settlement
<1>2. ASSUME NEW a \in Nat
      PROVE  /\ MulDiv(a, stake, winning) \in 0 .. a
             /\ stake = winning => MulDiv(a, stake, winning) = a
  <2>1. MulDiv(a, stake, winning) \in 0 .. a
    BY MulDivBounded
  <2>2. ASSUME stake = winning PROVE MulDiv(a, stake, winning) = a
    <3> DEFINE q == (a * winning) \div winning
    <3>1. q \in Nat /\ a * winning < winning * q + winning
      BY ProductNat, DivisionRoundsDown
    <3> HIDE DEF q
    <3>2. q >= a
      <4>1. SUFFICES ASSUME q + 1 <= a PROVE FALSE
        BY <3>1
      <4>2. winning * (q + 1) <= winning * a
        BY <3>1, <4>1
      <4>3. QED
        BY <3>1, <4>2
    <3>3. q <= a
      BY <2>1, <2>2 DEF q, MulDiv
    <3>4. QED
      BY <2>2, <3>1, <3>2, <3>3 DEF q, MulDiv
  <2>3. QED
    BY <2>1, <2>2
<1>3. WinnerShare(total, winning, motherlode, stake)
        = MulDiv(settlement.principal, stake, winning)
            + MulDiv(settlement.winnings, stake, winning)
            + MulDiv(motherlode, stake, winning)
  BY DEF WinnerShare, settlement
<1>4. QED
  <2>1. /\ MulDiv(settlement.principal, stake, winning) \in 0 .. settlement.principal
        /\ MulDiv(settlement.winnings, stake, winning) \in 0 .. settlement.winnings
        /\ MulDiv(motherlode, stake, winning) \in 0 .. motherlode
    BY <1>1, <1>2
  <2>2. stake = winning =>
        /\ MulDiv(settlement.principal, stake, winning) = settlement.principal
        /\ MulDiv(settlement.winnings, stake, winning) = settlement.winnings
        /\ MulDiv(motherlode, stake, winning) = motherlode
    BY <1>1, <1>2
  <2>3. QED
    BY <1>1, <1>3, <2>1, <2>2 DEF settlement

(* A prize a cut up pro rata among players with stakes d: rounded down one *)
(* by one the pieces fit the prize, and strand less than a lamport for     *)
(* every winner beyond the first.                                          *)
LEMMA PiecesFit ==
  ASSUME NEW M, IsFiniteSet(M), NEW d \in [M -> Nat],
         NEW W \in Nat \ {0}, W = SumFunction(d), NEW a \in Nat
  PROVE  LET paid == SumFunction([m \in M |-> MulDiv(a, d[m], W)])
             winners == {m \in M : d[m] > 0}
         IN  /\ paid \in 0 .. a
             /\ Cardinality(winners) \in Nat \ {0}
             /\ a - paid <= Cardinality(winners) - 1
<1> DEFINE piece == [m \in M |-> MulDiv(a, d[m], W)]
           Q == SumFunction(piece)
           winners == {m \in M : d[m] > 0}
           k == Cardinality(winners)
           cut == [m \in M |-> a * d[m]]
           whole == [m \in M |-> W * piece[m]]
           over == [m \in M |-> IF m \in winners THEN whole[m] + (W - 1) ELSE whole[m]]
<1>1. \A m \in M : d[m] \in 0 .. W
  BY SumNat
<1>2. /\ piece \in [M -> Nat] /\ piece \in [M -> Int] /\ d \in [M -> Int]
      /\ \A m \in M : piece[m] = MulDiv(a, d[m], W)
  <2>1. \A m \in M : MulDiv(a, d[m], W) \in 0 .. a
    BY <1>1, MulDivBounded
  <2>2. QED
    BY <2>1
<1> HIDE DEF piece
<1>3. \A m \in M : W * piece[m] \in Int /\ a * d[m] \in Int
  BY <1>2
<1>4. cut \in [M -> Int] /\ whole \in [M -> Int] /\ over \in [M -> Int]
  BY <1>3
<1>5. ASSUME NEW m \in M
      PROVE  /\ W * piece[m] <= a * d[m]
             /\ a * d[m] <= W * piece[m] + (W - 1)
             /\ d[m] = 0 => a * d[m] = W * piece[m]
  <2>1. a * d[m] \in Nat /\ d[m] \in Nat
    BY ProductNat
  <2>2. /\ piece[m] = (a * d[m]) \div W
        /\ W * piece[m] <= a * d[m]
        /\ a * d[m] < W * piece[m] + W
    BY <1>2, <2>1, DivisionRoundsDown DEF MulDiv
  <2>3. W * piece[m] \in Nat
    BY <1>2, ProductNat
  <2>4. d[m] = 0 => a * d[m] = 0
    OBVIOUS
  <2>5. QED
    BY <2>1, <2>2, <2>3, <2>4
<1>6. SumFunction(cut) = a * W
  BY <1>2, SumTimes
<1>7. SumFunction(whole) = W * Q
  BY <1>2, SumTimes
<1>8. SumFunction(over) = W * Q + (W - 1) * k
  <2>1. W - 1 \in Int /\ winners \in SUBSET M
    OBVIOUS
  <2> HIDE DEF whole, winners
  <2>2. SumFunction(over) = SumFunction(whole) + (W - 1) * k
    BY <1>4, <2>1, SumRaise
  <2>3. QED
    BY <1>7, <2>2
<1>9. SumFunction(whole) <= SumFunction(cut) /\ SumFunction(cut) <= SumFunction(over)
  <2>1. \A m \in M : whole[m] <= cut[m] /\ cut[m] <= over[m]
    <3>1. SUFFICES ASSUME NEW m \in M PROVE whole[m] <= cut[m] /\ cut[m] <= over[m]
      OBVIOUS
    <3>2. m \in winners \/ d[m] = 0
      OBVIOUS
    <3>3. QED
      BY <1>3, <1>5, <3>2
  <2> HIDE DEF whole, cut, over
  <2>2. QED
    BY <1>4, <2>1, SumCompare
<1>10. Q \in Nat
  BY <1>2, SumNat
<1>11. k \in Nat /\ k # 0
  <2>1. IsFiniteSet(winners)
    BY FS_Subset
  <2>2. winners # {}
    <3>1. SUFFICES ASSUME winners = {} PROVE FALSE
      OBVIOUS
    <3>2. \A m \in M : d[m] = 0
      BY <3>1
    <3>3. QED
      BY <1>2, <3>2, SumZero
  <2>3. QED
    BY <2>1, <2>2, FS_EmptySet, FS_CardinalityType
<1> HIDE DEF Q, k, cut, whole, over
<1>12. W * Q <= a * W /\ a * W <= W * Q + (W - 1) * k
  BY <1>6, <1>7, <1>8, <1>9
<1>13. Q <= a
  <2>1. SUFFICES ASSUME a + 1 <= Q PROVE FALSE
    BY <1>10
  <2>2. W * (a + 1) <= W * Q
    BY <1>10, <2>1
  <2>3. QED
    BY <1>10, <1>12, <2>2
<1>14. a - Q <= k - 1
  <2>1. SUFFICES ASSUME Q + k <= a PROVE FALSE
    BY <1>10, <1>11
  <2>2. W * (Q + k) <= W * a
    BY <1>10, <1>11, <2>1
  <2>3. W * (Q + k) = W * Q + W * k /\ (W - 1) * k = W * k - k /\ W * a = a * W
    BY <1>10, <1>11
  <2>4. W * Q \in Int /\ W * k \in Int
    BY <1>10, <1>11
  <2>5. QED
    BY <1>11, <1>12, <2>2, <2>3, <2>4
<1>15. QED
  BY <1>10, <1>11, <1>13, <1>14 DEF Q, k, piece

Shares(M, d, total, W, jackpot) ==
  [m \in M |-> IF d[m] = 0 THEN 0 ELSE WinnerShare(total, W, jackpot, d[m])]

(* What handle_checkpoint owes to a round's winners together: never more   *)
(* than the round keeps for them, and less than three lamports a winner    *)
(* beyond the first stay behind.                                           *)
LEMMA SharesFit ==
  ASSUME NEW M, IsFiniteSet(M), NEW d \in [M -> Nat], NEW total \in Nat,
         NEW W \in 1 .. total, W = SumFunction(d), NEW jackpot \in Nat
  PROVE  LET settlement == CalculateSettlement(total, W)
             pot == settlement.principal + settlement.winnings + jackpot
             share == Shares(M, d, total, W, jackpot)
             winners == {m \in M : d[m] > 0}
         IN  /\ SumFunction(share) \in 0 .. pot
             /\ Cardinality(winners) \in Nat \ {0}
             /\ pot - SumFunction(share) <= 3 * (Cardinality(winners) - 1)
<1> DEFINE settlement == CalculateSettlement(total, W)
           p == settlement.principal
           w == settlement.winnings
           Piece(a) == [m \in M |-> MulDiv(a, d[m], W)]
           share == [m \in M |-> IF d[m] = 0 THEN 0
                                 ELSE WinnerShare(total, W, jackpot, d[m])]
           winners == {m \in M : d[m] > 0}
           k == Cardinality(winners)
           two == [m \in M |-> Piece(p)[m] + Piece(w)[m]]
           three == [m \in M |-> two[m] + Piece(jackpot)[m]]
<1>0. W \in Nat \ {0} /\ W \in 0 .. total
  OBVIOUS
<1>1. p \in Nat /\ w \in Nat
  BY <1>0, SettlementParts
<1>2. ASSUME NEW a \in Nat
      PROVE  /\ Piece(a) \in [M -> Int]
             /\ SumFunction(Piece(a)) \in 0 .. a
             /\ a - SumFunction(Piece(a)) <= k - 1
             /\ k \in Nat \ {0}
             /\ \A m \in M : d[m] = 0 => Piece(a)[m] = 0
  <2>1. \A m \in M : d[m] \in 0 .. W
    BY SumNat
  <2>2. \A m \in M : MulDiv(a, d[m], W) \in 0 .. a
    BY <1>0, <2>1, MulDivBounded
  <2>3. \A m \in M : d[m] = 0 => MulDiv(a, d[m], W) = 0
    <3>1. SUFFICES ASSUME NEW m \in M, d[m] = 0 PROVE MulDiv(a, d[m], W) = 0
      OBVIOUS
    <3>2. MulDiv(a, d[m], W) = (a * 0) \div W
      BY <3>1 DEF MulDiv
    <3>3. QED
      BY <1>0, <3>2
  <2>4. QED
    BY <1>0, <2>2, <2>3, PiecesFit
<1>3. ASSUME NEW m \in M, d[m] # 0
      PROVE  WinnerShare(total, W, jackpot, d[m])
               = Piece(p)[m] + Piece(w)[m] + Piece(jackpot)[m]
  BY DEF WinnerShare
<1>4. share = three
  <2>1. ASSUME NEW m \in M
        PROVE  share[m] = Piece(p)[m] + Piece(w)[m] + Piece(jackpot)[m]
    <3>1. d[m] = 0 => Piece(p)[m] = 0 /\ Piece(w)[m] = 0 /\ Piece(jackpot)[m] = 0
      BY <1>1, <1>2
    <3>2. d[m] # 0 => share[m] = WinnerShare(total, W, jackpot, d[m])
      OBVIOUS
    <3>3. d[m] = 0 => share[m] = 0
      OBVIOUS
    <3> HIDE DEF share, Piece, p, w
    <3>4. CASE d[m] = 0
      BY <3>1, <3>3, <3>4
    <3>5. CASE d[m] # 0
      BY <1>3, <3>2, <3>5
    <3>6. QED
      BY <3>4, <3>5
  <2>2. \A m \in M : three[m] = Piece(p)[m] + Piece(w)[m] + Piece(jackpot)[m]
    <3> HIDE DEF Piece, p, w
    <3>1. QED
      OBVIOUS
  <2>3. three = [m \in M |-> three[m]] /\ share = [m \in M |-> share[m]]
    OBVIOUS
  <2> HIDE DEF share, three
  <2>4. QED
    BY <2>1, <2>2, <2>3
<1>5. SumFunction(three) = SumFunction(Piece(p)) + SumFunction(Piece(w))
                             + SumFunction(Piece(jackpot))
  <2>1. Piece(p) \in [M -> Int] /\ Piece(w) \in [M -> Int]
        /\ Piece(jackpot) \in [M -> Int]
    BY <1>1, <1>2
  <2>2. two \in [M -> Int]
    BY <2>1
  <2> HIDE DEF Piece
  <2>3. SumFunction(two) = SumFunction(Piece(p)) + SumFunction(Piece(w))
    BY <2>1, SumPlus
  <2> HIDE DEF two
  <2>4. SumFunction(three) = SumFunction(two) + SumFunction(Piece(jackpot))
    BY ZenonT(30), <2>1, <2>2, SumPlus
  <2>5. QED
    BY <2>3, <2>4
<1> DEFINE P == SumFunction(Piece(p))
           Q == SumFunction(Piece(w))
           R == SumFunction(Piece(jackpot))
<1>6. /\ P \in 0 .. p /\ Q \in 0 .. w /\ R \in 0 .. jackpot /\ k \in Nat \ {0}
      /\ p - P <= k - 1 /\ w - Q <= k - 1 /\ jackpot - R <= k - 1
  BY <1>1, <1>2
<1>7. SumFunction(share) = P + Q + R
  BY <1>4, <1>5
<1> HIDE DEF P, Q, R, p, w, k, share
<1>8. /\ SumFunction(share) \in 0 .. (p + w + jackpot)
      /\ (p + w + jackpot) - SumFunction(share) <= 3 * (k - 1)
  BY <1>1, <1>6, <1>7
<1>9. QED
  BY <1>6, <1>8 DEF Shares, share, p, w, k
-----------------------------------------------------------------------------
(***************************************************************************)
(* Types.  TypeOK alone is not inductive: calculate_settlement divides by  *)
(* the pot and subtracts the winning stake from it, so a draw keeps to the *)
(* types only if no square holds more than the pot of its round.           *)
(***************************************************************************)
StakesWithinPot ==
  \A id \in RoundIds : \A s \in Squares :
    rounds[id].deployed[s] <= rounds[id].total_deployed

TypeInv == TypeOK /\ StakesWithinPot

(* The constants one by one, as the provers need them.                     *)
LEMMA ConstantTypes ==
  /\ U64_MAX \in Nat /\ I64_MAX \in Nat /\ MaxRound \in Nat
  /\ MaxNonce \in Nat /\ MaxTime \in Nat
  /\ CHECKPOINT_FEE \in U64
  /\ MinerRent \in Nat /\ RoundRent \in Nat /\ TreasuryRent \in Nat
  /\ INTERMISSION_SECONDS \in Nat /\ VRF_TIMEOUT_SECONDS \in Nat
  /\ ROUND_DURATION_SECONDS \in Nat /\ ROUND_DURATION_SECONDS > 0
  /\ CLAIM_WINDOW_SECONDS \in Nat /\ CLAIM_WINDOW_SECONDS > 0
  /\ \A a \in FundAmounts : a \in Nat /\ a > 0
  /\ \A a \in DeployAmounts : a \in Nat /\ a > 0
  /\ InitialWallet \in [Wallets -> Nat]
  /\ MaxRound < U64_MAX
<1>1. /\ U64_MAX \in Nat /\ I64_MAX \in Nat /\ MaxRound \in Nat
      /\ MaxNonce \in Nat /\ MaxTime \in Nat /\ MaxRound < U64_MAX
      /\ CHECKPOINT_FEE \in U64
  BY ParameterAssumption
<1>2. /\ MinerRent \in Nat /\ RoundRent \in Nat /\ TreasuryRent \in Nat
      /\ INTERMISSION_SECONDS \in Nat /\ VRF_TIMEOUT_SECONDS \in Nat
  BY ParameterAssumption
<1>3. /\ ROUND_DURATION_SECONDS \in Nat \ {0} /\ CLAIM_WINDOW_SECONDS \in Nat \ {0}
  BY ParameterAssumption
<1>4. /\ \A a \in FundAmounts : a \in Nat \ {0}
      /\ \A a \in DeployAmounts : a \in Nat \ {0}
      /\ InitialWallet \in [Wallets -> Nat]
  BY ParameterAssumption
<1>5. \A n \in Nat \ {0} : n \in Nat /\ n > 0
  OBVIOUS
<1>6. QED
  BY <1>1, <1>2, <1>3, <1>4, <1>5

USE ConstantTypes, ClockAssumption

(* A fresh round account is well typed.                                    *)
LEMMA EmptyRoundType ==
  ASSUME NEW lamports \in Nat
  PROVE  /\ EmptyRound(lamports) \in Round
         /\ \A s \in Squares : EmptyRound(lamports).deployed[s] = 0
         /\ EmptyRound(lamports).total_deployed = 0
  BY DEF EmptyRound, Round, U64, Timestamps

LEMMA NewMinerType ==
  ASSUME NEW exists \in BOOLEAN, NEW lamports \in Nat
  PROVE  NewMiner(exists, lamports) \in Miner
  BY DEF NewMiner, Miner, U64

LEMMA InitTypeInv == Init => TypeInv
<1> SUFFICES ASSUME Init PROVE TypeInv
  OBVIOUS
<1>1. board \in Board
  BY DEF Init, Board, RoundIds, Timestamps
<1>2. rounds \in [RoundIds -> Round] /\ StakesWithinPot
  BY EmptyRoundType DEF Init, StakesWithinPot, RoundIds
<1>3. miners \in [Miners -> Miner]
  BY NewMinerType DEF Init
<1>4. treasury \in Treasury
  BY DEF Init, Treasury, U64
<1>5. wallet \in [Wallets -> Nat] /\ now \in 0 .. MaxTime
  BY DEF Init
<1>6. /\ prepared \subseteq RoundIds
      /\ requests \subseteq [round_id : RoundIds, request_nonce : Nat]
  BY DEF Init, RoundIds
<1>7. QED
  BY <1>1, <1>2, <1>3, <1>4, <1>5, <1>6 DEF TypeInv, TypeOK

-----------------------------------------------------------------------------
(***************************************************************************)
(* Type correctness, one lemma per instruction.                            *)
(***************************************************************************)

LEMMA TickType == TypeInv /\ Tick => TypeInv'
  BY DEF TypeInv, TypeOK, StakesWithinPot, Tick

LEMMA PrepareRoundType ==
  ASSUME TypeInv, NEW payer \in Wallets, NEW id \in RoundIds,
         PrepareRound(payer, id)
  PROVE  TypeInv'
<1>1. EmptyRound(RoundRent) \in Round
  BY EmptyRoundType
<1>2. rounds' \in [RoundIds -> Round]
  BY <1>1 DEF TypeInv, TypeOK, PrepareRound
<1>3. StakesWithinPot'
  BY EmptyRoundType DEF TypeInv, TypeOK, StakesWithinPot, PrepareRound
<1>4. wallet' \in [Wallets -> Nat]
  BY DEF TypeInv, TypeOK, PrepareRound
<1>5. QED
  BY <1>2, <1>3, <1>4 DEF TypeInv, TypeOK, PrepareRound

LEMMA FundMinerType ==
  ASSUME TypeInv, NEW m \in Miners, NEW amount \in FundAmounts,
         FundMiner(m, amount)
  PROVE  TypeInv'
<1> DEFINE opened == IF miners[m].exists THEN miners[m] ELSE NewMiner(TRUE, MinerRent)
           rent == IF miners[m].exists THEN 0 ELSE MinerRent
           top_up == SaturatingSub(CHECKPOINT_FEE, opened.checkpoint_fee)
           balance == opened.rewards_sol + amount
           reserve == opened.checkpoint_fee + top_up
           lamports == opened.lamports + amount + top_up
           funded == [opened EXCEPT !.rewards_sol = balance,
                                    !.checkpoint_fee = reserve,
                                    !.lamports = lamports]
<1>1. opened \in Miner /\ rent \in Nat
  BY NewMinerType DEF TypeInv, TypeOK
<1>2. top_up \in Nat /\ reserve \in U64
  <2> HIDE DEF opened
  <2>1. opened.checkpoint_fee \in 0 .. U64_MAX /\ CHECKPOINT_FEE \in 0 .. U64_MAX
    BY <1>1 DEF Miner, U64
  <2>2. QED
    BY <2>1 DEF SaturatingSub, U64
<1>3. /\ balance \in U64
      /\ miners' = [miners EXCEPT ![m] = funded]
      /\ wallet' = [wallet EXCEPT ![m] = @ - (rent + amount + top_up)]
      /\ wallet[m] >= rent + amount + top_up
  BY DEF FundMiner
<1> HIDE DEF opened, rent, top_up
<1>4. lamports \in Nat
  BY <1>1, <1>2 DEF Miner
<1>5. miners' \in [Miners -> Miner]
  <2> HIDE DEF balance, reserve, lamports
  <2>1. funded \in Miner
    BY <1>1, <1>2, <1>3, <1>4 DEF Miner
  <2> HIDE DEF funded
  <2>2. QED
    BY <1>3, <2>1 DEF TypeInv, TypeOK
<1>6. wallet' \in [Wallets -> Nat]
  BY <1>1, <1>2, <1>3 DEF TypeInv, TypeOK, Wallets
<1>7. QED
  BY <1>5, <1>6 DEF TypeInv, TypeOK, StakesWithinPot, FundMiner

LEMMA RequestRandomnessType == TypeInv /\ RequestRandomness => TypeInv'
<1> SUFFICES ASSUME TypeInv, RequestRandomness PROVE TypeInv'
  OBVIOUS
<1> DEFINE id == board.round_id
           nonce == board.request_nonce + 1
           asked == [rounds[id] EXCEPT !.request_nonce = nonce]
<1>1. board \in Board /\ id \in RoundIds /\ nonce \in Nat /\ now \in Timestamps
  BY DEF TypeInv, TypeOK, Board, Timestamps
<1>2. /\ board' = [board EXCEPT !.request_nonce = nonce,
                                !.vrf_requested = TRUE,
                                !.vrf_fulfilled = FALSE,
                                !.vrf_requested_at = now]
      /\ rounds' = [rounds EXCEPT ![id] = asked]
      /\ requests' = requests \cup {[round_id |-> id, request_nonce |-> nonce]}
  BY <1>1 DEF RequestRandomness, TypeInv, TypeOK
<1> HIDE DEF id, nonce
<1>3. board' \in Board
  BY <1>1, <1>2 DEF Board
<1>4. rounds' \in [RoundIds -> Round] /\ StakesWithinPot'
  <2>1. /\ asked \in Round
        /\ asked.deployed = rounds[id].deployed
        /\ asked.total_deployed = rounds[id].total_deployed
    BY ZenonT(30), <1>1 DEF TypeInv, TypeOK, Round
  <2> HIDE DEF asked
  <2>2. QED
    BY <1>1, <1>2, <2>1 DEF TypeInv, TypeOK, StakesWithinPot
<1>5. requests' \subseteq [round_id : RoundIds, request_nonce : Nat]
  BY <1>1, <1>2 DEF TypeInv, TypeOK
<1>6. QED
  BY <1>3, <1>4, <1>5 DEF TypeInv, TypeOK, RequestRandomness

LEMMA AdvanceBoardType ==
  ASSUME TypeInv, board.round_id + 1 \in RoundIds
  PROVE  AdvanceBoard(board) \in Board
<1> DEFINE next == board.round_id + 1
           opens_at == now + INTERMISSION_SECONDS
<1>1. board \in Board /\ next \in RoundIds /\ opens_at \in Timestamps
      /\ 0 \in Timestamps /\ I64_MAX \in Timestamps
  BY DEF TypeInv, TypeOK, Timestamps
<1>2. AdvanceBoard(board)
        = [board EXCEPT !.round_id = next, !.start_ts = 0, !.end_ts = I64_MAX,
                        !.intermission_end_ts = opens_at,
                        !.vrf_requested_at = 0, !.vrf_requested = FALSE,
                        !.vrf_fulfilled = FALSE]
  BY DEF AdvanceBoard
<1> HIDE DEF next, opens_at
<1>3. QED
  BY <1>1, <1>2 DEF Board

LEMMA CancelRoundType == TypeInv /\ CancelRound => TypeInv'
<1> SUFFICES ASSUME TypeInv, CancelRound PROVE TypeInv'
  OBVIOUS
<1> DEFINE id == board.round_id
           expires_at == now + CLAIM_WINDOW_SECONDS
           canceled == [rounds[id] EXCEPT !.canceled = TRUE, !.resolved = TRUE,
                                          !.expires_at = expires_at]
<1>1. board' \in Board
  BY AdvanceBoardType DEF TypeInv, TypeOK, CancelRound
<1>2. id \in RoundIds /\ rounds[id] \in Round /\ expires_at \in Timestamps
  BY DEF TypeInv, TypeOK, Board, Timestamps
<1>3. rounds' = [rounds EXCEPT ![id] = canceled]
  BY <1>2 DEF CancelRound, TypeInv, TypeOK, Round
<1> HIDE DEF id, expires_at
<1>4. /\ canceled \in Round
      /\ canceled.deployed = rounds[id].deployed
      /\ canceled.total_deployed = rounds[id].total_deployed
  BY <1>2 DEF Round
<1> HIDE DEF canceled
<1>5. rounds' \in [RoundIds -> Round] /\ StakesWithinPot'
  BY <1>2, <1>3, <1>4 DEF TypeInv, TypeOK, StakesWithinPot
<1>6. QED
  BY <1>1, <1>5 DEF TypeInv, TypeOK, CancelRound

LEMMA ClaimSolType ==
  ASSUME TypeInv, NEW m \in Miners, ClaimSol(m)
  PROVE  TypeInv'
<1> DEFINE miner == miners[m]
           available == SaturatingSub(miner.lamports, MinerRent + miner.checkpoint_fee)
           amount == IF miner.rewards_sol <= available
                     THEN miner.rewards_sol ELSE available
           balance == miner.rewards_sol - amount
           lamports == miner.lamports - amount
           claimed == [miner EXCEPT !.rewards_sol = balance, !.lamports = lamports]
<1>1. miner \in Miner
  BY DEF TypeInv, TypeOK
<1>2. amount \in Nat /\ balance \in U64 /\ lamports \in Nat
  BY <1>1 DEF SaturatingSub, Miner, U64
<1>3. /\ miners' = [miners EXCEPT ![m] = claimed]
      /\ wallet' = [wallet EXCEPT ![m] = @ + amount]
  BY <1>1 DEF ClaimSol, TypeInv, TypeOK, Miner
<1> HIDE DEF amount, balance, lamports
<1>4. claimed \in Miner
  BY <1>1, <1>2 DEF Miner
<1> HIDE DEF claimed
<1>5. miners' \in [Miners -> Miner]
  BY <1>3, <1>4 DEF TypeInv, TypeOK
<1>6. wallet' \in [Wallets -> Nat]
  BY <1>2, <1>3 DEF TypeInv, TypeOK, Wallets
<1>7. QED
  BY <1>5, <1>6 DEF TypeInv, TypeOK, StakesWithinPot, ClaimSol

LEMMA ClaimAdminFeesType == TypeInv /\ ClaimAdminFees => TypeInv'
<1> SUFFICES ASSUME TypeInv, ClaimAdminFees PROVE TypeInv'
  OBVIOUS
<1> DEFINE lamports == treasury.lamports - treasury.admin_fees
<1>1. treasury' \in Treasury
  <2>1. lamports \in Nat /\ 0 \in U64
    BY DEF TypeInv, TypeOK, ClaimAdminFees, Treasury, U64
  <2>2. treasury' = [treasury EXCEPT !.admin_fees = 0, !.lamports = lamports]
    BY DEF ClaimAdminFees
  <2> HIDE DEF lamports
  <2>3. QED
    BY <2>1, <2>2 DEF TypeInv, TypeOK, Treasury
<1>2. wallet' \in [Wallets -> Nat]
  BY DEF TypeInv, TypeOK, ClaimAdminFees, Treasury, Wallets, U64
<1>3. QED
  BY <1>1, <1>2 DEF TypeInv, TypeOK, StakesWithinPot, ClaimAdminFees

LEMMA CheckpointType ==
  ASSUME TypeInv, NEW caller \in Wallets, NEW m \in Miners, Checkpoint(caller, m)
  PROVE  TypeInv'
<1> DEFINE miner == miners[m]
           id == miner.round_id
           rewards == IF now >= rounds[id].expires_at THEN 0
                      ELSE Owed(miner, rounds[id])
           fee == IF caller = m THEN 0 ELSE miner.checkpoint_fee
           balance == miner.rewards_sol + rewards
           reserve == miner.checkpoint_fee - fee
           lamports == miner.lamports + rewards - fee
           left == rounds[id].lamports - rewards
           settled == [miner EXCEPT !.checkpoint_id = id, !.rewards_sol = balance,
                                    !.checkpoint_fee = reserve,
                                    !.lamports = lamports]
<1>1. miner \in Miner /\ id \in RoundIds /\ rounds[id] \in Round
  BY DEF TypeInv, TypeOK, Checkpoint, MaySettle
<1>2. /\ rewards \in U64 /\ rounds[id].lamports >= rewards
      /\ balance \in U64 /\ miner.lamports + rewards >= fee
      /\ miners' = [miners EXCEPT ![m] = settled]
      /\ rounds' = [rounds EXCEPT ![id].lamports = left]
      /\ wallet' = [wallet EXCEPT ![caller] = @ + fee]
  BY <1>1 DEF Checkpoint, TypeInv, TypeOK
<1>3. fee \in Nat /\ reserve \in U64
  BY <1>1 DEF Miner, U64
<1> HIDE DEF rewards, fee
<1>4. lamports \in Nat /\ left \in Nat
  BY <1>1, <1>2, <1>3 DEF Miner, Round, U64
<1> HIDE DEF balance, reserve, lamports, left, id
<1>5. settled \in Miner
  BY <1>1, <1>2, <1>3, <1>4 DEF Miner
<1> HIDE DEF settled
<1>6. miners' \in [Miners -> Miner]
  BY <1>2, <1>5 DEF TypeInv, TypeOK
<1>7. rounds' \in [RoundIds -> Round] /\ StakesWithinPot'
  BY <1>1, <1>2, <1>4 DEF TypeInv, TypeOK, StakesWithinPot, Round
<1>8. wallet' \in [Wallets -> Nat]
  BY <1>2, <1>3 DEF TypeInv, TypeOK
<1>9. QED
  BY <1>6, <1>7, <1>8 DEF TypeInv, TypeOK, Checkpoint

(* settle_round keeps a round well typed and leaves its bets alone.        *)
LEMMA SettleRoundType ==
  ASSUME treasury \in Treasury, NEW round \in Round,
         round.randomness \in Randomness,
         \A s \in Squares : round.deployed[s] <= round.total_deployed
  PROVE  LET settled == SettleRound(round)
         IN  /\ settled.round \in Round
             /\ settled.round.deployed = round.deployed
             /\ settled.round.total_deployed = round.total_deployed
             /\ settled.round.lamports = round.lamports
             /\ settled.round.resolved = round.resolved
             /\ settled.round.request_nonce = round.request_nonce
             /\ settled.admin_fees \in Nat /\ settled.jackpot \in Nat
             /\ settled.motherlode \in {0, settled.jackpot}
<1> DEFINE winning == round.deployed[winning_square(round)]
           settlement == CalculateSettlement(round.total_deployed, winning)
           jackpot == treasury.motherlode + settlement.vaulted
           hit == winning > 0 /\ did_hit_motherlode(round)
           motherlode == IF hit THEN jackpot ELSE round.motherlode
           booked == [round EXCEPT !.total_winnings = settlement.winnings,
                                   !.total_vaulted = settlement.vaulted,
                                   !.motherlode = motherlode]
<1>1. round.total_deployed \in Nat /\ winning \in 0 .. round.total_deployed
  <2>1. round.total_deployed \in Nat /\ round.deployed \in [Squares -> U64]
    BY DEF Round, U64
  <2>2. winning_square(round) \in Squares
    BY DEF Randomness, winning_square
  <2>3. winning \in U64 /\ winning <= round.total_deployed
    BY <2>1, <2>2
  <2>4. QED
    BY <2>1, <2>3 DEF U64
<1>2. /\ settlement.admin_fee \in Nat /\ settlement.winnings \in Nat
      /\ settlement.vaulted \in Nat
  <2> HIDE DEF winning
  <2>1. settlement \in [admin_fee : 0 .. round.total_deployed,
                        principal : 0 .. winning, winnings : Nat, vaulted : Nat]
    BY <1>1, SettlementParts
  <2> HIDE DEF settlement
  <2>2. QED
    BY <1>1, <2>1
<1>3. SettleRound(round)
        = [round |-> booked,
           admin_fees |-> treasury.admin_fees + settlement.admin_fee,
           jackpot |-> jackpot,
           motherlode |-> IF hit THEN 0 ELSE jackpot]
  <2>1. [round EXCEPT !.total_winnings = settlement.winnings,
                      !.total_vaulted = settlement.vaulted,
                      !.motherlode = IF hit THEN jackpot ELSE @] = booked
    BY DEF Round
  <2> HIDE DEF booked
  <2>2. QED
    BY <2>1 DEF SettleRound, Award, JackpotLeft
<1> HIDE DEF settlement, hit
<1>4. jackpot \in Nat /\ treasury.admin_fees + settlement.admin_fee \in Nat
  BY <1>2 DEF Treasury, U64
<1>5. motherlode \in Nat
  BY <1>4 DEF Round
<1> HIDE DEF jackpot, motherlode
<1>6. /\ booked \in Round
      /\ booked.deployed = round.deployed
      /\ booked.total_deployed = round.total_deployed
      /\ booked.lamports = round.lamports
      /\ booked.resolved = round.resolved
      /\ booked.request_nonce = round.request_nonce
  BY <1>2, <1>5 DEF Round
<1> HIDE DEF booked
<1>7. QED
  BY <1>3, <1>4, <1>6

LEMMA CallbackResolveRoundType ==
  ASSUME TypeInv, NEW request \in requests, NEW randomness \in Randomness,
         CallbackResolveRound(request, randomness)
  PROVE  TypeInv'
<1> DEFINE id == request.round_id
           expires_at == now + CLAIM_WINDOW_SECONDS
           drawn == [rounds[id] EXCEPT !.randomness = randomness,
                                       !.resolved = TRUE,
                                       !.expires_at = expires_at]
           settled == SettleRound(drawn)
           to_treasury == TreasuryRent + settled.admin_fees + settled.motherlode
                            - treasury.lamports
           left == settled.round.lamports - to_treasury
           closed == [settled.round EXCEPT !.lamports = left]
<1>1. /\ id \in RoundIds /\ rounds[id] \in Round /\ treasury \in Treasury
      /\ expires_at \in Timestamps
      /\ board.round_id = id /\ id + 1 \in RoundIds
      /\ \A s \in Squares : rounds[id].deployed[s] <= rounds[id].total_deployed
  BY DEF TypeInv, TypeOK, StakesWithinPot, CallbackResolveRound, Awaited, Timestamps
<1>2. /\ settled.admin_fees \in U64 /\ settled.jackpot \in U64
      /\ settled.round.lamports >= to_treasury
      /\ rounds' = [rounds EXCEPT ![id] =
                      [settled.round EXCEPT !.lamports = @ - to_treasury]]
      /\ treasury' = [motherlode |-> settled.motherlode,
                      admin_fees |-> settled.admin_fees,
                      lamports |-> treasury.lamports + to_treasury]
      /\ board' = AdvanceBoard(board)
      /\ UNCHANGED <<now, prepared, miners, wallet, requests>>
  BY DEF CallbackResolveRound
<1> HIDE DEF id, expires_at
<1>3. /\ drawn \in Round /\ drawn.randomness \in Randomness
      /\ drawn.deployed = rounds[id].deployed
      /\ drawn.total_deployed = rounds[id].total_deployed
  BY <1>1 DEF Round
<1> HIDE DEF drawn
<1>4. /\ settled.round \in Round
      /\ settled.round.deployed = rounds[id].deployed
      /\ settled.round.total_deployed = rounds[id].total_deployed
      /\ settled.motherlode \in U64
  BY <1>1, <1>2, <1>3, SettleRoundType DEF U64
<1> HIDE DEF settled
<1>5. to_treasury \in Int /\ treasury.lamports + to_treasury \in Nat
  BY <1>1, <1>2, <1>4 DEF Treasury, U64
<1>6. left \in Nat
  BY <1>2, <1>4, <1>5 DEF Round
<1>7. rounds' = [rounds EXCEPT ![id] = closed]
  BY <1>2, <1>4 DEF Round
<1> HIDE DEF to_treasury, left
<1>8. /\ closed \in Round
      /\ closed.deployed = rounds[id].deployed
      /\ closed.total_deployed = rounds[id].total_deployed
  BY <1>4, <1>6 DEF Round
<1> HIDE DEF closed
<1>9. rounds' \in [RoundIds -> Round] /\ StakesWithinPot'
  BY <1>1, <1>7, <1>8 DEF TypeInv, TypeOK, StakesWithinPot
<1>10. treasury' \in Treasury
  BY <1>2, <1>4, <1>5 DEF Treasury
<1>11. board' \in Board
  BY <1>1, <1>2, AdvanceBoardType
<1>12. QED
  BY <1>2, <1>9, <1>10, <1>11 DEF TypeInv, TypeOK

(* What a deploy costs: at least the amount it adds to one square.         *)
LEMMA DeployCost ==
  ASSUME NEW amount \in Nat, NEW selected \in SUBSET Squares, selected # {}
  PROVE  /\ amount * Cardinality(selected) \in Nat
         /\ amount <= amount * Cardinality(selected)
<1>1. IsFiniteSet(selected)
  BY PlayersAssumption, FS_Subset
<1>2. Cardinality(selected) \in Nat /\ Cardinality(selected) # 0
  BY <1>1, FS_CardinalityType, FS_EmptySet
<1>3. ASSUME NEW n \in Nat, n # 0
      PROVE  amount * n \in Nat /\ amount <= amount * n
  <2>1. n - 1 \in Nat
    BY <1>3
  <2>2. amount * (n - 1) \in Nat
    BY <2>1, ProductNat
  <2>3. amount * n = amount * (n - 1) + amount
    OBVIOUS
  <2>4. QED
    BY <2>2, <2>3
<1>4. QED
  BY <1>2, <1>3

(* A miner allowed to join a round can pay the fee it sets aside.          *)
LEMMA JoinedType ==
  ASSUME NEW miner \in Miner, NEW id \in RoundIds, MayJoin(miner)
  PROVE  /\ Joined(miner, id) \in Miner
         /\ Joined(miner, id).round_id = id
<1> DEFINE charge == IF miner.checkpoint_fee = 0 THEN CHECKPOINT_FEE ELSE 0
           balance == miner.rewards_sol - charge
           reserve == miner.checkpoint_fee + charge
           nothing == [s \in Squares |-> 0]
<1>1. /\ balance \in U64 /\ reserve \in U64 /\ nothing \in [Squares -> U64]
  BY DEF MayJoin, Miner, U64
<1>2. Joined(miner, id)
        = [miner EXCEPT !.rewards_sol = balance, !.checkpoint_fee = reserve,
                        !.deployed = nothing, !.round_id = id]
  BY DEF Joined, Miner
<1> HIDE DEF balance, reserve, nothing
<1>3. QED
  BY <1>1, <1>2 DEF Miner

LEMMA StartedBoardType == TypeInv => StartedBoard \in Board
<1> SUFFICES ASSUME TypeInv PROVE StartedBoard \in Board
  OBVIOUS
<1>1. board \in Board /\ now \in Timestamps
      /\ now + ROUND_DURATION_SECONDS \in Timestamps
  BY DEF TypeInv, TypeOK, Timestamps
<1>2. QED
  BY <1>1 DEF StartedBoard, Board

LEMMA DeployType ==
  ASSUME TypeInv, NEW m \in Miners, NEW amount \in DeployAmounts,
         NEW mask \in SUBSET Squares, NEW expected_nonce \in 0 .. MaxNonce,
         Deploy(m, amount, mask, expected_nonce)
  PROVE  TypeInv'
<1> DEFINE id == board.round_id
           round == rounds[id]
           is_new_round == miners[m].round_id # id
           miner == IF is_new_round THEN Joined(miners[m], id) ELSE miners[m]
           selected == Selected(miner, mask)
           total_cost == amount * Cardinality(selected)
           Bet(squares) == [s \in Squares |->
                     IF s \in selected THEN squares[s] + amount ELSE squares[s]]
           placed == Bet(miner.deployed)
           balance == miner.rewards_sol - total_cost
           nonce == miner.transaction_nonce + 1
           lamports == miner.lamports - total_cost
           bettor == [miner EXCEPT !.deployed = placed, !.rewards_sol = balance,
                                   !.transaction_nonce = nonce,
                                   !.lamports = lamports]
           deployed == Bet(round.deployed)
           count == [s \in Squares |-> IF s \in selected THEN round.count[s] + 1
                                                         ELSE round.count[s]]
           players == IF is_new_round THEN round.total_miners + 1
                                      ELSE round.total_miners
           total == round.total_deployed + total_cost
           pot == round.lamports + total_cost
           grown == [round EXCEPT !.deployed = deployed, !.count = count,
                                  !.total_miners = players,
                                  !.total_deployed = total, !.lamports = pot]
<1>1. /\ id \in RoundIds /\ round \in Round
      /\ \A s \in Squares : round.deployed[s] <= round.total_deployed
      /\ amount \in Nat /\ amount > 0
  BY DEF TypeInv, TypeOK, StakesWithinPot, Board
<1>2. miner \in Miner
  <2>1. miners[m] \in Miner
    BY DEF TypeInv, TypeOK
  <2>2. is_new_round => MayJoin(miners[m])
    BY DEF Deploy
  <2>3. QED
    BY <1>1, <2>1, <2>2, JoinedType
<1>3. /\ selected \in SUBSET Squares /\ selected # {}
      /\ CanPay(miner, total_cost)
      /\ miner.transaction_nonce < MaxNonce
      /\ total \in U64
      /\ \A s \in selected : round.deployed[s] + amount \in U64
      /\ board' = StartedBoard
      /\ UNCHANGED <<now, prepared, treasury, wallet, requests>>
  BY DEF Deploy, Selected
<1>4. miners' = [miners EXCEPT ![m] = bettor]
  <2>1. [miner EXCEPT !.deployed = Bet(@), !.rewards_sol = @ - total_cost,
                      !.transaction_nonce = @ + 1,
                      !.lamports = @ - total_cost] = bettor
    <3> HIDE DEF miner, total_cost, selected
    <3>1. QED
      BY <1>2 DEF Miner
  <2> HIDE DEF bettor
  <2>2. QED
    BY <2>1 DEF Deploy
<1>5. rounds' = [rounds EXCEPT ![id] = grown]
  <2>1. [round EXCEPT !.deployed = Bet(@),
                      !.count = [s \in Squares |->
                                   IF s \in selected THEN @[s] + 1 ELSE @[s]],
                      !.total_miners = IF is_new_round THEN @ + 1 ELSE @,
                      !.total_deployed = @ + total_cost,
                      !.lamports = @ + total_cost] = grown
    <3> HIDE DEF round, total_cost, selected, is_new_round
    <3>1. QED
      BY <1>1 DEF Round
  <2> HIDE DEF grown
  <2>2. QED
    BY <2>1 DEF Deploy
<1> HIDE DEF selected, miner
<1>6. total_cost \in Nat /\ amount <= total_cost
  BY <1>1, <1>3, DeployCost
<1> HIDE DEF total_cost, id, is_new_round
<1>7. bettor \in Miner
  <2>1. /\ balance \in U64 /\ lamports \in Nat /\ nonce \in 0 .. MaxNonce
    BY <1>2, <1>3, <1>6 DEF CanPay, Miner, U64
  <2>2. placed \in [Squares -> U64]
    <3>1. ASSUME NEW s \in selected PROVE miner.deployed[s] + amount \in U64
      \* a selected square is one the miner holds nothing on
      <4>1. miner.deployed[s] = 0
        BY <3>1 DEF selected, Selected
      <4>2. amount <= total /\ total \in U64
        BY <1>1, <1>3, <1>6 DEF Round, U64
      <4>3. QED
        BY <1>1, <4>1, <4>2 DEF U64
    <3>2. QED
      BY <1>2, <3>1 DEF Miner
  <2> HIDE DEF placed, balance, lamports, nonce
  <2>3. QED
    BY <1>2, <2>1, <2>2 DEF Miner
<1>8. /\ grown \in Round
      /\ \A s \in Squares : grown.deployed[s] <= grown.total_deployed
  <2>1. deployed \in [Squares -> U64] /\ count \in [Squares -> Nat]
    BY <1>1, <1>3 DEF Round
  <2>2. players \in Nat /\ pot \in Nat /\ total \in U64
    BY <1>1, <1>3, <1>6 DEF Round
  <2>3. \A s \in Squares : deployed[s] <= total
    BY <1>1, <1>6 DEF Round, U64
  <2> HIDE DEF deployed, count, players, total, pot, round
  <2>4. QED
    BY <1>1, <2>1, <2>2, <2>3 DEF Round
<1> HIDE DEF bettor, grown
<1>9. miners' \in [Miners -> Miner]
  BY <1>4, <1>7 DEF TypeInv, TypeOK
<1>10. rounds' \in [RoundIds -> Round] /\ StakesWithinPot'
  BY <1>1, <1>5, <1>8 DEF TypeInv, TypeOK, StakesWithinPot
<1>11. QED
  BY <1>3, <1>9, <1>10, StartedBoardType DEF TypeInv, TypeOK

LEMMA StepType == TypeInv /\ [Next]_vars => TypeInv'
<1> SUFFICES ASSUME TypeInv, [Next]_vars PROVE TypeInv'
  OBVIOUS
<1>1. CASE UNCHANGED vars
  BY <1>1 DEF vars, TypeInv, TypeOK, StakesWithinPot
<1>2. CASE Next
  BY <1>2, TickType, PrepareRoundType, FundMinerType, DeployType,
     RequestRandomnessType, CallbackResolveRoundType, CancelRoundType,
     CheckpointType, ClaimSolType, ClaimAdminFeesType DEF Next
<1>3. QED
  BY <1>1, <1>2

(* No sequence of instructions takes an account out of its fields' ranges: *)
(* no balance, pot or treasury underflows, no u64 overflows unnoticed and  *)
(* no timestamp reaches i64::MAX by accident.                              *)
THEOREM TypeCorrect == Spec => []TypeOK
<1>1. Spec => []TypeInv
  BY InitTypeInv, StepType, PTL DEF Spec
<1>2. TypeInv => TypeOK
  BY DEF TypeInv
<1>3. QED
  BY <1>1, <1>2, PTL

-----------------------------------------------------------------------------
(***************************************************************************)
(* The round lifecycle: the board and the rounds always agree (PhaseInv),  *)
(* so bets are frozen by the request for randomness and a round that has   *)
(* ended stays ended.                                                      *)
(*                                                                         *)
(* Both action properties speak of every round, and a handler only looks   *)
(* at the current one: PhaseInv is what rules the other rounds out.        *)
(***************************************************************************)

Inv == TypeInv /\ PhaseInv

LEMMA EmptyRoundFields ==
  ASSUME NEW lamports
  PROVE  /\ ~EmptyRound(lamports).resolved /\ ~EmptyRound(lamports).canceled
         /\ EmptyRound(lamports).total_deployed = 0
         /\ EmptyRound(lamports).request_nonce = 0
  BY DEF EmptyRound

(* The rounds a step may touch, by where they lie around the current one.  *)
LEMMA PhaseFacts ==
  ASSUME Inv
  PROVE  /\ board \in Board /\ rounds \in [RoundIds -> Round]
         /\ board.round_id \in RoundIds /\ prepared \subseteq RoundIds
         /\ now \in Nat /\ now + ROUND_DURATION_SECONDS < I64_MAX
         /\ \A id \in RoundIds : id \notin prepared => id > board.round_id
         /\ \A id \in RoundIds : rounds[id].resolved => id < board.round_id
<1>1. /\ board \in Board /\ rounds \in [RoundIds -> Round]
      /\ board.round_id \in RoundIds /\ prepared \subseteq RoundIds
      /\ now \in Nat /\ now + ROUND_DURATION_SECONDS < I64_MAX
  <2>1. now \in 0 .. MaxTime /\ board \in Board
    BY DEF Inv, TypeInv, TypeOK
  <2>2. now \in Nat /\ now + ROUND_DURATION_SECONDS < I64_MAX
    BY <2>1
  <2>3. board.round_id \in RoundIds
    BY <2>1 DEF Board
  <2>4. QED
    BY <2>1, <2>2, <2>3 DEF Inv, TypeInv, TypeOK
<1>2. ASSUME NEW id \in RoundIds, id \notin prepared PROVE id > board.round_id
  <2>1. id # board.round_id
    BY <1>2 DEF Inv, PhaseInv, CurrentOpen
  <2>2. ~ (id < board.round_id)
    BY <1>2 DEF Inv, PhaseInv, ClosedBefore
  <2>3. QED
    BY <1>1, <2>1, <2>2 DEF RoundIds
<1>3. ASSUME NEW id \in RoundIds, rounds[id].resolved PROVE id < board.round_id
  <2>1. id # board.round_id
    BY <1>3 DEF Inv, PhaseInv, CurrentOpen
  <2>2. ~ (id > board.round_id)
    BY <1>3, EmptyRoundFields DEF Inv, PhaseInv, UntouchedAfter
  <2>3. QED
    BY <1>1, <2>1, <2>2 DEF RoundIds
<1>4. QED
  BY <1>1, <1>2, <1>3

LEMMA InitPhase == Init => PhaseInv
<1> SUFFICES ASSUME Init PROVE PhaseInv
  OBVIOUS
<1>1. /\ board.round_id = 0 /\ board.end_ts = I64_MAX
      /\ ~board.vrf_requested /\ ~board.vrf_fulfilled
      /\ prepared = {0} /\ 0 \in RoundIds
      /\ rounds[0] = EmptyRound(RoundRent)
  <2>1. board.round_id = 0 /\ board.end_ts = I64_MAX
        /\ ~board.vrf_requested /\ ~board.vrf_fulfilled
    BY DEF Init
  <2>2. prepared = {0} /\ 0 \in RoundIds
    BY DEF Init, RoundIds
  <2>3. rounds = [id \in RoundIds |-> EmptyRound(IF id = 0 THEN RoundRent ELSE 0)]
    BY DEF Init
  <2>4. QED
    BY <2>1, <2>2, <2>3
<1>2. ClosedBefore
  BY <1>1 DEF ClosedBefore, RoundIds
<1>3. CurrentOpen /\ ClockRunsOnlyOnBets /\ RequestMatchesRound
  BY <1>1, EmptyRoundFields DEF CurrentOpen, ClockRunsOnlyOnBets, RequestMatchesRound
<1>4. UntouchedAfter
  BY DEF Init, UntouchedAfter
<1>5. QED
  BY <1>2, <1>3, <1>4 DEF PhaseInv

LEMMA PrepareRoundPhase ==
  ASSUME Inv, NEW payer \in Wallets, NEW id \in RoundIds, PrepareRound(payer, id)
  PROVE  PhaseInv'
<1>1. id > board.round_id
  BY PhaseFacts DEF PrepareRound
<1>2. /\ board' = board /\ now' = now /\ prepared' = prepared \cup {id}
      /\ rounds' = [rounds EXCEPT ![id] = EmptyRound(RoundRent)]
  BY DEF PrepareRound
<1>3. \A i \in RoundIds : i <= board.round_id => rounds'[i] = rounds[i]
  BY <1>1, <1>2, PhaseFacts DEF RoundIds
<1>4. ClosedBefore' /\ CurrentOpen' /\ ClockRunsOnlyOnBets' /\ RequestMatchesRound'
  BY <1>2, <1>3, PhaseFacts
     DEF Inv, PhaseInv, ClosedBefore, CurrentOpen, ClockRunsOnlyOnBets,
         RequestMatchesRound, RoundIds
<1>5. UntouchedAfter'
  BY <1>2, PhaseFacts DEF Inv, PhaseInv, UntouchedAfter
<1>6. QED
  BY <1>4, <1>5 DEF PhaseInv

LEMMA DeployPhase ==
  ASSUME Inv, NEW m \in Miners, NEW amount \in DeployAmounts,
         NEW mask \in SUBSET Squares, NEW expected_nonce \in 0 .. MaxNonce,
         Deploy(m, amount, mask, expected_nonce)
  PROVE  PhaseInv'
<1> DEFINE id == board.round_id
           miner == IF miners[m].round_id # id THEN Joined(miners[m], id)
                                               ELSE miners[m]
           total_cost == amount * Cardinality(Selected(miner, mask))
<1>1. total_cost \in Nat /\ total_cost > 0
  <2>1. Selected(miner, mask) \in SUBSET Squares /\ Selected(miner, mask) # {}
    BY DEF Deploy, Selected
  <2>2. amount \in Nat /\ amount > 0
    OBVIOUS
  <2> DEFINE selected == Selected(miner, mask)
  <2>3. selected \in SUBSET Squares /\ selected # {}
    BY <2>1
  <2> HIDE DEF selected
  <2>4. amount * Cardinality(selected) \in Nat
        /\ amount <= amount * Cardinality(selected)
    BY <2>2, <2>3, DeployCost
  <2>5. QED
    BY <2>2, <2>4 DEF selected
<1>2. /\ board' = StartedBoard /\ prepared' = prepared /\ now' = now
      /\ ~board.vrf_requested
      /\ \A i \in RoundIds : i # id => rounds'[i] = rounds[i]
      /\ rounds'[id].resolved = rounds[id].resolved
      /\ rounds'[id].canceled = rounds[id].canceled
      /\ rounds'[id].request_nonce = rounds[id].request_nonce
      /\ rounds'[id].total_deployed = rounds[id].total_deployed + total_cost
  BY SMTT(30), PhaseFacts DEF Deploy, BettingOpen, Round
<1>3. /\ board'.round_id = id /\ board'.end_ts # I64_MAX
      /\ board'.vrf_requested = board.vrf_requested
      /\ board'.vrf_fulfilled = board.vrf_fulfilled
  <2>1. board' = IF board.end_ts = I64_MAX
                 THEN [board EXCEPT !.start_ts = now,
                                    !.end_ts = now + ROUND_DURATION_SECONDS]
                 ELSE board
    BY <1>2 DEF StartedBoard
  <2>2. now + ROUND_DURATION_SECONDS # I64_MAX
    BY PhaseFacts
  <2>3. board \in Board
    BY PhaseFacts
  <2> HIDE DEF id
  <2>4. /\ board'.round_id = board.round_id /\ board'.end_ts # I64_MAX
        /\ board'.vrf_requested = board.vrf_requested
        /\ board'.vrf_fulfilled = board.vrf_fulfilled
    BY <2>1, <2>2, <2>3 DEF Board
  <2>5. QED
    BY <2>4 DEF id
<1> HIDE DEF total_cost
<1>4. ClosedBefore' /\ CurrentOpen' /\ UntouchedAfter'
  BY <1>2, <1>3, PhaseFacts
     DEF Inv, PhaseInv, ClosedBefore, CurrentOpen, UntouchedAfter, RoundIds
<1>5. ClockRunsOnlyOnBets'
  <2>1. rounds[id].total_deployed \in Nat
    BY PhaseFacts DEF Round, U64
  <2>2. QED
    BY <1>1, <1>2, <1>3, <2>1 DEF ClockRunsOnlyOnBets
<1>6. RequestMatchesRound'
  BY <1>2, <1>3 DEF Inv, PhaseInv, RequestMatchesRound
<1>7. QED
  BY <1>4, <1>5, <1>6 DEF PhaseInv

LEMMA RequestRandomnessPhase == Inv /\ RequestRandomness => PhaseInv'
<1> SUFFICES ASSUME Inv, RequestRandomness PROVE PhaseInv'
  OBVIOUS
<1> DEFINE id == board.round_id
           nonce == board.request_nonce + 1
<1>1. /\ prepared' = prepared /\ now' = now /\ now >= board.end_ts
      /\ board'.round_id = id /\ board'.end_ts = board.end_ts
      /\ board'.vrf_requested /\ ~board'.vrf_fulfilled
      /\ board'.vrf_requested_at = now /\ board'.request_nonce = nonce
      /\ \A i \in RoundIds : i # id => rounds'[i] = rounds[i]
      /\ rounds'[id].resolved = rounds[id].resolved
      /\ rounds'[id].canceled = rounds[id].canceled
      /\ rounds'[id].request_nonce = nonce
      /\ rounds'[id].total_deployed = rounds[id].total_deployed
  BY PhaseFacts DEF RequestRandomness, Board, Round
<1> HIDE DEF nonce
<1>2. ClosedBefore' /\ CurrentOpen' /\ UntouchedAfter' /\ ClockRunsOnlyOnBets'
  BY <1>1, PhaseFacts
     DEF Inv, PhaseInv, ClosedBefore, CurrentOpen, UntouchedAfter,
         ClockRunsOnlyOnBets, RoundIds
<1>3. RequestMatchesRound'
  <2>1. board'.end_ts <= board'.vrf_requested_at
    BY <1>1, PhaseFacts DEF Board, Timestamps
  <2>2. QED
    BY <1>1, <2>1, PhaseFacts DEF RequestMatchesRound
<1>4. QED
  BY <1>2, <1>3 DEF PhaseInv

(* Closing the current round and moving the board on keeps the phases,     *)
(* whatever else happens to the closed round.                              *)
LEMMA AdvancePhase ==
  ASSUME Inv, NEW id, id = board.round_id, id + 1 \in prepared,
         board' = AdvanceBoard(board), prepared' = prepared,
         \A i \in RoundIds : i # id => rounds'[i] = rounds[i],
         rounds'[id].resolved
  PROVE  PhaseInv'
<1>1. /\ board'.round_id = id + 1 /\ board'.end_ts = I64_MAX
      /\ ~board'.vrf_requested /\ ~board'.vrf_fulfilled
  BY PhaseFacts DEF AdvanceBoard, Board
<1>2. id \in RoundIds /\ id + 1 \in RoundIds /\ id + 1 > id
  BY PhaseFacts DEF RoundIds
<1>3. rounds'[id + 1] = EmptyRound(RoundRent)
  <2>1. rounds[id + 1]
          = EmptyRound(IF id + 1 \in prepared THEN RoundRent ELSE 0)
    BY <1>2 DEF Inv, PhaseInv, UntouchedAfter
  <2>2. rounds'[id + 1] = rounds[id + 1]
    BY <1>2 DEF RoundIds
  <2>3. QED
    BY <2>1, <2>2
<1>4. ClosedBefore'
  BY <1>1, <1>2 DEF Inv, PhaseInv, ClosedBefore, CurrentOpen, RoundIds
<1>5. CurrentOpen' /\ ClockRunsOnlyOnBets' /\ RequestMatchesRound'
  BY <1>1, <1>3
     DEF CurrentOpen, ClockRunsOnlyOnBets, RequestMatchesRound, EmptyRound
<1>6. UntouchedAfter'
  BY <1>1, <1>2 DEF Inv, PhaseInv, UntouchedAfter, RoundIds
<1>7. QED
  BY <1>4, <1>5, <1>6 DEF PhaseInv

LEMMA CallbackResolveRoundPhase ==
  ASSUME Inv, NEW request \in requests, NEW randomness \in Randomness,
         CallbackResolveRound(request, randomness)
  PROVE  PhaseInv'
<1> DEFINE id == request.round_id
           drawn == [rounds[id] EXCEPT !.randomness = randomness,
                                       !.resolved = TRUE,
                                       !.expires_at = now + CLAIM_WINDOW_SECONDS]
           settled == SettleRound(drawn)
           to_treasury == TreasuryRent + settled.admin_fees + settled.motherlode
                            - treasury.lamports
<1>1. id = board.round_id /\ id \in RoundIds /\ rounds[id] \in Round
  BY PhaseFacts DEF CallbackResolveRound, Awaited
<1>2. /\ id + 1 \in prepared /\ prepared' = prepared
      /\ board' = AdvanceBoard(board)
      /\ rounds' = [rounds EXCEPT ![id] =
                      [settled.round EXCEPT !.lamports = @ - to_treasury]]
  BY DEF CallbackResolveRound
<1>3. settled.round.resolved /\ settled.round \in Round
  <2>1. /\ drawn \in Round /\ drawn.resolved
        /\ drawn.randomness \in Randomness
        /\ \A s \in Squares : drawn.deployed[s] <= drawn.total_deployed
    <3>1. now + CLAIM_WINDOW_SECONDS \in Timestamps
      BY DEF Inv, TypeInv, TypeOK, Timestamps
    <3>2. \A s \in Squares : rounds[id].deployed[s] <= rounds[id].total_deployed
      BY <1>1 DEF Inv, TypeInv, StakesWithinPot
    <3>3. QED
      BY <1>1, <3>1, <3>2 DEF Round
  <2> HIDE DEF drawn
  <2>2. QED
    BY <2>1, SettleRoundType DEF Inv, TypeInv, TypeOK
<1>4. [settled.round EXCEPT !.lamports = @ - to_treasury].resolved
  <2> HIDE DEF settled, to_treasury
  <2>1. QED
    BY <1>3 DEF Round
<1> HIDE DEF settled, to_treasury
<1>5. rounds'[id].resolved
  BY <1>1, <1>2, <1>4, PhaseFacts
<1>6. \A i \in RoundIds : i # id => rounds'[i] = rounds[i]
  BY <1>2, PhaseFacts
<1> HIDE DEF id
<1>7. QED
  BY <1>1, <1>2, <1>5, <1>6, AdvancePhase

LEMMA CancelRoundPhase == Inv /\ CancelRound => PhaseInv'
<1> SUFFICES ASSUME Inv, CancelRound PROVE PhaseInv'
  OBVIOUS
<1> DEFINE id == board.round_id
<1>1. /\ id + 1 \in prepared /\ prepared' = prepared
      /\ board' = AdvanceBoard(board)
      /\ \A i \in RoundIds : i # id => rounds'[i] = rounds[i]
      /\ rounds'[id].resolved
  BY PhaseFacts DEF CancelRound, Round
<1>2. QED
  BY <1>1, AdvancePhase

LEMMA CheckpointPhase ==
  ASSUME Inv, NEW caller \in Wallets, NEW m \in Miners, Checkpoint(caller, m)
  PROVE  PhaseInv'
<1> DEFINE id == miners[m].round_id
<1>1. id \in RoundIds /\ id < board.round_id
  BY PhaseFacts DEF Checkpoint, MaySettle
<1>2. /\ board' = board /\ now' = now /\ prepared' = prepared
      /\ \A i \in RoundIds : i # id => rounds'[i] = rounds[i]
      /\ rounds'[id].resolved = rounds[id].resolved
  BY <1>1, PhaseFacts DEF Checkpoint, Round
<1> HIDE DEF id
<1>3. board.round_id \in RoundIds /\ board.round_id # id
  BY <1>1, PhaseFacts DEF RoundIds
<1>4. ClosedBefore' /\ UntouchedAfter'
  <2>1. ClosedBefore /\ UntouchedAfter
    BY DEF Inv, PhaseInv
  <2>2. \A i \in RoundIds : i > board.round_id => i # id
    BY <1>1, <1>3 DEF RoundIds
  <2>3. \A i \in RoundIds : rounds'[i].resolved = rounds[i].resolved
    BY <1>2
  <2>4. ClosedBefore'
    BY <1>2, <2>1, <2>3 DEF ClosedBefore
  <2>5. UntouchedAfter'
    BY <1>2, <2>1, <2>2 DEF UntouchedAfter
  <2>6. QED
    BY <2>4, <2>5
<1>5. CurrentOpen' /\ ClockRunsOnlyOnBets' /\ RequestMatchesRound'
  BY <1>2, <1>3
     DEF Inv, PhaseInv, CurrentOpen, ClockRunsOnlyOnBets, RequestMatchesRound
<1>6. QED
  BY <1>4, <1>5 DEF PhaseInv

(* Steps that touch neither the board nor a round.                         *)
LEMMA ElsewherePhase ==
  ASSUME Inv, UNCHANGED <<board, rounds, prepared>>, now' \in Nat, now' >= now
  PROVE  PhaseInv'
<1>1. now \in Nat /\ board \in Board
  BY PhaseFacts
<1>2. RequestMatchesRound'
  BY <1>1 DEF Inv, PhaseInv, RequestMatchesRound, Board, Timestamps
<1>3. QED
  BY <1>2 DEF Inv, PhaseInv, ClosedBefore, CurrentOpen, UntouchedAfter,
              ClockRunsOnlyOnBets

LEMMA StepPhase == Inv /\ [Next]_vars => PhaseInv'
<1> SUFFICES ASSUME Inv, [Next]_vars PROVE PhaseInv'
  OBVIOUS
<1>1. now \in Nat
  BY PhaseFacts
<1>2. CASE UNCHANGED vars
  BY <1>1, <1>2, ElsewherePhase DEF vars
<1>3. CASE Tick
  BY <1>1, <1>3, ElsewherePhase DEF Tick
<1>4. CASE \E m \in Miners, amount \in FundAmounts : FundMiner(m, amount)
  BY <1>1, <1>4, ElsewherePhase DEF FundMiner
<1>5. CASE (\E m \in Miners : ClaimSol(m)) \/ ClaimAdminFees
  <2>1. UNCHANGED <<now, board, rounds, prepared>>
    BY <1>5, Zenon DEF ClaimSol, ClaimAdminFees
  <2>2. QED
    BY <1>1, <2>1, ElsewherePhase
<1>6. QED
  BY <1>2, <1>3, <1>4, <1>5, PrepareRoundPhase, DeployPhase,
     RequestRandomnessPhase, CallbackResolveRoundPhase, CancelRoundPhase,
     CheckpointPhase DEF Next

(* The board and the rounds always tell one story: see PhaseInv.           *)
THEOREM PhasesAgree == Spec => []PhaseInv
<1>1. Init => Inv
  BY InitTypeInv, InitPhase DEF Inv
<1>2. Inv /\ [Next]_vars => Inv'
  BY StepType, StepPhase DEF Inv
<1>3. Inv => PhaseInv
  BY DEF Inv
<1>4. QED
  BY <1>1, <1>2, <1>3, PTL DEF Spec

-----------------------------------------------------------------------------
(***************************************************************************)
(* What a step may do to a round.                                          *)
(***************************************************************************)
SameBets(id) ==
  /\ rounds'[id].deployed = rounds[id].deployed
  /\ rounds'[id].total_deployed = rounds[id].total_deployed
  /\ rounds'[id].request_nonce = rounds[id].request_nonce

LamportsOnly(id) ==
  \E l \in Nat : rounds'[id] = [rounds[id] EXCEPT !.lamports = l]

(* prepare_round changes a round that does not exist yet, deploy and       *)
(* request_randomness the open round before any request, the callback and  *)
(* cancel_round the open round but not its bets, checkpoint the lamports   *)
(* of a closed round; everything else leaves every round alone.            *)
RoundStep(id) ==
  \/ rounds'[id] = rounds[id]
  \/ rounds[id] = EmptyRound(0)
  \/ id = board.round_id /\ ~board.vrf_requested
  \/ id = board.round_id /\ SameBets(id)
  \/ LamportsOnly(id)

LEMMA PrepareRoundStep ==
  ASSUME Inv, NEW payer \in Wallets, NEW i \in RoundIds, PrepareRound(payer, i)
  PROVE  \A id \in RoundIds : RoundStep(id)
<1>1. i > board.round_id /\ i \notin prepared
  BY PhaseFacts DEF PrepareRound
<1>2. rounds[i] = EmptyRound(0)
  <2>1. rounds[i] = EmptyRound(IF i \in prepared THEN RoundRent ELSE 0)
    BY <1>1 DEF Inv, PhaseInv, UntouchedAfter
  <2>2. QED
    BY <1>1, <2>1
<1>3. \A id \in RoundIds : id # i => rounds'[id] = rounds[id]
  BY PhaseFacts DEF PrepareRound
<1>4. QED
  BY <1>2, <1>3 DEF RoundStep

LEMMA CallbackStep ==
  ASSUME Inv, NEW request \in requests, NEW randomness \in Randomness,
         CallbackResolveRound(request, randomness)
  PROVE  \A id \in RoundIds : RoundStep(id)
<1> DEFINE id == request.round_id
           drawn == [rounds[id] EXCEPT !.randomness = randomness,
                                       !.resolved = TRUE,
                                       !.expires_at = now + CLAIM_WINDOW_SECONDS]
           settled == SettleRound(drawn)
           to_treasury == TreasuryRent + settled.admin_fees + settled.motherlode
                            - treasury.lamports
           left == settled.round.lamports - to_treasury
<1>1. id = board.round_id /\ id \in RoundIds /\ rounds[id] \in Round
  BY PhaseFacts DEF CallbackResolveRound, Awaited
<1>2. rounds' = [rounds EXCEPT ![id] =
                   [settled.round EXCEPT !.lamports = @ - to_treasury]]
  BY DEF CallbackResolveRound
<1>3. /\ settled.round \in Round
      /\ settled.round.deployed = rounds[id].deployed
      /\ settled.round.total_deployed = rounds[id].total_deployed
      /\ settled.round.request_nonce = rounds[id].request_nonce
  <2>1. /\ drawn \in Round
        /\ drawn.randomness \in Randomness
        /\ drawn.deployed = rounds[id].deployed
        /\ drawn.total_deployed = rounds[id].total_deployed
        /\ drawn.request_nonce = rounds[id].request_nonce
    <3>1. now + CLAIM_WINDOW_SECONDS \in Timestamps
      BY DEF Inv, TypeInv, TypeOK, Timestamps
    <3>2. QED
      BY <1>1, <3>1 DEF Round
  <2>2. \A s \in Squares : drawn.deployed[s] <= drawn.total_deployed
    BY <1>1, <2>1 DEF Inv, TypeInv, StakesWithinPot
  <2> HIDE DEF drawn
  <2>3. QED
    BY <2>1, <2>2, SettleRoundType DEF Inv, TypeInv, TypeOK
<1> HIDE DEF settled, to_treasury
<1>4. SameBets(id)
  <2>1. rounds'[id] = [settled.round EXCEPT !.lamports = left]
    BY <1>1, <1>2, <1>3, PhaseFacts DEF Round
  <2> HIDE DEF left, id
  <2>2. QED
    BY <1>3, <2>1 DEF Round, SameBets
<1>5. \A i \in RoundIds : i # id => rounds'[i] = rounds[i]
  BY <1>2, PhaseFacts
<1>6. QED
  BY <1>1, <1>4, <1>5 DEF RoundStep

LEMMA CheckpointStep ==
  ASSUME Inv, NEW caller \in Wallets, NEW m \in Miners, Checkpoint(caller, m)
  PROVE  \A id \in RoundIds : RoundStep(id)
<1> DEFINE i == miners[m].round_id
           rewards == IF now >= rounds[i].expires_at THEN 0
                      ELSE Owed(miners[m], rounds[i])
           left == rounds[i].lamports - rewards
<1>1. i \in RoundIds /\ rewards \in U64 /\ rounds[i].lamports >= rewards
      /\ rounds' = [rounds EXCEPT ![i].lamports = @ - rewards]
  BY PhaseFacts DEF Checkpoint, MaySettle
<1> HIDE DEF rewards
<1>2. left \in Nat
  BY <1>1, PhaseFacts DEF Round, U64
<1>3. rounds' = [rounds EXCEPT ![i] = [rounds[i] EXCEPT !.lamports = left]]
  BY <1>1, PhaseFacts DEF Round
<1> HIDE DEF i, left
<1>4. LamportsOnly(i)
  BY <1>1, <1>2, <1>3, PhaseFacts DEF LamportsOnly
<1>5. \A id \in RoundIds : id # i => rounds'[id] = rounds[id]
  BY <1>3, PhaseFacts
<1>6. QED
  BY <1>4, <1>5 DEF RoundStep

LEMMA EveryRoundStep ==
  ASSUME Inv, [Next]_vars
  PROVE  \A id \in RoundIds : RoundStep(id)
<1>1. CASE RequestRandomness
  BY <1>1, PhaseFacts DEF RequestRandomness, RoundStep
<1>2. CASE \E m \in Miners, amount \in DeployAmounts, mask \in SUBSET Squares,
           nonce \in 0 .. MaxNonce : Deploy(m, amount, mask, nonce)
  <2>1. /\ ~board.vrf_requested
        /\ \A id \in RoundIds : id # board.round_id => rounds'[id] = rounds[id]
    BY <1>2, PhaseFacts DEF Deploy, BettingOpen
  <2>2. QED
    BY <2>1 DEF RoundStep
<1>3. CASE CancelRound
  <2>1. SameBets(board.round_id)
    BY <1>3, PhaseFacts DEF CancelRound, SameBets, Round
  <2>2. \A id \in RoundIds : id # board.round_id => rounds'[id] = rounds[id]
    BY <1>3, PhaseFacts DEF CancelRound
  <2>3. QED
    BY <2>1, <2>2 DEF RoundStep
<1>4. CASE UNCHANGED rounds
  BY <1>4 DEF RoundStep
<1>5. Tick \/ (\E m \in Miners, amount \in FundAmounts : FundMiner(m, amount))
      \/ (\E m \in Miners : ClaimSol(m)) \/ ClaimAdminFees \/ UNCHANGED vars
      => UNCHANGED rounds
  BY Zenon DEF Tick, FundMiner, ClaimSol, ClaimAdminFees, vars
<1>6. QED
  BY <1>1, <1>2, <1>3, <1>4, <1>5, PrepareRoundStep, CallbackStep,
     CheckpointStep DEF Next

(* Nobody can bet, or move a bet, once the draw has been asked for.        *)
THEOREM BetsFrozen == Spec => BetsFrozenByRequest
<1>1. Inv /\ [Next]_vars =>
        [\A id \in RoundIds : rounds[id].request_nonce > 0 => SameBets(id)]_vars
  <2> SUFFICES ASSUME Inv, [Next]_vars, NEW id \in RoundIds,
                      rounds[id].request_nonce > 0
               PROVE  SameBets(id)
    OBVIOUS
  <2>1. rounds[id] # EmptyRound(0)
    BY EmptyRoundFields
  <2>2. ~ (id = board.round_id /\ ~board.vrf_requested)
    BY DEF Inv, PhaseInv, RequestMatchesRound
  <2>3. CASE LamportsOnly(id)
    BY <2>3, PhaseFacts DEF LamportsOnly, SameBets, Round
  <2>4. CASE rounds'[id] = rounds[id]
    BY <2>4 DEF SameBets
  <2>5. QED
    BY <2>1, <2>2, <2>3, <2>4, EveryRoundStep DEF RoundStep
<1>2. Init => Inv
  BY InitTypeInv, InitPhase DEF Inv
<1>3. Inv /\ [Next]_vars => Inv'
  BY StepType, StepPhase DEF Inv
<1>4. QED
  BY <1>1, <1>2, <1>3, PTL DEF Spec, BetsFrozenByRequest, SameBets

(* A drawn or cancelled round never gets another outcome, whatever answers *)
(* the oracle still sends.                                                 *)
THEOREM RoundsEndOnce == Spec => OutcomeFinal
<1> DEFINE Ended(id) == /\ rounds'[id].resolved
                        /\ Outcome(rounds'[id]) = Outcome(rounds[id])
<1>1. Inv /\ [Next]_vars =>
        [\A id \in RoundIds : rounds[id].resolved => Ended(id)]_vars
  <2> SUFFICES ASSUME Inv, [Next]_vars, NEW id \in RoundIds, rounds[id].resolved
               PROVE  Ended(id)
    OBVIOUS
  <2>1. rounds[id] # EmptyRound(0) /\ id # board.round_id
    BY EmptyRoundFields DEF Inv, PhaseInv, CurrentOpen
  <2>2. CASE LamportsOnly(id)
    BY <2>2, PhaseFacts DEF LamportsOnly, Outcome, Round
  <2>3. CASE rounds'[id] = rounds[id]
    BY <2>3
  <2>4. QED
    BY <2>1, <2>2, <2>3, EveryRoundStep DEF RoundStep
<1>2. Init => Inv
  BY InitTypeInv, InitPhase DEF Inv
<1>3. Inv /\ [Next]_vars => Inv'
  BY StepType, StepPhase DEF Inv
<1>4. QED
  BY <1>1, <1>2, <1>3, PTL DEF Spec, OutcomeFinal
=============================================================================
