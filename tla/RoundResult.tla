------------------------------ MODULE RoundResult -----------------------------
(***************************************************************************)
(* How the page splits the winnings of a round among its winners           *)
(* (buildRoundResultFromSnapshot), from the recorded bets and the          *)
(* total_winnings of the round, next to what the program pays them         *)
(* (Settlement).  A round is built bet by bet; its winning tile is Winner. *)
(*                                                                         *)
(* bigint: integers are exact.  Wallets are numbered in the order of their *)
(* names.  A row says its tiles and the lamports of all of them together.  *)
(***************************************************************************)
EXTENDS Settlement, FiniteSets, Functions

CONSTANTS
  Wallets, Tiles, Winner,
  Amounts,              \* bound: lamports per tile
  MaxRows               \* bound: bets of a round

RoundResultAssumption ==
  /\ Wallets \subseteq Nat /\ Winner \in Tiles
  /\ Amounts \subseteq Nat \ {0} /\ MaxRows \in Nat

VARIABLES
  deployed,             \* on chain: round.deployed by wallet
  deployments           \* the rows of the round

vars == <<deployed, deployments>>

Holds(w) == {s \in Tiles : deployed[w][s] > 0}
On(s) == SumFunction([w \in Wallets |-> deployed[w][s]])
Total == SumFunction([s \in Tiles |-> On(s)])
settlement == CalculateSettlement(Total, On(Winner))
-----------------------------------------------------------------------------
(* Its stake on the winning tile, from the rows. *)
\* mutant: the lamports of all the tiles
RowStakeWhole(row) == row.amount
RowStake(row) == row.amount \div Cardinality(row.squares)
Contribution(w) ==
  SumFunction([row \in {r \in deployments : r.wallet = w /\ Winner \in r.squares} |-> RowStake(row)])
Contributors == {w \in Wallets : Contribution(w) > 0}
TotalContribution == SumFunction([w \in Wallets |-> Contribution(w)])

\* mutant: the smallest stake first
AheadSmallest(v, w) ==
  \/ Contribution(v) < Contribution(w)
  \/ Contribution(v) = Contribution(w) /\ v < w
\* the order of sortedContributions: by stake, then by name
Ahead(v, w) ==
  \/ Contribution(v) > Contribution(w)
  \/ Contribution(v) = Contribution(w) /\ v < w
Rank(w) == Cardinality({v \in Contributors : Ahead(v, w)})

\* totalWinningsLamports of 0 is taken for none given
PoolLamports == IF settlement.winnings > 0 THEN settlement.winnings ELSE TotalContribution

(* allocateProportional: rounded down, and what is left a lamport each. *)
\* mutant: rounded down
AllocateFloor(pool) == [w \in Contributors |-> (pool * Contribution(w)) \div TotalContribution]
AllocateProportional(pool) ==
  LET share == [w \in Contributors |-> (pool * Contribution(w)) \div TotalContribution]
      remainder == pool - SumFunction(share)
  IN  [w \in Contributors |-> share[w] + (IF Rank(w) < remainder THEN 1 ELSE 0)]

\* solReward of every winner, in lamports
Rewards == AllocateProportional(PoolLamports)
-----------------------------------------------------------------------------
Init ==
  /\ deployed = [w \in Wallets |-> [s \in Tiles |-> 0]]
  /\ deployments = {}

Row(w, squares, amount) ==
  [wallet |-> w, squares |-> squares, amount |-> amount * Cardinality(squares)]
Bet(w, squares, amount) ==
  [deployed EXCEPT ![w] = [s \in Tiles |-> IF s \in squares THEN amount ELSE @[s]]]

\* mutant: held tiles are charged again
DeployHeld(w, squares, amount) ==
  /\ Cardinality(deployments) < MaxRows /\ squares # {}
  /\ deployed' = Bet(w, squares, amount)
  /\ deployments' = deployments \union {Row(w, squares, amount)}
\* a bet that reaches for tiles it does not hold; what is recorded of any other is
\* Ingestion's RecordedSquaresCharged
Deploy(w, squares, amount) ==
  /\ Cardinality(deployments) < MaxRows
  /\ squares # {} /\ squares \intersect Holds(w) = {}
  /\ deployed' = Bet(w, squares, amount)
  /\ deployments' = deployments \union {Row(w, squares, amount)}

Next == \E w \in Wallets, squares \in SUBSET Tiles, amount \in Amounts : Deploy(w, squares, amount)
Spec == Init /\ [][Next]_vars
-----------------------------------------------------------------------------
TypeOK ==
  /\ deployed \in [Wallets -> [Tiles -> {0} \union Amounts]]
  /\ \A row \in deployments :
       row.wallet \in Wallets /\ row.squares \subseteq Holds(row.wallet)
       /\ row.amount = SumFunction([s \in row.squares |-> deployed[row.wallet][s]])

\* The prizes shown add up to the pool to the last lamport: one round over the
\* winners is enough for all that the roundings leave.
PrizesAddUp == Contributors # {} => SumFunction(Rewards) = PoolLamports

\* Of the winnings of a round a winner is shown what the program pays of them, or
\* the one lamport more that the program leaves in the round: the page finds the
\* stakes again from rows that know only the sum over their tiles.
WithinALamport ==
  settlement.winnings > 0 =>
    \A w \in Contributors :
      Rewards[w] - MulDiv(settlement.winnings, deployed[w][Winner], On(Winner)) \in {0, 1}

\* Who staked more is never shown less.
MoreForMore ==
  \A v, w \in Contributors : deployed[v][Winner] > deployed[w][Winner] => Rewards[v] >= Rewards[w]

\* The "SOL prize" the control panel announces is paid when the round is settled.
PrizeIsPaid ==
  \A w \in Contributors : Rewards[w] <= WinnerShare(Total, On(Winner), 0, deployed[w][Winner])
=============================================================================
