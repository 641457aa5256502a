---------------------------- MODULE LedgerProofs ----------------------------
(***************************************************************************)
(* The money of the on-chain program, proved for any instance: every book  *)
(* is backed by lamports (Backed), the totals of the open round are the    *)
(* sums of its players' bets (OpenRoundBooks), a round can pay everybody   *)
(* it has not settled yet (RoundsSolvent) and keeps next to nothing        *)
(* (DustBounded), nobody but its players is paid from it                   *)
(* (RoundPaysOnlyItsPlayers), and all of it implements RoundLifecycle.     *)
(*                                                                         *)
(* RoundsSolvent is not inductive: that a draw leaves enough follows from  *)
(* the books of the open round, which speak of every player's bets, and    *)
(* those from nobody being seated in, or settled for, a round that has not *)
(* ended.  LedgerInv is the conjunction of these with what it rests on.    *)
(***************************************************************************)
EXTENDS BlitzMineProofs

USE ConstantTypes, ClockAssumption

-----------------------------------------------------------------------------
(***************************************************************************)
(* Every book is backed by lamports.  Backed is inductive on top of        *)
(* TypeInv, with one lemma per account.                                    *)
(***************************************************************************)
MinerBacked(miner) ==
  miner.exists =>
    miner.lamports = MinerRent + miner.checkpoint_fee + miner.rewards_sol

TreasuryBacked ==
  treasury.lamports = TreasuryRent + treasury.admin_fees + treasury.motherlode

(* Backed, one account at a time,                                          *)
LEMMA BackedParts ==
  Backed <=> (\A m \in Miners : MinerBacked(miners[m])) /\ TreasuryBacked
  BY DEF Backed, MinerBacked, TreasuryBacked

(* and after a step.                                                       *)
LEMMA BackedPartsNext ==
  Backed' <=> (\A m \in Miners : MinerBacked(miners'[m])) /\ TreasuryBacked'
  BY DEF Backed, MinerBacked, TreasuryBacked

(* A step that rewrites one miner keeps the others backed.                 *)
LEMMA OneMinerBacked ==
  ASSUME TypeInv, Backed, NEW m \in Miners, NEW miner,
         miners' = [miners EXCEPT ![m] = miner], MinerBacked(miner),
         treasury' = treasury
  PROVE  Backed'
<1>1. \A o \in Miners : MinerBacked(miners'[o])
  BY BackedParts DEF TypeInv, TypeOK
<1>2. TreasuryBacked'
  BY BackedParts DEF TreasuryBacked
<1>3. QED
  BY <1>1, <1>2, BackedPartsNext

(* No account holds a lamport at first but the rent.                       *)
LEMMA InitBacked == Init => Backed
  BY DEF Init, Backed, NewMiner

(* A deposit is in the miner's book and account alike.                     *)
LEMMA FundMinerBacked ==
  ASSUME TypeInv, Backed, NEW m \in Miners, NEW amount \in FundAmounts,
         FundMiner(m, amount)
  PROVE  Backed'
<1> DEFINE opened == IF miners[m].exists THEN miners[m] ELSE NewMiner(TRUE, MinerRent)
           top_up == SaturatingSub(CHECKPOINT_FEE, opened.checkpoint_fee)
           funded == [opened EXCEPT !.rewards_sol = @ + amount,
                                    !.checkpoint_fee = @ + top_up,
                                    !.lamports = @ + amount + top_up]
<1>1. opened \in Miner /\ MinerBacked(opened)
  <2>1. miners[m] \in Miner /\ (miners[m].exists => MinerBacked(miners[m]))
    BY BackedParts DEF TypeInv, TypeOK
  <2>2. NewMiner(TRUE, MinerRent) \in Miner /\ MinerBacked(NewMiner(TRUE, MinerRent))
    <3> DEFINE fresh == NewMiner(TRUE, MinerRent)
    <3>1. /\ fresh.lamports = MinerRent /\ fresh.checkpoint_fee = 0
          /\ fresh.rewards_sol = 0
      BY DEF NewMiner
    <3> HIDE DEF fresh
    <3>2. MinerBacked(fresh)
      BY <3>1 DEF MinerBacked
    <3>3. QED
      BY <3>2, NewMinerType DEF fresh
  <2>3. QED
    BY <2>1, <2>2
<1>2. miners' = [miners EXCEPT ![m] = funded] /\ treasury' = treasury
  BY DEF FundMiner
<1> HIDE DEF opened
<1>3. top_up \in Nat
  BY <1>1 DEF SaturatingSub, Miner, U64
<1> HIDE DEF top_up
<1>4. /\ funded.exists = opened.exists
      /\ funded.rewards_sol = opened.rewards_sol + amount
      /\ funded.checkpoint_fee = opened.checkpoint_fee + top_up
      /\ funded.lamports = opened.lamports + amount + top_up
  BY <1>1 DEF Miner
<1> HIDE DEF funded
<1>5. MinerBacked(funded)
  BY <1>1, <1>3, <1>4 DEF MinerBacked, Miner, U64
<1>6. QED
  BY <1>2, <1>5, OneMinerBacked

(* Setting the checkpoint fee aside moves lamports between books only.     *)
LEMMA JoinedBacked ==
  ASSUME NEW miner \in Miner, NEW id \in RoundIds, MinerBacked(miner)
  PROVE  MinerBacked(Joined(miner, id))
<1> DEFINE charge == IF miner.checkpoint_fee = 0 THEN CHECKPOINT_FEE ELSE 0
<1>1. charge \in Nat
  BY DEF U64
<1>2. /\ Joined(miner, id).exists = miner.exists
      /\ Joined(miner, id).rewards_sol = miner.rewards_sol - charge
      /\ Joined(miner, id).checkpoint_fee = miner.checkpoint_fee + charge
      /\ Joined(miner, id).lamports = miner.lamports
  BY DEF Joined, Miner
<1> HIDE DEF charge
<1>3. QED
  BY <1>1, <1>2 DEF MinerBacked, Miner, U64

(* A bet takes from the miner's book, or wallet, what the round gains.     *)
LEMMA DeployBacked ==
  ASSUME TypeInv, Backed, NEW m \in Miners, NEW amount \in DeployAmounts,
         NEW mask \in SUBSET Squares, NEW expected_nonce \in 0 .. MaxNonce,
         Deploy(m, amount, mask, expected_nonce)
  PROVE  Backed'
<1> DEFINE id == board.round_id
           is_new_round == miners[m].round_id # id
           miner == IF is_new_round THEN Joined(miners[m], id) ELSE miners[m]
           selected == Selected(miner, mask)
           total_cost == amount * Cardinality(selected)
           Bet(squares) == [s \in Squares |->
                     IF s \in selected THEN squares[s] + amount ELSE squares[s]]
           bettor == [miner EXCEPT !.deployed = Bet(@),
                                   !.rewards_sol = @ - total_cost,
                                   !.transaction_nonce = @ + 1,
                                   !.lamports = @ - total_cost]
<1>1. miner \in Miner /\ MinerBacked(miner)
  <2>1. miners[m] \in Miner /\ MinerBacked(miners[m]) /\ id \in RoundIds
    BY BackedParts DEF TypeInv, TypeOK, Board
  <2>2. is_new_round => MayJoin(miners[m])
    BY DEF Deploy
  <2>3. QED
    BY <2>1, <2>2, JoinedType, JoinedBacked
<1>2. miners' = [miners EXCEPT ![m] = bettor] /\ treasury' = treasury
  BY DEF Deploy
<1>3. total_cost \in Nat
  <2>1. selected \in SUBSET Squares /\ selected # {}
    BY DEF Deploy, Selected
  <2> HIDE DEF selected
  <2>2. QED
    BY <2>1, DeployCost
<1> HIDE DEF miner, selected, total_cost
<1>4. /\ bettor.exists = miner.exists
      /\ bettor.rewards_sol = miner.rewards_sol - total_cost
      /\ bettor.checkpoint_fee = miner.checkpoint_fee
      /\ bettor.lamports = miner.lamports - total_cost
  BY <1>1 DEF Miner
<1> HIDE DEF bettor
<1>5. MinerBacked(bettor)
  BY <1>1, <1>3, <1>4 DEF MinerBacked, Miner, U64
<1>6. QED
  BY <1>2, <1>5, OneMinerBacked

(* A payout, and a bot's fee, leave one book for another.                  *)
LEMMA CheckpointBacked ==
  ASSUME TypeInv, Backed, NEW caller \in Wallets, NEW m \in Miners,
         Checkpoint(caller, m)
  PROVE  Backed'
<1> DEFINE miner == miners[m]
           id == miner.round_id
           rewards == IF now >= rounds[id].expires_at THEN 0
                      ELSE Owed(miner, rounds[id])
           fee == IF caller = m THEN 0 ELSE miner.checkpoint_fee
           settled == [miner EXCEPT !.checkpoint_id = id,
                                    !.rewards_sol = @ + rewards,
                                    !.checkpoint_fee = @ - fee,
                                    !.lamports = @ + rewards - fee]
<1>1. miner \in Miner /\ MinerBacked(miner) /\ fee \in Nat
  BY BackedParts DEF TypeInv, TypeOK, Miner, U64
<1>2. /\ miners' = [miners EXCEPT ![m] = settled] /\ treasury' = treasury
      /\ rewards \in U64
  BY DEF Checkpoint
<1> HIDE DEF rewards, fee, id, miner
<1>3. /\ settled.exists = miner.exists
      /\ settled.rewards_sol = miner.rewards_sol + rewards
      /\ settled.checkpoint_fee = miner.checkpoint_fee - fee
      /\ settled.lamports = miner.lamports + rewards - fee
  BY <1>1 DEF Miner
<1> HIDE DEF settled
<1>4. MinerBacked(settled)
  BY <1>1, <1>2, <1>3 DEF MinerBacked, Miner, U64
<1>5. QED
  BY <1>2, <1>4, OneMinerBacked

(* A withdrawal empties the book it pays out.                              *)
LEMMA ClaimSolBacked ==
  ASSUME TypeInv, Backed, NEW m \in Miners, ClaimSol(m)
  PROVE  Backed'
<1> DEFINE miner == miners[m]
           available == SaturatingSub(miner.lamports, MinerRent + miner.checkpoint_fee)
           amount == IF miner.rewards_sol <= available
                     THEN miner.rewards_sol ELSE available
           balance == miner.rewards_sol - amount
           lamports == miner.lamports - amount
           claimed == [miner EXCEPT !.rewards_sol = balance, !.lamports = lamports]
<1>1. miner \in Miner /\ MinerBacked(miner)
  BY BackedParts DEF TypeInv, TypeOK
<1>2. amount \in Nat
  BY <1>1 DEF SaturatingSub, Miner, U64
<1>3. miners' = [miners EXCEPT ![m] = claimed] /\ treasury' = treasury
  BY <1>1 DEF ClaimSol, TypeInv, TypeOK, Miner
<1> HIDE DEF amount, miner
<1>4. /\ claimed.exists = miner.exists
      /\ claimed.rewards_sol = miner.rewards_sol - amount
      /\ claimed.checkpoint_fee = miner.checkpoint_fee
      /\ claimed.lamports = miner.lamports - amount
  BY <1>1 DEF Miner
<1> HIDE DEF claimed
<1>5. MinerBacked(claimed)
  BY <1>1, <1>2, <1>4 DEF MinerBacked, Miner, U64
<1>6. QED
  BY <1>3, <1>5, OneMinerBacked

(* settle_round recomputes the treasury's balance from its books: exact by *)
(* construction, but only for the books as settle_round leaves them.       *)
LEMMA CallbackBacked ==
  ASSUME TypeInv, Backed, NEW request \in requests, NEW randomness \in Randomness,
         CallbackResolveRound(request, randomness)
  PROVE  Backed'
<1> DEFINE id == request.round_id
           drawn == [rounds[id] EXCEPT !.randomness = randomness,
                                       !.resolved = TRUE,
                                       !.expires_at = now + CLAIM_WINDOW_SECONDS]
           settled == SettleRound(drawn)
           to_treasury == TreasuryRent + settled.admin_fees + settled.motherlode
                            - treasury.lamports
<1>1. /\ treasury' = [motherlode |-> settled.motherlode,
                      admin_fees |-> settled.admin_fees,
                      lamports |-> treasury.lamports + to_treasury]
      /\ miners' = miners
  BY DEF CallbackResolveRound
<1>2. treasury' \in Treasury /\ treasury \in Treasury
  BY CallbackResolveRoundType DEF TypeInv, TypeOK
<1> HIDE DEF settled
<1>3. treasury'.lamports = treasury.lamports + to_treasury
      /\ treasury'.motherlode = settled.motherlode
      /\ treasury'.admin_fees = settled.admin_fees
  BY <1>1
<1>4. TreasuryBacked'
  BY <1>2, <1>3 DEF TreasuryBacked, Treasury, U64
<1>5. \A m \in Miners : MinerBacked(miners'[m])
  BY <1>1, BackedParts
<1>6. QED
  BY <1>4, <1>5, BackedPartsNext

(* The admin withdraws fees only.                                          *)
LEMMA ClaimAdminFeesBacked == TypeInv /\ Backed /\ ClaimAdminFees => Backed'
<1> SUFFICES ASSUME TypeInv, Backed, ClaimAdminFees PROVE Backed'
  OBVIOUS
<1>1. treasury \in Treasury /\ TreasuryBacked
  BY BackedParts DEF TypeInv, TypeOK
<1>2. /\ treasury'.lamports = treasury.lamports - treasury.admin_fees
      /\ treasury'.admin_fees = 0 /\ treasury'.motherlode = treasury.motherlode
      /\ miners' = miners
  BY <1>1 DEF ClaimAdminFees, Treasury
<1>3. TreasuryBacked'
  BY <1>1, <1>2 DEF TreasuryBacked, Treasury, U64
<1>4. QED
  BY <1>2, <1>3, BackedParts, BackedPartsNext

(* Every step keeps the books backed.                                      *)
LEMMA StepBacked == TypeInv /\ Backed /\ [Next]_vars => Backed'
<1> SUFFICES ASSUME TypeInv, Backed, [Next]_vars PROVE Backed'
  OBVIOUS
<1>1. CASE UNCHANGED <<miners, treasury>>
  BY <1>1 DEF Backed
<1>2. Tick \/ (\E payer \in Wallets, id \in RoundIds : PrepareRound(payer, id))
      \/ RequestRandomness \/ CancelRound \/ UNCHANGED vars
      => UNCHANGED <<miners, treasury>>
  BY Zenon DEF Tick, PrepareRound, RequestRandomness, CancelRound, vars
<1>3. QED
  BY <1>1, <1>2, FundMinerBacked, DeployBacked, CallbackBacked,
     CheckpointBacked, ClaimSolBacked, ClaimAdminFeesBacked DEF Next

(* The books never promise a lamport the accounts do not hold, or the      *)
(* other way round, whatever the order of deposits, bets, payouts, bot     *)
(* fees, jackpots and withdrawals.                                         *)
THEOREM BooksBacked == Spec => []Backed
<1>1. Init => TypeInv /\ Backed
  BY InitTypeInv, InitBacked
<1>2. TypeInv /\ Backed /\ [Next]_vars => TypeInv' /\ Backed'
  BY StepType, StepBacked
<1>3. QED
  BY <1>1, <1>2, PTL DEF Spec

-----------------------------------------------------------------------------
(***************************************************************************)
(* The books of an open round, and what one bet does to them.  The miners  *)
(* are a parameter, ms, so that one lemma speaks of two states.            *)
(***************************************************************************)
(* The players of a round, those not settled yet, what those are owed, the *)
(* stakes on a square and who staked there.                                *)
PlayersOf(ms, id) == {m \in Miners : ms[m].round_id = id}
UnsettledOf(ms, id) == {m \in PlayersOf(ms, id) : ms[m].checkpoint_id # id}
Debt(round, ms, id) ==
  SumFunction([m \in UnsettledOf(ms, id) |-> Owed(ms[m], round)])

\* what the players of round id have on square s, and how many they are
Staked(ms, id, s) == SumFunction([m \in PlayersOf(ms, id) |-> ms[m].deployed[s]])
Stakers(ms, id, s) == {m \in PlayersOf(ms, id) : ms[m].deployed[s] > 0}

(* OpenRoundBooks, of any round, players and id.                           *)
Books(round, ms, id) ==
      /\ round.lamports = RoundRent + round.total_deployed
      /\ round.total_deployed = SumFunction(round.deployed)
      /\ round.total_miners = Cardinality(PlayersOf(ms, id))
      /\ \A s \in Squares :
           /\ round.deployed[s] = Staked(ms, id, s)
           /\ round.count[s] = Cardinality(Stakers(ms, id, s))

(* OpenRoundBooks is Books of the open round,                              *)
LEMMA BooksAre == OpenRoundBooks <=> Books(rounds[board.round_id], miners, board.round_id)
  BY DEF OpenRoundBooks, Books, Players, PlayersOf, Staked, Stakers

(* and so it is after a step.                                              *)
LEMMA BooksNext ==
  OpenRoundBooks' <=> Books(rounds'[board'.round_id], miners', board'.round_id)
  BY DEF OpenRoundBooks, Books, Players, PlayersOf, Staked, Stakers

(* A round has finitely many players.                                      *)
LEMMA PlayersFinite ==
  ASSUME NEW ms, NEW id
  PROVE  /\ IsFiniteSet(PlayersOf(ms, id)) /\ PlayersOf(ms, id) \subseteq Miners
         /\ IsFiniteSet(UnsettledOf(ms, id)) /\ UnsettledOf(ms, id) \subseteq PlayersOf(ms, id)
  BY PlayersAssumption, FS_Subset DEF PlayersOf, UnsettledOf

(* Stakes of typed miners are natural numbers.                             *)
LEMMA StakeType ==
  ASSUME NEW ms \in [Miners -> Miner], NEW m \in Miners
  PROVE  ms[m].deployed \in [Squares -> Nat]
  BY DEF Miner, U64

\* Joined or already in: d is what m holds in round id before the bet
(* A square's stakes grow by the amount if the bet is on it.               *)
LEMMA StakesAfterBet ==
  ASSUME NEW ms \in [Miners -> Miner], NEW ns \in [Miners -> Miner],
         NEW m \in Miners, \A o \in Miners \ {m} : ns[o] = ms[o],
         NEW id, ns[m].round_id = id, NEW s \in Squares, NEW before,
         ms[m].round_id = id => before = ms[m].deployed[s],
         ms[m].round_id # id => before = 0
  PROVE  Staked(ns, id, s) = Staked(ms, id, s) + (ns[m].deployed[s] - before)
<1> DEFINE P == PlayersOf(ms, id)
           Q == PlayersOf(ns, id)
           f == [o \in P |-> ms[o].deployed[s]]
           h == [o \in Q |-> ns[o].deployed[s]]
<1>1. IsFiniteSet(P) /\ P \subseteq Miners /\ Q \subseteq Miners
  BY PlayersFinite
<1>2. f \in [P -> Int] /\ h \in [Q -> Int]
  <2>1. /\ \A o \in P : ms[o].deployed[s] \in Nat
        /\ \A o \in Q : ns[o].deployed[s] \in Nat
    BY <1>1, StakeType
  <2>2. QED
    BY <2>1
<1>3. m \in Q /\ (m \in P <=> ms[m].round_id = id)
  BY DEF PlayersOf
<1>4. Q = P \cup {m}
  BY <1>3 DEF PlayersOf
<1>5. \A o \in P \ {m} : h[o] = f[o]
  BY <1>1, <1>4
<1>6. h[m] = ns[m].deployed[s] /\ (m \in P => before = f[m]) /\ (m \notin P => before = 0)
  BY <1>3
<1> HIDE DEF P, Q, f, h
<1>7. SumFunction(h) = SumFunction(f) + (h[m] - before)
  BY <1>1, <1>2, <1>4, <1>5, <1>6, SumRevise
<1>8. QED
  BY <1>6, <1>7 DEF Staked, f, h, P, Q

(* m's bet of amount lamports on each square of selected, in round id: m   *)
(* held `held' in it before, which is nothing if m comes from another      *)
(* round, whatever it staked there.                                        *)
BetBy(ms, ns, m, id, held, selected, amount) ==
  /\ \A o \in Miners \ {m} : ns[o] = ms[o]
  /\ ns[m].round_id = id
  /\ ms[m].round_id = id => held = ms[m].deployed
  /\ ms[m].round_id # id => \A s \in Squares : held[s] = 0
  /\ \A s \in selected : held[s] = 0
  /\ \A s \in Squares : ns[m].deployed[s]
       = IF s \in selected THEN held[s] + amount ELSE held[s]

\* what the bet adds to the round
(* bet is round after a bet; joins: it is the player's first in this       *)
(* round.                                                                  *)
BetIn(round, bet, joins, selected, amount) ==
  /\ bet.deployed = [s \in Squares |-> IF s \in selected THEN round.deployed[s] + amount
                                                       ELSE round.deployed[s]]
  /\ bet.count = [s \in Squares |-> IF s \in selected THEN round.count[s] + 1
                                                    ELSE round.count[s]]
  /\ bet.total_miners = IF joins THEN round.total_miners + 1 ELSE round.total_miners
  /\ bet.total_deployed = round.total_deployed + amount * Cardinality(selected)
  /\ bet.lamports = round.lamports + amount * Cardinality(selected)

(* A bet keeps the books of its round, the miner's first in it or not.     *)
LEMMA BetKeepsBooks ==
  ASSUME NEW ms \in [Miners -> Miner], NEW ns \in [Miners -> Miner],
         NEW m \in Miners, NEW id, NEW held \in [Squares -> Nat],
         NEW selected \in SUBSET Squares, NEW amount \in Nat \ {0},
         BetBy(ms, ns, m, id, held, selected, amount),
         NEW round \in Round, Books(round, ms, id), NEW bet,
         BetIn(round, bet, ms[m].round_id # id, selected, amount)
  PROVE  Books(bet, ns, id)
<1> DEFINE P == PlayersOf(ms, id)
           Q == PlayersOf(ns, id)
           cost == amount * Cardinality(selected)
<1> USE DEF BetBy, BetIn
<1>1. /\ round.deployed \in [Squares -> Nat] /\ round.deployed \in [Squares -> Int]
      /\ round.count \in [Squares -> Nat]
      /\ round.total_deployed \in Nat /\ round.lamports \in Nat
      /\ round.total_miners \in Nat
  BY DEF Round, U64
<1>2. cost \in Nat
  <2>1. Cardinality(selected) \in Nat
    BY PlayersAssumption, FS_Subset, FS_CardinalityType
  <2>2. QED
    BY <2>1
<1> HIDE DEF cost
<1>3. bet.lamports = RoundRent + bet.total_deployed
  BY <1>1, <1>2 DEF Books, cost
<1>4. bet.total_deployed = SumFunction(bet.deployed)
  <2>1. SumFunction(bet.deployed) = SumFunction(round.deployed) + cost
    BY <1>1, PlayersAssumption, SumRaise DEF cost
  <2>2. QED
    BY <2>1 DEF Books, cost
<1>5. IsFiniteSet(P) /\ Q = P \cup {m} /\ (m \in P <=> ms[m].round_id = id)
  <2>1. \A o \in Miners : o \in Q <=> o \in P \cup {m}
    BY DEF PlayersOf
  <2>2. P \subseteq Miners /\ Q \subseteq Miners /\ m \in Q
    BY DEF PlayersOf
  <2>3. IsFiniteSet(P)
    BY PlayersFinite
  <2>4. m \in P <=> ms[m].round_id = id
    BY DEF PlayersOf
  <2>5. QED
    BY <2>1, <2>2, <2>3, <2>4
<1>6. bet.total_miners = Cardinality(Q)
  <2> DEFINE k == Cardinality(P)
             l == Cardinality(Q)
  <2>1. round.total_miners = k
    BY DEF Books
  <2>2. CASE ms[m].round_id = id
    <3>1. Q = P
      BY <1>5, <2>2
    <3>2. QED
      BY <2>1, <2>2, <3>1
  <2>3. CASE ms[m].round_id # id
    <3>1. Cardinality(P \cup {m}) = Cardinality(P) + 1
      BY <1>5, <2>3, FS_AddElement, Zenon
    <3>2. QED
      BY <1>5, <2>1, <2>3, <3>1
  <2>4. QED
    BY <2>2, <2>3
<1>7. ASSUME NEW s \in Squares
      PROVE  /\ bet.deployed[s] = Staked(ns, id, s)
             /\ bet.count[s] = Cardinality(Stakers(ns, id, s))
  <2> DEFINE sum == Staked(ms, id, s)
             after == Staked(ns, id, s)
             on == Stakers(ms, id, s)
             on_after == Stakers(ns, id, s)
             k == Cardinality(on)
  <2>1. /\ round.deployed[s] = sum /\ round.count[s] = k
        /\ round.deployed[s] \in Nat /\ held[s] \in Nat
    BY <1>1 DEF Books
  <2>2. after = sum + (ns[m].deployed[s] - held[s])
    BY StakesAfterBet
  <2>3. ns[m].deployed[s] = IF s \in selected THEN held[s] + amount ELSE held[s]
    OBVIOUS
  <2>4. bet.deployed[s] = IF s \in selected THEN round.deployed[s] + amount
                                             ELSE round.deployed[s]
    OBVIOUS
  <2>5. bet.deployed[s] = after
    <3> HIDE DEF sum, after
    <3>1. QED
      BY <2>1, <2>2, <2>3, <2>4
  <2>6. IsFiniteSet(on)
    BY <1>5, FS_Subset DEF Stakers
  <2>7. CASE s \in selected
    <3>1. m \notin on /\ on_after = on \cup {m}
      <4>1. held[s] = 0 /\ ns[m].deployed[s] > 0
        BY <2>3, <2>7
      <4>2. m \notin on
        BY <4>1, <1>5 DEF Stakers
      <4>3. \A o \in P \ {m} : ns[o] = ms[o]
        BY PlayersFinite
      <4>4. QED
        BY <4>1, <4>2, <4>3, <1>5 DEF Stakers
    <3>2. Cardinality(on \cup {m}) = Cardinality(on) + 1
      BY <2>6, <3>1, FS_AddElement, Zenon
    <3>3. bet.count[s] = round.count[s] + 1
      BY <2>7
    <3>4. QED
      BY <2>1, <2>5, <3>1, <3>2, <3>3
  <2>8. CASE s \notin selected
    <3>1. on_after = on
      <4>1. ns[m].deployed[s] = held[s]
        BY <2>3, <2>8
      <4>2. \A o \in P \ {m} : ns[o] = ms[o]
        BY PlayersFinite
      <4>3. m \in on_after <=> m \in on
        <5>1. ms[m].round_id = id => ns[m].deployed[s] = ms[m].deployed[s]
          BY <4>1
        <5>2. ms[m].round_id # id => ns[m].deployed[s] = 0
          BY <4>1
        <5>3. QED
          BY <1>5, <5>1, <5>2 DEF Stakers
      <4>4. \A o : o # m => (o \in on_after <=> o \in on)
        BY <4>2, <1>5 DEF Stakers
      <4>5. QED
        BY <4>3, <4>4 DEF Stakers
    <3>2. bet.count[s] = round.count[s]
      BY <2>8
    <3>3. QED
      BY <2>1, <2>5, <3>1, <3>2
  <2>9. QED
    BY <2>7, <2>8
<1>8. QED
  BY <1>3, <1>4, <1>6, <1>7 DEF Books

(* The stakes of an open round, added up by player instead of by square.   *)
LEMMA StakesAddUp ==
  ASSUME NEW ms \in [Miners -> Miner], NEW id, NEW round \in Round,
         Books(round, ms, id)
  PROVE  /\ \A m \in Miners : SumFunction(ms[m].deployed) \in Nat
         /\ SumFunction([m \in PlayersOf(ms, id) |-> SumFunction(ms[m].deployed)])
              = round.total_deployed
<1> DEFINE P == PlayersOf(ms, id)
           F == [m \in P |-> ms[m].deployed]
           squares == [s \in Squares |-> SumFunction([m \in P |-> ms[m].deployed[s]])]
<1>1. \A m \in Miners : SumFunction(ms[m].deployed) \in Nat
  BY StakeType, PlayersAssumption, SumNat
<1>2. F \in [P -> [Squares -> Int]] /\ \A m \in P : F[m] = ms[m].deployed
  BY StakeType, PlayersFinite
<1>3. SumFunction([m \in P |-> SumFunction(F[m])])
        = SumFunction([s \in Squares |-> SumFunction([m \in P |-> F[m][s]])])
  <2> HIDE DEF F, P
  <2>1. IsFiniteSet(P) /\ IsFiniteSet(Squares)
    BY PlayersFinite, PlayersAssumption DEF P
  <2>2. F \in [P -> [Squares -> Int]]
    BY <1>2
  <2>3. QED
    BY <2>1, <2>2, SumSwap
<1>4. [s \in Squares |-> SumFunction([m \in P |-> F[m][s]])] = squares
  OBVIOUS
<1>5. [m \in P |-> SumFunction(F[m])] = [m \in P |-> SumFunction(ms[m].deployed)]
  OBVIOUS
<1>6. SumFunction(squares) = round.total_deployed
  <2>1. round.total_deployed = SumFunction(round.deployed)
    BY DEF Books
  <2>2. \A s \in Squares : round.deployed[s] = squares[s]
    BY DEF Books, Staked
  <2>3. round.deployed = squares
    BY <2>2 DEF Round
  <2>4. QED
    BY <2>1, <2>3
<1>7. QED
  BY <1>1, <1>3, <1>4, <1>5, <1>6

(* How many staked on the winning square, and the lamports that rounding   *)
(* down may leave behind: less than three for every winner but one.        *)
Winners(round) == round.count[winning_square(round)]
Dust(round) == IF Winners(round) = 0 THEN 0 ELSE 3 * (Winners(round) - 1)

\* a closed round can pay whom it has not paid yet, and keeps little beyond
(* A round that ended with t lamports left, at most its dust more than it  *)
(* owes, and whose winner counts are of players still to be settled.       *)
Settleable(round, ms, id, t) ==
  /\ \A m \in UnsettledOf(ms, id) : Owed(ms[m], round) \in Nat
  /\ round.lamports >= RoundRent + Debt(round, ms, id)
  /\ ~round.canceled /\ t < round.expires_at =>
       round.lamports - RoundRent - Debt(round, ms, id) <= Dust(round)

(* What a round owes a player depends on their bets and the draw only.     *)
LEMMA OwedSame ==
  ASSUME NEW a, NEW b, a.deployed = b.deployed, NEW r, NEW q,
         q.canceled = r.canceled, q.randomness = r.randomness,
         q.total_deployed = r.total_deployed, q.deployed = r.deployed,
         q.motherlode = r.motherlode
  PROVE  Owed(b, q) = Owed(a, r)
  BY DEF Owed, CalculateRewards, winning_square

(* What a round owes is a natural number, and so is every player's part.   *)
LEMMA DebtType ==
  ASSUME NEW round, NEW ms, NEW id,
         \A m \in UnsettledOf(ms, id) : Owed(ms[m], round) \in Nat
  PROVE  Debt(round, ms, id) \in Nat
<1> DEFINE U == UnsettledOf(ms, id)
           owed == [m \in U |-> Owed(ms[m], round)]
<1>1. IsFiniteSet(U) /\ owed \in [U -> Nat]
  BY PlayersFinite
<1> HIDE DEF U, owed
<1>2. SumFunction(owed) \in Nat
  BY <1>1, SumNat
<1>3. QED
  BY <1>2 DEF Debt, owed, U

(* Time passes and other miners play on: the round stays settleable.       *)
LEMMA SettleableStays ==
  ASSUME NEW round \in Round, NEW ms, NEW ns, NEW id, NEW t \in Nat, NEW u \in Nat,
         t <= u, Settleable(round, ms, id, t),
         UnsettledOf(ns, id) = UnsettledOf(ms, id),
         \A m \in UnsettledOf(ms, id) : ns[m].deployed = ms[m].deployed
  PROVE  Settleable(round, ns, id, u)
<1>1. \A m \in UnsettledOf(ms, id) : Owed(ns[m], round) = Owed(ms[m], round)
  BY OwedSame
<1>2. Debt(round, ns, id) = Debt(round, ms, id)
  <2>1. [m \in UnsettledOf(ns, id) |-> Owed(ns[m], round)]
          = [m \in UnsettledOf(ms, id) |-> Owed(ms[m], round)]
    BY <1>1
  <2>2. QED
    BY <2>1 DEF Debt
<1>3. round.expires_at \in Nat
  BY DEF Round, Timestamps
<1>4. u < round.expires_at => t < round.expires_at
  BY <1>3
<1>5. QED
  BY <1>1, <1>2, <1>4 DEF Settleable

(* A checkpoint pays one of the players and crosses them off.              *)
LEMMA PaidOnce ==
  ASSUME NEW round \in Round, NEW ms, NEW ns, NEW id, NEW t \in Nat,
         Settleable(round, ms, id, t), NEW m \in UnsettledOf(ms, id),
         \A o \in Miners \ {m} : ns[o] = ms[o], ns[m].checkpoint_id = id,
         NEW paid, paid.canceled = round.canceled,
         paid.randomness = round.randomness, paid.deployed = round.deployed,
         paid.total_deployed = round.total_deployed, paid.count = round.count,
         paid.motherlode = round.motherlode, paid.expires_at = round.expires_at,
         paid.lamports = round.lamports
            - (IF t >= round.expires_at THEN 0 ELSE Owed(ms[m], round))
  PROVE  Settleable(paid, ns, id, t)
<1> DEFINE U == UnsettledOf(ms, id)
           owed == [o \in U |-> Owed(ms[o], round)]
           rest == [o \in U \ {m} |-> owed[o]]
           left == [o \in UnsettledOf(ns, id) |-> Owed(ns[o], paid)]
<1>1. IsFiniteSet(U) /\ U \subseteq Miners
  BY PlayersFinite
<1>2. UnsettledOf(ns, id) = U \ {m}
  <2>1. m \notin UnsettledOf(ns, id)
    BY DEF UnsettledOf
  <2>2. \A o : o # m => (o \in UnsettledOf(ns, id) <=> o \in U)
    BY DEF UnsettledOf, PlayersOf
  <2>3. QED
    BY <2>1, <2>2
<1>3. \A o \in U \ {m} : Owed(ns[o], paid) = Owed(ms[o], round)
  <2>1. \A o \in U \ {m} : ns[o].deployed = ms[o].deployed
    BY <1>1
  <2>2. QED
    BY <2>1, OwedSame
<1>4. left = rest
  BY <1>2, <1>3
<1>5. owed \in [U -> Int] /\ owed[m] = Owed(ms[m], round) /\ Owed(ms[m], round) \in Nat
  BY DEF Settleable
<1>6. rest \in [U \ {m} -> Nat] /\ IsFiniteSet(U \ {m})
  BY <1>1, FS_Subset DEF Settleable
<1>7. SumFunction(owed) = owed[m] + SumFunction(rest)
  <2> HIDE DEF owed, U
  <2>1. m \in U
    BY DEF U
  <2>2. QED
    BY <1>1, <1>5, <2>1, SumTake
<1>8. SumFunction(rest) \in Nat
  <2> HIDE DEF rest, U
  <2>1. QED
    BY <1>6, SumNat
<1> DEFINE before == Debt(round, ms, id)
           after == Debt(paid, ns, id)
           due == Owed(ms[m], round)
<1>9. before = due + after /\ after \in Nat /\ due \in Nat
  <2>1. before = SumFunction(owed) /\ after = SumFunction(left)
    BY DEF Debt
  <2>2. QED
    BY <2>1, <1>4, <1>5, <1>7, <1>8
<1>10. \A o \in UnsettledOf(ns, id) : Owed(ns[o], paid) \in Nat
  BY <1>2, <1>3 DEF Settleable
<1>11. /\ round.lamports >= RoundRent + before
       /\ ~round.canceled /\ t < round.expires_at =>
            round.lamports - RoundRent - before <= Dust(round)
  BY DEF Settleable
<1>12. round.lamports \in Nat /\ round.expires_at \in Nat
  BY DEF Round, Timestamps
<1>13. Dust(paid) = Dust(round)
  BY DEF Dust, Winners, winning_square
<1> DEFINE pay == IF t >= round.expires_at THEN 0 ELSE due
<1>14. paid.lamports = round.lamports - pay
  OBVIOUS
<1> HIDE DEF before, after, due
<1>15. paid.lamports >= RoundRent + after
  BY <1>9, <1>11, <1>12, <1>14
<1>16. ~paid.canceled /\ t < paid.expires_at =>
         paid.lamports - RoundRent - after <= Dust(paid)
  <2>1. SUFFICES ASSUME ~round.canceled, t < round.expires_at
                 PROVE  paid.lamports - RoundRent - after = round.lamports - RoundRent - before
    BY <1>11, <1>13
  <2>2. pay = due
    BY <1>12, <2>1
  <2>3. QED
    BY <1>9, <1>12, <1>14, <2>2
<1>17. QED
  BY <1>10, <1>15, <1>16 DEF Settleable, after

(* A drawn round holds what its winners are owed, and dust.                *)
LEMMA DrawnSettleable ==
  ASSUME NEW ms \in [Miners -> Miner], NEW id, NEW round \in Round,
         Books(round, ms, id), UnsettledOf(ms, id) = PlayersOf(ms, id),
         \A s \in Squares : round.deployed[s] <= round.total_deployed,
         NEW drawn, ~drawn.canceled, drawn.randomness \in Randomness,
         drawn.deployed = round.deployed, drawn.count = round.count,
         drawn.total_deployed = round.total_deployed, drawn.motherlode \in Nat,
         NEW W, W = round.deployed[winning_square(drawn)],
         drawn.lamports = RoundRent +
           (IF W = 0 THEN 0
            ELSE CalculateSettlement(round.total_deployed, W).principal
                   + CalculateSettlement(round.total_deployed, W).winnings
                   + drawn.motherlode),
         NEW t
  PROVE  Settleable(drawn, ms, id, t)
<1> DEFINE P == PlayersOf(ms, id)
           square == winning_square(drawn)
           d == [m \in P |-> ms[m].deployed[square]]
           total == round.total_deployed
           jackpot == drawn.motherlode
           share == Shares(P, d, total, W, jackpot)
           debt == Debt(drawn, ms, id)
           k == Cardinality(Stakers(ms, id, square))
<1>1. /\ square \in Squares /\ total \in Nat /\ W \in Nat /\ W <= total
      /\ IsFiniteSet(P) /\ P \subseteq Miners
  <2>1. square \in Squares
    BY DEF winning_square, Randomness
  <2>2. total \in Nat /\ W \in Nat
    BY <2>1 DEF Round, U64
  <2>3. QED
    BY <2>1, <2>2, PlayersFinite
<1>2. d \in [P -> Nat] /\ d \in [P -> Int]
  BY <1>1, StakeType
<1>3. SumFunction(d) = W
  BY <1>1 DEF Books, Staked
<1>4. /\ \A m \in P : Owed(ms[m], drawn) = share[m]
      /\ debt = SumFunction(share)
  <2>1. \A m \in P : Owed(ms[m], drawn) = share[m]
    BY DEF Owed, CalculateRewards, Shares
  <2>2. [m \in UnsettledOf(ms, id) |-> Owed(ms[m], drawn)] = share
    BY <2>1 DEF Shares
  <2>3. QED
    BY <2>1, <2>2 DEF Debt
<1>5. /\ Winners(drawn) = k
      /\ Stakers(ms, id, square) = {m \in P : d[m] > 0}
  BY <1>1 DEF Winners, Books, Stakers
<1> DEFINE good == /\ drawn.lamports >= RoundRent + debt
                   /\ drawn.lamports - RoundRent - debt <= Dust(drawn)
                   /\ \A m \in P : share[m] \in Nat
<1>6. ASSUME W = 0 PROVE good
  <2>1. \A m \in P : d[m] = 0
    <3>1. \A m \in P : d[m] <= SumFunction(d)
      <4> HIDE DEF d, P
      <4>1. QED
        BY <1>1, <1>2, SumNat
    <3>2. QED
      BY <1>2, <1>3, <1>6, <3>1
  <2>2. share \in [P -> Int] /\ \A m \in P : share[m] = 0
    BY <2>1 DEF Shares
  <2>3. debt = 0
    <3> HIDE DEF share, P
    <3>1. QED
      BY <1>1, <1>4, <2>2, SumZero
  <2>4. k = 0
    <3>1. Stakers(ms, id, square) = {}
      BY <1>5, <2>1
    <3>2. QED
      BY <3>1, FS_EmptySet
  <2>5. drawn.lamports = RoundRent /\ Dust(drawn) = 0
    BY <1>5, <1>6, <2>4 DEF Dust
  <2> HIDE DEF debt, share
  <2>6. QED
    BY <2>2, <2>3, <2>5
<1>7. ASSUME W # 0 PROVE good
  <2> DEFINE settlement == CalculateSettlement(total, W)
             pot == settlement.principal + settlement.winnings + jackpot
  <2>1. W \in 1 .. total
    BY <1>1, <1>7
  <2>2. /\ SumFunction(share) \in 0 .. pot
        /\ Cardinality({m \in P : d[m] > 0}) \in Nat \ {0}
        /\ pot - SumFunction(share) <= 3 * (Cardinality({m \in P : d[m] > 0}) - 1)
    <3> HIDE DEF d, P, total, jackpot
    <3>1. jackpot \in Nat
      BY DEF jackpot
    <3>2. QED
      BY <1>1, <1>2, <1>3, <2>1, <3>1, SharesFit
  <2>3. pot \in Nat
    <3>1. settlement.principal \in Nat /\ settlement.winnings \in Nat
      <4>1. W \in 0 .. total
        BY <1>1
      <4>2. total \in Nat
        BY <1>1
      <4> HIDE DEF total
      <4>3. QED
        BY <4>1, <4>2, PartsNat
    <3> HIDE DEF settlement
    <3>2. QED
      BY <3>1
  <2>4. drawn.lamports = RoundRent + pot
    BY <1>7
  <2>5. k \in Nat \ {0} /\ pot - debt <= 3 * (k - 1) /\ debt \in 0 .. pot
    BY <1>4, <1>5, <2>2
  <2>6. Dust(drawn) = 3 * (k - 1)
    BY <1>5, <2>5 DEF Dust
  <2>7. \A m \in P : share[m] \in Nat
    <3>1. SUFFICES ASSUME NEW m \in P, d[m] # 0
                   PROVE  WinnerShare(total, W, drawn.motherlode, d[m]) \in Nat
      BY DEF Shares
    <3>2. d[m] \in 0 .. W
      <4> HIDE DEF d, P
      <4>1. QED
        BY <1>1, <1>2, <1>3, SumNat
    <3>3. WinnerShare(total, W, drawn.motherlode, d[m]) \in 0 .. pot
      <4> HIDE DEF d, P
      <4>1. QED
        BY <1>1, <2>1, <3>2, ShareWithinPot
    <3>4. QED
      BY <2>3, <3>3
  <2> HIDE DEF pot, debt, share, k
  <2>8. QED
    BY <2>3, <2>4, <2>5, <2>6, <2>7
<1>8. good
  BY <1>6, <1>7
<1>9. QED
  BY <1>4, <1>8 DEF Settleable

(* A cancelled round holds every stake.                                    *)
LEMMA CanceledSettleable ==
  ASSUME NEW ms \in [Miners -> Miner], NEW id, NEW round \in Round,
         Books(round, ms, id), UnsettledOf(ms, id) = PlayersOf(ms, id),
         NEW closed, closed.canceled, closed.lamports = round.lamports, NEW t
  PROVE  Settleable(closed, ms, id, t)
<1>1. \A m \in UnsettledOf(ms, id) : Owed(ms[m], closed) = SumFunction(ms[m].deployed)
  BY DEF Owed
<1>2. Debt(closed, ms, id) = round.total_deployed
  <2>1. [m \in UnsettledOf(ms, id) |-> Owed(ms[m], closed)]
          = [m \in PlayersOf(ms, id) |-> SumFunction(ms[m].deployed)]
    BY <1>1
  <2>2. QED
    BY <2>1, StakesAddUp DEF Debt
<1>3. \A m \in UnsettledOf(ms, id) : Owed(ms[m], closed) \in Nat
  BY <1>1, StakesAddUp, PlayersFinite
<1>4. round.lamports = RoundRent + round.total_deployed /\ round.total_deployed \in Nat
  BY DEF Books, Round, U64
<1>5. QED
  BY <1>2, <1>3, <1>4 DEF Settleable

-----------------------------------------------------------------------------
(***************************************************************************)
(* The inductive invariant.                                                *)
(***************************************************************************)
(* No miner is settled for, or plays in, a round after the open one;       *)
(* whoever plays in the open one is not settled for it.                    *)
Seated ==
  \A m \in Miners :
    /\ ~miners[m].exists => miners[m] = NewMiner(FALSE, 0)
    /\ miners[m].round_id # NoRound => miners[m].round_id <= board.round_id
    /\ miners[m].round_id = board.round_id => miners[m].checkpoint_id # board.round_id

(* The open round has no draw, is not closed and not cancelled.            *)
OpenUndrawn ==
  /\ rounds[board.round_id].motherlode = 0
  /\ rounds[board.round_id].randomness = NoRandomness

(* Every round that ended is settleable.                                   *)
ClosedSettleable ==
  \A id \in RoundIds : id < board.round_id =>
    Settleable(rounds[id], miners, id, now)

Ledger == Seated /\ OpenRoundBooks /\ OpenUndrawn /\ ClosedSettleable
LedgerInv == Inv /\ Backed /\ Ledger

(* What the proofs below use of the invariant's types.                     *)
LEMMA LedgerTypes ==
  ASSUME Inv
  PROVE  /\ miners \in [Miners -> Miner] /\ rounds \in [RoundIds -> Round]
         /\ board.round_id \in RoundIds /\ now \in Nat /\ NoRound \notin RoundIds
         /\ \A m \in Miners : miners[m].round_id \in RoundIds \cup {NoRound}
<1>1. miners \in [Miners -> Miner]
  BY DEF Inv, TypeInv, TypeOK
<1>2. \A m \in Miners : miners[m].round_id \in RoundIds \cup {NoRound}
  BY <1>1 DEF Miner
<1>3. NoRound \notin RoundIds
  BY DEF NoRound, RoundIds
<1>4. QED
  BY <1>1, <1>2, <1>3, PhaseFacts

(* Nobody plays a round that has not begun.                                *)
LEMMA NobodyAhead ==
  ASSUME Inv, Seated, NEW id \in RoundIds, id > board.round_id
  PROVE  PlayersOf(miners, id) = {}
<1>1. NoRound \notin RoundIds /\ board.round_id \in Nat /\ id \in Nat
  BY LedgerTypes DEF RoundIds
<1>2. ASSUME NEW m \in Miners PROVE miners[m].round_id # id
  <2>1. CASE miners[m].round_id = NoRound
    BY <1>1, <2>1
  <2>2. CASE miners[m].round_id # NoRound
    <3>1. miners[m].round_id <= board.round_id
      BY <2>2 DEF Seated
    <3>2. QED
      BY <1>1, <3>1
  <2>3. QED
    BY <2>1, <2>2
<1>3. QED
  BY <1>2 DEF PlayersOf

(* A round nobody plays, with no total, has exact books.                   *)
LEMMA EmptyBooks ==
  ASSUME NEW ms, NEW id, PlayersOf(ms, id) = {}
  PROVE  Books(EmptyRound(RoundRent), ms, id)
<1> DEFINE round == EmptyRound(RoundRent)
<1>1. /\ round.lamports = RoundRent /\ round.total_deployed = 0
      /\ round.total_miners = 0
      /\ \A s \in Squares : round.deployed[s] = 0 /\ round.count[s] = 0
      /\ round.deployed \in [Squares -> Int]
  BY DEF EmptyRound
<1> HIDE DEF round
<1>2. SumFunction(round.deployed) = 0
  BY <1>1, SumZero, PlayersAssumption
<1>3. Cardinality(PlayersOf(ms, id)) = 0
  BY FS_EmptySet
<1>4. ASSUME NEW s \in Squares
      PROVE  Staked(ms, id, s) = 0 /\ Cardinality(Stakers(ms, id, s)) = 0
  <2>1. Stakers(ms, id, s) = {}
    BY DEF Stakers
  <2> DEFINE f == [m \in PlayersOf(ms, id) |-> ms[m].deployed[s]]
  <2>2. DOMAIN f = {}
    OBVIOUS
  <2> HIDE DEF f
  <2>3. SumFunction(f) = 0
    BY <2>2, SumEmpty
  <2>4. QED
    BY <2>1, <2>3, FS_EmptySet DEF Staked, f
<1>5. QED
  BY <1>1, <1>2, <1>3, <1>4 DEF Books, round

(* No round has a bet at first, and none has ended.                        *)
LEMMA InitLedger == Init => Ledger
<1> SUFFICES ASSUME Init PROVE Ledger
  OBVIOUS
<1>1. /\ board.round_id = 0 /\ 0 \in RoundIds
      /\ rounds[0] = EmptyRound(RoundRent)
      /\ \A m \in Miners : miners[m] = NewMiner(FALSE, 0)
  <2>1. board.round_id = 0 /\ 0 \in RoundIds
    BY DEF Init, RoundIds
  <2>2. rounds = [id \in RoundIds |-> EmptyRound(IF id = 0 THEN RoundRent ELSE 0)]
    BY DEF Init
  <2>3. QED
    BY <2>1, <2>2 DEF Init
<1>2. \A m \in Miners : miners[m].round_id = NoRound
  BY <1>1 DEF NewMiner
<1>3. NoRound # 0
  BY DEF NoRound
<1>4. Seated
  BY <1>1, <1>2, <1>3 DEF Seated
<1>5. PlayersOf(miners, 0) = {}
  BY <1>2, <1>3 DEF PlayersOf
<1>6. OpenRoundBooks
  BY <1>1, <1>5, EmptyBooks, BooksAre
<1>7. OpenUndrawn
  BY <1>1 DEF OpenUndrawn, EmptyRound
<1>8. ClosedSettleable
  BY <1>1 DEF ClosedSettleable, RoundIds
<1>9. QED
  BY <1>4, <1>6, <1>7, <1>8 DEF Ledger

(* The fields of an open round that its books are about.                   *)
SameBooks(a, b) ==
  /\ b.lamports = a.lamports /\ b.total_deployed = a.total_deployed
  /\ b.deployed = a.deployed /\ b.count = a.count
  /\ b.total_miners = a.total_miners

(* The books stay exact while bets and totals do.                          *)
LEMMA BooksStay ==
  ASSUME NEW round, NEW other, SameBooks(round, other), NEW ms, NEW ns, NEW id,
         Books(round, ms, id),
         \A m \in Miners : /\ ns[m].round_id = ms[m].round_id
                          /\ ns[m].deployed = ms[m].deployed
  PROVE  Books(other, ns, id)
<1>1. PlayersOf(ns, id) = PlayersOf(ms, id)
  BY DEF PlayersOf
<1>2. ASSUME NEW s \in Squares
      PROVE  /\ Staked(ns, id, s) = Staked(ms, id, s)
             /\ Stakers(ns, id, s) = Stakers(ms, id, s)
  <2>1. \A m \in PlayersOf(ms, id) : ns[m].deployed = ms[m].deployed
    BY PlayersFinite
  <2>2. [m \in PlayersOf(ns, id) |-> ns[m].deployed[s]]
          = [m \in PlayersOf(ms, id) |-> ms[m].deployed[s]]
    BY <1>1, <2>1
  <2>3. QED
    BY <1>1, <2>1, <2>2 DEF Staked, Stakers
<1>3. QED
  BY <1>1, <1>2 DEF Books, SameBooks

(* Steps in which nobody bets or settles and no round ends.                *)
LEMMA QuietKeeps ==
  ASSUME Inv, Ledger, Inv',
         \A m \in Miners :
           /\ miners'[m].round_id = miners[m].round_id
           /\ miners'[m].checkpoint_id = miners[m].checkpoint_id
           /\ miners'[m].deployed = miners[m].deployed
           /\ ~miners'[m].exists => miners'[m] = miners[m],
         board'.round_id = board.round_id, now' >= now,
         SameBooks(rounds[board.round_id], rounds'[board.round_id]),
         rounds'[board.round_id].motherlode = rounds[board.round_id].motherlode,
         rounds'[board.round_id].randomness = rounds[board.round_id].randomness,
         \A id \in RoundIds : id < board.round_id => rounds'[id] = rounds[id]
  PROVE  Ledger'
<1>1. Seated'
  BY DEF Ledger, Seated
<1>2. OpenRoundBooks'
  BY BooksAre, BooksNext, BooksStay DEF Ledger
<1>3. OpenUndrawn'
  BY DEF Ledger, OpenUndrawn
<1>4. ClosedSettleable'
  <2>1. SUFFICES ASSUME NEW id \in RoundIds, id < board.round_id
                 PROVE  Settleable(rounds[id], miners', id, now')
    BY DEF ClosedSettleable
  <2>2. UnsettledOf(miners', id) = UnsettledOf(miners, id)
    BY DEF UnsettledOf, PlayersOf
  <2>3. \A m \in UnsettledOf(miners, id) : miners'[m].deployed = miners[m].deployed
    BY PlayersFinite
  <2>4. rounds[id] \in Round /\ now \in Nat /\ now' \in Nat
        /\ Settleable(rounds[id], miners, id, now)
    <3>1. now' \in Nat
      BY DEF Inv, TypeInv, TypeOK
    <3>2. QED
      BY <2>1, <3>1, LedgerTypes DEF Ledger, ClosedSettleable
  <2>5. QED
    BY <2>2, <2>3, <2>4, SettleableStays
<1>5. QED
  BY <1>1, <1>2, <1>3, <1>4 DEF Ledger


-----------------------------------------------------------------------------
(***************************************************************************)
(* What each action does, and why it keeps the ledger.                     *)
(***************************************************************************)

(* What m holds in the open round before it bets, and the squares its bet  *)
(* goes to.                                                                *)
Held(m) ==
  IF miners[m].round_id # board.round_id THEN [s \in Squares |-> 0]
                                         ELSE miners[m].deployed
Chosen(m, mask) == {s \in mask : Held(m)[s] = 0}
(* The stakes after the bet.                                               *)
Raised(stakes, selected, amount) ==
  [s \in Squares |-> IF s \in selected THEN stakes[s] + amount ELSE stakes[s]]

(* What deploy does to the player.                                         *)
LEMMA DeployMiner ==
  ASSUME Inv, NEW m \in Miners, NEW amount \in DeployAmounts,
         NEW mask \in SUBSET Squares, NEW expected_nonce \in 0 .. MaxNonce,
         Deploy(m, amount, mask, expected_nonce)
  PROVE  /\ Held(m) \in [Squares -> Nat]
         /\ Chosen(m, mask) \in SUBSET Squares /\ Chosen(m, mask) # {}
         /\ \A o \in Miners \ {m} : miners'[o] = miners[o]
         /\ miners[m].exists /\ miners'[m].exists
         /\ miners'[m].round_id = board.round_id
         /\ miners'[m].checkpoint_id = miners[m].checkpoint_id
         /\ miners[m].round_id # board.round_id =>
              miners[m].checkpoint_id = miners[m].round_id
         /\ miners'[m].deployed = Raised(Held(m), Chosen(m, mask), amount)
<1> DEFINE id == board.round_id
           is_new_round == miners[m].round_id # id
           miner == IF is_new_round THEN Joined(miners[m], id) ELSE miners[m]
           selected == Selected(miner, mask)
           total_cost == amount * Cardinality(selected)
           Bet(squares) == [s \in Squares |->
                     IF s \in selected THEN squares[s] + amount ELSE squares[s]]
           bettor == [miner EXCEPT !.deployed = Bet(@),
                                   !.rewards_sol = @ - total_cost,
                                   !.transaction_nonce = @ + 1,
                                   !.lamports = @ - total_cost]
<1>1. miners \in [Miners -> Miner] /\ miners[m] \in Miner /\ id \in RoundIds
  BY LedgerTypes
<1>2. /\ miners[m].exists /\ (is_new_round => MayJoin(miners[m]))
      /\ selected # {}
      /\ miners' = [miners EXCEPT ![m] = bettor]
  BY DEF Deploy
<1>3. /\ miner \in Miner /\ miner.round_id = id /\ miner.exists
      /\ miner.checkpoint_id = miners[m].checkpoint_id
      /\ miner.deployed = Held(m)
  <2>1. CASE is_new_round
    <3>1. Joined(miners[m], id) \in Miner /\ Joined(miners[m], id).round_id = id
      BY <1>1, <1>2, <2>1, JoinedType
    <3>2. /\ Joined(miners[m], id).exists = miners[m].exists
          /\ Joined(miners[m], id).checkpoint_id = miners[m].checkpoint_id
          /\ Joined(miners[m], id).deployed = [s \in Squares |-> 0]
      BY <1>1 DEF Joined, Miner
    <3>3. QED
      BY <1>2, <2>1, <3>1, <3>2 DEF Held
  <2>2. CASE ~is_new_round
    BY <1>1, <1>2, <2>2 DEF Held
  <2>3. QED
    BY <2>1, <2>2
<1>4. selected = Chosen(m, mask)
  <2> HIDE DEF miner
  <2>1. QED
    BY <1>3 DEF Selected, Chosen
<1> HIDE DEF miner, selected
<1>5. /\ bettor.exists = miner.exists /\ bettor.round_id = miner.round_id
      /\ bettor.checkpoint_id = miner.checkpoint_id
      /\ bettor.deployed = Bet(miner.deployed)
  BY <1>3 DEF Miner
<1>6. miners'[m] = bettor /\ \A o \in Miners \ {m} : miners'[o] = miners[o]
  BY <1>1, <1>2
<1> HIDE DEF bettor
<1>7. Held(m) \in [Squares -> Nat]
  BY <1>3 DEF Miner, U64
<1>8. Chosen(m, mask) \in SUBSET Squares
  BY DEF Chosen
<1>9. is_new_round => miners[m].checkpoint_id = miners[m].round_id
  BY <1>2 DEF MayJoin
<1>10. QED
  BY <1>2, <1>3, <1>4, <1>5, <1>6, <1>7, <1>8, <1>9 DEF Raised

(* What deploy does to the open round.                                     *)
LEMMA DeployRound ==
  ASSUME Inv, NEW m \in Miners, NEW amount \in DeployAmounts,
         NEW mask \in SUBSET Squares, NEW expected_nonce \in 0 .. MaxNonce,
         Deploy(m, amount, mask, expected_nonce)
  PROVE  LET id == board.round_id
             round == rounds[id]
             selected == Chosen(m, mask)
             cost == amount * Cardinality(selected)
         IN  /\ cost \in Nat /\ cost > 0
             /\ ~board.vrf_requested
             /\ board'.round_id = id /\ board'.vrf_requested = board.vrf_requested
             /\ now' = now /\ prepared' = prepared
             /\ \A i \in RoundIds \ {id} : rounds'[i] = rounds[i]
             /\ rounds'[id].deployed = Raised(round.deployed, selected, amount)
             /\ rounds'[id].count
                  = [s \in Squares |-> IF s \in selected THEN round.count[s] + 1
                                                         ELSE round.count[s]]
             /\ rounds'[id].total_miners
                  = IF miners[m].round_id # id THEN round.total_miners + 1
                                               ELSE round.total_miners
             /\ rounds'[id].total_deployed = round.total_deployed + cost
             /\ rounds'[id].lamports = round.lamports + cost
             /\ rounds'[id].motherlode = round.motherlode
             /\ rounds'[id].randomness = round.randomness
<1> DEFINE id == board.round_id
           round == rounds[id]
           is_new_round == miners[m].round_id # id
           miner == IF is_new_round THEN Joined(miners[m], id) ELSE miners[m]
           selected == Selected(miner, mask)
           cost == amount * Cardinality(selected)
           Bet(squares) == [s \in Squares |->
                     IF s \in selected THEN squares[s] + amount ELSE squares[s]]
           grown == [round EXCEPT !.deployed = Bet(@),
                      !.count = [s \in Squares |->
                                   IF s \in selected THEN @[s] + 1 ELSE @[s]],
                      !.total_miners = IF is_new_round THEN @ + 1 ELSE @,
                      !.total_deployed = @ + cost,
                      !.lamports = @ + cost]
<1>1. id \in RoundIds /\ round \in Round /\ rounds \in [RoundIds -> Round]
  BY LedgerTypes
<1>2. /\ ~board.vrf_requested /\ board' = StartedBoard
      /\ now' = now /\ prepared' = prepared
      /\ rounds' = [rounds EXCEPT ![id] = grown]
  BY DEF Deploy, BettingOpen
<1>3. miner.deployed = Held(m)
  <2>1. miners[m] \in Miner
    BY LedgerTypes
  <2>2. QED
    BY <2>1 DEF Held, Joined, Miner
<1>4. selected = Chosen(m, mask)
  <2> HIDE DEF miner
  <2>1. QED
    BY <1>3 DEF Selected, Chosen
<1>5. selected \in SUBSET Squares /\ selected # {}
  BY <1>4, DeployMiner
<1> HIDE DEF selected
<1>6. cost \in Nat /\ cost > 0
  <2>1. amount \in Nat /\ amount > 0
    OBVIOUS
  <2>2. cost \in Nat /\ amount <= cost
    BY <1>5, <2>1, DeployCost
  <2> HIDE DEF cost
  <2>3. QED
    BY <2>1, <2>2
<1> HIDE DEF cost, is_new_round
<1>7. rounds'[id] = grown /\ \A i \in RoundIds \ {id} : rounds'[i] = rounds[i]
  BY <1>1, <1>2
<1>8. /\ grown.deployed = Bet(round.deployed)
      /\ grown.count = [s \in Squares |-> IF s \in selected THEN round.count[s] + 1
                                                            ELSE round.count[s]]
      /\ grown.total_miners = IF is_new_round THEN round.total_miners + 1
                                              ELSE round.total_miners
      /\ grown.total_deployed = round.total_deployed + cost
      /\ grown.lamports = round.lamports + cost
      /\ grown.motherlode = round.motherlode
      /\ grown.randomness = round.randomness
  <2> HIDE DEF round
  <2>1. QED
    BY <1>1 DEF Round
<1> HIDE DEF grown
<1>9. board'.round_id = id /\ board'.vrf_requested = board.vrf_requested
  <2>1. board \in Board
    BY PhaseFacts
  <2>2. QED
    BY <1>2, <2>1 DEF StartedBoard, Board
<1>10. QED
  BY <1>2, <1>4, <1>6, <1>7, <1>8, <1>9 DEF Raised, cost, is_new_round

(* A bet keeps the ledger: the open round by BetKeepsBooks, the others     *)
(* because the bettor owes and is owed nothing there.                      *)
LEMMA DeployLedger ==
  ASSUME Inv, Ledger, Inv', NEW m \in Miners, NEW amount \in DeployAmounts,
         NEW mask \in SUBSET Squares, NEW expected_nonce \in 0 .. MaxNonce,
         Deploy(m, amount, mask, expected_nonce)
  PROVE  Ledger'
<1> DEFINE id == board.round_id
           selected == Chosen(m, mask)
           cost == amount * Cardinality(selected)
<1>1. /\ miners \in [Miners -> Miner] /\ miners' \in [Miners -> Miner]
      /\ rounds[id] \in Round /\ id \in RoundIds
  BY LedgerTypes DEF Inv, TypeInv, TypeOK
<1>2. board'.round_id = id /\ now' = now
      /\ \A i \in RoundIds \ {id} : rounds'[i] = rounds[i]
  BY DeployRound
<1>3. Seated'
  <2>1. id # NoRound
    BY LedgerTypes
  <2>2. \A o \in Miners \ {m} : miners'[o] = miners[o]
    BY DeployMiner
  <2>3. /\ miners'[m].exists /\ miners'[m].round_id = id
        /\ miners'[m].checkpoint_id # id
    <3>1. CASE miners[m].round_id = id
      BY <3>1, DeployMiner DEF Ledger, Seated
    <3>2. CASE miners[m].round_id # id
      BY <3>2, DeployMiner
    <3>3. QED
      BY <3>1, <3>2, DeployMiner
  <2>4. id <= id
    BY <1>1 DEF RoundIds
  <2>5. QED
    BY <1>2, <2>2, <2>3, <2>4 DEF Ledger, Seated
<1>4. OpenRoundBooks'
  <2> DEFINE held == Held(m)
             round == rounds[id]
             bet == rounds'[id]
  <2>1. held \in [Squares -> Nat] /\ selected \in SUBSET Squares
    BY DeployMiner
  <2>2. BetBy(miners, miners', m, id, held, selected, amount)
    <3>1. /\ miners[m].round_id = id => held = miners[m].deployed
          /\ miners[m].round_id # id => \A s \in Squares : held[s] = 0
      BY DEF Held
    <3>2. \A s \in selected : held[s] = 0
      BY DEF Chosen
    <3>3. \A s \in Squares : miners'[m].deployed[s]
            = IF s \in selected THEN held[s] + amount ELSE held[s]
      <4>1. miners'[m].deployed = Raised(held, selected, amount)
        BY DeployMiner
      <4> HIDE DEF held, selected
      <4>2. QED
        BY <4>1 DEF Raised
    <3> HIDE DEF held, selected
    <3>4. QED
      BY <3>1, <3>2, <3>3, DeployMiner DEF BetBy
  <2>3. BetIn(round, bet, miners[m].round_id # id, selected, amount)
    BY DeployRound DEF Raised, BetIn
  <2>4. Books(round, miners, id) /\ amount \in Nat \ {0} /\ round \in Round
    BY <1>1, BooksAre DEF Ledger
  <2> HIDE DEF held, selected, bet, round, id, cost
  <2>5. Books(bet, miners', id)
    BY <1>1, <2>1, <2>2, <2>3, <2>4, BetKeepsBooks
  <2>6. QED
    BY <1>2, <2>5, BooksNext DEF bet
<1>5. OpenUndrawn'
  BY <1>2, DeployRound DEF Ledger, OpenUndrawn
<1>6. ClosedSettleable'
  <2> SUFFICES ASSUME NEW i \in RoundIds, i < id
               PROVE  Settleable(rounds'[i], miners', i, now')
    BY <1>2 DEF ClosedSettleable
  <2>1. i # id
    BY <1>1 DEF RoundIds
  <2>2. UnsettledOf(miners', i) = UnsettledOf(miners, i)
    <3>1. \A o \in Miners \ {m} : miners'[o] = miners[o]
      BY DeployMiner
    <3>2. m \notin UnsettledOf(miners', i)
      BY <2>1, DeployMiner DEF UnsettledOf, PlayersOf
    <3>3. m \notin UnsettledOf(miners, i)
      BY <2>1, DeployMiner DEF UnsettledOf, PlayersOf
    <3>4. QED
      BY <3>1, <3>2, <3>3 DEF UnsettledOf, PlayersOf
  <2>3. \A o \in UnsettledOf(miners, i) : miners'[o].deployed = miners[o].deployed
    <3>1. m \notin UnsettledOf(miners, i)
      BY <2>1, DeployMiner DEF UnsettledOf, PlayersOf
    <3>2. QED
      BY <3>1, DeployMiner, PlayersFinite
  <2>4. /\ rounds'[i] = rounds[i] /\ rounds[i] \in Round /\ now \in Nat /\ now <= now
        /\ Settleable(rounds[i], miners, i, now)
    BY <1>2, <2>1, LedgerTypes DEF Ledger, ClosedSettleable
  <2>5. QED
    BY <1>2, <2>2, <2>3, <2>4, SettleableStays
<1>7. QED
  BY <1>3, <1>4, <1>5, <1>6 DEF Ledger

(* What settle_round makes of the open round: the fee, and the jackpot     *)
(* unless it is won, leave for the treasury.                               *)
LEMMA CallbackEffect ==
  ASSUME Inv, Backed, NEW request \in requests, NEW randomness \in Randomness,
         CallbackResolveRound(request, randomness)
  PROVE  LET id == board.round_id
             round == rounds[id]
             closed == rounds'[id]
             W == round.deployed[randomness.square]
             parts == CalculateSettlement(round.total_deployed, W)
             hit == W > 0 /\ randomness.motherlode
             jackpot == treasury.motherlode + parts.vaulted
         IN  /\ id + 1 \in prepared /\ prepared' = prepared
             /\ board.vrf_requested /\ board' = AdvanceBoard(board)
             /\ now' = now /\ miners' = miners
             /\ \A i \in RoundIds \ {id} : rounds'[i] = rounds[i]
             /\ closed.randomness = randomness /\ closed.canceled = round.canceled
             /\ closed.deployed = round.deployed /\ closed.count = round.count
             /\ closed.total_deployed = round.total_deployed
             /\ closed.motherlode = IF hit THEN jackpot ELSE round.motherlode
             /\ closed.lamports = round.lamports - parts.admin_fee
                  + treasury.motherlode - (IF hit THEN 0 ELSE jackpot)
<1> DEFINE id == board.round_id
           round == rounds[id]
           expires_at == now + CLAIM_WINDOW_SECONDS
           drawn == [round EXCEPT !.randomness = randomness, !.resolved = TRUE,
                                  !.expires_at = expires_at]
           W == round.deployed[randomness.square]
           parts == CalculateSettlement(round.total_deployed, W)
           hit == W > 0 /\ randomness.motherlode
           jackpot == treasury.motherlode + parts.vaulted
           won == IF hit THEN jackpot ELSE round.motherlode
           kept == IF hit THEN 0 ELSE jackpot
           settled == SettleRound(drawn)
           to_treasury == TreasuryRent + settled.admin_fees + settled.motherlode
                            - treasury.lamports
           left == settled.round.lamports - to_treasury
           booked == [drawn EXCEPT !.total_winnings = parts.winnings,
                                   !.total_vaulted = parts.vaulted,
                                   !.motherlode = won]
<1>1. /\ request.round_id = id /\ id + 1 \in prepared /\ prepared' = prepared
      /\ board.vrf_requested /\ board' = AdvanceBoard(board)
      /\ now' = now /\ miners' = miners
      /\ rounds' = [rounds EXCEPT ![id] =
                      [settled.round EXCEPT !.lamports = @ - to_treasury]]
  BY DEF CallbackResolveRound, Awaited
<1>2. /\ id \in RoundIds /\ round \in Round /\ rounds \in [RoundIds -> Round]
      /\ treasury \in Treasury
  BY LedgerTypes DEF Inv, TypeInv, TypeOK
<1>3. \A i \in RoundIds \ {id} : rounds'[i] = rounds[i]
  BY <1>1, <1>2
<1>4. /\ drawn.randomness = randomness /\ drawn.deployed = round.deployed
      /\ drawn.total_deployed = round.total_deployed
      /\ drawn.motherlode = round.motherlode /\ drawn.lamports = round.lamports
      /\ drawn.canceled = round.canceled /\ drawn.count = round.count
  <2> HIDE DEF expires_at, round
  <2>1. QED
    BY <1>2 DEF Round
<1>5. settled = [round |-> booked,
                 admin_fees |-> treasury.admin_fees + parts.admin_fee,
                 jackpot |-> jackpot, motherlode |-> kept]
  <2>1. drawn.deployed[winning_square(drawn)] = W
        /\ did_hit_motherlode(drawn) = randomness.motherlode
    BY <1>4 DEF winning_square, did_hit_motherlode
  <2>2. [drawn EXCEPT !.total_winnings = parts.winnings,
                      !.total_vaulted = parts.vaulted,
                      !.motherlode = IF hit THEN jackpot ELSE @] = booked
    <3>1. drawn.motherlode = round.motherlode
      BY <1>4
    <3> HIDE DEF parts, hit, jackpot
    <3>2. QED
      BY <1>2, <3>1 DEF Round
  <2> HIDE DEF booked, drawn
  <2>3. QED
    BY <1>4, <2>1, <2>2 DEF SettleRound, Award, JackpotLeft
<1>6. /\ booked.randomness = randomness /\ booked.canceled = round.canceled
      /\ booked.deployed = round.deployed /\ booked.count = round.count
      /\ booked.total_deployed = round.total_deployed
      /\ booked.motherlode = won /\ booked.lamports = round.lamports
  <2> HIDE DEF expires_at, round, won, parts
  <2>1. QED
    BY <1>2 DEF Round
<1>7. rounds'[id] = [booked EXCEPT !.lamports = @ - to_treasury]
  <2>1. settled.round = booked
    <3> HIDE DEF booked
    <3>1. QED
      BY <1>5
  <2> HIDE DEF booked, settled, to_treasury
  <2>2. QED
    BY <1>1, <1>2, <2>1
<1>8. /\ parts.admin_fee \in Nat /\ parts.vaulted \in Nat /\ parts.winnings \in Nat
       /\ kept \in Nat /\ won \in Nat
       /\ treasury.admin_fees \in Nat /\ treasury.motherlode \in Nat
       /\ round.lamports \in Nat
  <2>1. parts.admin_fee \in Nat /\ parts.vaulted \in Nat /\ parts.winnings \in Nat
    <3>1. round.total_deployed \in Nat /\ W \in 0 .. round.total_deployed
      <4>1. randomness.square \in Squares
        BY DEF Randomness
      <4>2. round.deployed \in [Squares -> Nat] /\ round.total_deployed \in Nat
        BY <1>2 DEF Round, U64
      <4>3. W \in Nat /\ W <= round.total_deployed
        BY <1>2, <4>1, <4>2 DEF Inv, TypeInv, StakesWithinPot
      <4>4. QED
        BY <4>2, <4>3
    <3> HIDE DEF W, round
    <3>2. QED
      BY <3>1, PartsNat
  <2>2. /\ treasury.admin_fees \in Nat /\ treasury.motherlode \in Nat
        /\ round.motherlode \in Nat /\ round.lamports \in Nat
    BY <1>2 DEF Treasury, U64, Round
  <2> HIDE DEF parts, hit, round
  <2>3. QED
    BY <2>1, <2>2
<1>9. to_treasury = parts.admin_fee + kept - treasury.motherlode
  <2>1. treasury.lamports = TreasuryRent + treasury.admin_fees + treasury.motherlode
        /\ treasury.admin_fees \in Nat /\ treasury.motherlode \in Nat
    BY <1>2 DEF Backed, Treasury, U64
  <2>2. settled.admin_fees = treasury.admin_fees + parts.admin_fee
        /\ settled.motherlode = kept
    BY <1>5
  <2> HIDE DEF settled, parts, kept
  <2>3. QED
    BY <1>8, <2>1, <2>2
<1>10. /\ rounds'[id].randomness = randomness /\ rounds'[id].canceled = round.canceled
      /\ rounds'[id].deployed = round.deployed /\ rounds'[id].count = round.count
      /\ rounds'[id].total_deployed = round.total_deployed
      /\ rounds'[id].motherlode = won
      /\ rounds'[id].lamports = round.lamports - to_treasury
  <2>1. booked \in Round
    <3>1. expires_at \in Timestamps
      BY DEF Inv, TypeInv, TypeOK, Timestamps
    <3> HIDE DEF expires_at, parts, won, round
    <3>2. QED
      BY <1>2, <1>8, <3>1 DEF Round
  <2> HIDE DEF booked, to_treasury, won, round
  <2>2. QED
    BY <1>6, <1>7, <2>1 DEF Round
<1>11. rounds'[id].lamports = round.lamports - parts.admin_fee + treasury.motherlode - kept
  <2> HIDE DEF parts, kept, to_treasury
  <2>1. QED
    BY <1>8, <1>9, <1>10
<1>12. QED
  <2> HIDE DEF to_treasury, settled, booked, drawn, expires_at, left
  <2>1. QED
    BY <1>1, <1>3, <1>10, <1>11, Zenon

(* What checkpoint moves: rewards lamports from a closed round to a player *)
(* it has not settled yet.                                                 *)
Rewards(m) ==
  LET round == rounds[miners[m].round_id]
  IN  IF now >= round.expires_at THEN 0 ELSE Owed(miners[m], round)

(* What checkpoint does to the round and to the player.                    *)
LEMMA CheckpointEffect ==
  ASSUME Inv, Seated, NEW caller \in Wallets, NEW m \in Miners, Checkpoint(caller, m)
  PROVE  LET id == miners[m].round_id
             round == rounds[id]
             paid == rounds'[id]
         IN  /\ id \in prepared /\ id \in RoundIds /\ id < board.round_id
             /\ m \in UnsettledOf(miners, id)
             /\ board' = board /\ now' = now /\ prepared' = prepared
             /\ Rewards(m) \in Nat /\ miners[m].exists
             /\ \A o \in Miners \ {m} : miners'[o] = miners[o]
             /\ miners'[m].exists /\ miners'[m].round_id = id
             /\ miners'[m].checkpoint_id = id
             /\ miners'[m].deployed = miners[m].deployed
             /\ miners'[m].rewards_sol = miners[m].rewards_sol + Rewards(m)
             /\ \A i \in RoundIds \ {id} : rounds'[i] = rounds[i]
             /\ paid.canceled = round.canceled /\ paid.randomness = round.randomness
             /\ paid.deployed = round.deployed /\ paid.count = round.count
             /\ paid.total_deployed = round.total_deployed
             /\ paid.motherlode = round.motherlode
             /\ paid.expires_at = round.expires_at
             /\ paid.lamports = round.lamports - Rewards(m)
<1> DEFINE id == miners[m].round_id
           round == rounds[id]
           rewards == IF now >= round.expires_at THEN 0 ELSE Owed(miners[m], round)
           fee == IF caller = m THEN 0 ELSE miners[m].checkpoint_fee
           settled == [miners[m] EXCEPT !.checkpoint_id = id,
                                        !.rewards_sol = @ + rewards,
                                        !.checkpoint_fee = @ - fee,
                                        !.lamports = @ + rewards - fee]
<1>1. /\ id \in prepared /\ id < board.round_id /\ miners[m].checkpoint_id # id
      /\ rewards \in U64
      /\ board' = board /\ now' = now /\ prepared' = prepared
      /\ miners' = [miners EXCEPT ![m] = settled]
      /\ rounds' = [rounds EXCEPT ![id].lamports = @ - rewards]
  BY DEF Checkpoint, MaySettle
<1>2. /\ miners[m] \in Miner /\ miners \in [Miners -> Miner]
      /\ rounds \in [RoundIds -> Round] /\ id \in RoundIds /\ round \in Round
  BY <1>1, LedgerTypes, PhaseFacts
<1>3. miners[m].exists
  <2>1. id # NoRound
    BY <1>2, LedgerTypes
  <2>2. NewMiner(FALSE, 0).round_id = NoRound
    BY DEF NewMiner
  <2>3. QED
    BY <2>1, <2>2 DEF Seated
<1>4. rewards = Rewards(m)
  BY DEF Rewards
<1>5. m \in UnsettledOf(miners, id)
  BY <1>1 DEF UnsettledOf, PlayersOf
<1> HIDE DEF rewards, fee, id
<1>6. /\ settled.exists = miners[m].exists /\ settled.round_id = miners[m].round_id
      /\ settled.checkpoint_id = id /\ settled.deployed = miners[m].deployed
      /\ settled.rewards_sol = miners[m].rewards_sol + rewards
  BY <1>2 DEF Miner
<1> HIDE DEF settled
<1>7. miners'[m] = settled /\ \A o \in Miners \ {m} : miners'[o] = miners[o]
  BY <1>1, <1>2
<1>8. /\ rounds'[id] = [round EXCEPT !.lamports = @ - rewards]
      /\ \A i \in RoundIds \ {id} : rounds'[i] = rounds[i]
  BY <1>1, <1>2
<1>9. LET paid == rounds'[id]
      IN  /\ paid.canceled = round.canceled /\ paid.randomness = round.randomness
          /\ paid.deployed = round.deployed /\ paid.count = round.count
          /\ paid.total_deployed = round.total_deployed
          /\ paid.motherlode = round.motherlode
          /\ paid.expires_at = round.expires_at
          /\ paid.lamports = round.lamports - rewards
  <2> HIDE DEF round
  <2>1. QED
    BY <1>2, <1>8 DEF Round
<1>10. rewards \in Nat
  BY <1>1 DEF U64
<1>11. QED
  BY <1>1, <1>2, <1>3, <1>4, <1>5, <1>6, <1>7, <1>8, <1>9, <1>10 DEF id

(* A checkpoint keeps the ledger, by PaidOnce.                             *)
LEMMA CheckpointLedger ==
  ASSUME Inv, Ledger, NEW caller \in Wallets, NEW m \in Miners, Checkpoint(caller, m)
  PROVE  Ledger'
<1> DEFINE id == miners[m].round_id
           current == board.round_id
<1> USE DEF Ledger
<1>1. /\ id \in RoundIds /\ id < current /\ current \in RoundIds /\ id # current
      /\ board' = board /\ now' = now /\ now \in Nat
      /\ \A i \in RoundIds \ {id} : rounds'[i] = rounds[i]
      /\ rounds \in [RoundIds -> Round]
  BY CheckpointEffect, LedgerTypes DEF RoundIds
<1>2. /\ \A o \in Miners : /\ miners'[o].round_id = miners[o].round_id
                          /\ miners'[o].deployed = miners[o].deployed
      /\ \A o \in Miners \ {m} : miners'[o] = miners[o]
      /\ miners'[m].exists /\ miners'[m].checkpoint_id = id
      /\ m \in UnsettledOf(miners, id)
  <2>1. /\ miners'[m].round_id = id /\ miners'[m].deployed = miners[m].deployed
        /\ \A o \in Miners \ {m} : miners'[o] = miners[o]
    BY CheckpointEffect
  <2>2. \A o \in Miners : /\ miners'[o].round_id = miners[o].round_id
                         /\ miners'[o].deployed = miners[o].deployed
    BY <2>1
  <2>3. QED
    BY <2>1, <2>2, CheckpointEffect
<1>3. Seated'
  <2>1. ASSUME NEW o \in Miners
        PROVE  /\ ~miners'[o].exists => miners'[o] = NewMiner(FALSE, 0)
               /\ miners'[o].round_id # NoRound => miners'[o].round_id <= board.round_id
               /\ miners'[o].round_id = board.round_id =>
                    miners'[o].checkpoint_id # board.round_id
    <3>1. CASE o # m
      BY <1>2, <3>1 DEF Seated
    <3>2. CASE o = m
      BY <1>1, <1>2, <3>2 DEF Seated
    <3>3. QED
      BY <3>1, <3>2
  <2>2. QED
    BY <1>1, <2>1 DEF Seated
<1>4. OpenRoundBooks' /\ OpenUndrawn'
  <2>1. rounds'[current] = rounds[current]
    BY <1>1
  <2>2. Books(rounds[current], miners', current)
    <3> DEFINE round == rounds[current]
    <3>1. Books(round, miners, current) /\ SameBooks(round, round)
      BY BooksAre DEF SameBooks
    <3> HIDE DEF round, current
    <3>2. Books(round, miners', current)
      BY <1>2, <3>1, BooksStay
    <3>3. QED
      BY <3>2 DEF round
  <2>3. OpenRoundBooks'
    BY <1>1, <2>1, <2>2, BooksNext
  <2>4. QED
    BY <1>1, <2>1, <2>3 DEF OpenUndrawn
<1>5. ClosedSettleable'
  <2> SUFFICES ASSUME NEW i \in RoundIds, i < current
               PROVE  Settleable(rounds'[i], miners', i, now)
    BY <1>1 DEF ClosedSettleable
  <2>1. Settleable(rounds[i], miners, i, now) /\ rounds[i] \in Round
    BY <1>1 DEF ClosedSettleable
  <2>2. CASE i = id
    <3> DEFINE round == rounds[id]
               paid == rounds'[id]
    <3>1. /\ paid.canceled = round.canceled /\ paid.randomness = round.randomness
          /\ paid.deployed = round.deployed
          /\ paid.total_deployed = round.total_deployed /\ paid.count = round.count
          /\ paid.motherlode = round.motherlode /\ paid.expires_at = round.expires_at
          /\ paid.lamports = round.lamports
               - (IF now >= round.expires_at THEN 0 ELSE Owed(miners[m], round))
      BY CheckpointEffect DEF Rewards
    <3>2. Settleable(round, miners, id, now) /\ round \in Round
      BY <2>1, <2>2
    <3> HIDE DEF round, paid, id
    <3>3. Settleable(paid, miners', id, now)
      BY <1>1, <1>2, <3>1, <3>2, PaidOnce
    <3>4. QED
      BY <2>2, <3>3 DEF paid
  <2>3. CASE i # id
    <3>1. rounds'[i] = rounds[i]
      BY <1>1, <2>3
    <3>2. UnsettledOf(miners', i) = UnsettledOf(miners, i)
      <4>1. m \notin PlayersOf(miners, i) /\ m \notin PlayersOf(miners', i)
        BY <1>2, <2>3 DEF PlayersOf
      <4>2. QED
        BY <1>2, <4>1 DEF UnsettledOf, PlayersOf
    <3>3. \A o \in UnsettledOf(miners, i) : miners'[o].deployed = miners[o].deployed
      BY <1>2, PlayersFinite
    <3>4. now \in Nat /\ now <= now
      BY <1>1
    <3>5. QED
      BY <2>1, <3>1, <3>2, <3>3, <3>4, SettleableStays
  <2>4. QED
    BY <2>2, <2>3
<1>6. QED
  BY <1>3, <1>4, <1>5

\* nobody in the open round has been settled in it
(* Nobody is settled for the open round, so it owes all its players.       *)
LEMMA AllUnsettled ==
  ASSUME Seated
  PROVE  UnsettledOf(miners, board.round_id) = PlayersOf(miners, board.round_id)
  BY DEF Seated, UnsettledOf, PlayersOf

(* A round ends: it owes its players what it holds, and the next one       *)
(* starts with empty books.                                                *)
LEMMA AdvanceLedger ==
  ASSUME Inv, Ledger, board' = AdvanceBoard(board), board.round_id + 1 \in prepared,
         now' = now, miners' = miners,
         \A i \in RoundIds \ {board.round_id} : rounds'[i] = rounds[i],
         Settleable(rounds'[board.round_id], miners, board.round_id, now)
  PROVE  Ledger'
<1> DEFINE id == board.round_id
           next == id + 1
<1> USE DEF Ledger
<1>1. /\ id \in RoundIds /\ next \in RoundIds /\ next > id /\ next # id
      /\ id \in Nat /\ NoRound \notin RoundIds
      /\ \A i \in RoundIds : i < next => i = id \/ (i < id /\ i # id)
  <2>1. id \in Nat /\ next \in RoundIds /\ id \in RoundIds /\ NoRound \notin RoundIds
    BY LedgerTypes, PhaseFacts DEF RoundIds
  <2>2. \A i \in Nat : i < next => i = id \/ (i < id /\ i # id)
    BY <2>1
  <2>3. QED
    BY <2>1, <2>2 DEF RoundIds
<1>2. board'.round_id = next
  BY PhaseFacts DEF AdvanceBoard, Board
<1> HIDE DEF next
<1>3. PlayersOf(miners, next) = {}
  BY <1>1, NobodyAhead
<1>4. rounds'[next] = EmptyRound(RoundRent)
  <2>1. rounds[next] = EmptyRound(IF next \in prepared THEN RoundRent ELSE 0)
    BY <1>1 DEF Inv, PhaseInv, UntouchedAfter
  <2>2. next \in prepared
    BY DEF next
  <2>3. QED
    BY <1>1, <2>1, <2>2
<1>5. Seated'
  <2>1. ASSUME NEW m \in Miners
        PROVE  /\ miners[m].round_id # NoRound => miners[m].round_id <= next
               /\ miners[m].round_id # next
    <3>1. miners[m].round_id # next
      BY <1>3 DEF PlayersOf
    <3>2. ASSUME miners[m].round_id # NoRound PROVE miners[m].round_id <= next
      <4>1. miners[m].round_id <= id /\ miners[m].round_id \in RoundIds
        BY <3>2, LedgerTypes DEF Seated
      <4>2. QED
        BY <1>1, <4>1 DEF RoundIds
    <3>3. QED
      BY <3>1, <3>2
  <2>2. QED
    BY <1>2, <2>1 DEF Seated
<1>6. OpenRoundBooks' /\ OpenUndrawn'
  <2>1. Books(rounds'[next], miners', next)
    BY <1>3, <1>4, EmptyBooks
  <2>2. rounds'[next].motherlode = 0 /\ rounds'[next].randomness = NoRandomness
    BY <1>4 DEF EmptyRound
  <2>3. QED
    BY <1>2, <2>1, <2>2, BooksNext DEF OpenUndrawn
<1>7. ClosedSettleable'
  <2> SUFFICES ASSUME NEW i \in RoundIds, i < next
               PROVE  Settleable(rounds'[i], miners, i, now)
    BY <1>2 DEF ClosedSettleable
  <2>1. CASE i = id
    BY <2>1
  <2>2. CASE i < id /\ i # id
    BY <2>2 DEF ClosedSettleable
  <2>3. QED
    BY <1>1, <2>1, <2>2
<1>8. QED
  BY <1>5, <1>6, <1>7

(* A cancelled round refunds its stakes, by CanceledSettleable.            *)
LEMMA CancelLedger == Inv /\ Ledger /\ CancelRound => Ledger'
<1> SUFFICES ASSUME Inv, Ledger, CancelRound PROVE Ledger'
  OBVIOUS
<1> DEFINE id == board.round_id
           closed == rounds'[id]
<1>1. /\ id + 1 \in prepared /\ board' = AdvanceBoard(board)
      /\ now' = now /\ miners' = miners
      /\ \A i \in RoundIds \ {id} : rounds'[i] = rounds[i]
      /\ closed.canceled /\ closed.lamports = rounds[id].lamports
  BY PhaseFacts DEF CancelRound, Round
<1>2. /\ miners \in [Miners -> Miner] /\ rounds[id] \in Round
      /\ Books(rounds[id], miners, id)
      /\ UnsettledOf(miners, id) = PlayersOf(miners, id)
  BY LedgerTypes, BooksAre, AllUnsettled DEF Ledger
<1>3. Settleable(closed, miners, id, now)
  <2> HIDE DEF closed, id
  <2>1. QED
    BY <1>1, <1>2, CanceledSettleable
<1>4. QED
  BY <1>1, <1>3, AdvanceLedger

(* A drawn round pays its winners, by DrawnSettleable.                     *)
LEMMA CallbackLedger ==
  ASSUME Inv, Backed, Ledger, NEW request \in requests, NEW randomness \in Randomness,
         CallbackResolveRound(request, randomness)
  PROVE  Ledger'
<1> DEFINE id == board.round_id
           round == rounds[id]
           closed == rounds'[id]
           total == round.total_deployed
           W == round.deployed[randomness.square]
           parts == CalculateSettlement(total, W)
           hit == W > 0 /\ randomness.motherlode
           jackpot == treasury.motherlode + parts.vaulted
<1>1. /\ id + 1 \in prepared /\ board' = AdvanceBoard(board)
      /\ now' = now /\ miners' = miners
      /\ \A i \in RoundIds \ {id} : rounds'[i] = rounds[i]
      /\ closed.randomness = randomness /\ closed.canceled = round.canceled
      /\ closed.deployed = round.deployed /\ closed.count = round.count
      /\ closed.total_deployed = total
  BY CallbackEffect
<1>2. /\ closed.motherlode = IF hit THEN jackpot ELSE round.motherlode
      /\ closed.lamports = round.lamports - parts.admin_fee
           + treasury.motherlode - (IF hit THEN 0 ELSE jackpot)
  BY CallbackEffect
<1>3. /\ miners \in [Miners -> Miner] /\ round \in Round /\ treasury \in Treasury
      /\ Books(round, miners, id) /\ ~round.canceled
      /\ UnsettledOf(miners, id) = PlayersOf(miners, id)
      /\ round.motherlode = 0
      /\ \A s \in Squares : round.deployed[s] <= total
  <2>1. treasury \in Treasury /\ ~round.canceled
    BY DEF Inv, TypeInv, TypeOK, PhaseInv, CurrentOpen
  <2>2. \A s \in Squares : round.deployed[s] <= total
    BY LedgerTypes DEF Inv, TypeInv, StakesWithinPot
  <2>3. QED
    BY <2>1, <2>2, LedgerTypes, BooksAre, AllUnsettled DEF Ledger, OpenUndrawn
<1>4. /\ total \in Nat /\ W \in 0 .. total /\ treasury.motherlode \in Nat
      /\ round.lamports = RoundRent + total
  <2>1. randomness.square \in Squares
    BY DEF Randomness
  <2>2. total \in Nat /\ round.deployed \in [Squares -> Nat]
    BY <1>3 DEF Round, U64
  <2>3. treasury.motherlode \in Nat
    BY <1>3 DEF Treasury, U64
  <2>4. W \in Nat /\ W <= total
    BY <1>3, <2>1, <2>2
  <2>5. QED
    BY <1>3, <2>2, <2>3, <2>4 DEF Books
<1>5. /\ parts.admin_fee \in Nat /\ parts.principal \in Nat
      /\ parts.winnings \in Nat /\ parts.vaulted \in Nat
      /\ parts.admin_fee + parts.principal + parts.winnings + parts.vaulted = total
      /\ W = 0 => parts.principal = 0 /\ parts.winnings = 0
  <2> HIDE DEF total, W
  <2>1. W = 0 => parts.principal = 0 /\ parts.winnings = 0
    BY DEF CalculateSettlement
  <2>2. QED
    BY <1>4, <2>1, PartsNat, SettlementConserves
<1>6. /\ closed.lamports = RoundRent +
           (IF W = 0 THEN 0 ELSE parts.principal + parts.winnings + closed.motherlode)
      /\ closed.motherlode \in Nat
  <2> DEFINE lamports == closed.lamports
             won == closed.motherlode
  <2>1. CASE hit
    <3>1. won = treasury.motherlode + parts.vaulted /\ W # 0
      BY <1>2, <1>4, <2>1
    <3>2. lamports = round.lamports - parts.admin_fee + treasury.motherlode
      <4>1. lamports = round.lamports - parts.admin_fee + treasury.motherlode - 0
        BY <1>2, <2>1
      <4> HIDE DEF parts, lamports
      <4>2. QED
        BY <1>3, <1>4, <1>5, <4>1
    <3> HIDE DEF parts, lamports, won, W, total
    <3>3. QED
      BY <1>4, <1>5, <3>1, <3>2 DEF lamports, won
  <2>2. CASE ~hit
    <3>1. won = 0
      BY <1>2, <1>3, <2>2
    <3>2. lamports = round.lamports - parts.admin_fee + treasury.motherlode
                       - (treasury.motherlode + parts.vaulted)
      BY <1>2, <2>2
    <3> HIDE DEF parts, lamports, won, W, total
    <3>3. lamports = RoundRent + (parts.principal + parts.winnings)
      BY <1>4, <1>5, <3>2
    <3>4. QED
      BY <1>5, <3>1, <3>3 DEF lamports, won
  <2>3. QED
    BY <2>1, <2>2
<1>7. Settleable(closed, miners, id, now)
  <2>1. W = round.deployed[winning_square(closed)]
    BY <1>1 DEF winning_square
  <2>2. ~closed.canceled
    BY <1>1, <1>3
  <2> HIDE DEF closed, W, round, id
  <2>3. QED
    BY <1>1, <1>3, <1>6, <2>1, <2>2, DrawnSettleable
<1>8. QED
  BY <1>1, <1>7, AdvanceLedger

(* Whatever leaves the rounds, the board and the bets alone.               *)
LEMMA ElsewhereLedger ==
  ASSUME Inv, Ledger, Inv', UNCHANGED <<board, rounds>>, now' >= now,
         \A m \in Miners :
           /\ miners'[m].round_id = miners[m].round_id
           /\ miners'[m].checkpoint_id = miners[m].checkpoint_id
           /\ miners'[m].deployed = miners[m].deployed
           /\ ~miners'[m].exists => miners'[m] = miners[m]
  PROVE  Ledger'
  BY QuietKeeps DEF SameBooks

(* Deposits, claims and the two halves of the crank's work leave bets and  *)
(* totals alone.                                                           *)
LEMMA FundMinerLedger ==
  ASSUME Inv, Ledger, Inv', NEW m \in Miners, NEW amount \in FundAmounts,
         FundMiner(m, amount)
  PROVE  Ledger'
<1> DEFINE opened == IF miners[m].exists THEN miners[m] ELSE NewMiner(TRUE, MinerRent)
           top_up == SaturatingSub(CHECKPOINT_FEE, opened.checkpoint_fee)
           funded == [opened EXCEPT !.rewards_sol = @ + amount,
                                    !.checkpoint_fee = @ + top_up,
                                    !.lamports = @ + amount + top_up]
<1>1. /\ miners' = [miners EXCEPT ![m] = funded]
      /\ UNCHANGED <<board, rounds>> /\ now' = now
  BY DEF FundMiner
<1>2. miners \in [Miners -> Miner] /\ now \in Nat
  BY LedgerTypes
<1>3. /\ opened.exists /\ opened.round_id = miners[m].round_id
      /\ opened.checkpoint_id = miners[m].checkpoint_id
      /\ opened.deployed = miners[m].deployed
  <2>1. CASE miners[m].exists
    BY <2>1
  <2>2. CASE ~miners[m].exists
    <3>1. miners[m] = NewMiner(FALSE, 0) /\ opened = NewMiner(TRUE, MinerRent)
      BY <2>2 DEF Ledger, Seated
    <3>2. QED
      BY <3>1 DEF NewMiner
  <2>3. QED
    BY <2>1, <2>2
<1>4. opened \in Miner
  BY <1>2, NewMinerType
<1> HIDE DEF opened, top_up
<1>5. /\ funded.exists = opened.exists /\ funded.round_id = opened.round_id
      /\ funded.checkpoint_id = opened.checkpoint_id
      /\ funded.deployed = opened.deployed
  BY <1>4 DEF Miner
<1> HIDE DEF funded
<1>6. miners'[m] = funded /\ \A o \in Miners \ {m} : miners'[o] = miners[o]
  BY <1>1, <1>2
<1>7. \A o \in Miners :
        /\ miners'[o].round_id = miners[o].round_id
        /\ miners'[o].checkpoint_id = miners[o].checkpoint_id
        /\ miners'[o].deployed = miners[o].deployed
        /\ ~miners'[o].exists => miners'[o] = miners[o]
  BY <1>3, <1>5, <1>6
<1>8. QED
  BY <1>1, <1>2, <1>7, ElsewhereLedger

LEMMA ClaimSolLedger ==
  ASSUME Inv, Ledger, Inv', NEW m \in Miners, ClaimSol(m)
  PROVE  Ledger'
<1>1. miners \in [Miners -> Miner] /\ now \in Nat
  BY LedgerTypes
<1>2. PICK amount : miners' = [miners EXCEPT ![m].rewards_sol = @ - amount,
                                            ![m].lamports = @ - amount]
  BY DEF ClaimSol
<1>3. UNCHANGED <<now, board, rounds>> /\ miners[m].exists
  BY DEF ClaimSol
<1>4. \A o \in Miners :
        /\ miners'[o].round_id = miners[o].round_id
        /\ miners'[o].checkpoint_id = miners[o].checkpoint_id
        /\ miners'[o].deployed = miners[o].deployed
        /\ ~miners'[o].exists => miners'[o] = miners[o]
  BY <1>1, <1>2, <1>3 DEF Miner
<1>5. QED
  BY <1>1, <1>3, <1>4, ElsewhereLedger

LEMMA PrepareRoundLedger ==
  ASSUME Inv, Ledger, Inv', NEW payer \in Wallets, NEW i \in RoundIds,
         PrepareRound(payer, i)
  PROVE  Ledger'
<1>1. /\ i > board.round_id /\ board.round_id \in RoundIds /\ now \in Nat
      /\ rounds \in [RoundIds -> Round]
  BY PhaseFacts DEF PrepareRound
<1>2. /\ UNCHANGED <<now, board, miners>>
      /\ rounds' = [rounds EXCEPT ![i] = EmptyRound(RoundRent)]
  BY DEF PrepareRound
<1>3. \A id \in RoundIds : id <= board.round_id => rounds'[id] = rounds[id]
  BY <1>1, <1>2 DEF RoundIds
<1>4. /\ rounds'[board.round_id] = rounds[board.round_id]
      /\ \A id \in RoundIds : id < board.round_id => rounds'[id] = rounds[id]
  BY <1>1, <1>3 DEF RoundIds
<1>5. QED
  BY <1>1, <1>2, <1>4, QuietKeeps DEF SameBooks

LEMMA RequestRandomnessLedger == Inv /\ Ledger /\ Inv' /\ RequestRandomness => Ledger'
<1> SUFFICES ASSUME Inv, Ledger, Inv', RequestRandomness PROVE Ledger'
  OBVIOUS
<1> DEFINE id == board.round_id
<1>1. /\ id \in RoundIds /\ rounds \in [RoundIds -> Round] /\ now \in Nat
      /\ board \in Board
  BY PhaseFacts
<1>2. PICK nonce : /\ rounds' = [rounds EXCEPT ![id].request_nonce = nonce]
                  /\ board' = [board EXCEPT !.request_nonce = nonce,
                                            !.vrf_requested = TRUE,
                                            !.vrf_fulfilled = FALSE,
                                            !.vrf_requested_at = now]
  BY DEF RequestRandomness
<1>3. UNCHANGED <<now, miners>>
  BY DEF RequestRandomness
<1>4. board'.round_id = id
  BY <1>1, <1>2 DEF Board
<1>5. /\ SameBooks(rounds[id], rounds'[id])
      /\ rounds'[id].motherlode = rounds[id].motherlode
      /\ rounds'[id].randomness = rounds[id].randomness
  BY <1>1, <1>2 DEF Round, SameBooks
<1>6. \A i \in RoundIds : i < id => rounds'[i] = rounds[i]
  BY <1>1, <1>2 DEF RoundIds
<1>7. QED
  BY <1>1, <1>3, <1>4, <1>5, <1>6, QuietKeeps

(* Every step keeps the inductive invariant,                               *)
LEMMA StepLedger == LedgerInv /\ [Next]_vars => LedgerInv'
<1> SUFFICES ASSUME LedgerInv, [Next]_vars PROVE LedgerInv'
  OBVIOUS
<1> USE DEF LedgerInv
<1>1. Inv' /\ Backed'
  BY StepType, StepPhase, StepBacked DEF Inv
<1>2. now \in Nat
  BY PhaseFacts
<1>3. CASE UNCHANGED vars
  BY <1>1, <1>2, <1>3, ElsewhereLedger DEF vars
<1>4. CASE Tick
  BY <1>1, <1>2, <1>4, ElsewhereLedger DEF Tick
<1>5. CASE ClaimAdminFees
  BY <1>1, <1>2, <1>5, ElsewhereLedger DEF ClaimAdminFees
<1>6. Ledger'
  BY <1>1, <1>3, <1>4, <1>5, PrepareRoundLedger, FundMinerLedger, DeployLedger,
     RequestRandomnessLedger, CallbackLedger, CancelLedger, CheckpointLedger,
     ClaimSolLedger DEF Next
<1>7. QED
  BY <1>1, <1>6

(* so every behaviour has it throughout.                                   *)
LEMMA LedgerInductive == Spec => []LedgerInv
<1>1. Init => LedgerInv
  BY InitTypeInv, InitPhase, InitBacked, InitLedger DEF LedgerInv, Inv
<1>2. QED
  BY <1>1, StepLedger, PTL DEF Spec

-----------------------------------------------------------------------------
(***************************************************************************)
(* The theorems about money.                                               *)
(***************************************************************************)

(* While a round is open its totals are the sums of its players' bets.     *)
THEOREM OpenBooksExact == Spec => []OpenRoundBooks
<1>1. LedgerInv => OpenRoundBooks
  BY DEF LedgerInv, Ledger
<1>2. QED
  BY <1>1, LedgerInductive, PTL

(* RoundsSolvent and DustBounded speak of the players' rewards; they are   *)
(* the debt the ledger keeps.                                              *)
LEMMA OutstandingOf ==
  ASSUME NEW id
  PROVE  Outstanding(id) =
           IF rounds[id].resolved THEN Debt(rounds[id], miners, id)
           ELSE SumFunction([m \in UnsettledOf(miners, id) |->
                               SumFunction(miners[m].deployed)])
<1>1. Unsettled(id) = UnsettledOf(miners, id)
  BY DEF Unsettled, Players, UnsettledOf, PlayersOf
<1>2. QED
  BY <1>1 DEF Outstanding, Debt

(* A round can always pay everybody it has not settled yet.                *)
THEOREM RoundsStaySolvent == Spec => []RoundsSolvent
<1>1. ASSUME LedgerInv PROVE RoundsSolvent
  <2> USE <1>1 DEF LedgerInv, Ledger
  <2> SUFFICES ASSUME NEW id \in prepared
               PROVE  rounds[id].lamports >= RoundRent + Outstanding(id)
    BY DEF RoundsSolvent
  <2> DEFINE stakes == SumFunction([m \in UnsettledOf(miners, id) |->
                                      SumFunction(miners[m].deployed)])
  <2>1. /\ id \in RoundIds /\ board.round_id \in RoundIds
        /\ miners \in [Miners -> Miner] /\ rounds[id] \in Round
    BY PhaseFacts, LedgerTypes
  <2>2. CASE id < board.round_id
    <3>1. rounds[id].resolved /\ Settleable(rounds[id], miners, id, now)
      BY <2>1, <2>2 DEF Inv, PhaseInv, ClosedBefore, ClosedSettleable
    <3>2. QED
      BY <3>1, OutstandingOf DEF Settleable
  <2>3. CASE id = board.round_id
    <3>1. ~rounds[id].resolved /\ Books(rounds[id], miners, id)
          /\ UnsettledOf(miners, id) = PlayersOf(miners, id)
      BY <2>3, BooksAre, AllUnsettled DEF Inv, PhaseInv, CurrentOpen
    <3>2. stakes = rounds[id].total_deployed
      BY <2>1, <3>1, StakesAddUp
    <3>3. rounds[id].lamports = RoundRent + stakes /\ rounds[id].lamports \in Nat
      BY <2>1, <3>1, <3>2 DEF Books, Round
    <3>4. Outstanding(id) = stakes
      BY <3>1, OutstandingOf
    <3> HIDE DEF stakes
    <3>5. QED
      BY <3>3, <3>4
  <2>4. CASE id > board.round_id
    <3>1. rounds[id] = EmptyRound(RoundRent)
      BY <2>1, <2>4 DEF Inv, PhaseInv, UntouchedAfter
    <3>2. ~rounds[id].resolved /\ rounds[id].lamports = RoundRent
      BY <3>1 DEF EmptyRound
    <3>3. UnsettledOf(miners, id) = {}
      BY <2>1, <2>4, NobodyAhead, PlayersFinite
    <3>4. stakes = 0
      <4> DEFINE f == [m \in UnsettledOf(miners, id) |-> SumFunction(miners[m].deployed)]
      <4>1. DOMAIN f = {}
        BY <3>3
      <4> HIDE DEF f
      <4>2. SumFunction(f) = 0
        BY <4>1, SumEmpty
      <4>3. QED
        BY <4>2 DEF f
    <3>5. Outstanding(id) = 0
      BY <3>2, <3>4, OutstandingOf
    <3>6. QED
      BY <3>2, <3>5
  <2>5. id < board.round_id \/ id = board.round_id \/ id > board.round_id
    BY <2>1 DEF RoundIds
  <2>6. QED
    BY <2>2, <2>3, <2>4, <2>5
<1>2. QED
  BY <1>1, LedgerInductive, PTL

(* Rounding leaves less than three lamports per further winner behind.     *)
THEOREM LittleDust == Spec => []DustBounded
<1>1. ASSUME LedgerInv PROVE DustBounded
  <2> USE <1>1 DEF LedgerInv, Ledger
  <2> SUFFICES ASSUME NEW id \in prepared, rounds[id].resolved, ~rounds[id].canceled,
                      now < rounds[id].expires_at
               PROVE  rounds[id].lamports - RoundRent - Outstanding(id)
                        <= Dust(rounds[id])
    BY DEF DustBounded, Dust, Winners
  <2>1. id \in RoundIds /\ id < board.round_id
    BY PhaseFacts
  <2>2. Settleable(rounds[id], miners, id, now)
    BY <2>1 DEF ClosedSettleable
  <2>3. QED
    BY <2>2, OutstandingOf DEF Settleable
<1>2. QED
  BY <1>1, LedgerInductive, PTL


-----------------------------------------------------------------------------
(***************************************************************************)
(* The program implements RoundLifecycle: which step of the lifecycle each *)
(* action is, and that it is one.                                          *)
(***************************************************************************)

(* The state of the lifecycle that a state of the program stands for.      *)
StatusOf(b, rs) ==
  [id \in RoundIds |->
     IF id > b.round_id THEN "future"
     ELSE IF id = b.round_id THEN IF b.vrf_requested THEN "drawing" ELSE "open"
     ELSE IF rs[id].canceled THEN "refunded" ELSE "drawn"]
BetsOf(rs) == [id \in RoundIds |-> rs[id].total_deployed]
WinnerOf(rs) ==
  [id \in RoundIds |-> IF rs[id].randomness = NoRandomness THEN NoRandomness
                       ELSE winning_square(rs[id])]
PotOf(rs, existing) ==
  [id \in RoundIds |-> IF id \in existing THEN rs[id].lamports - RoundRent ELSE 0]

(* Steps of the lifecycle, said of the program's state: a bet,             *)

LEMMA BetMapped ==
  ASSUME LET id == board.round_id
             bets == rounds'[id].total_deployed
         IN  /\ StatusOf(board, rounds)[id] = "open"
             /\ board'.round_id = id
             /\ StatusOf(board', rounds') = StatusOf(board, rounds)
             /\ WinnerOf(rounds') = WinnerOf(rounds)
             /\ bets \in Nat /\ bets > rounds[id].total_deployed
             /\ BetsOf(rounds') = [BetsOf(rounds) EXCEPT ![id] = bets]
             /\ PotOf(rounds', prepared') = [PotOf(rounds, prepared) EXCEPT ![id] = bets],
         board.round_id \in RoundIds
  PROVE  Lifecycle!Bet
  BY DEF Lifecycle!Bet, Lifecycle!Changes, StatusOf, BetsOf, WinnerOf, PotOf, RoundStatus

(* the end of betting,                                                     *)
LEMMA StopBettingMapped ==
  ASSUME LET id == board.round_id
         IN  /\ StatusOf(board, rounds)[id] = "open" /\ rounds[id].total_deployed > 0
             /\ board'.round_id = id
             /\ StatusOf(board', rounds') = [StatusOf(board, rounds) EXCEPT ![id] = "drawing"]
             /\ BetsOf(rounds') = BetsOf(rounds) /\ WinnerOf(rounds') = WinnerOf(rounds)
             /\ PotOf(rounds', prepared') = PotOf(rounds, prepared),
         board.round_id \in RoundIds
  PROVE  Lifecycle!StopBetting
  BY DEF Lifecycle!StopBetting, StatusOf, BetsOf, WinnerOf, PotOf, RoundStatus

(* the draw,                                                               *)
LEMMA DrawMapped ==
  ASSUME NEW square \in Squares,
         LET id == board.round_id
             pot == rounds'[id].lamports - RoundRent
         IN  /\ StatusOf(board, rounds)[id] = "drawing"
             /\ id + 1 \in RoundIds /\ board'.round_id = id + 1
             /\ StatusOf(board', rounds')
                  = [StatusOf(board, rounds) EXCEPT ![id] = "drawn", ![id + 1] = "open"]
             /\ BetsOf(rounds') = BetsOf(rounds)
             /\ WinnerOf(rounds') = [WinnerOf(rounds) EXCEPT ![id] = square]
             /\ pot \in Nat /\ id \in prepared'
             /\ PotOf(rounds', prepared') = [PotOf(rounds, prepared) EXCEPT ![id] = pot],
         board.round_id \in RoundIds
  PROVE  Lifecycle!Draw
  BY DEF Lifecycle!Draw, Lifecycle!OpenNext, Lifecycle!Changes, Lifecycle!RoundIds,
         StatusOf, BetsOf, WinnerOf, PotOf, RoundStatus, RoundIds

(* the refund of a round,                                                  *)
LEMMA RefundMapped ==
  ASSUME LET id == board.round_id
         IN  /\ StatusOf(board, rounds)[id] = "drawing"
             /\ id + 1 \in RoundIds /\ board'.round_id = id + 1
             /\ StatusOf(board', rounds')
                  = [StatusOf(board, rounds) EXCEPT ![id] = "refunded", ![id + 1] = "open"]
             /\ BetsOf(rounds') = BetsOf(rounds) /\ WinnerOf(rounds') = WinnerOf(rounds)
             /\ PotOf(rounds', prepared') = PotOf(rounds, prepared),
         board.round_id \in RoundIds
  PROVE  Lifecycle!Refund
  BY DEF Lifecycle!Refund, Lifecycle!OpenNext, Lifecycle!RoundIds,
         StatusOf, BetsOf, WinnerOf, PotOf, RoundStatus, RoundIds

(* a payment,                                                              *)
LEMMA PayMapped ==
  ASSUME NEW id \in RoundIds,
         LET pot == rounds'[id].lamports - RoundRent
         IN  /\ StatusOf(board, rounds)[id] \in {"drawn", "refunded"}
             /\ board'.round_id = board.round_id
             /\ StatusOf(board', rounds') = StatusOf(board, rounds)
             /\ BetsOf(rounds') = BetsOf(rounds) /\ WinnerOf(rounds') = WinnerOf(rounds)
             /\ id \in prepared /\ id \in prepared'
             /\ pot \in Nat /\ pot < rounds[id].lamports - RoundRent
             /\ PotOf(rounds', prepared') = [PotOf(rounds, prepared) EXCEPT ![id] = pot]
  PROVE  Lifecycle!Pay
  BY DEF Lifecycle!Pay, Lifecycle!Changes, Lifecycle!RoundIds,
         StatusOf, BetsOf, WinnerOf, PotOf, RoundStatus, RoundIds

(* and a stutter.                                                          *)
LEMMA StutterMapped ==
  ASSUME board'.round_id = board.round_id,
         StatusOf(board', rounds') = StatusOf(board, rounds),
         BetsOf(rounds') = BetsOf(rounds), WinnerOf(rounds') = WinnerOf(rounds),
         PotOf(rounds', prepared') = PotOf(rounds, prepared)
  PROVE  UNCHANGED Lifecycle!vars
  BY DEF Lifecycle!vars, StatusOf, BetsOf, WinnerOf, PotOf, RoundStatus

\* the rounds change at id only
OnlyAt(rs, qs, id) == \A i \in RoundIds \ {id} : qs[i] = rs[i]

(* How the mapped functions change when one round does.                    *)
LEMMA MapsChange ==
  ASSUME NEW rs, NEW qs, NEW id \in RoundIds, OnlyAt(rs, qs, id),
         NEW existing, id \in existing
  PROVE  /\ BetsOf(qs) = [BetsOf(rs) EXCEPT ![id] = qs[id].total_deployed]
         /\ WinnerOf(qs) = [WinnerOf(rs) EXCEPT ![id] =
              IF qs[id].randomness = NoRandomness THEN NoRandomness
              ELSE winning_square(qs[id])]
         /\ PotOf(qs, existing)
              = [PotOf(rs, existing) EXCEPT ![id] = qs[id].lamports - RoundRent]
         /\ qs[id].total_deployed = rs[id].total_deployed => BetsOf(qs) = BetsOf(rs)
         /\ qs[id].randomness = rs[id].randomness => WinnerOf(qs) = WinnerOf(rs)
  BY DEF BetsOf, WinnerOf, PotOf, winning_square, OnlyAt

(* Rounds that keep their fields are mapped to the same lifecycle state.   *)
LEMMA MapsStay ==
  ASSUME NEW rs, NEW qs, NEW id \in RoundIds, OnlyAt(rs, qs, id), NEW existing,
         qs[id].total_deployed = rs[id].total_deployed,
         qs[id].randomness = rs[id].randomness, qs[id].lamports = rs[id].lamports
  PROVE  /\ BetsOf(qs) = BetsOf(rs) /\ WinnerOf(qs) = WinnerOf(rs)
         /\ PotOf(qs, existing) = PotOf(rs, existing)
  BY DEF BetsOf, WinnerOf, PotOf, winning_square, OnlyAt

(* No status changes while the board stays on its round.                   *)
LEMMA StatusStays ==
  ASSUME NEW b, NEW c, c.round_id = b.round_id, c.vrf_requested = b.vrf_requested,
         NEW rs, NEW qs,
         \A id \in RoundIds : id # b.round_id => qs[id].canceled = rs[id].canceled
  PROVE  StatusOf(c, qs) = StatusOf(b, rs)
<1>1. ASSUME NEW id \in RoundIds PROVE StatusOf(c, qs)[id] = StatusOf(b, rs)[id]
  BY DEF StatusOf
<1>2. QED
  BY <1>1 DEF StatusOf

(* deploy is Bet, settle_round's request is StopBetting, its callback is   *)
(* Draw, cancel_round is Refund, checkpoint is Pay, and the rest stutters. *)
LEMMA DeployRefines ==
  ASSUME LedgerInv, LedgerInv', NEW m \in Miners, NEW amount \in DeployAmounts,
         NEW mask \in SUBSET Squares, NEW expected_nonce \in 0 .. MaxNonce,
         Deploy(m, amount, mask, expected_nonce)
  PROVE  Lifecycle!Bet
<1> USE DEF LedgerInv, Ledger
<1> DEFINE id == board.round_id
           cost == amount * Cardinality(Chosen(m, mask))
           bets == rounds'[id].total_deployed
<1>1. /\ cost \in Nat /\ cost > 0 /\ ~board.vrf_requested
      /\ board'.round_id = id /\ board'.vrf_requested = board.vrf_requested
      /\ prepared' = prepared
      /\ \A i \in RoundIds \ {id} : rounds'[i] = rounds[i]
      /\ bets = rounds[id].total_deployed + cost
      /\ rounds'[id].randomness = rounds[id].randomness
  BY DeployRound
<1>2. id \in RoundIds /\ rounds[id] \in Round /\ id \in prepared
  BY LedgerTypes DEF Inv, PhaseInv, CurrentOpen
<1>3. rounds[id].total_deployed \in Nat
  BY <1>2 DEF Round, U64
<1> HIDE DEF cost
<1>4. bets \in Nat /\ bets > rounds[id].total_deployed
  BY <1>1, <1>3
<1>5. rounds'[id].lamports - RoundRent = bets
  <2>1. rounds'[id].lamports = RoundRent + bets
    BY <1>1, BooksNext DEF Books
  <2> HIDE DEF bets
  <2>2. QED
    BY <1>4, <2>1
<1>6. StatusOf(board, rounds)[id] = "open"
  BY <1>1, <1>2 DEF StatusOf, RoundIds
<1>7. StatusOf(board', rounds') = StatusOf(board, rounds)
  <2>1. \A i \in RoundIds : i # id => rounds'[i].canceled = rounds[i].canceled
    BY <1>1
  <2>2. QED
    BY <1>1, <2>1, StatusStays
<1>8. /\ BetsOf(rounds') = [BetsOf(rounds) EXCEPT ![id] = bets]
      /\ WinnerOf(rounds') = WinnerOf(rounds)
      /\ PotOf(rounds', prepared') = [PotOf(rounds, prepared) EXCEPT ![id] = bets]
  <2>1. OnlyAt(rounds, rounds', id)
    BY <1>1 DEF OnlyAt
  <2>2. QED
    BY <1>1, <1>2, <1>5, <2>1, MapsChange
<1>9. QED
  BY <1>1, <1>2, <1>4, <1>6, <1>7, <1>8, BetMapped

LEMMA RequestRefines ==
  ASSUME LedgerInv, RequestRandomness
  PROVE  Lifecycle!StopBetting
<1> USE DEF LedgerInv, Ledger
<1> DEFINE id == board.round_id
<1>1. /\ id \in RoundIds /\ rounds \in [RoundIds -> Round] /\ board \in Board
      /\ id \in prepared
  BY PhaseFacts DEF Inv, PhaseInv, CurrentOpen
<1>2. PICK nonce : /\ rounds' = [rounds EXCEPT ![id].request_nonce = nonce]
                  /\ board' = [board EXCEPT !.request_nonce = nonce,
                                            !.vrf_requested = TRUE,
                                            !.vrf_fulfilled = FALSE,
                                            !.vrf_requested_at = now]
  BY DEF RequestRandomness
<1>3. prepared' = prepared /\ ~board.vrf_requested /\ board.end_ts # I64_MAX
  BY DEF RequestRandomness
<1>4. board'.round_id = id /\ board'.vrf_requested
  BY <1>1, <1>2 DEF Board
<1>5. /\ \A i \in RoundIds \ {id} : rounds'[i] = rounds[i]
      /\ rounds'[id].total_deployed = rounds[id].total_deployed
      /\ rounds'[id].randomness = rounds[id].randomness
      /\ rounds'[id].lamports = rounds[id].lamports
  BY <1>1, <1>2 DEF Round
<1>6. rounds[id].total_deployed > 0
  BY <1>3 DEF Inv, PhaseInv, ClockRunsOnlyOnBets
<1>7. StatusOf(board, rounds)[id] = "open"
  BY <1>1, <1>3 DEF StatusOf, RoundIds
<1>8. StatusOf(board', rounds') = [StatusOf(board, rounds) EXCEPT ![id] = "drawing"]
  <2> DEFINE after == [StatusOf(board, rounds) EXCEPT ![id] = "drawing"]
  <2>1. ASSUME NEW i \in RoundIds PROVE StatusOf(board', rounds')[i] = after[i]
    <3>1. CASE i = id
      BY <1>1, <1>4, <3>1 DEF StatusOf, RoundIds
    <3>2. CASE i # id
      BY <1>1, <1>4, <1>5, <3>2 DEF StatusOf
    <3>3. QED
      BY <3>1, <3>2
  <2>2. QED
    BY <2>1 DEF StatusOf
<1>9. /\ BetsOf(rounds') = BetsOf(rounds) /\ WinnerOf(rounds') = WinnerOf(rounds)
      /\ PotOf(rounds', prepared') = PotOf(rounds, prepared)
  <2>1. OnlyAt(rounds, rounds', id)
    BY <1>5 DEF OnlyAt
  <2>2. QED
    BY <1>1, <1>3, <1>5, <2>1, MapsStay
<1>10. QED
  BY <1>1, <1>4, <1>6, <1>7, <1>8, <1>9, StopBettingMapped

(* The status of every round when one ends and the next begins.            *)
LEMMA StatusAdvances ==
  ASSUME Inv, board' = AdvanceBoard(board), board.round_id + 1 \in RoundIds,
         board.vrf_requested,
         \A i \in RoundIds \ {board.round_id} : rounds'[i] = rounds[i],
         NEW outcome,
         outcome = IF rounds'[board.round_id].canceled THEN "refunded" ELSE "drawn"
  PROVE  /\ board'.round_id = board.round_id + 1
         /\ StatusOf(board, rounds)[board.round_id] = "drawing"
         /\ StatusOf(board', rounds')
              = [StatusOf(board, rounds) EXCEPT ![board.round_id] = outcome,
                                                ![board.round_id + 1] = "open"]
<1> DEFINE id == board.round_id
           next == id + 1
           after == [StatusOf(board, rounds) EXCEPT ![id] = outcome, ![next] = "open"]
<1>1. /\ board'.round_id = next /\ ~board'.vrf_requested
      /\ id \in RoundIds /\ id \in Nat
  BY PhaseFacts DEF AdvanceBoard, Board, RoundIds
<1>2. StatusOf(board, rounds)[id] = "drawing"
  BY <1>1 DEF StatusOf
<1>3. ASSUME NEW i \in RoundIds PROVE StatusOf(board', rounds')[i] = after[i]
  <2>1. /\ i \in Nat /\ next > id
        /\ i = id \/ i = next \/ (i < id /\ i # next) \/ (i > next /\ i # id)
    BY <1>1 DEF RoundIds
  <2>2. CASE i = id
    BY <1>1, <2>1, <2>2 DEF StatusOf
  <2>3. CASE i = next
    BY <1>1, <2>1, <2>3 DEF StatusOf
  <2>4. CASE i < id /\ i # next
    <3>1. ~(i > id) /\ i # id /\ ~(i > next)
      BY <1>1, <2>1, <2>4
    <3> HIDE DEF next
    <3>2. QED
      BY <1>1, <2>4, <3>1 DEF StatusOf
  <2>5. CASE i > next /\ i # id
    <3>1. i > id /\ i # next
      BY <1>1, <2>1, <2>5
    <3> HIDE DEF next
    <3>2. QED
      BY <1>1, <2>5, <3>1 DEF StatusOf
  <2>6. QED
    BY <2>1, <2>2, <2>3, <2>4, <2>5
<1>4. QED
  BY <1>1, <1>2, <1>3 DEF StatusOf

\* what a closed round holds beyond its rent, it holds for its players
(* The pot of the lifecycle is a natural number.                           *)
LEMMA PotNat ==
  ASSUME NEW round \in Round, NEW ms, NEW id, NEW t, Settleable(round, ms, id, t)
  PROVE  round.lamports - RoundRent \in Nat
<1>1. Debt(round, ms, id) \in Nat
  BY DebtType DEF Settleable
<1>2. QED
  BY <1>1 DEF Settleable, Round

LEMMA CallbackRefines ==
  ASSUME LedgerInv, LedgerInv', NEW request \in requests, NEW randomness \in Randomness,
         CallbackResolveRound(request, randomness)
  PROVE  Lifecycle!Draw
<1> USE DEF LedgerInv, Ledger
<1> DEFINE id == board.round_id
           pot == rounds'[id].lamports - RoundRent
           square == randomness.square
<1>1. /\ id + 1 \in prepared /\ prepared' = prepared
      /\ board.vrf_requested /\ board' = AdvanceBoard(board)
      /\ \A i \in RoundIds \ {id} : rounds'[i] = rounds[i]
      /\ rounds'[id].randomness = randomness
      /\ rounds'[id].canceled = rounds[id].canceled
      /\ rounds'[id].total_deployed = rounds[id].total_deployed
  BY CallbackEffect
<1>2. /\ id \in RoundIds /\ id + 1 \in RoundIds /\ id < id + 1 /\ id \in prepared
      /\ ~rounds[id].canceled
  <2>1. id \in RoundIds /\ id + 1 \in RoundIds
    BY <1>1, PhaseFacts
  <2>2. QED
    BY <2>1 DEF Inv, PhaseInv, CurrentOpen, RoundIds
<1>3. /\ board'.round_id = id + 1 /\ StatusOf(board, rounds)[id] = "drawing"
      /\ StatusOf(board', rounds')
           = [StatusOf(board, rounds) EXCEPT ![id] = "drawn", ![id + 1] = "open"]
  BY <1>1, <1>2, StatusAdvances
<1>4. square \in Squares /\ randomness # NoRandomness
  BY DrawAssumption DEF Randomness
<1>5. pot \in Nat
  <2>1. Settleable(rounds'[id], miners', id, now') /\ rounds'[id] \in Round
    BY <1>2, <1>3 DEF ClosedSettleable, Inv, TypeInv, TypeOK
  <2>2. QED
    BY <2>1, PotNat
<1>6. /\ BetsOf(rounds') = BetsOf(rounds)
      /\ WinnerOf(rounds') = [WinnerOf(rounds) EXCEPT ![id] = square]
      /\ PotOf(rounds', prepared') = [PotOf(rounds, prepared) EXCEPT ![id] = pot]
  <2>1. winning_square(rounds'[id]) = square
    BY <1>1 DEF winning_square
  <2>2. OnlyAt(rounds, rounds', id)
    BY <1>1 DEF OnlyAt
  <2>3. QED
    BY <1>1, <1>2, <1>4, <2>1, <2>2, MapsChange
<1>7. id \in prepared'
  BY <1>1, <1>2
<1> HIDE DEF square
<1>8. QED
  BY <1>2, <1>3, <1>4, <1>5, <1>6, <1>7, DrawMapped

LEMMA CancelRefines ==
  ASSUME LedgerInv, CancelRound
  PROVE  Lifecycle!Refund
<1> USE DEF LedgerInv, Ledger
<1> DEFINE id == board.round_id
<1>1. /\ id + 1 \in prepared /\ prepared' = prepared
      /\ board.vrf_requested /\ board' = AdvanceBoard(board)
      /\ \A i \in RoundIds \ {id} : rounds'[i] = rounds[i]
      /\ rounds'[id].canceled
      /\ rounds'[id].randomness = rounds[id].randomness
      /\ rounds'[id].lamports = rounds[id].lamports
      /\ rounds'[id].total_deployed = rounds[id].total_deployed
  BY PhaseFacts DEF CancelRound, Round
<1>2. id \in RoundIds /\ id + 1 \in RoundIds /\ id \in prepared
  BY <1>1, PhaseFacts DEF Inv, PhaseInv, CurrentOpen
<1>3. /\ board'.round_id = id + 1 /\ StatusOf(board, rounds)[id] = "drawing"
      /\ StatusOf(board', rounds')
           = [StatusOf(board, rounds) EXCEPT ![id] = "refunded", ![id + 1] = "open"]
  BY <1>1, <1>2, StatusAdvances
<1>4. /\ BetsOf(rounds') = BetsOf(rounds) /\ WinnerOf(rounds') = WinnerOf(rounds)
      /\ PotOf(rounds', prepared') = PotOf(rounds, prepared)
  <2>1. OnlyAt(rounds, rounds', id)
    BY <1>1 DEF OnlyAt
  <2>2. QED
    BY <1>1, <1>2, <2>1, MapsStay
<1>5. QED
  BY <1>2, <1>3, <1>4, RefundMapped

LEMMA CheckpointRefines ==
  ASSUME LedgerInv, LedgerInv', NEW caller \in Wallets, NEW m \in Miners,
         Checkpoint(caller, m)
  PROVE  Lifecycle!Pay \/ UNCHANGED Lifecycle!vars
<1> USE DEF LedgerInv, Ledger
<1> DEFINE id == miners[m].round_id
           pot == rounds'[id].lamports - RoundRent
<1>1. /\ id \in prepared /\ id \in RoundIds /\ id < board.round_id
      /\ board' = board /\ prepared' = prepared /\ Rewards(m) \in Nat
      /\ \A i \in RoundIds \ {id} : rounds'[i] = rounds[i]
      /\ rounds'[id].canceled = rounds[id].canceled
      /\ rounds'[id].randomness = rounds[id].randomness
      /\ rounds'[id].total_deployed = rounds[id].total_deployed
      /\ rounds'[id].lamports = rounds[id].lamports - Rewards(m)
  BY CheckpointEffect
<1>2. /\ BetsOf(rounds') = BetsOf(rounds) /\ WinnerOf(rounds') = WinnerOf(rounds)
      /\ PotOf(rounds', prepared') = [PotOf(rounds, prepared) EXCEPT ![id] = pot]
  <2>1. OnlyAt(rounds, rounds', id)
    BY <1>1 DEF OnlyAt
  <2>2. QED
    BY <1>1, <2>1, MapsChange
<1>3. StatusOf(board', rounds') = StatusOf(board, rounds)
  <2>1. \A i \in RoundIds : rounds'[i].canceled = rounds[i].canceled
    BY <1>1
  <2>2. QED
    BY <1>1, <2>1, StatusStays
<1>4. rounds[id].lamports \in Nat
  BY <1>1, LedgerTypes DEF Round
<1>5. CASE Rewards(m) = 0
  <2>1. rounds'[id].lamports = rounds[id].lamports /\ OnlyAt(rounds, rounds', id)
    BY <1>1, <1>4, <1>5 DEF OnlyAt
  <2>2. PotOf(rounds', prepared') = PotOf(rounds, prepared)
    BY <1>1, <2>1, MapsStay
  <2>3. QED
    BY <1>1, <1>2, <1>3, <2>2, StutterMapped
<1>6. CASE Rewards(m) # 0
  <2>1. pot \in Nat
    <3>1. Settleable(rounds'[id], miners', id, now') /\ rounds'[id] \in Round
      BY <1>1 DEF ClosedSettleable, Inv, TypeInv, TypeOK
    <3>2. QED
      BY <3>1, PotNat
  <2>2. pot < rounds[id].lamports - RoundRent
    BY <1>1, <1>4, <1>6
  <2>3. StatusOf(board, rounds)[id] \in {"drawn", "refunded"}
    <3>1. ~(id > board.round_id) /\ id # board.round_id
      BY <1>1, PhaseFacts DEF RoundIds
    <3>2. QED
      BY <1>1, <3>1 DEF StatusOf
  <2> HIDE DEF id
  <2>4. QED
    BY <1>1, <1>2, <1>3, <2>1, <2>2, <2>3, PayMapped
<1>7. QED
  BY <1>5, <1>6

LEMMA PrepareRoundRefines ==
  ASSUME LedgerInv, NEW payer \in Wallets, NEW i \in RoundIds, PrepareRound(payer, i)
  PROVE  UNCHANGED Lifecycle!vars
<1> USE DEF LedgerInv, Ledger
<1>1. /\ i > board.round_id /\ i \notin prepared /\ board' = board
      /\ prepared' = prepared \cup {i}
      /\ rounds' = [rounds EXCEPT ![i] = EmptyRound(RoundRent)]
      /\ rounds \in [RoundIds -> Round]
  BY PhaseFacts DEF PrepareRound
<1>2. rounds[i] = EmptyRound(0)
  <2>1. rounds[i] = EmptyRound(IF i \in prepared THEN RoundRent ELSE 0)
    BY <1>1 DEF Inv, PhaseInv, UntouchedAfter
  <2>2. QED
    BY <1>1, <2>1
<1>3. /\ rounds'[i] = EmptyRound(RoundRent)
      /\ \A id \in RoundIds \ {i} : rounds'[id] = rounds[id]
  BY <1>1
<1>4. /\ rounds'[i].canceled = rounds[i].canceled
      /\ rounds'[i].total_deployed = rounds[i].total_deployed
      /\ rounds'[i].randomness = rounds[i].randomness
      /\ rounds'[i].lamports - RoundRent = 0
  BY <1>2, <1>3 DEF EmptyRound
<1>5. StatusOf(board', rounds') = StatusOf(board, rounds)
  <2>1. \A id \in RoundIds : rounds'[id].canceled = rounds[id].canceled
    BY <1>3, <1>4
  <2>2. QED
    BY ZenonT(30), <1>1, <2>1, StatusStays
<1>6. BetsOf(rounds') = BetsOf(rounds) /\ WinnerOf(rounds') = WinnerOf(rounds)
  BY <1>3, <1>4 DEF BetsOf, WinnerOf, winning_square
<1>7. PotOf(rounds', prepared') = PotOf(rounds, prepared)
  BY <1>1, <1>3, <1>4 DEF PotOf
<1>8. QED
  BY <1>1, <1>5, <1>6, <1>7, StutterMapped

LEMMA ElsewhereRefines ==
  ASSUME UNCHANGED <<board, rounds, prepared>>
  PROVE  UNCHANGED Lifecycle!vars
  BY StutterMapped

(* Init maps to the lifecycle's Init, and every step to one of its steps   *)
(* or to a stutter.                                                        *)
LEMMA InitRefines == Init => Lifecycle!Init
<1> SUFFICES ASSUME Init PROVE Lifecycle!Init
  OBVIOUS
<1>1. /\ board.round_id = 0 /\ ~board.vrf_requested /\ prepared = {0}
      /\ rounds = [id \in RoundIds |-> EmptyRound(IF id = 0 THEN RoundRent ELSE 0)]
  BY DEF Init
<1>2. StatusOf(board, rounds) = [id \in RoundIds |-> IF id = 0 THEN "open" ELSE "future"]
  BY <1>1 DEF StatusOf, RoundIds
<1>3. /\ BetsOf(rounds) = [id \in RoundIds |-> 0]
      /\ WinnerOf(rounds) = [id \in RoundIds |-> NoRandomness]
  BY <1>1 DEF BetsOf, WinnerOf, EmptyRound
<1>4. PotOf(rounds, prepared) = [id \in RoundIds |-> 0]
  <2>1. rounds[0].lamports = RoundRent
    BY <1>1 DEF EmptyRound, RoundIds
  <2>2. QED
    BY <1>1, <2>1 DEF PotOf
<1>5. QED
  BY <1>1, <1>2, <1>3, <1>4
     DEF Lifecycle!Init, Lifecycle!RoundIds, RoundIds, StatusOf, BetsOf, WinnerOf,
         PotOf, RoundStatus

LEMMA StepRefines ==
  LedgerInv /\ LedgerInv' /\ [Next]_vars => [Lifecycle!Next]_(Lifecycle!vars)
<1> SUFFICES ASSUME LedgerInv, LedgerInv', [Next]_vars
             PROVE  Lifecycle!Next \/ UNCHANGED Lifecycle!vars
  OBVIOUS
<1>1. CASE UNCHANGED <<board, rounds, prepared>>
  BY <1>1, ElsewhereRefines
<1>2. Tick \/ (\E m \in Miners, amount \in FundAmounts : FundMiner(m, amount))
      \/ (\E m \in Miners : ClaimSol(m)) \/ ClaimAdminFees \/ UNCHANGED vars
      => UNCHANGED <<board, rounds, prepared>>
  BY Zenon DEF Tick, FundMiner, ClaimSol, ClaimAdminFees, vars
<1>3. QED
  BY <1>1, <1>2, PrepareRoundRefines, DeployRefines, RequestRefines, CallbackRefines,
     CancelRefines, CheckpointRefines DEF Next, Lifecycle!Next

(* The program implements the lifecycle promised to its players.           *)
THEOREM LifecycleImplemented == Spec => ImplementsLifecycle
<1>1. Spec => Lifecycle!Init
  BY InitRefines DEF Spec
<1>2. QED
  BY <1>1, LedgerInductive, StepRefines, PTL DEF Spec, ImplementsLifecycle, Lifecycle!Spec

-----------------------------------------------------------------------------
(* A closed round changes only when one of its players is settled.         *)
LEMMA ClosedRoundStep ==
  ASSUME LedgerInv, [Next]_vars, NEW id \in RoundIds, id < board.round_id,
         rounds'[id] # rounds[id]
  PROVE  \E caller \in Wallets, m \in Miners :
           Checkpoint(caller, m) /\ miners[m].round_id = id
<1> USE DEF LedgerInv, Ledger
<1>1. /\ rounds \in [RoundIds -> Round] /\ id # board.round_id
      /\ \A i \in RoundIds : i > board.round_id => i # id
  BY PhaseFacts DEF RoundIds
<1>2. ~(\E payer \in Wallets, i \in RoundIds : PrepareRound(payer, i))
  <2> SUFFICES ASSUME NEW payer \in Wallets, NEW i \in RoundIds, PrepareRound(payer, i)
               PROVE  rounds'[id] = rounds[id]
    OBVIOUS
  <2>1. i # id
    BY <1>1, PhaseFacts DEF PrepareRound
  <2>2. QED
    BY <1>1, <2>1 DEF PrepareRound
<1>3. ~(\E m \in Miners, amount \in DeployAmounts, mask \in SUBSET Squares,
          nonce \in 0 .. MaxNonce : Deploy(m, amount, mask, nonce))
  BY <1>1, DeployRound
<1>4. ~(\E request \in requests, randomness \in Randomness :
          CallbackResolveRound(request, randomness))
  BY <1>1, CallbackEffect
<1>5. ~RequestRandomness /\ ~CancelRound
  BY <1>1 DEF RequestRandomness, CancelRound
<1>6. ~UNCHANGED rounds
  OBVIOUS
<1>7. Tick \/ (\E m \in Miners, amount \in FundAmounts : FundMiner(m, amount))
      \/ (\E m \in Miners : ClaimSol(m)) \/ ClaimAdminFees \/ UNCHANGED vars
      => UNCHANGED rounds
  BY Zenon DEF Tick, FundMiner, ClaimSol, ClaimAdminFees, vars
<1>8. PICK caller \in Wallets, m \in Miners : Checkpoint(caller, m)
  BY <1>2, <1>3, <1>4, <1>5, <1>6, <1>7 DEF Next
<1>9. miners[m].round_id = id
  BY <1>8, CheckpointEffect
<1>10. QED
  BY <1>8, <1>9

(* A closed round pays nobody but the players it still owes.               *)
THEOREM OnlyPlayersPaid == Spec => RoundPaysOnlyItsPlayers
<1> DEFINE Paid(id) ==
      \E m \in Unsettled(id) :
        /\ miners'[m].checkpoint_id = id
        /\ miners'[m].rewards_sol - miners[m].rewards_sol
             = rounds[id].lamports - rounds'[id].lamports
<1>1. LedgerInv /\ [Next]_vars =>
        [\A id \in RoundIds :
           rounds[id].resolved /\ rounds'[id].lamports # rounds[id].lamports => Paid(id)]_vars
  <2> SUFFICES ASSUME LedgerInv, [Next]_vars, NEW id \in RoundIds, rounds[id].resolved,
                      rounds'[id].lamports # rounds[id].lamports
               PROVE  Paid(id)
    OBVIOUS
  <2> USE DEF LedgerInv, Ledger
  <2>1. id < board.round_id
    BY PhaseFacts
  <2>2. PICK caller \in Wallets, m \in Miners :
          Checkpoint(caller, m) /\ miners[m].round_id = id
    BY <2>1, ClosedRoundStep
  <2>3. /\ m \in UnsettledOf(miners, id) /\ miners'[m].checkpoint_id = id
        /\ miners'[m].rewards_sol = miners[m].rewards_sol + Rewards(m)
        /\ rounds'[id].lamports = rounds[id].lamports - Rewards(m)
        /\ Rewards(m) \in Nat
    BY <2>2, CheckpointEffect
  <2>4. miners[m].rewards_sol \in Nat /\ rounds[id].lamports \in Nat
    BY LedgerTypes DEF Miner, Round, U64
  <2>5. miners'[m].rewards_sol - miners[m].rewards_sol
          = rounds[id].lamports - rounds'[id].lamports
    BY <2>3, <2>4
  <2>6. m \in Unsettled(id)
    BY <2>3 DEF UnsettledOf, PlayersOf, Unsettled, Players
  <2>7. QED
    BY <2>3, <2>5, <2>6
<1>2. QED
  BY <1>1, LedgerInductive, PTL DEF Spec, RoundPaysOnlyItsPlayers
=============================================================================
