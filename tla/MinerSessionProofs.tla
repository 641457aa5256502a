------------------------- MODULE MinerSessionProofs -------------------------
(***************************************************************************)
(* A player's session, for every number of concurrent calls, squares,      *)
(* rounds and failures: the two ledgers' copies and whatever the handlers  *)
(* do to them implement one balance (MinerCustody), a balance at home is   *)
(* settled, and every square of a round is paid for exactly once.          *)
(*                                                                         *)
(* The ledgers are the invariant's subject; of the handlers it is enough   *)
(* to know that what they send is a transaction (ClientType), since the    *)
(* program's guards, not the client, protect the balance.                  *)
(***************************************************************************)
EXTENDS MinerSession, FiniteSetTheorems, TLAPS

USE SessionAssumption

LedgerType ==
  /\ round \in Rounds
  /\ outcome \in [Rounds -> Outcomes]
  /\ spent \in [Rounds -> Nat]
  /\ wallet \in Nat
  /\ place \in {"base", "rollup", "returning"}
  /\ base \in Miner
  /\ rollup \in Miner
  /\ row \in Rows

ClientType ==
  /\ call \in [Calls -> Call]
  /\ late \subseteq Transaction
  /\ isDeployPending \in BOOLEAN /\ isCashOutPending \in BOOLEAN
  /\ deploys \in Nat /\ failures \in Nat

\* a copy at home has the bets the rollup last saw
CopiesAgree ==
  /\ place = "base" => /\ base.deployed = rollup.deployed
                       /\ base.round_id = rollup.round_id
                       /\ base.checkpoint_id = rollup.checkpoint_id
  /\ ~base.exists => base = NewMiner(FALSE)
  /\ place # "base" => rollup.exists

\* nothing is spent on rounds after the miner's own, nor is its own settled
\* before it is over
BetsAccounted ==
  /\ rollup.round_id = NoRound => \A r \in Rounds : spent[r] = 0
  /\ rollup.round_id \in Rounds =>
       /\ rollup.round_id <= round
       /\ Settled(rollup) => rollup.round_id < round
       /\ \A r \in Rounds : r > rollup.round_id => spent[r] = 0
       /\ spent[rollup.round_id] = AMOUNT * Cardinality(rollup.deployed)

LedgerInv == LedgerType /\ HomeIsSettled /\ CopiesAgree /\ BetsAccounted

SessionInv == LedgerInv /\ ClientType

LEMMA TypeParts == SessionInv => TypeOK
  BY DEF SessionInv, LedgerInv, LedgerType, ClientType, TypeOK

-----------------------------------------------------------------------------
(***************************************************************************)
(* The ledgers, one lemma per transaction.                                 *)
(***************************************************************************)
LEMMA NewMinerType == \A e \in BOOLEAN : NewMiner(e) \in Miner
  BY DEF NewMiner, Miner, NoRound, Rounds

LEMMA FundMinerKeeps ==
  ASSUME LedgerInv, NEW tx \in Transaction, FundMiner(tx)
  PROVE  LedgerInv' /\ Custody!Deposit
<1> DEFINE opened == IF base.exists THEN base ELSE NewMiner(TRUE)
           top_up == IF CHECKPOINT_FEE > opened.checkpoint_fee
                     THEN CHECKPOINT_FEE - opened.checkpoint_fee ELSE 0
           balance == opened.rewards_sol + tx.amount
           fee == opened.checkpoint_fee + top_up
           funded == [opened EXCEPT !.rewards_sol = balance,
                                    !.checkpoint_fee = fee]
<1>1. /\ place = "base" /\ tx.amount > 0 /\ wallet >= tx.amount + top_up
      /\ wallet' = wallet - (tx.amount + top_up) /\ base' = funded
      /\ UNCHANGED <<round, outcome, spent, place, rollup, row>>
  BY Zenon DEF FundMiner
<1>2. opened \in Miner /\ opened.exists
      /\ opened.deployed = base.deployed /\ opened.round_id = base.round_id
      /\ opened.checkpoint_id = base.checkpoint_id
      /\ opened.rewards_sol = base.rewards_sol
      /\ opened.checkpoint_fee = base.checkpoint_fee
  BY NewMinerType DEF LedgerInv, LedgerType, CopiesAgree, NewMiner, Miner
<1>3. tx.amount \in Nat
  BY DEF Transaction
<1> HIDE DEF opened
<1>4. top_up \in Nat
  BY <1>2 DEF Miner
<1> HIDE DEF top_up
<1>0. /\ balance = base.rewards_sol + tx.amount /\ balance \in Nat
      /\ fee = base.checkpoint_fee + top_up /\ fee \in Nat
  BY <1>2, <1>3, <1>4 DEF Miner
<1> HIDE DEF balance, fee
<1>5. funded \in Miner
  BY <1>0, <1>2 DEF Miner
<1>6. /\ funded.exists /\ funded.deployed = base.deployed
      /\ funded.round_id = base.round_id
      /\ funded.checkpoint_id = base.checkpoint_id
      /\ funded.rewards_sol = base.rewards_sol + tx.amount
      /\ funded.checkpoint_fee = base.checkpoint_fee + top_up
  BY <1>0, <1>2 DEF Miner
<1> HIDE DEF funded
<1>7. LedgerType'
  BY <1>1, <1>3, <1>4, <1>5 DEF LedgerInv, LedgerType
<1>8. HomeIsSettled' /\ CopiesAgree' /\ BetsAccounted'
  BY <1>1, <1>6 DEF LedgerInv, HomeIsSettled, CopiesAgree, BetsAccounted,
     Settled, Live
<1>9. base.rewards_sol \in Nat /\ base.checkpoint_fee \in Nat
  BY DEF LedgerInv, LedgerType, Miner
<1>10. Custody!Deposit
  BY <1>1, <1>3, <1>4, <1>6, <1>9
     DEF Custody!Deposit, Live, Settled, LedgerInv, LedgerType
<1> QED
  BY <1>7, <1>8, <1>10 DEF LedgerInv

LEMMA DelegateMinerKeeps ==
  ASSUME LedgerInv, DelegateMiner
  PROVE  LedgerInv' /\ Custody!Depart
<1>1. LedgerType'
  BY DEF LedgerInv, LedgerType, DelegateMiner
<1>2. HomeIsSettled' /\ CopiesAgree'
  BY DEF LedgerInv, HomeIsSettled, CopiesAgree, DelegateMiner, Settled, Live
<1>3. BetsAccounted'
  BY DEF LedgerInv, CopiesAgree, BetsAccounted, DelegateMiner, Settled
<1>4. Custody!Depart
  BY DEF DelegateMiner, Custody!Depart, Live, Settled
<1> QED
  BY <1>1, <1>2, <1>3, <1>4 DEF LedgerInv

LEMMA RewardType ==
  ASSUME NEW miner \in Miner
  PROVE  Reward(miner) \in Nat
<1>1. IsFiniteSet(miner.deployed)
  BY FS_Subset DEF Miner
<1>2. Cardinality(miner.deployed) \in Nat
  BY <1>1, FS_CardinalityType
<1> QED
  BY <1>2 DEF Reward

LEMMA CheckpointKeeps ==
  ASSUME LedgerInv, NEW id, NEW fee \in Nat, fee <= rollup.checkpoint_fee,
         CheckpointOf(id, fee)
  PROVE  LedgerInv' /\ Custody!Settle
<1> DEFINE balance == rollup.rewards_sol + Reward(rollup)
           left == rollup.checkpoint_fee - fee
           settled == [rollup EXCEPT !.checkpoint_id = id,
                                     !.rewards_sol = balance,
                                     !.checkpoint_fee = left]
<1>1. /\ place = "rollup" /\ rollup.round_id \in Rounds /\ id = rollup.round_id
      /\ id < round /\ ~Settled(rollup) /\ rollup' = settled
      /\ row' = "none"
      /\ UNCHANGED <<round, outcome, spent, wallet, place, base>>
  BY Zenon DEF CheckpointOf
<1>2. rollup \in Miner /\ Reward(rollup) \in Nat
  BY RewardType DEF LedgerInv, LedgerType
<1>0. balance \in Nat /\ left \in Nat
  BY <1>2 DEF Miner
<1> HIDE DEF balance, left
<1>3. settled \in Miner
  BY <1>0, <1>1, <1>2 DEF Miner
<1>4. /\ settled.exists = rollup.exists /\ settled.deployed = rollup.deployed
      /\ settled.round_id = rollup.round_id /\ settled.checkpoint_id = id
      /\ settled.rewards_sol \in Nat /\ settled.checkpoint_fee \in Nat
  BY <1>0, <1>1, <1>2, <1>3 DEF Miner
<1> HIDE DEF settled
<1>5. LedgerType'
  BY <1>1, <1>3 DEF LedgerInv, LedgerType, Rows
<1>6. HomeIsSettled' /\ CopiesAgree' /\ BetsAccounted'
  BY <1>1, <1>4 DEF LedgerInv, HomeIsSettled, CopiesAgree, BetsAccounted,
     Settled, Live, Rounds, NoRound
<1>7. Custody!Settle
  BY <1>1, <1>4 DEF Custody!Settle, Live, Settled
<1> QED
  BY <1>5, <1>6, <1>7 DEF LedgerInv

LEMMA UndelegateMinerKeeps ==
  ASSUME LedgerInv, UndelegateMiner
  PROVE  LedgerInv' /\ UNCHANGED Custody!custodyVars
<1>1. LedgerType'
  BY DEF LedgerInv, LedgerType, UndelegateMiner
<1>2. HomeIsSettled' /\ CopiesAgree' /\ BetsAccounted'
  BY DEF LedgerInv, LedgerType, HomeIsSettled, CopiesAgree, BetsAccounted,
     UndelegateMiner, Settled, Live
<1>3. UNCHANGED Custody!custodyVars
  BY DEF UndelegateMiner, Custody!custodyVars, Live, Settled
<1> QED
  BY <1>1, <1>2, <1>3 DEF LedgerInv

LEMMA ClaimSolKeeps ==
  ASSUME LedgerInv, ClaimSol
  PROVE  LedgerInv' /\ Custody!Withdraw
<1> DEFINE emptied == [base EXCEPT !.rewards_sol = 0]
<1>1. /\ place = "base" /\ base.exists /\ Settled(base) /\ base.rewards_sol > 0
      /\ wallet' = wallet + base.rewards_sol /\ base' = emptied
      /\ UNCHANGED <<round, outcome, spent, place, rollup, row>>
  BY Zenon DEF ClaimSol
<1>2. emptied \in Miner
      /\ emptied.exists = base.exists /\ emptied.deployed = base.deployed
      /\ emptied.round_id = base.round_id
      /\ emptied.checkpoint_id = base.checkpoint_id
      /\ emptied.rewards_sol = 0 /\ emptied.checkpoint_fee = base.checkpoint_fee
      /\ base.rewards_sol \in Nat /\ base.checkpoint_fee \in Nat
  BY DEF LedgerInv, LedgerType, Miner
<1> HIDE DEF emptied
<1>3. LedgerType'
  BY <1>1, <1>2 DEF LedgerInv, LedgerType
<1>4. HomeIsSettled' /\ CopiesAgree' /\ BetsAccounted'
  BY <1>1, <1>2 DEF LedgerInv, HomeIsSettled, CopiesAgree, BetsAccounted,
     Settled, Live
<1>5. Custody!Withdraw
  BY <1>1, <1>2 DEF Custody!Withdraw, Live, Settled, LedgerInv, LedgerType
<1> QED
  BY <1>3, <1>4, <1>5 DEF LedgerInv

LEMMA DeployKeeps ==
  ASSUME LedgerInv, NEW tx \in Transaction, Deploy(tx)
  PROVE  LedgerInv' /\ Custody!Bet
<1> DEFINE is_new_round == rollup.round_id # round
           miner == IF is_new_round THEN Joined(rollup) ELSE rollup
           selected == Selected(miner, tx.squares)
           total_cost == AMOUNT * Cardinality(selected)
           held == miner.deployed \cup selected
           balance == miner.rewards_sol - total_cost
           nonce == miner.transaction_nonce + 1
           bet == [miner EXCEPT !.deployed = held, !.rewards_sol = balance,
                                !.transaction_nonce = nonce]
<1>1. /\ place = "rollup" /\ round < MaxRound
      /\ is_new_round => Settled(rollup)
      /\ selected # {} /\ miner.rewards_sol >= total_cost
      /\ rollup' = bet
      /\ spent' = [spent EXCEPT ![round] = @ + total_cost]
      /\ UNCHANGED <<round, outcome, wallet, place, base, row>>
  BY Zenon DEF Deploy
<1>2. rollup \in Miner /\ round \in Rounds /\ spent \in [Rounds -> Nat]
  BY DEF LedgerInv, LedgerType
<1>3. /\ miner.exists = rollup.exists
      /\ miner.round_id = round
      /\ miner.checkpoint_id = rollup.checkpoint_id
      /\ miner.deployed = IF is_new_round THEN {} ELSE rollup.deployed
      /\ miner.rewards_sol + miner.checkpoint_fee
           = rollup.rewards_sol + rollup.checkpoint_fee
      /\ miner.rewards_sol \in Int /\ miner.checkpoint_fee \in Nat
      /\ miner.transaction_nonce = rollup.transaction_nonce
      /\ miner = [exists |-> miner.exists, deployed |-> miner.deployed,
                  rewards_sol |-> miner.rewards_sol,
                  checkpoint_fee |-> miner.checkpoint_fee,
                  checkpoint_id |-> miner.checkpoint_id,
                  round_id |-> miner.round_id,
                  transaction_nonce |-> miner.transaction_nonce]
  <2>1. CASE is_new_round
    <3> DEFINE charge == IF rollup.checkpoint_fee = 0 THEN CHECKPOINT_FEE ELSE 0
               paid == rollup.rewards_sol - charge
               fee == rollup.checkpoint_fee + charge
    <3>1. /\ paid \in Int /\ fee \in Nat
          /\ paid + fee = rollup.rewards_sol + rollup.checkpoint_fee
      BY <1>2 DEF Miner
    <3>2. miner = [rollup EXCEPT !.rewards_sol = paid, !.checkpoint_fee = fee,
                                 !.deployed = {}, !.round_id = round]
      BY <2>1, Zenon DEF Joined
    <3> HIDE DEF paid, fee, miner
    <3> QED
      BY <1>2, <2>1, <3>1, <3>2 DEF Miner
  <2>2. CASE ~is_new_round
    BY <1>2, <2>2 DEF Miner
  <2> QED
    BY <2>1, <2>2
<1> HIDE DEF miner
<1>4. /\ selected \subseteq Squares /\ miner.deployed \subseteq Squares
      /\ miner.deployed \cap selected = {}
      /\ IsFiniteSet(selected) /\ IsFiniteSet(miner.deployed)
  <2>1. selected \subseteq Squares /\ miner.deployed \subseteq Squares
        /\ miner.deployed \cap selected = {}
    BY <1>2, <1>3 DEF Miner, Transaction, Selected
  <2> QED
    BY <2>1, FS_Subset
<1>5. /\ Cardinality(selected) \in Nat \ {0} /\ Cardinality(miner.deployed) \in Nat
      /\ Cardinality(held) = Cardinality(miner.deployed) + Cardinality(selected)
  <2>1. Cardinality(selected) \in Nat /\ Cardinality(miner.deployed) \in Nat
    BY <1>4, FS_CardinalityType
  <2>2. Cardinality(selected) # 0
    BY <1>1, <1>4, FS_EmptySet
  <2>3. Cardinality(held) = Cardinality(miner.deployed) + Cardinality(selected)
                              - Cardinality(miner.deployed \cap selected)
    BY <1>4, FS_Union
  <2>4. Cardinality(miner.deployed \cap selected) = 0
    BY <1>4, FS_EmptySet
  <2> QED
    BY <2>1, <2>2, <2>3, <2>4
<1>6. total_cost \in Nat /\ total_cost > 0
      /\ AMOUNT * Cardinality(held)
           = AMOUNT * Cardinality(miner.deployed) + total_cost
  <2> DEFINE k == Cardinality(selected)
             h == Cardinality(miner.deployed)
  <2>1. k \in Nat \ {0} /\ h \in Nat /\ Cardinality(held) = h + k
    BY <1>5
  <2> HIDE DEF k, h
  <2>2. AMOUNT * k \in Nat /\ AMOUNT * k > 0
        /\ AMOUNT * (h + k) = AMOUNT * h + AMOUNT * k
    BY <2>1
  <2> QED
    BY <2>1, <2>2 DEF k, h
<1>7. held \subseteq Squares
  BY <1>4
<1>8. balance \in Nat /\ nonce \in Nat /\ balance < miner.rewards_sol
  BY <1>1, <1>2, <1>3, <1>6 DEF Miner
<1> HIDE DEF selected, total_cost, held, balance, nonce
<1>9. /\ bet \in Miner /\ bet.exists = rollup.exists /\ bet.round_id = round
      /\ bet.checkpoint_id = rollup.checkpoint_id /\ bet.deployed = held
      /\ bet.rewards_sol = balance /\ bet.checkpoint_fee = miner.checkpoint_fee
  BY <1>2, <1>3, <1>7, <1>8 DEF Miner
<1> HIDE DEF bet
<1>10. spent' \in [Rounds -> Nat]
       /\ spent'[round] = spent[round] + total_cost
       /\ \A r \in Rounds : r # round => spent'[r] = spent[r]
  BY <1>1, <1>2, <1>6
<1>11. LedgerType'
  BY <1>1, <1>9, <1>10 DEF LedgerInv, LedgerType
<1>12. HomeIsSettled' /\ CopiesAgree'
  BY <1>1, <1>9 DEF LedgerInv, HomeIsSettled, CopiesAgree
<1>13. spent[round] = AMOUNT * Cardinality(miner.deployed)
  <2>1. CASE is_new_round
    <3>1. spent[round] = 0
      BY <1>1, <1>2, <2>1 DEF LedgerInv, BetsAccounted, Settled, Miner, Rounds,
         NoRound
    <3>2. Cardinality(miner.deployed) = 0
      BY <1>3, <2>1, FS_EmptySet
    <3> QED
      BY <3>1, <3>2
  <2>2. CASE ~is_new_round
    BY <1>2, <1>3, <2>2 DEF LedgerInv, BetsAccounted
  <2> QED
    BY <2>1, <2>2
<1>14. rollup.checkpoint_id # round
  BY <1>1, <1>2 DEF LedgerInv, BetsAccounted, Settled, Rounds, NoRound
<1>15. BetsAccounted'
  <2>1. \A r \in Rounds : r > round => spent'[r] = 0
    BY <1>1, <1>2, <1>10 DEF LedgerInv, BetsAccounted, Settled, Miner, Rounds,
       NoRound
  <2>2. spent'[round] = AMOUNT * Cardinality(held)
    BY <1>6, <1>10, <1>13 DEF total_cost
  <2> QED
    BY <1>1, <1>2, <1>9, <1>14, <2>1, <2>2
       DEF BetsAccounted, Settled, Rounds, NoRound
<1>16. Custody!Bet
  <2>1. bet.rewards_sol + bet.checkpoint_fee
          < rollup.rewards_sol + rollup.checkpoint_fee
    BY <1>3, <1>8, <1>9
  <2> QED
    BY <1>1, <1>9, <1>14, <2>1 DEF Custody!Bet, Live, Settled
<1> QED
  BY <1>11, <1>12, <1>15, <1>16 DEF LedgerInv

-----------------------------------------------------------------------------
(***************************************************************************)
(* Every step: a transaction, a move of the outside world, or a step of a  *)
(* handler that only reads.                                                *)
(***************************************************************************)
CustodyStep == Custody!Next \/ UNCHANGED Custody!custodyVars

LEMMA IdleType == Idle \in Call
  BY DEF Idle, Call, Tx, Transaction, Kinds, Rounds, NoRound

LEMMA InitInv == Init => SessionInv /\ Custody!Init
<1> SUFFICES ASSUME Init PROVE SessionInv /\ Custody!Init
  OBVIOUS
<1>2. LedgerInv
  <2>1. LedgerType
    <3>1. base \in Miner /\ rollup \in Miner
      BY NewMinerType, Zenon DEF Init
    <3>2. /\ round = 0 /\ outcome = [r \in Rounds |-> "open"]
          /\ spent = [r \in Rounds |-> 0] /\ wallet = Opening /\ place = "base"
          /\ row = "none"
      BY Zenon DEF Init
    <3> QED
      BY <3>1, <3>2 DEF LedgerType, Rounds, Outcomes, Rows
  <2>2. HomeIsSettled /\ CopiesAgree
    BY DEF Init, HomeIsSettled, CopiesAgree, Settled, Live, NewMiner
  <2>3. rollup.round_id = NoRound /\ NoRound \notin Rounds
    BY DEF Init, NewMiner, Rounds, NoRound
  <2>4. BetsAccounted
    BY <2>3 DEF Init, BetsAccounted
  <2> QED
    BY <2>1, <2>2, <2>4 DEF LedgerInv
<1>4. ClientType
  BY IdleType DEF Init, ClientType
<1>5. Custody!Init
  BY DEF Init, Custody!Init, Live, NewMiner, Settled
<1> QED
  BY <1>2, <1>4, <1>5 DEF SessionInv

LEMMA ExecuteKeeps ==
  ASSUME LedgerInv, NEW tx \in Transaction, Execute(tx)
  PROVE  LedgerInv' /\ CustodyStep
<1>1. CASE FundMiner(tx)
  BY <1>1, FundMinerKeeps DEF CustodyStep, Custody!Next
<1>2. CASE DelegateMiner
  BY <1>2, DelegateMinerKeeps DEF CustodyStep, Custody!Next
<1>3. CASE CheckpointOf(tx.round_id, 0)
  <2>1. 0 <= rollup.checkpoint_fee
    BY DEF LedgerInv, LedgerType, Miner
  <2>2. LedgerInv' /\ Custody!Settle
    BY <1>3, <2>1, CheckpointKeeps
  <2> QED
    BY <2>2 DEF CustodyStep, Custody!Next
<1>4. CASE UndelegateMiner
  BY <1>4, UndelegateMinerKeeps DEF CustodyStep
<1>5. CASE Deploy(tx)
  BY <1>5, DeployKeeps DEF CustodyStep, Custody!Next
<1>6. CASE ClaimSol
  BY <1>6, ClaimSolKeeps DEF CustodyStep, Custody!Next
<1> QED
  BY <1>1, <1>2, <1>3, <1>4, <1>5, <1>6, Zenon DEF Execute

LEMMA StillKeeps ==
  ASSUME LedgerInv, UNCHANGED ledgers
  PROVE  LedgerInv' /\ CustodyStep
<1>1. LedgerInv'
  BY DEF ledgers, LedgerInv, LedgerType, HomeIsSettled, CopiesAgree,
     BetsAccounted, Settled, Live
<1>2. UNCHANGED Custody!custodyVars
  BY DEF ledgers, Custody!custodyVars, Live, Settled
<1> QED
  BY <1>1, <1>2 DEF CustodyStep

LEMMA RoundEndsKeeps ==
  ASSUME LedgerInv, RoundEnds
  PROVE  LedgerInv' /\ CustodyStep
<1>1. PICK result \in Outcomes :
        /\ round < MaxRound
        /\ outcome' = [outcome EXCEPT ![round] = result]
        /\ round' = round + 1
        /\ row' \in {"none", row}
        /\ UNCHANGED <<spent, wallet, place, base, rollup>>
  BY DEF RoundEnds, Outcomes
<1>2. LedgerType'
  BY <1>1 DEF LedgerInv, LedgerType, Rounds, Rows
<1>3. HomeIsSettled' /\ CopiesAgree'
  BY <1>1 DEF LedgerInv, HomeIsSettled, CopiesAgree, Settled, Live
<1>4. BetsAccounted'
  <2>1. /\ round \in Int /\ round' \in Int /\ round < round'
        /\ rollup.round_id \in Rounds => rollup.round_id \in Int
    BY <1>1 DEF LedgerInv, LedgerType, Rounds
  <2>2. UNCHANGED <<rollup, spent>>
    BY <1>1
  <2>3. rollup.round_id \in Rounds => rollup.round_id <= round' /\ rollup.round_id < round'
    BY <2>1 DEF LedgerInv, BetsAccounted
  <2> QED
    BY <2>2, <2>3 DEF LedgerInv, BetsAccounted, Settled
<1>5. UNCHANGED Custody!custodyVars
  BY <1>1 DEF Custody!custodyVars, Live, Settled
<1> QED
  BY <1>2, <1>3, <1>4, <1>5 DEF LedgerInv, CustodyStep

LEMMA BotCheckpointKeeps ==
  ASSUME LedgerInv, BotCheckpoint
  PROVE  LedgerInv' /\ CustodyStep
<1>1. rollup.checkpoint_fee \in Nat
  BY DEF LedgerInv, LedgerType, Miner
<1>2. CheckpointOf(rollup.round_id, rollup.checkpoint_fee)
  BY DEF BotCheckpoint
<1>3. LedgerInv' /\ Custody!Settle
  BY <1>1, <1>2, CheckpointKeeps
<1> QED
  BY <1>3 DEF CustodyStep, Custody!Next

LEMMA RecentRoundsKeeps ==
  ASSUME LedgerInv, RecentRounds
  PROVE  LedgerInv' /\ CustodyStep
<1>1. row' \in Rows /\ UNCHANGED <<round, outcome, spent, wallet, place, base, rollup>>
  BY DEF RecentRounds, Rows
<1>2. LedgerType'
  BY <1>1 DEF LedgerInv, LedgerType
<1>3. HomeIsSettled' /\ CopiesAgree' /\ BetsAccounted'
  BY <1>1 DEF LedgerInv, HomeIsSettled, CopiesAgree, BetsAccounted, Settled, Live
<1>4. UNCHANGED Custody!custodyVars
  BY <1>1 DEF Custody!custodyVars, Live, Settled
<1> QED
  BY <1>2, <1>3, <1>4 DEF LedgerInv, CustodyStep

LEMMA ReturnKeeps ==
  ASSUME LedgerInv, Return
  PROVE  LedgerInv' /\ CustodyStep
<1>1. LedgerType'
  BY DEF Return, LedgerInv, LedgerType
<1>2. HomeIsSettled' /\ CopiesAgree' /\ BetsAccounted'
  BY DEF Return, LedgerInv, HomeIsSettled, CopiesAgree, BetsAccounted, Settled,
     Live
<1>3. Custody!Return
  BY DEF Return, LedgerInv, HomeIsSettled, Custody!Return, Live, Settled
<1> QED
  BY <1>1, <1>2, <1>3 DEF LedgerInv, CustodyStep, Custody!Next

-----------------------------------------------------------------------------
(***************************************************************************)
(* The handlers send transactions and keep their calls well formed.        *)
(***************************************************************************)
LEMMA TxType ==
  ASSUME NEW kind \in Kinds, NEW amount \in Nat,
         NEW id \in Rounds \cup {NoRound}, NEW squares \in SUBSET Squares,
         NEW nonce \in Nat
  PROVE  [kind |-> kind, amount |-> amount, round_id |-> id,
          squares |-> squares, nonce |-> nonce] \in Transaction
  BY DEF Transaction

LEMMA SendType ==
  ASSUME ClientType, NEW c \in Calls, NEW tx \in Transaction, Send(c, tx)
  PROVE  call' \in [Calls -> Call] /\ UNCHANGED flags
<1> DEFINE sent == [call[c] EXCEPT !.pc = "sent", !.tx = tx]
<1>1. call' = [call EXCEPT ![c] = sent] /\ UNCHANGED flags
  BY DEF Send, ClientType
<1>2. sent \in Call
  BY DEF ClientType, Call
<1> QED
  BY <1>1, <1>2 DEF ClientType

LEMMA GoToType ==
  ASSUME ClientType, NEW c \in Calls,
         NEW pc \in {"readBase", "readRollup", "readSettled", "waitRollup"},
         GoTo(c, pc)
  PROVE  call' \in [Calls -> Call] /\ UNCHANGED flags
<1> DEFINE gone == [call[c] EXCEPT !.pc = pc]
<1>1. call' = [call EXCEPT ![c] = gone] /\ UNCHANGED flags
  BY DEF GoTo, ClientType
<1>2. gone \in Call
  BY DEF ClientType, Call
<1> QED
  BY <1>1, <1>2 DEF ClientType

LEMMA FinishType ==
  ASSUME ClientType, NEW c \in Calls, Finish(c)
  PROVE  /\ call' \in [Calls -> Call]
         /\ isDeployPending' \in BOOLEAN /\ isCashOutPending' \in BOOLEAN
<1>1. call' \in [Calls -> Call]
  BY IdleType DEF Finish, ClientType
<1> QED
  BY <1>1, Zenon DEF Finish

LEMMA RequiredType ==
  ASSUME ClientType, NEW c \in Calls
  PROVE  Required(c) \in Nat
<1>1. IsFiniteSet(call[c].squares)
  BY FS_Subset DEF ClientType, Call
<1>2. Cardinality(call[c].squares) \in Nat
  BY <1>1, FS_CardinalityType
<1> QED
  BY <1>2 DEF Required

\* What a step of a handler leaves of the client's state.
ClientNext ==
  /\ call' \in [Calls -> Call]
  /\ isDeployPending' \in BOOLEAN /\ isCashOutPending' \in BOOLEAN

LEMMA SendClient ==
  ASSUME ClientType, NEW c \in Calls, NEW tx \in Transaction, Send(c, tx)
  PROVE  ClientNext
  BY SendType DEF ClientNext, ClientType, flags

LEMMA PlainTxType ==
  ASSUME NEW kind \in Kinds
  PROVE  Tx(kind) \in Transaction
  BY DEF Tx, Transaction, Rounds, NoRound

LEMMA BetOrRefreshClient ==
  ASSUME ClientType, NEW c \in Calls, NEW miner \in Miner, BetOrRefresh(c, miner)
  PROVE  ClientNext
<1> DEFINE bet == [Tx("deploy") EXCEPT !.round_id = call[c].round,
                                       !.squares = call[c].squares,
                                       !.nonce = miner.transaction_nonce]
<1>1. CASE Send(c, bet)
  <2>1. bet \in Transaction
    BY DEF Tx, Transaction, Kinds, Rounds, NoRound, ClientType, Call, Miner
  <2> QED
    BY <1>1, <2>1, SendClient
<1>2. CASE Send(c, Tx("undelegate_miner"))
  BY <1>2, SendClient, PlainTxType DEF Kinds
<1>3. CASE Finish(c)
  BY <1>3, FinishType DEF ClientNext
<1> QED
  BY <1>1, <1>2, <1>3, Zenon DEF BetOrRefresh

LEMMA CheckpointClient ==
  ASSUME ClientType, NEW c \in Calls, NEW miner \in Miner, Checkpoint(c, miner)
  PROVE  ClientNext
<1> DEFINE tx == [Tx("checkpoint") EXCEPT !.round_id = miner.round_id]
<1>1. tx \in Transaction
  BY DEF Tx, Transaction, Kinds, Miner
<1> QED
  BY <1>1, SendClient, Zenon DEF Checkpoint

LEMMA StepClient ==
  ASSUME LedgerInv, ClientType, NEW c \in Calls, Step(c)
  PROVE  ClientType'
<1> USE DEF LedgerInv, LedgerType
<1>1. UNCHANGED <<late, deploys, failures>>
  BY Zenon DEF Step, Begin, ReadStatus, ReadBase, ReadRollup, ReadSettled, Wait,
     Landed, Refuse, counts
<1>2. ClientNext
  <2>1. CASE Begin(c)
    <3> DEFINE begun == [call[c] EXCEPT !.pc = "status"]
    <3>1. call' = [call EXCEPT ![c] = begun]
      BY <2>1 DEF Begin
    <3>2. begun \in Call
      BY DEF ClientType, Call
    <3>3. isDeployPending' \in BOOLEAN /\ isCashOutPending' \in BOOLEAN
      BY <2>1, Zenon DEF Begin
    <3> QED
      BY <3>1, <3>2, <3>3 DEF ClientNext, ClientType
  <2>2. CASE ReadStatus(c)
    BY <2>2, GoToType DEF ReadStatus, ClientNext, ClientType, flags
  <2>3. CASE ReadBase(c)
    <3> DEFINE deficit == Required(c) - base.rewards_sol
               fund == [Tx("fund_miner") EXCEPT !.amount = deficit]
    <3>1. CASE MustFund(c) /\ Send(c, fund)
      <4>1. deficit \in Nat
        BY <3>1, RequiredType DEF MustFund, Miner
      <4> HIDE DEF deficit
      <4>2. fund \in Transaction
        BY <4>1 DEF Tx, Transaction, Kinds, Rounds, NoRound
      <4> QED
        BY <3>1, <4>2, SendClient
    <3>2. CASE Send(c, Tx("delegate_miner")) \/ Send(c, Tx("claim_sol"))
      BY <3>2, SendClient, PlainTxType DEF Kinds
    <3>3. CASE Finish(c)
      BY <3>3, FinishType DEF ClientNext
    <3> QED
      BY <2>3, <3>1, <3>2, <3>3, Zenon DEF ReadBase
  <2>4. \A miner \in RollupReads : miner \in Miner
    BY DEF RollupReads
  <2>5. CASE ReadRollup(c)
    <3>1. PICK miner \in RollupReads :
            BetOrRefresh(c, miner) \/ Checkpoint(c, miner) \/ Finish(c)
              \/ Send(c, Tx("undelegate_miner"))
      BY <2>5, Zenon DEF ReadRollup
    <3>2. miner \in Miner
      BY <2>4
    <3> QED
      BY <3>1, <3>2, BetOrRefreshClient, CheckpointClient, FinishType, SendClient,
         PlainTxType DEF Kinds, ClientNext
  <2>6. CASE ReadSettled(c)
    <3>1. PICK miner \in RollupReads :
            BetOrRefresh(c, miner) \/ Send(c, Tx("undelegate_miner"))
      BY <2>6, Zenon DEF ReadSettled
    <3>2. miner \in Miner
      BY <2>4
    <3> QED
      BY <3>1, <3>2, BetOrRefreshClient, SendClient, PlainTxType DEF Kinds
  <2>7. CASE Wait(c)
    <3>1. GoTo(c, "readRollup") \/ GoTo(c, "readBase") \/ Finish(c)
      BY <2>7, Zenon DEF Wait
    <3> QED
      BY <3>1, GoToType, FinishType DEF ClientNext, ClientType, flags
  <2>8. CASE Landed(c)
    <3>1. CASE Send(c, Tx("delegate_miner"))
      BY <3>1, SendClient, PlainTxType DEF Kinds
    <3>2. CASE GoTo(c, "waitRollup") \/ GoTo(c, "readSettled")
      BY <3>2, GoToType DEF ClientNext, ClientType, flags
    <3>3. CASE /\ call' = [call EXCEPT ![c].pc = "waitBase", ![c].refreshed = TRUE]
               /\ UNCHANGED flags
      <4> DEFINE waiting == [call[c] EXCEPT !.pc = "waitBase", !.refreshed = TRUE]
      <4>1. call' = [call EXCEPT ![c] = waiting]
        BY <3>3 DEF ClientType
      <4>2. waiting \in Call
        BY DEF ClientType, Call
      <4> QED
        BY <3>3, <4>1, <4>2 DEF ClientNext, ClientType, flags
    <3>4. CASE Finish(c)
      BY <3>4, FinishType DEF ClientNext
    <3> QED
      BY <2>8, <3>1, <3>2, <3>3, <3>4, Zenon DEF Landed
  <2>9. CASE Refuse(c)
    <3>1. Finish(c)
      BY <2>9, Zenon DEF Refuse
    <3> QED
      BY <3>1, FinishType DEF ClientNext
  <2> QED
    BY <2>1, <2>2, <2>3, <2>5, <2>6, <2>7, <2>8, <2>9, Zenon DEF Step
<1> QED
  BY <1>1, <1>2 DEF ClientNext, ClientType

LEMMA StepKeeps ==
  ASSUME LedgerInv, ClientType, NEW c \in Calls, Step(c)
  PROVE  LedgerInv' /\ CustodyStep
<1>1. CASE UNCHANGED ledgers
  BY <1>1, StillKeeps
<1>2. CASE Execute(call[c].tx)
  <2>1. call[c].tx \in Transaction
    BY DEF ClientType, Call
  <2> QED
    BY <1>2, <2>1, ExecuteKeeps
<1> QED
  BY <1>1, <1>2, Zenon DEF Step, Begin, ReadStatus, ReadBase, ReadRollup,
     ReadSettled, Wait, Landed, Refuse

LEMMA PressClient ==
  ASSUME ClientType, NEW c \in Calls, round \in Rounds,
         PressDeploy(c) \/ PressCashOut(c)
  PROVE  ClientType' /\ UNCHANGED ledgers
<1>1. CASE PressDeploy(c)
  <2>1. PICK squares \in SUBSET Squares :
          call' = [call EXCEPT ![c] = [Idle EXCEPT !.kind = "deploy", !.pc = "auth",
                                                   !.round = round,
                                                   !.squares = squares]]
    BY <1>1 DEF PressDeploy
  <2> DEFINE pressed == [Idle EXCEPT !.kind = "deploy", !.pc = "auth",
                                     !.round = round, !.squares = squares]
  <2>2. pressed \in Call
    BY PlainTxType DEF Idle, Call, Kinds
  <2>3. call' \in [Calls -> Call]
    BY <2>1, <2>2 DEF ClientType
  <2>4. deploys' = deploys + 1 /\ UNCHANGED <<ledgers, late, flags, failures>>
    BY <1>1, Zenon DEF PressDeploy
  <2> QED
    BY <2>3, <2>4 DEF ClientType, flags
<1>2. CASE PressCashOut(c)
  <2> DEFINE pressed == [Idle EXCEPT !.kind = "cashout", !.pc = "auth",
                                     !.round = round]
  <2>1. call' = [call EXCEPT ![c] = pressed]
        /\ UNCHANGED <<ledgers, late, flags, counts>>
    BY <1>2, Zenon DEF PressCashOut
  <2>2. pressed \in Call
    BY PlainTxType DEF Idle, Call, Kinds
  <2> QED
    BY <2>1, <2>2 DEF ClientType, flags, counts
<1> QED
  BY <1>1, <1>2

LEMMA GiveUpClient ==
  ASSUME ClientType, NEW c \in Calls, GiveUp(c)
  PROVE  ClientType' /\ UNCHANGED ledgers
<1>1. ClientNext
  <2>2. CASE call' = [call EXCEPT ![c] = Idle] /\ UNCHANGED flags
    BY IdleType, <2>2 DEF ClientNext, ClientType, flags
  <2>3. CASE Finish(c)
    BY <2>3, FinishType DEF ClientNext
  <2> QED
    BY <2>2, <2>3, Zenon DEF GiveUp
<1>2. late' \subseteq Transaction
  BY DEF GiveUp, ClientType, Call
<1>3. failures' = failures + 1 /\ UNCHANGED <<ledgers, deploys>>
  BY Zenon DEF GiveUp
<1> QED
  BY <1>1, <1>2, <1>3 DEF ClientNext, ClientType

-----------------------------------------------------------------------------
LEMMA NextInv ==
  ASSUME SessionInv, [Next]_vars
  PROVE  SessionInv' /\ CustodyStep
<1> USE DEF SessionInv
<1>1. CASE RoundEnds \/ BotCheckpoint \/ Return \/ RecentRounds
  <2>1. UNCHANGED <<call, late, flags, counts>>
    BY <1>1, Zenon DEF RoundEnds, BotCheckpoint, Return, RecentRounds
  <2>2. ClientType'
    BY <2>1 DEF ClientType, flags, counts
  <2> QED
    BY <1>1, <2>2, RoundEndsKeeps, BotCheckpointKeeps, ReturnKeeps,
       RecentRoundsKeeps
<1>2. ASSUME NEW tx \in late, LandLate(tx)
      PROVE  SessionInv' /\ CustodyStep
  <2>1. tx \in Transaction /\ Execute(tx) /\ late' = late \ {tx}
        /\ UNCHANGED <<call, flags, counts>>
    BY <1>2 DEF LandLate, ClientType
  <2>2. ClientType'
    BY <2>1 DEF ClientType, flags, counts
  <2> QED
    BY <2>1, <2>2, ExecuteKeeps
<1>3. ASSUME NEW c \in Calls, PressDeploy(c) \/ PressCashOut(c)
      PROVE  SessionInv' /\ CustodyStep
  BY <1>3, PressClient, StillKeeps DEF LedgerInv, LedgerType
<1>4. ASSUME NEW c \in Calls, GiveUp(c)
      PROVE  SessionInv' /\ CustodyStep
  BY <1>4, GiveUpClient, StillKeeps
<1>5. ASSUME NEW c \in Calls, Step(c)
      PROVE  SessionInv' /\ CustodyStep
  BY <1>5, StepClient, StepKeeps
<1>6. CASE UNCHANGED vars
  <2>1. UNCHANGED ledgers /\ UNCHANGED <<call, late, flags, counts>>
    BY <1>6 DEF vars
  <2>2. ClientType'
    BY <2>1 DEF ClientType, flags, counts
  <2> QED
    BY <2>1, <2>2, StillKeeps
<1> QED
  BY <1>1, <1>2, <1>3, <1>4, <1>5, <1>6, Zenon DEF Next

-----------------------------------------------------------------------------
\* The session's ledgers and calls keep their types.
THEOREM SessionTypeCorrect == Spec => []TypeOK
<1>1. Init => SessionInv
  BY InitInv
<1>2. SessionInv /\ [Next]_vars => SessionInv'
  BY NextInv
<1>3. SessionInv => TypeOK
  BY TypeParts
<1> QED
  BY <1>1, <1>2, <1>3, PTL DEF Spec

\* Whatever the handlers, their retries and late transactions do, a balance at
\* home, or on its way there, has no bet left to settle.
THEOREM AlwaysSettledAtHome == Spec => []HomeIsSettled
<1>1. Init => SessionInv
  BY InitInv
<1>2. SessionInv /\ [Next]_vars => SessionInv'
  BY NextInv
<1>3. SessionInv => HomeIsSettled
  BY DEF SessionInv, LedgerInv
<1> QED
  BY <1>1, <1>2, <1>3, PTL DEF Spec

\* A square of a round is never paid for twice (nor held without paying).
THEOREM NoSquarePaidTwice == Spec => []EverySquarePaidOnce
<1>1. Init => SessionInv
  BY InitInv
<1>2. SessionInv /\ [Next]_vars => SessionInv'
  BY NextInv
<1>3. SessionInv => EverySquarePaidOnce
  BY DEF SessionInv, LedgerInv, BetsAccounted, EverySquarePaidOnce
<1> QED
  BY <1>1, <1>2, <1>3, PTL DEF Spec

\* The session implements the abstract custody of one balance: initial states
\* are its initial states, every step is one of its steps or a stutter.
THEOREM SessionIsCustody == Spec => ImplementsCustody
<1>1. Init => SessionInv /\ Custody!Init
  BY InitInv
<1>2. SessionInv /\ [Next]_vars => SessionInv' /\ [Custody!Next]_(Custody!custodyVars)
  BY NextInv DEF CustodyStep
<1> QED
  BY <1>1, <1>2, PTL DEF Spec, ImplementsCustody, Custody!Spec
=============================================================================
