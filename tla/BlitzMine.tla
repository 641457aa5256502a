------------------------------ MODULE BlitzMine ------------------------------
(***************************************************************************)
(* The BlitzMine Anchor program: rounds of a mining game on a board of     *)
(* squares, the miners' custodial balances, the treasury, and the VRF      *)
(* oracle that picks the winning square.  One action per instruction; a    *)
(* transaction is atomic and a failed `require!' leaves nothing behind, so *)
(* every `require!' is a conjunct of the guard.  Lamports are moved        *)
(* explicitly: an account's `lamports' is its real balance, rent included, *)
(* next to the fields in which the program keeps its books.                *)
(*                                                                         *)
(* Left out: statistics nothing reads (lifetime_*, last_claim_sol_at,      *)
(* epoch_id, treasury.total_vaulted), bumps, rent_payer, events, the       *)
(* config account, and on which ledger (base layer or rollup) an account   *)
(* currently lives.                                                        *)
(***************************************************************************)
EXTENDS Settlement, FiniteSets, Functions

CONSTANTS
  Miners,               \* authorities that play
  Squares,              \* the NUM_SQUARES tiles
  Crank,                \* the backend's operator wallet
  Collector,            \* ADMIN_FEE_COLLECTOR
  NoRandomness,         \* the all-zero randomness of an undrawn round
  ROUND_DURATION_SECONDS, INTERMISSION_SECONDS, CLAIM_WINDOW_SECONDS,
  BOT_CHECKPOINT_WINDOW_SECONDS, VRF_TIMEOUT_SECONDS,
  CHECKPOINT_FEE,
  MinerRent, RoundRent, TreasuryRent,  \* Rent::minimum_balance
  InitialWallet,        \* lamports of every wallet before the first step
  FundAmounts,          \* amounts a miner may fund
  DeployAmounts,        \* lamports per square a miner may deploy
  U64_MAX, I64_MAX,
  MaxRound,             \* bound: highest round id in use
  MaxNonce,             \* bound: highest transaction nonce
  MaxTime               \* bound: last second of the clock

Wallets == Miners \cup {Crank, Collector}
U64 == 0 .. U64_MAX
RoundIds == 0 .. MaxRound
Timestamps == 0 .. I64_MAX
NoRound == U64_MAX                \* round_id of a miner that never played

ASSUME PlayersAssumption ==
  /\ Miners \cap {Crank, Collector} = {}
  /\ Crank # Collector
  /\ IsFiniteSet(Squares)
  /\ IsFiniteSet(Miners)      \* an authority is a key of 32 bytes

ASSUME ParameterAssumption ==
  /\ {ROUND_DURATION_SECONDS, CLAIM_WINDOW_SECONDS} \subseteq Nat \ {0}
  /\ {INTERMISSION_SECONDS, BOT_CHECKPOINT_WINDOW_SECONDS,
      VRF_TIMEOUT_SECONDS} \subseteq Nat
  /\ {MinerRent, RoundRent, TreasuryRent} \subseteq Nat
  /\ InitialWallet \in [Wallets -> Nat]
  /\ FundAmounts \subseteq Nat \ {0}
  /\ DeployAmounts \subseteq Nat \ {0}
  /\ {U64_MAX, I64_MAX, MaxRound, MaxNonce, MaxTime} \subseteq Nat
  /\ MaxRound < U64_MAX
  /\ MaxNonce <= U64_MAX
  /\ CHECKPOINT_FEE \in U64

\* the clock never comes within a window of i64::MAX
ASSUME ClockAssumption ==
  /\ MaxTime + ROUND_DURATION_SECONDS < I64_MAX
  /\ MaxTime + INTERMISSION_SECONDS < I64_MAX
  /\ MaxTime + CLAIM_WINDOW_SECONDS < I64_MAX
  /\ MaxTime + VRF_TIMEOUT_SECONDS < I64_MAX

(***************************************************************************)
(* A draw: the hashes rng and did_hit_motherlode take of the oracle's 32   *)
(* bytes are independent, so any square comes with or without the jackpot. *)
(***************************************************************************)
Randomness == [square : Squares, motherlode : BOOLEAN]

\* the zero bytes of an undrawn round are no draw (of the oracle's 2^256)
ASSUME DrawAssumption == NoRandomness \notin Randomness

winning_square(round) == round.randomness.square
did_hit_motherlode(round) == round.randomness.motherlode

Board ==
  [round_id : RoundIds, start_ts : Timestamps, end_ts : Timestamps,
   intermission_end_ts : Timestamps, vrf_requested_at : Timestamps,
   request_nonce : Nat, vrf_requested : BOOLEAN, vrf_fulfilled : BOOLEAN]

Round ==
  [deployed : [Squares -> U64], count : [Squares -> Nat],
   randomness : Randomness \cup {NoRandomness}, expires_at : Timestamps,
   motherlode : Nat, total_deployed : U64, total_miners : Nat,
   total_vaulted : Nat, total_winnings : Nat, request_nonce : Nat,
   resolved : BOOLEAN, canceled : BOOLEAN, lamports : Nat]

Miner ==
  [exists : BOOLEAN, deployed : [Squares -> U64], checkpoint_fee : U64,
   checkpoint_id : RoundIds \cup {NoRound}, rewards_sol : U64,
   round_id : RoundIds \cup {NoRound}, transaction_nonce : 0 .. MaxNonce,
   lamports : Nat]

Treasury == [motherlode : U64, admin_fees : U64, lamports : Nat]

VARIABLES
  now,        \* Clock::unix_timestamp
  board,
  rounds,     \* RoundIds -> Round
  prepared,   \* ids whose round account exists
  miners,     \* Miners -> Miner
  treasury,
  wallet,     \* Wallets -> lamports
  requests    \* randomness requests handed to the oracle

vars == <<now, board, rounds, prepared, miners, treasury, wallet, requests>>

-----------------------------------------------------------------------------
EmptyRound(lamports) ==
  [deployed |-> [s \in Squares |-> 0], count |-> [s \in Squares |-> 0],
   randomness |-> NoRandomness, expires_at |-> 0, motherlode |-> 0,
   total_deployed |-> 0, total_miners |-> 0, total_vaulted |-> 0,
   total_winnings |-> 0, request_nonce |-> 0, resolved |-> FALSE,
   canceled |-> FALSE, lamports |-> lamports]

NewMiner(exists, lamports) ==
  [exists |-> exists, deployed |-> [s \in Squares |-> 0],
   checkpoint_fee |-> 0, checkpoint_id |-> NoRound, rewards_sol |-> 0,
   round_id |-> NoRound, transaction_nonce |-> 0, lamports |-> lamports]

\* handle_initialize has run: round 0 exists and waits for its first deploy
Init ==
  /\ now = 0
  /\ board = [round_id |-> 0, start_ts |-> 0, end_ts |-> I64_MAX,
              intermission_end_ts |-> 0, vrf_requested_at |-> 0,
              request_nonce |-> 0, vrf_requested |-> FALSE,
              vrf_fulfilled |-> FALSE]
  /\ prepared = {0}
  /\ rounds = [id \in RoundIds |-> EmptyRound(IF id = 0 THEN RoundRent ELSE 0)]
  /\ miners = [m \in Miners |-> NewMiner(FALSE, 0)]
  /\ treasury = [motherlode |-> 0, admin_fees |-> 0, lamports |-> TreasuryRent]
  /\ wallet = InitialWallet
  /\ requests = {}

(***************************************************************************)
(* prepare_round: anyone may create the account of any round, once.        *)
(***************************************************************************)
\* mutant: `init_if_needed' instead of `init'
PrepareRoundIfNeeded(payer, round_id) ==
  /\ wallet[payer] >= RoundRent
  /\ wallet' = [wallet EXCEPT ![payer] = @ - RoundRent]
  /\ rounds' = [rounds EXCEPT ![round_id] = EmptyRound(RoundRent)]
  /\ prepared' = prepared \cup {round_id}
  /\ UNCHANGED <<now, board, miners, treasury, requests>>

PrepareRound(payer, round_id) ==
  /\ round_id \notin prepared
  /\ wallet[payer] >= RoundRent
  /\ wallet' = [wallet EXCEPT ![payer] = @ - RoundRent]
  /\ rounds' = [rounds EXCEPT ![round_id] = EmptyRound(RoundRent)]
  /\ prepared' = prepared \cup {round_id}
  /\ UNCHANGED <<now, board, miners, treasury, requests>>

(***************************************************************************)
(* fund_miner: creates the miner account on first use, tops its checkpoint *)
(* fee up and adds the rest to the playable balance.                       *)
(***************************************************************************)
FundMiner(m, amount) ==
  LET opened == IF miners[m].exists THEN miners[m] ELSE NewMiner(TRUE, MinerRent)
      rent == IF miners[m].exists THEN 0 ELSE MinerRent
      top_up == SaturatingSub(CHECKPOINT_FEE, opened.checkpoint_fee)
  IN  /\ wallet[m] >= rent + amount + top_up
      /\ opened.rewards_sol + amount \in U64
      /\ wallet' = [wallet EXCEPT ![m] = @ - (rent + amount + top_up)]
      /\ miners' = [miners EXCEPT ![m] =
           [opened EXCEPT !.rewards_sol = @ + amount,
                          !.checkpoint_fee = @ + top_up,
                          !.lamports = @ + amount + top_up]]
      /\ UNCHANGED <<now, board, rounds, prepared, treasury, requests>>

(***************************************************************************)
(* deploy: bets `amount' on every square of `mask' the miner does not hold *)
(* yet.  The first deploy after an intermission starts the round's clock.  *)
(***************************************************************************)
\* the board as deploy uses it: a round nobody has bet on yet starts now
StartedBoard ==
  IF board.end_ts = I64_MAX
  THEN [board EXCEPT !.start_ts = now, !.end_ts = now + ROUND_DURATION_SECONDS]
  ELSE board

\* mutant: one second too long, trusting the clock alone
BettingOpenLate(round) ==
  /\ ~round.resolved /\ ~round.canceled
  /\ now >= board.intermission_end_ts
  /\ now >= StartedBoard.start_ts /\ now <= StartedBoard.end_ts

BettingOpen(round) ==
  /\ ~round.resolved /\ ~round.canceled
  /\ ~board.vrf_requested
  /\ now >= board.intermission_end_ts
  /\ now >= StartedBoard.start_ts /\ now < StartedBoard.end_ts

\* a miner entering another round must be settled and able to pay a bot
MayJoin(miner) ==
  /\ miner.checkpoint_id = miner.round_id
  /\ miner.checkpoint_fee = 0 => miner.rewards_sol >= CHECKPOINT_FEE

\* mutant: the fee is set aside but not taken from the balance
JoinedFree(miner, round_id) ==
  [miner EXCEPT !.checkpoint_fee = CHECKPOINT_FEE,
                !.deployed = [s \in Squares |-> 0],
                !.round_id = round_id]

\* mutant: the bets of the previous round are kept
JoinedUncleared(miner, round_id) ==
  LET charge == IF miner.checkpoint_fee = 0 THEN CHECKPOINT_FEE ELSE 0
  IN  [miner EXCEPT !.rewards_sol = @ - charge,
                    !.checkpoint_fee = @ + charge,
                    !.round_id = round_id]

Joined(miner, round_id) ==
  LET charge == IF miner.checkpoint_fee = 0 THEN CHECKPOINT_FEE ELSE 0
  IN  [miner EXCEPT !.rewards_sol = @ - charge,
                    !.checkpoint_fee = @ + charge,
                    !.deployed = [s \in Squares |-> 0],
                    !.round_id = round_id]

Selected(miner, mask) == {s \in mask : miner.deployed[s] = 0}

CanPayFromLamports(miner, total_cost) == \* mutant
  miner.lamports >= MinerRent + total_cost
CanPay(miner, total_cost) ==
  /\ miner.rewards_sol >= total_cost
  /\ miner.lamports >= MinerRent + miner.checkpoint_fee + total_cost

Deploy(m, amount, mask, expected_nonce) ==
  LET id == board.round_id
      round == rounds[id]
      is_new_round == miners[m].round_id # id
      miner == IF is_new_round THEN Joined(miners[m], id) ELSE miners[m]
      selected == Selected(miner, mask)
      total_cost == amount * Cardinality(selected)
      Bet(squares) == [s \in Squares |->
                         IF s \in selected THEN squares[s] + amount ELSE squares[s]]
  IN  /\ miners[m].exists
      /\ mask # {}
      /\ BettingOpen(round)
      /\ expected_nonce = miners[m].transaction_nonce
      /\ is_new_round => MayJoin(miners[m])
      /\ selected # {}
      /\ CanPay(miner, total_cost)
      /\ miner.transaction_nonce < MaxNonce
      /\ round.total_deployed + total_cost \in U64
      /\ \A s \in selected : round.deployed[s] + amount \in U64
      /\ board' = StartedBoard
      /\ miners' = [miners EXCEPT ![m] =
           [miner EXCEPT !.deployed = Bet(@),
                         !.rewards_sol = @ - total_cost,
                         !.transaction_nonce = @ + 1,
                         !.lamports = @ - total_cost]]
      /\ rounds' = [rounds EXCEPT ![id] =
           [round EXCEPT !.deployed = Bet(@),
                         !.count = [s \in Squares |->
                                      IF s \in selected THEN @[s] + 1 ELSE @[s]],
                         !.total_miners = IF is_new_round THEN @ + 1 ELSE @,
                         !.total_deployed = @ + total_cost,
                         !.lamports = @ + total_cost]]
      /\ UNCHANGED <<now, prepared, treasury, wallet, requests>>

(***************************************************************************)
(* request_randomness: anyone may ask the oracle once the round is over    *)
(* and the next round's account exists.                                    *)
(***************************************************************************)
RequestRandomness ==
  LET id == board.round_id
      nonce == board.request_nonce + 1
  IN  /\ board.end_ts # I64_MAX
      /\ now >= board.end_ts
      /\ ~board.vrf_requested
      /\ ~rounds[id].resolved /\ ~rounds[id].canceled
      /\ id + 1 \in prepared
      /\ board' = [board EXCEPT !.request_nonce = nonce,
                                !.vrf_requested = TRUE,
                                !.vrf_fulfilled = FALSE,
                                !.vrf_requested_at = now]
      /\ rounds' = [rounds EXCEPT ![id].request_nonce = nonce]
      /\ requests' = requests \cup {[round_id |-> id, request_nonce |-> nonce]}
      /\ UNCHANGED <<now, prepared, miners, treasury, wallet>>

\* mutant: the clock of the finished round keeps running
AdvanceBoardStaleClock(b) ==
  [b EXCEPT !.round_id = @ + 1,
            !.intermission_end_ts = now + INTERMISSION_SECONDS,
            !.vrf_requested_at = 0,
            !.vrf_requested = FALSE,
            !.vrf_fulfilled = FALSE]

AdvanceBoard(b) ==
  [b EXCEPT !.round_id = @ + 1,
            !.start_ts = 0,
            !.end_ts = I64_MAX,
            !.intermission_end_ts = now + INTERMISSION_SECONDS,
            !.vrf_requested_at = 0,
            !.vrf_requested = FALSE,
            !.vrf_fulfilled = FALSE]

AwardStale(vaulted) == treasury.motherlode  \* mutant: without this round's share
Award(vaulted) == treasury.motherlode + vaulted

JackpotKept(hit, jackpot) == jackpot        \* mutant: paid out and kept
JackpotLeft(hit, jackpot) == IF hit THEN 0 ELSE jackpot

\* settle_round: books the fee and the jackpot, pays the jackpot out on a hit
SettleRound(round) ==
  LET winning_deployed == round.deployed[winning_square(round)]
      settlement == CalculateSettlement(round.total_deployed, winning_deployed)
      jackpot == treasury.motherlode + settlement.vaulted
      hit == winning_deployed > 0 /\ did_hit_motherlode(round)
  IN  [round |-> [round EXCEPT !.total_winnings = settlement.winnings,
                               !.total_vaulted = settlement.vaulted,
                               !.motherlode = IF hit THEN Award(settlement.vaulted)
                                                     ELSE @],
       admin_fees |-> treasury.admin_fees + settlement.admin_fee,
       jackpot |-> jackpot,
       motherlode |-> JackpotLeft(hit, jackpot)]

\* mutant: the answer is matched with its round only
AwaitedByRound(request) ==
  /\ board.vrf_requested /\ ~board.vrf_fulfilled
  /\ rounds[request.round_id].request_nonce = request.request_nonce

Awaited(request) ==
  LET round == rounds[request.round_id]
  IN  /\ board.round_id = request.round_id
      /\ board.vrf_requested /\ ~board.vrf_fulfilled
      /\ board.request_nonce = request.request_nonce
      /\ round.request_nonce = request.request_nonce
      /\ ~round.resolved /\ ~round.canceled

(***************************************************************************)
(* callback_resolve_round: the oracle answers a request, possibly long     *)
(* after the round was cancelled, possibly twice.                          *)
(***************************************************************************)
CallbackResolveRound(request, randomness) ==
  LET id == request.round_id
      round == rounds[id]
      drawn == [round EXCEPT !.randomness = randomness,
                             !.resolved = TRUE,
                             !.expires_at = now + CLAIM_WINDOW_SECONDS]
      settled == SettleRound(drawn)
      to_treasury == TreasuryRent + settled.admin_fees + settled.motherlode
                       - treasury.lamports   \* negative: the treasury pays
  IN  /\ request \in requests
      /\ Awaited(request)
      /\ id + 1 \in prepared
      /\ settled.admin_fees \in U64 /\ settled.jackpot \in U64
      /\ settled.round.lamports >= to_treasury
      /\ rounds' = [rounds EXCEPT ![id] =
           [settled.round EXCEPT !.lamports = @ - to_treasury]]
      /\ treasury' = [motherlode |-> settled.motherlode,
                      admin_fees |-> settled.admin_fees,
                      lamports |-> treasury.lamports + to_treasury]
      /\ board' = AdvanceBoard(board)
      /\ UNCHANGED <<now, prepared, miners, wallet, requests>>

(***************************************************************************)
(* cancel_round: anyone may give up on an oracle that missed its timeout.  *)
(***************************************************************************)
CancelRound ==
  LET id == board.round_id
  IN  /\ board.vrf_requested /\ ~board.vrf_fulfilled
      /\ ~rounds[id].resolved /\ ~rounds[id].canceled
      /\ now >= board.vrf_requested_at + VRF_TIMEOUT_SECONDS
      /\ id + 1 \in prepared
      /\ rounds' = [rounds EXCEPT ![id].canceled = TRUE,
                                  ![id].resolved = TRUE,
                                  ![id].expires_at = now + CLAIM_WINDOW_SECONDS]
      /\ board' = AdvanceBoard(board)
      /\ UNCHANGED <<now, prepared, miners, treasury, wallet, requests>>

(***************************************************************************)
(* checkpoint: settles a miner's finished round into its balance.  The     *)
(* owner may always call it, anyone else once the bot window is open, for  *)
(* the fee the miner set aside.  After expiry it settles for nothing.      *)
(***************************************************************************)
CalculateRewards(miner, round) ==
  LET square == winning_square(round)
  IN  IF miner.deployed[square] = 0 THEN 0
      ELSE WinnerShare(round.total_deployed, round.deployed[square],
                       round.motherlode, miner.deployed[square])

Owed(miner, round) ==
  IF round.canceled THEN SumFunction(miner.deployed)
                    ELSE CalculateRewards(miner, round)

MayCheckpoint(caller, m, round) ==
  \/ caller = m
  \/ /\ round.expires_at > 0
     /\ now >= SaturatingSub(round.expires_at, BOT_CHECKPOINT_WINDOW_SECONDS)

\* mutants: a round pays a player again; a cancelled round pays nobody
MaySettleAgain(miner) ==
  /\ miner.round_id \in prepared
  /\ miner.round_id < board.round_id
  /\ rounds[miner.round_id].resolved
MaySettleDrawn(miner) ==
  /\ MaySettleAgain(miner)
  /\ ~rounds[miner.round_id].canceled
  /\ miner.checkpoint_id # miner.round_id

MaySettle(miner) ==
  /\ miner.round_id \in prepared
  /\ miner.round_id < board.round_id
  /\ rounds[miner.round_id].resolved
  /\ miner.checkpoint_id # miner.round_id

Checkpoint(caller, m) ==
  LET miner == miners[m]
      id == miner.round_id
      round == rounds[id]
      rewards == IF now >= round.expires_at THEN 0 ELSE Owed(miner, round)
      fee == IF caller = m THEN 0 ELSE miner.checkpoint_fee
  IN  /\ MaySettle(miner)
      /\ MayCheckpoint(caller, m, round)
      /\ rewards \in U64
      /\ round.lamports >= rewards
      /\ miner.rewards_sol + rewards \in U64
      /\ miner.lamports + rewards >= fee
      /\ miners' = [miners EXCEPT ![m] =
           [miner EXCEPT !.checkpoint_id = id,
                         !.rewards_sol = @ + rewards,
                         !.checkpoint_fee = @ - fee,
                         !.lamports = @ + rewards - fee]]
      /\ rounds' = [rounds EXCEPT ![id].lamports = @ - rewards]
      /\ wallet' = [wallet EXCEPT ![caller] = @ + fee]
      /\ UNCHANGED <<now, board, prepared, treasury, requests>>

(***************************************************************************)
(* claim_sol: a settled miner withdraws its whole balance.                 *)
(***************************************************************************)
ClaimSol(m) ==
  LET miner == miners[m]
      retained == MinerRent + miner.checkpoint_fee
      available == SaturatingSub(miner.lamports, retained)
      amount == IF miner.rewards_sol <= available THEN miner.rewards_sol
                                                  ELSE available
  IN  /\ miner.exists
      /\ miner.checkpoint_id = miner.round_id
      /\ miner.rewards_sol > 0
      /\ miner.lamports >= retained
      /\ amount > 0
      /\ miners' = [miners EXCEPT ![m].rewards_sol = @ - amount,
                                  ![m].lamports = @ - amount]
      /\ wallet' = [wallet EXCEPT ![m] = @ + amount]
      /\ UNCHANGED <<now, board, rounds, prepared, treasury, requests>>

ClaimAdminFees ==
  LET amount == treasury.admin_fees
  IN  /\ amount > 0
      /\ treasury.lamports >= TreasuryRent + treasury.motherlode + amount
      /\ treasury' = [treasury EXCEPT !.admin_fees = 0, !.lamports = @ - amount]
      /\ wallet' = [wallet EXCEPT ![Collector] = @ + amount]
      /\ UNCHANGED <<now, board, rounds, prepared, miners, requests>>

\* the validators' clock
Tick ==
  /\ now < MaxTime
  /\ now' = now + 1
  /\ UNCHANGED <<board, rounds, prepared, miners, treasury, wallet, requests>>

Next ==
  \/ Tick
  \/ \E payer \in Wallets, id \in RoundIds : PrepareRound(payer, id)
  \/ \E m \in Miners, amount \in FundAmounts : FundMiner(m, amount)
  \/ \E m \in Miners, amount \in DeployAmounts, mask \in SUBSET Squares,
        expected_nonce \in 0 .. MaxNonce : Deploy(m, amount, mask, expected_nonce)
  \/ RequestRandomness
  \/ \E request \in requests, randomness \in Randomness :
        CallbackResolveRound(request, randomness)
  \/ CancelRound
  \/ \E caller \in Wallets, m \in Miners : Checkpoint(caller, m)
  \/ \E m \in Miners : ClaimSol(m)
  \/ ClaimAdminFees

Spec == Init /\ [][Next]_vars

-----------------------------------------------------------------------------
(***************************************************************************)
(*                            Safety                                       *)
(***************************************************************************)

TypeOK ==
  /\ now \in 0 .. MaxTime
  /\ board \in Board
  /\ rounds \in [RoundIds -> Round]
  /\ prepared \subseteq RoundIds
  /\ miners \in [Miners -> Miner]
  /\ treasury \in Treasury
  /\ wallet \in [Wallets -> Nat]
  /\ requests \subseteq [round_id : RoundIds, request_nonce : Nat]

(* The board and the rounds tell one story: every round before the current *)
(* one is closed for good, the current one is open and exists, later ones  *)
(* are untouched; the round's clock runs exactly when somebody has bet (so *)
(* calculate_settlement never divides by an empty pot), and the VRF flags  *)
(* agree with the nonce stored in the round.                               *)
ClosedBefore ==
  \A id \in RoundIds : id < board.round_id =>
    id \in prepared /\ rounds[id].resolved
CurrentOpen ==
  /\ board.round_id \in prepared
  /\ ~rounds[board.round_id].resolved
  /\ ~rounds[board.round_id].canceled
UntouchedAfter ==
  \A id \in RoundIds : id > board.round_id =>
    rounds[id] = EmptyRound(IF id \in prepared THEN RoundRent ELSE 0)
ClockRunsOnlyOnBets ==
  board.end_ts # I64_MAX <=> rounds[board.round_id].total_deployed > 0
RequestMatchesRound ==
  /\ ~board.vrf_fulfilled
  /\ board.vrf_requested =>
       /\ rounds[board.round_id].request_nonce = board.request_nonce
       /\ board.end_ts <= board.vrf_requested_at
       /\ board.vrf_requested_at <= now
  /\ ~board.vrf_requested => rounds[board.round_id].request_nonce = 0
PhaseInv ==
  /\ ClosedBefore
  /\ CurrentOpen
  /\ UntouchedAfter
  /\ ClockRunsOnlyOnBets
  /\ RequestMatchesRound

(* The books of a miner and of the treasury are backed lamport for lamport *)
(* by the balance of the account, whatever order deposits, bets, payouts,  *)
(* bot fees and withdrawals come in: a claim never falls short.            *)
Backed ==
  /\ \A m \in Miners : miners[m].exists =>
       miners[m].lamports
         = MinerRent + miners[m].checkpoint_fee + miners[m].rewards_sol
  /\ treasury.lamports
       = TreasuryRent + treasury.admin_fees + treasury.motherlode

Players(id) == {m \in Miners : miners[m].round_id = id}
Unsettled(id) == {m \in Players(id) : miners[m].checkpoint_id # id}
Outstanding(id) ==
  SumFunction([m \in Unsettled(id) |->
    IF rounds[id].resolved THEN Owed(miners[m], rounds[id])
                           ELSE SumFunction(miners[m].deployed)])

(* A round can always pay everybody who has not been settled yet, without  *)
(* touching its rent, even if all of them ask at once: handle_checkpoint   *)
(* never fails for want of lamports, in any order of claims.               *)
RoundsSolvent ==
  \A id \in prepared : rounds[id].lamports >= RoundRent + Outstanding(id)

(* While a round is open its totals are exactly the sums of the bets that  *)
(* are recorded in the miners' accounts: nobody's bet is counted twice,    *)
(* lost when a miner joins another round, or overwritten.                  *)
OpenRoundBooks ==
  LET round == rounds[board.round_id]
      players == Players(board.round_id)
  IN  /\ round.lamports = RoundRent + round.total_deployed
      /\ round.total_deployed = SumFunction(round.deployed)
      /\ round.total_miners = Cardinality(players)
      /\ \A s \in Squares :
           /\ round.deployed[s]
                = SumFunction([m \in players |-> miners[m].deployed[s]])
           /\ round.count[s]
                = Cardinality({m \in players : miners[m].deployed[s] > 0})

(* What rounding leaves behind in a drawn round before its claims expire:  *)
(* less than three lamports per winner beyond the first, and nothing at    *)
(* all when there is one winner or none, the jackpot included.             *)
DustBounded ==
  \A id \in prepared :
    LET round == rounds[id]
        winners == round.count[winning_square(round)]
    IN  round.resolved /\ ~round.canceled /\ now < round.expires_at =>
          round.lamports - RoundRent - Outstanding(id)
            <= IF winners = 0 THEN 0 ELSE 3 * (winners - 1)

-----------------------------------------------------------------------------
(***************************************************************************)
(*                            What a step may never do                     *)
(***************************************************************************)

(* Bets are final before the draw: once randomness has been requested for  *)
(* a round nothing that decides who wins how much ever changes again.      *)
BetsFrozenByRequest ==
  [][\A id \in RoundIds : rounds[id].request_nonce > 0 =>
       /\ rounds'[id].deployed = rounds[id].deployed
       /\ rounds'[id].total_deployed = rounds[id].total_deployed
       /\ rounds'[id].request_nonce = rounds[id].request_nonce]_vars

(* A round ends once: a late, duplicated or crossed oracle answer, or a    *)
(* cancellation racing one, never changes the outcome, the payout terms or *)
(* the deadline of a round that was drawn or cancelled.                    *)
Outcome(round) ==
  <<round.randomness, round.canceled, round.expires_at, round.motherlode,
    round.total_winnings, round.total_vaulted>>
OutcomeFinal ==
  [][\A id \in RoundIds : rounds[id].resolved =>
       /\ rounds'[id].resolved
       /\ Outcome(rounds'[id]) = Outcome(rounds[id])]_vars

(* No lamport leaves a round except to the treasury in its draw or to a    *)
(* player in the checkpoint that settles that player; the player's balance *)
(* grows by exactly what the round loses.                                  *)
RoundPaysOnlyItsPlayers ==
  [][\A id \in RoundIds :
       rounds[id].resolved /\ rounds'[id].lamports # rounds[id].lamports =>
         \E m \in Unsettled(id) :
           /\ miners'[m].checkpoint_id = id
           /\ miners'[m].rewards_sol - miners[m].rewards_sol
                = rounds[id].lamports - rounds'[id].lamports]_vars

(* README.md, step 12: "the round is cancelled and everyone can recover    *)
(* their principal": settling a cancelled round returns the whole stake.   *)
CanceledRoundRefundsPrincipal ==
  [][\A m \in Miners :
       LET id == miners[m].round_id
       IN  /\ miners'[m].checkpoint_id # miners[m].checkpoint_id
           /\ rounds[id].canceled
           => miners'[m].rewards_sol
                = miners[m].rewards_sol + SumFunction(miners[m].deployed)]_vars

-----------------------------------------------------------------------------
(***************************************************************************)
(*                            Progress                                     *)
(***************************************************************************)

\* the backend's cron creates the next round, asks for the draw and cancels;
\* the clock runs; an owner keeps asking for its own settlement; the oracle
\* owes nothing
CrankPrepares ==
  board.round_id + 1 \in RoundIds /\ PrepareRound(Crank, board.round_id + 1)

Fairness ==
  /\ WF_vars(Tick)
  /\ WF_vars(CrankPrepares)
  /\ WF_vars(RequestRandomness)
  /\ WF_vars(CancelRound)
  /\ \A m \in Miners : WF_vars(Checkpoint(m, m))

FairSpec == Spec /\ Fairness

\* the bounded clock stops inside round id: past its deadline, or its oracle's
\* time, no clock of this model ever gets.  A round with a bet has a deadline
\* (the first deploy sets it); a round that is over is never excused.
ClockExhausted(id) ==
  /\ board.round_id = id
  /\ \/ board.end_ts # I64_MAX /\ board.end_ts > MaxTime
     \/ board.vrf_requested
        /\ board.vrf_requested_at + VRF_TIMEOUT_SECONDS > MaxTime

(* No bet is trapped: even if the oracle never answers, every round with a *)
(* bet in it ends and every player in it is settled, also when the round   *)
(* has been over for long.                                                 *)
EveryBetIsSettled ==
  \A m \in Miners, id \in 0 .. MaxRound - 1 :
    miners[m].round_id = id /\ miners[m].checkpoint_id # id
      ~> miners[m].checkpoint_id = id \/ ClockExhausted(id)

-----------------------------------------------------------------------------
(***************************************************************************)
(*                            Refinement                                   *)
(***************************************************************************)

RoundStatus(id) ==
  IF id > board.round_id THEN "future"
  ELSE IF id = board.round_id
       THEN IF board.vrf_requested THEN "drawing" ELSE "open"
       ELSE IF rounds[id].canceled THEN "refunded" ELSE "drawn"

Lifecycle == INSTANCE RoundLifecycle WITH
  NoSquare <- NoRandomness,
  current <- board.round_id,
  status <- [id \in RoundIds |-> RoundStatus(id)],
  bets <- [id \in RoundIds |-> rounds[id].total_deployed],
  winner <- [id \in RoundIds |->
               IF rounds[id].randomness = NoRandomness THEN NoRandomness
               ELSE winning_square(rounds[id])],
  pot <- [id \in RoundIds |->
            IF id \in prepared THEN rounds[id].lamports - RoundRent ELSE 0]

(* The program implements the lifecycle its players were promised, with    *)
(* any number of late, repeated or failed oracle answers in between.       *)
ImplementsLifecycle == Lifecycle!Spec
=============================================================================
