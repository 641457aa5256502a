---------------------------- MODULE MinerSession ----------------------------
(***************************************************************************)
(* One player's mining balance on two ledgers, and the browser that moves  *)
(* it.  The Miner account starts on the base layer, is delegated to the    *)
(* rollup to bet there, and comes back to be cashed out.  The client's     *)
(* handlers (handleManualDeploy with ensureMinerReady, handleCashOut) are  *)
(* asynchronous: every read and every transaction is a step of its own,    *)
(* and between two steps other calls of the handlers, late transactions,   *)
(* the rounds and a bot may act.  A call may give up at any step; what it  *)
(* had sent may still land.                                                *)
(*                                                                         *)
(* External: the delegation program, the rollup and the router, modelled   *)
(* by what the code relies on.  A delegated account cannot be written on   *)
(* the base layer, nor an account on its way back on either; the commit    *)
(* arrives whole; the router and the base layer's RPC agree.               *)
(*                                                                         *)
(* Left out: the betting window's clock (a deploy may be refused at any    *)
(* time), expiry of a round and how its pot is divided (module BlitzMine), *)
(* rent and network fees, the local test network's faucet, notices and the *)
(* deploy's report to the backend.  One browser tab is modelled.  What the *)
(* database's recent rounds say of the player is a variable, row, that     *)
(* follows the chain late, in part or never (CashOutView has the rows).    *)
(***************************************************************************)
EXTENDS Integers, FiniteSets

CONSTANTS
  Calls,            \* handler calls that can be in progress at once
  Squares,          \* the tiles the player bets on
  AMOUNT,           \* lamports per square
  PAYOUT,           \* what a winning round pays the player
  CHECKPOINT_FEE,
  Opening,          \* lamports the wallet starts with
  MaxRound,         \* bound: the last round, which nobody bets on
  RowsSeen,         \* bound: what the polls of the recent rounds may bring
  MaxDeploys,       \* bound: presses of the deploy button
  MaxFailures       \* bound: calls that give up

ASSUME SessionAssumption ==
  /\ IsFiniteSet(Squares)
  /\ {AMOUNT, CHECKPOINT_FEE} \subseteq Nat \ {0}
  /\ {PAYOUT, Opening, MaxRound, MaxDeploys, MaxFailures} \subseteq Nat

Rounds == 0 .. MaxRound
NoRound == MaxRound + 1     \* u64::MAX: the round of a miner that never bet
Outcomes == {"open", "won", "lost", "canceled"}

\* what the recent rounds have of the player's last round: no row, a row
\* without the player's bets, with them but no winner, with a winner that is
\* not among the recorded squares, or is
Rows == {"none", "missing", "undecided", "losing", "winning"}

VARIABLES
  round,            \* Board.round_id
  outcome,          \* Rounds -> how the round ended for the player
  spent,            \* Rounds -> lamports the player's deploys put into it
  wallet,           \* lamports of the player's wallet
  place,            \* "base", "rollup", or "returning" from it
  base, rollup,     \* the Miner account as each ledger has it
  row,              \* the row of the round to settle, as the page last read it
  call,             \* Calls -> a handler call in progress
  late,             \* transactions of calls that gave up
  isDeployPending, isCashOutPending,
  deploys, failures \* presses of the button, calls that gave up

ledgers == <<round, outcome, spent, wallet, place, base, rollup, row>>
flags == <<isDeployPending, isCashOutPending>>
counts == <<deploys, failures>>
vars == <<ledgers, call, late, flags, counts>>

Miner ==
  [exists : BOOLEAN, deployed : SUBSET Squares, rewards_sol : Nat,
   checkpoint_fee : Nat, checkpoint_id : Rounds \cup {NoRound},
   round_id : Rounds \cup {NoRound}, transaction_nonce : Nat]

NewMiner(exists) ==
  [exists |-> exists, deployed |-> {}, rewards_sol |-> 0, checkpoint_fee |-> 0,
   checkpoint_id |-> NoRound, round_id |-> NoRound, transaction_nonce |-> 0]

Settled(miner) == miner.checkpoint_id = miner.round_id

\* the copy that counts
Live == IF place = "base" THEN base ELSE rollup

-----------------------------------------------------------------------------
(***************************************************************************)
(* Transactions.  X(tx) is the instruction; when its conjuncts do not hold *)
(* the transaction is refused and changes nothing.                         *)
(***************************************************************************)
Kinds == {"fund_miner", "delegate_miner", "checkpoint", "undelegate_miner",
          "deploy", "claim_sol"}

Transaction ==
  [kind : Kinds, amount : Nat, round_id : Rounds \cup {NoRound},
   squares : SUBSET Squares, nonce : Nat]

Tx(kind) == [kind |-> kind, amount |-> 0, round_id |-> NoRound,
             squares |-> {}, nonce |-> 0]

FundMiner(tx) ==
  LET opened == IF base.exists THEN base ELSE NewMiner(TRUE)
      top_up == IF CHECKPOINT_FEE > opened.checkpoint_fee
                THEN CHECKPOINT_FEE - opened.checkpoint_fee ELSE 0
  IN  /\ place = "base"
      /\ tx.amount > 0
      /\ wallet >= tx.amount + top_up
      /\ wallet' = wallet - (tx.amount + top_up)
      /\ base' = [opened EXCEPT !.rewards_sol = @ + tx.amount,
                                !.checkpoint_fee = @ + top_up]
      /\ UNCHANGED <<round, outcome, spent, place, rollup, row>>

DelegateMiner ==
  /\ place = "base" /\ base.exists
  /\ place' = "rollup"
  /\ rollup' = base
  /\ UNCHANGED <<round, outcome, spent, wallet, base, row>>

\* what a round that is over owes the miner who bet on it
Reward(miner) ==
  CASE outcome[miner.round_id] = "won" -> PAYOUT
    [] outcome[miner.round_id] = "canceled" -> AMOUNT * Cardinality(miner.deployed)
    [] OTHER -> 0

CheckpointOf(id, fee) ==
  /\ place = "rollup"
  /\ rollup.round_id \in Rounds
  /\ id = rollup.round_id
  /\ id < round
  /\ ~Settled(rollup)
  /\ rollup' = [rollup EXCEPT !.checkpoint_id = id,
                              !.rewards_sol = @ + Reward(rollup),
                              !.checkpoint_fee = @ - fee]
  /\ row' = "none"
  /\ UNCHANGED <<round, outcome, spent, wallet, place, base>>

\* mutant: without the balance's `require!'
UndelegateUnsettled ==
  /\ place = "rollup"
  /\ place' = "returning"
  /\ UNCHANGED <<round, outcome, spent, wallet, base, rollup, row>>

UndelegateMiner ==
  /\ place = "rollup" /\ Settled(rollup)
  /\ place' = "returning"
  /\ UNCHANGED <<round, outcome, spent, wallet, base, rollup, row>>

\* mutant: a square already held is bet on again
AllOf(miner, squares) == squares

Selected(miner, squares) == squares \ miner.deployed

Joined(miner) ==
  LET charge == IF miner.checkpoint_fee = 0 THEN CHECKPOINT_FEE ELSE 0
  IN  [miner EXCEPT !.rewards_sol = @ - charge, !.checkpoint_fee = @ + charge,
                    !.deployed = {}, !.round_id = round]

Deploy(tx) ==
  LET is_new_round == rollup.round_id # round
      miner == IF is_new_round THEN Joined(rollup) ELSE rollup
      selected == Selected(miner, tx.squares)
      total_cost == AMOUNT * Cardinality(selected)
  IN  /\ place = "rollup"
      /\ round < MaxRound /\ tx.round_id = round
      /\ tx.nonce = rollup.transaction_nonce
      /\ is_new_round => Settled(rollup)
      /\ selected # {}
      /\ miner.rewards_sol >= total_cost
      /\ rollup' = [miner EXCEPT !.deployed = @ \cup selected,
                                 !.rewards_sol = @ - total_cost,
                                 !.transaction_nonce = @ + 1]
      /\ spent' = [spent EXCEPT ![round] = @ + total_cost]
      /\ UNCHANGED <<round, outcome, wallet, place, base, row>>

ClaimSol ==
  /\ place = "base" /\ base.exists
  /\ Settled(base)
  /\ base.rewards_sol > 0
  /\ wallet' = wallet + base.rewards_sol
  /\ base' = [base EXCEPT !.rewards_sol = 0]
  /\ UNCHANGED <<round, outcome, spent, place, rollup, row>>

Execute(tx) ==
  \/ tx.kind = "fund_miner" /\ FundMiner(tx)
  \/ tx.kind = "delegate_miner" /\ DelegateMiner
  \/ tx.kind = "checkpoint" /\ CheckpointOf(tx.round_id, 0)
  \/ tx.kind = "undelegate_miner" /\ UndelegateMiner
  \/ tx.kind = "deploy" /\ Deploy(tx)
  \/ tx.kind = "claim_sol" /\ ClaimSol

\* the betting window may have closed, so a deploy can always be refused
Refused(tx) == tx.kind = "deploy" \/ ~ENABLED Execute(tx)

-----------------------------------------------------------------------------
(***************************************************************************)
(* The world outside the browser.                                          *)
(***************************************************************************)
\* the oracle's answer, or a cancellation; the board moves on
RoundEnds ==
  /\ round < MaxRound
  /\ \E result \in IF rollup.round_id = round THEN Outcomes \ {"open"} ELSE {"lost"} :
       outcome' = [outcome EXCEPT ![round] = result]
  /\ round' = round + 1
  /\ row' = IF rollup.round_id = round THEN "none" ELSE row
  /\ UNCHANGED <<spent, wallet, place, base, rollup, call, late, flags, counts>>

\* anyone settles a miner late in the claim window, for the fee set aside
BotCheckpoint ==
  /\ CheckpointOf(rollup.round_id, rollup.checkpoint_fee)
  /\ UNCHANGED <<call, late, flags, counts>>

Pending == ~Settled(Live) /\ Live.round_id < round

\* the page polls the recent rounds: the row, the bets in it, the winner and
\* bets that were recorded late arrive in any order, or never; recorded squares
\* may miss the one that was bought, they do not make up a winning one
RecentRounds ==
  /\ Pending
  /\ \/ row = "none" /\ row' \in {"missing", "undecided"}
     \/ row = "missing" /\ row' = "undecided"
     \/ /\ row # "losing" /\ row' = "losing"
        /\ outcome[Live.round_id] \in {"won", "lost"}
     \/ /\ row' = "winning"
        /\ outcome[Live.round_id] = "won"
  /\ row' # row /\ row # "winning" /\ row' \in RowsSeen
  /\ UNCHANGED <<round, outcome, spent, wallet, place, base, rollup, call, late, flags,
                 counts>>

\* mutant: the commit is lost, the base layer's copy is simply unlocked
ReturnUncommitted ==
  /\ place = "returning"
  /\ place' = "base"
  /\ UNCHANGED <<round, outcome, spent, wallet, base, rollup, row, call, late, flags,
                 counts>>

\* the commit scheduled by undelegate_miner reaches the base layer
Return ==
  /\ place = "returning"
  /\ place' = "base"
  /\ base' = rollup
  /\ UNCHANGED <<round, outcome, spent, wallet, rollup, row, call, late, flags,
                 counts>>

\* a transaction its call no longer waits for
LandLate(tx) ==
  /\ tx \in late
  /\ Execute(tx)
  /\ late' = late \ {tx}
  /\ UNCHANGED <<call, flags, counts>>

-----------------------------------------------------------------------------
(***************************************************************************)
(* The handlers.                                                           *)
(***************************************************************************)
Idle == [kind |-> "none", pc |-> "idle", round |-> 0, squares |-> {},
         refreshed |-> FALSE, tx |-> Tx("claim_sol")]

Call ==
  [kind : {"none", "deploy", "cashout"},
   pc : {"idle", "auth", "status", "readBase", "readRollup", "readSettled",
         "waitRollup", "waitBase", "sent"},
   round : Rounds, squares : SUBSET Squares, refreshed : BOOLEAN,
   tx : Transaction]

Required(c) == AMOUNT * Cardinality(call[c].squares)

GoTo(c, pc) ==
  /\ call' = [call EXCEPT ![c].pc = pc]
  /\ UNCHANGED flags

Send(c, tx) ==
  /\ call' = [call EXCEPT ![c].pc = "sent", ![c].tx = tx]
  /\ UNCHANGED flags

\* mutant: without the `finally'
FinishPending(c) ==
  /\ call' = [call EXCEPT ![c] = Idle]
  /\ UNCHANGED flags

\* returned or threw: the `finally' of the handler
Finish(c) ==
  /\ call' = [call EXCEPT ![c] = Idle]
  /\ isDeployPending' = (isDeployPending /\ call[c].kind # "deploy")
  /\ isCashOutPending' = (isCashOutPending /\ call[c].kind # "cashout")

\* the handler checks the flag, then awaits withAuthReady before it sets it;
\* the current round is the one of the render the handler belongs to
PressDeploy(c) ==
  /\ call[c].pc = "idle"
  /\ ~isDeployPending
  /\ deploys < MaxDeploys
  /\ \E squares \in SUBSET Squares \ {{}} :
       call' = [call EXCEPT ![c] = [Idle EXCEPT !.kind = "deploy", !.pc = "auth",
                                                !.round = round,
                                                !.squares = squares]]
  /\ deploys' = deploys + 1
  /\ UNCHANGED <<ledgers, late, flags, failures>>

\* getPendingSettlementKind is "none": the rows know of no payout
Hidden == Pending /\ row \in {"missing", "losing"}

\* the button is live when there is a balance, or the rows do not rule out that
\* the round to settle pays
CanCashOut ==
  IF Settled(Live) THEN Live.rewards_sol > 0
  ELSE Pending /\ (Live.rewards_sol > 0 \/ ~Hidden)

PressCashOut(c) ==
  /\ call[c].pc = "idle"
  /\ ~isDeployPending /\ ~isCashOutPending
  /\ CanCashOut
  /\ call' = [call EXCEPT ![c] = [Idle EXCEPT !.kind = "cashout", !.pc = "auth",
                                              !.round = round]]
  /\ UNCHANGED <<ledgers, late, flags, counts>>

Begin(c) ==
  /\ call[c].pc = "auth"
  /\ call' = [call EXCEPT ![c].pc = "status"]
  /\ isDeployPending' = (isDeployPending \/ call[c].kind = "deploy")
  /\ isCashOutPending' = (isCashOutPending \/ call[c].kind = "cashout")
  /\ UNCHANGED <<ledgers, late, counts>>

\* the router's answer: delegated until the account is back
ReadStatus(c) ==
  /\ call[c].pc = "status"
  /\ GoTo(c, IF place = "base" THEN "readBase" ELSE "readRollup")
  /\ UNCHANGED <<ledgers, late, counts>>

\* mutant: a deposit of whatever the deficit is, negative ones included
MustFundAlways(c) == TRUE

MustFund(c) == Required(c) > base.rewards_sol

\* the base layer's copy, frozen while the account is delegated
ReadBase(c) ==
  /\ call[c].pc = "readBase"
  /\ \/ /\ call[c].kind = "deploy"
        /\ \/ /\ MustFund(c)
              /\ Send(c, [Tx("fund_miner") EXCEPT
                            !.amount = Required(c) - base.rewards_sol])
           \/ /\ ~MustFund(c)
              /\ Send(c, Tx("delegate_miner"))
     \/ /\ call[c].kind = "cashout"
        /\ \/ base.rewards_sol = 0 /\ Finish(c)
           \/ base.rewards_sol > 0 /\ Send(c, Tx("claim_sol"))
  /\ UNCHANGED <<ledgers, late, counts>>

\* a rollup shows an account it does not own as it last had it or as it is
RollupReads == IF place = "base" THEN {base, rollup} ELSE {rollup}

Checkpoint(c, miner) ==
  Send(c, [Tx("checkpoint") EXCEPT !.round_id = miner.round_id])

\* the balance is enough for the bet, or is fetched home to be topped up once
BetOrRefresh(c, miner) ==
  \/ /\ miner.rewards_sol >= Required(c)
     /\ Send(c, [Tx("deploy") EXCEPT !.round_id = call[c].round,
                                     !.squares = call[c].squares,
                                     !.nonce = miner.transaction_nonce])
  \/ /\ miner.rewards_sol < Required(c)
     /\ ~call[c].refreshed /\ Settled(miner)
     /\ Send(c, Tx("undelegate_miner"))
  \/ /\ miner.rewards_sol < Required(c)
     /\ call[c].refreshed \/ ~Settled(miner)
     /\ Finish(c)

ReadRollup(c) ==
  /\ call[c].pc = "readRollup"
  /\ \E miner \in RollupReads :
       LET must_settle == /\ ~Settled(miner)
                          /\ miner.round_id # call[c].round
                          /\ ~call[c].refreshed
       IN  \/ /\ call[c].kind = "deploy"
              /\ IF must_settle THEN Checkpoint(c, miner) ELSE BetOrRefresh(c, miner)
           \/ /\ call[c].kind = "cashout" /\ Settled(miner)
              /\ Send(c, Tx("undelegate_miner"))
           \/ /\ call[c].kind = "cashout" /\ ~Settled(miner)
              /\ IF call[c].round <= miner.round_id THEN Finish(c)
                                                    ELSE Checkpoint(c, miner)
  /\ UNCHANGED <<ledgers, late, counts>>

\* after a checkpoint, whether or not the wait saw its effect
ReadSettled(c) ==
  /\ call[c].pc = "readSettled"
  /\ \E miner \in RollupReads :
       \/ call[c].kind = "deploy" /\ BetOrRefresh(c, miner)
       \/ call[c].kind = "cashout" /\ Send(c, Tx("undelegate_miner"))
  /\ UNCHANGED <<ledgers, late, counts>>

\* waitForDelegation, both ways: seen in time, or not
Wait(c) ==
  /\ \/ call[c].pc = "waitRollup" /\ place # "base" /\ GoTo(c, "readRollup")
     \/ call[c].pc = "waitBase" /\ place = "base" /\ GoTo(c, "readBase")
     \/ call[c].pc = "waitRollup" /\ place = "base" /\ Finish(c)
     \/ call[c].pc = "waitBase" /\ place # "base" /\ Finish(c)
  /\ UNCHANGED <<ledgers, late, counts>>

\* the transaction of this call is confirmed
Landed(c) ==
  LET kind == call[c].tx.kind
  IN  /\ call[c].pc = "sent"
      /\ Execute(call[c].tx)
      /\ \/ kind = "fund_miner" /\ Send(c, Tx("delegate_miner"))
         \/ kind = "delegate_miner" /\ GoTo(c, "waitRollup")
         \/ kind = "checkpoint" /\ GoTo(c, "readSettled")
         \/ /\ kind = "undelegate_miner"
            /\ call' = [call EXCEPT ![c].pc = "waitBase", ![c].refreshed = TRUE]
            /\ UNCHANGED flags
         \/ kind \in {"deploy", "claim_sol"} /\ Finish(c)
      /\ UNCHANGED <<late, counts>>

Refuse(c) ==
  /\ call[c].pc = "sent"
  /\ Refused(call[c].tx)
  /\ Finish(c)
  /\ UNCHANGED <<ledgers, late, counts>>

\* declined, unreachable, timed out or reloaded; what was sent may yet land
GiveUp(c) ==
  /\ call[c].pc # "idle"
  /\ failures < MaxFailures
  /\ failures' = failures + 1
  /\ IF call[c].pc = "auth"
     THEN call' = [call EXCEPT ![c] = Idle] /\ UNCHANGED flags
     ELSE Finish(c)
  /\ \/ late' = late
     \/ call[c].pc = "sent" /\ late' = late \cup {call[c].tx}
  /\ UNCHANGED <<ledgers, deploys>>

Step(c) ==
  \/ Begin(c) \/ ReadStatus(c) \/ ReadBase(c) \/ ReadRollup(c) \/ ReadSettled(c)
  \/ Wait(c) \/ Landed(c) \/ Refuse(c)

-----------------------------------------------------------------------------
Init ==
  /\ round = 0
  /\ outcome = [r \in Rounds |-> "open"]
  /\ spent = [r \in Rounds |-> 0]
  /\ wallet = Opening
  /\ place = "base"
  /\ base = NewMiner(FALSE)
  /\ rollup = NewMiner(FALSE)
  /\ call = [c \in Calls |-> Idle]
  /\ late = {}
  /\ isDeployPending = FALSE /\ isCashOutPending = FALSE
  /\ row = "none" /\ deploys = 0 /\ failures = 0

Next ==
  \/ RoundEnds \/ BotCheckpoint \/ Return \/ RecentRounds
  \/ \E tx \in late : LandLate(tx)
  \/ \E c \in Calls : PressDeploy(c) \/ PressCashOut(c) \/ GiveUp(c) \/ Step(c)

Spec == Init /\ [][Next]_vars

\* a round with a bet in it ends; the commit arrives; a call goes on; a player
\* who can cash out asks again
Fairness ==
  /\ WF_vars(spent[round] > 0 /\ RoundEnds)
  /\ WF_vars(Return)
  /\ \A c \in Calls : WF_vars(Step(c))
  /\ WF_vars(\E c \in Calls : PressCashOut(c))

FairSpec == Spec /\ Fairness

-----------------------------------------------------------------------------
\* Type invariant of the two ledgers and of the calls in progress.
TypeOK ==
  /\ round \in Rounds
  /\ outcome \in [Rounds -> Outcomes]
  /\ spent \in [Rounds -> Nat]
  /\ wallet \in Nat
  /\ place \in {"base", "rollup", "returning"}
  /\ {base, rollup} \subseteq Miner
  /\ call \in [Calls -> Call]
  /\ late \subseteq Transaction
  /\ {isDeployPending, isCashOutPending} \subseteq BOOLEAN
  /\ row \in Rows /\ {deploys, failures} \subseteq Nat

\* However the deploy button is pressed (twice before it is disabled, again
\* after a timeout, during a cash-out) and however late its transactions land,
\* a player has paid for every square of the current round exactly once: the
\* nonce, the round in the address and the squares already held
\* (handle_deploy) make the client's retries harmless.
EverySquarePaidOnce ==
  rollup.round_id \in Rounds =>
    spent[rollup.round_id] = AMOUNT * Cardinality(rollup.deployed)

\* A balance that is back on the base layer owes nothing and is owed nothing:
\* no interleaving of the handlers strands a bet on the copy that has left the
\* rollup, where it could never be settled and claim_sol would refuse it.
HomeIsSettled == place # "rollup" => Settled(Live)

\* The two copies and the asynchronous handlers implement one balance that is
\* only moved, never split, duplicated or dropped (module MinerCustody).
Custody == INSTANCE MinerCustody WITH
  balance <- Live.rewards_sol + Live.checkpoint_fee,
  place <- IF place = "base" THEN "base" ELSE "rollup",
  unsettled <- ~Settled(Live)
ImplementsCustody == Custody!Spec

Owed == IF Pending THEN Reward(Live) ELSE 0

\* A player who keeps pressing the cash-out button gets everything home, whatever
\* half-done session was left behind: after finitely many presses of deploy and
\* failures the balance is paid out and no round owes anything, unless all there
\* is to collect is the payout of a round whose rows leave out the winning bet.
\* There the button stays dead, and only the next deploy or a bot settles.
MoneyComesHome == <>[](Live.rewards_sol = 0 /\ (Owed = 0 \/ Hidden))
=============================================================================
