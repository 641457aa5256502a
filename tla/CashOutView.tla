----------------------------- MODULE CashOutView -----------------------------
(***************************************************************************)
(* What the control panel says of a player's last round before it is       *)
(* settled: winnings, a refund, no payout or not known yet, and whether    *)
(* the button cashes out (cashOutBalanceQuery, cash-out-state.ts).  It is  *)
(* put together from three sources that are read at different times: the   *)
(* Miner account on the chain, the current round the page has, and the     *)
(* recent rounds of the database with their recorded deployments.          *)
(*                                                                         *)
(* External: the program (a bet is charged the squares the wallet does not *)
(* hold; settlement pays winners and refunds canceled rounds), and the     *)
(* indexing of rounds and bets, each of which may come late (Indexer,      *)
(* Ingestion).  The two ledgers of a Miner are one here (MinerSession); of *)
(* its rewards it counts whether there are any (RoundResult has the        *)
(* prize).                                                                 *)
(***************************************************************************)
EXTENDS Integers, FiniteSets

CONSTANTS
  Squares,              \* squares of the program, from 0
  Overlap,              \* whether a bet may reach for squares the wallet holds
  HistoryLimit,         \* rounds of GET /rounds/recent, 10
  MaxRounds,            \* bound: rounds played
  MaxBets               \* bound: bets of the wallet

CashOutViewAssumption ==
  /\ Squares \subseteq Nat /\ Overlap \in BOOLEAN
  /\ HistoryLimit \in Nat \ {0} /\ MaxRounds \in Nat \ {0} /\ MaxBets \in Nat

Rounds == 1..MaxRounds
Nothing == -1           \* null

VARIABLES
  chainRound, result,   \* result: "open", "canceled" or "won", by round
  winner,               \* the winning square of a round that was won
  charged,              \* Miner.deployed, by round
  miner,                \* round_id, checkpoint_id, rewards_sol
  bets,                 \* bets that landed, counted for the bound
  unrecorded,           \* bets that landed and have no row yet
  resolvedWinners,      \* rounds whose fulfill event was applied
  row,                  \* the database: status, winningSquare and bets of a round
  currentRoundId,       \* of the page
  roundHistory,         \* roundHistoryQuery.data
  balance               \* cashOutBalanceQuery.data, if any

chain == <<chainRound, result, winner, charged, miner>>
backend == <<bets, unrecorded, resolvedWinners, row>>
page == <<currentRoundId, roundHistory, balance>>
vars == <<chain, backend, page>>

Ended(r) == result[r] # "open"
Settled == miner.checkpointId = miner.roundId
\* what settlement pays the wallet of a round
Payout(r) ==
  IF result[r] = "canceled" /\ charged[r] # {} THEN "refund"
  ELSE IF result[r] = "won" /\ winner[r] \in charged[r] THEN "winnings" ELSE "none"
-----------------------------------------------------------------------------
(* The program.  A round that ends makes way for the next one.             *)
Deploy(mask) ==
  LET selected == mask \ charged[chainRound]
  IN /\ ~Ended(chainRound) /\ selected # {}
     /\ bets < MaxBets /\ bets' = bets + 1
     /\ Overlap \/ selected = mask
     /\ Settled \/ miner.roundId = chainRound
     /\ charged' = [charged EXCEPT ![chainRound] = @ \union selected]
     /\ miner' = [miner EXCEPT !.roundId = chainRound,
                               !.checkpointId = IF miner.roundId = chainRound THEN @ ELSE miner.roundId]
     /\ unrecorded' = unrecorded \union {[round |-> chainRound, mask |-> mask,
                                          totalSquares |-> Cardinality(selected)]}
     /\ UNCHANGED <<chainRound, result, winner, resolvedWinners, row, page>>

RoundEnds(square) ==
  /\ ~Ended(chainRound)
  /\ result' = [result EXCEPT ![chainRound] = IF square = Nothing THEN "canceled" ELSE "won"]
  /\ winner' = [winner EXCEPT ![chainRound] = square]
  /\ chainRound' = IF chainRound < MaxRounds THEN chainRound + 1 ELSE chainRound
  /\ UNCHANGED <<charged, miner, backend, page>>

Checkpoint ==
  /\ ~Settled /\ Ended(miner.roundId)
  /\ miner' = [miner EXCEPT !.checkpointId = miner.roundId,
                            !.rewards = @ \/ Payout(miner.roundId) # "none"]
  /\ UNCHANGED <<chainRound, result, winner, charged, backend, page>>

ClaimSol ==
  /\ miner.rewards /\ miner' = [miner EXCEPT !.rewards = FALSE]
  /\ UNCHANGED <<chainRound, result, winner, charged, backend, page>>
-----------------------------------------------------------------------------
(* The backend.  Rows count squares from 1.                                *)
\* mutant: squares from 0
DecodeFromZero(bet) ==
  {s \in bet.mask : Cardinality({u \in bet.mask : u < s}) < bet.totalSquares}
DecodeSquares(bet) ==
  {s + 1 : s \in {t \in bet.mask : Cardinality({u \in bet.mask : u < t}) < bet.totalSquares}}

Ingest(bet) ==
  /\ bet \in unrecorded
  /\ unrecorded' = unrecorded \ {bet}
  /\ row' = [row EXCEPT ![bet.round].status = IF @ = "none" THEN "active" ELSE @,
                        ![bet.round].deployments = @ \union {DecodeSquares(bet)}]
  /\ UNCHANGED <<chain, bets, resolvedWinners, page>>

StatusOf(r) == IF Ended(r) THEN "completed" ELSE "active"

HandleRoundChange(r) ==
  /\ r <= chainRound
  /\ row' = [row EXCEPT ![r].status = StatusOf(r),
                        ![r].winningSquare = IF r \in resolvedWinners THEN winner[r] ELSE @]
  /\ row' # row
  /\ UNCHANGED <<chain, bets, unrecorded, resolvedWinners, page>>

ApplyFulfillEvent(r) ==
  /\ result[r] = "won" /\ r \notin resolvedWinners
  /\ resolvedWinners' = resolvedWinners \union {r}
  /\ row' = IF row[r].status = "none" THEN row
            ELSE [row EXCEPT ![r].status = "completed", ![r].winningSquare = winner[r]]
  /\ UNCHANGED <<chain, bets, unrecorded, page>>
-----------------------------------------------------------------------------
(* The page. *)
\* getRecentRounds
Indexed == {r \in Rounds : row[r].status # "none"}
Recent(r) == r \in Indexed /\ Cardinality({q \in Indexed : q > r}) < HistoryLimit
RecentRounds == {[id |-> r, round |-> row[r]] : r \in {q \in Rounds : Recent(q)}}

\* the key the balance is cached under; a change of it leaves no balance
Version(history) ==
  {<<r.id, r.round.winningSquare, Cardinality(r.round.deployments)>> : r \in history}

FetchCurrentRound ==
  /\ currentRoundId # chainRound
  /\ currentRoundId' = chainRound /\ balance' = {}
  /\ UNCHANGED <<chain, backend, roundHistory>>

FetchRecentRounds ==
  /\ roundHistory # RecentRounds
  /\ roundHistory' = RecentRounds
  /\ balance' = IF Version(roundHistory) = Version(RecentRounds) THEN balance ELSE {}
  /\ UNCHANGED <<chain, backend, currentRoundId>>

\* mutant: a round is over when the page has seen it
PendingNow(roundId) == currentRoundId >= roundId
Pending(roundId) == currentRoundId > roundId
SettlementState ==
  IF Settled THEN "settled" ELSE IF Pending(miner.roundId) THEN "pending" ELSE "round-active"

\* mutant: squares from 0 in the rows
WinningBlockFromZero(round) == round.winningSquare
WinningBlock(round) == round.winningSquare + 1
KindOf(round) ==
  IF round.deployments = {} THEN "none"
  ELSE IF round.winningSquare = Nothing
       THEN IF round.status = "completed" THEN "refund" ELSE "unknown"
  ELSE IF WinningBlock(round) \in UNION round.deployments THEN "winnings" ELSE "none"
SettlementKind ==
  LET found == {r \in roundHistory : r.id = miner.roundId}
  IN IF SettlementState # "pending" THEN "none"
     ELSE IF found = {} THEN "unknown" ELSE KindOf((CHOOSE r \in found : TRUE).round)

FetchBalance ==
  /\ balance' = {[available |-> miner.rewards, state |-> SettlementState,
                  kind |-> SettlementKind, round |-> miner.roundId]}
  /\ balance' # balance
  /\ UNCHANGED <<chain, backend, currentRoundId, roundHistory>>

\* mutant: there is nothing to settle before it is known what
PayoutKindsKnown == {"winnings", "refund"}
PayoutKinds == {"winnings", "refund", "unknown"}
CanCashOut(b) ==
  \/ b.state = "pending" /\ (b.kind \in PayoutKinds \/ b.available)
  \/ b.state = "settled" /\ b.available
-----------------------------------------------------------------------------
Init ==
  /\ chainRound = 1 /\ result = [r \in Rounds |-> "open"] /\ winner = [r \in Rounds |-> Nothing]
  /\ charged = [r \in Rounds |-> {}]
  /\ miner = [roundId |-> 0, checkpointId |-> 0, rewards |-> FALSE]
  /\ bets = 0 /\ unrecorded = {} /\ resolvedWinners = {}
  /\ row = [r \in Rounds |-> [status |-> "none", winningSquare |-> Nothing, deployments |-> {}]]
  /\ currentRoundId = 1 /\ roundHistory = {} /\ balance = {}

Page == FetchCurrentRound \/ FetchRecentRounds \/ FetchBalance
Next ==
  \/ \E mask \in SUBSET Squares : Deploy(mask)
  \/ \E square \in Squares \union {Nothing} : RoundEnds(square)
  \/ Checkpoint \/ ClaimSol
  \/ \E bet \in unrecorded : Ingest(bet)
  \/ \E r \in Rounds : HandleRoundChange(r) \/ ApplyFulfillEvent(r)
  \/ Page

(* Every bet, round and winner reaches the database in the end; the polls   *)
(* go on.                                                                   *)
Fairness ==
  /\ WF_vars(\E bet \in unrecorded : Ingest(bet))
  /\ \A r \in Rounds : WF_vars(HandleRoundChange(r)) /\ WF_vars(ApplyFulfillEvent(r))
  /\ WF_vars(FetchCurrentRound) /\ WF_vars(FetchRecentRounds) /\ WF_vars(FetchBalance)
Spec == Init /\ [][Next]_vars /\ Fairness
-----------------------------------------------------------------------------
RowType ==
  [status : {"none", "active", "completed"}, winningSquare : Squares \union {Nothing},
   deployments : SUBSET SUBSET {s + 1 : s \in Squares}]
TypeOK ==
  /\ chainRound \in Rounds /\ currentRoundId \in 1..chainRound
  /\ \A r \in Rounds : charged[r] \subseteq Squares /\ (r > chainRound => charged[r] = {})
  /\ miner.roundId \in 0..chainRound /\ miner.checkpointId \in 0..miner.roundId
  /\ miner.rewards \in BOOLEAN
  /\ row \in [Rounds -> RowType]
  /\ \A r \in Rounds : row[r].status = "completed" => Ended(r)
  /\ \A b \in balance : b.round \in 0..MaxRounds

\* Winnings are announced only to who won: rows that are late or missing may hide a
\* prize, they never make one up.
WinningsAreReal ==
  \A b \in balance : b.kind = "winnings" => Payout(b.round) = "winnings"

\* A round is called pending only when it is over on the chain, so that the button
\* never starts a settlement that the program refuses.
PendingIsOver == \A b \in balance : b.state = "pending" => Ended(b.round)

Due(r) == miner.roundId = r /\ ~Settled /\ Ended(r) /\ chainRound > r /\ Payout(r) # "none"

\* A payout that is due can in the end be cashed out from the page, also of a round
\* that the history no longer has.
Offered == \E b \in balance : CanCashOut(b)
PayoutIsOffered == \A r \in Rounds : Due(r) ~> (~Due(r) \/ Offered)

\* Nothing that the page says of a round is left wrong: while a payout waits, the page
\* comes to say what settlement will pay, or that it does not know.
Waiting(r) == miner.roundId = r /\ ~Settled /\ Ended(r) /\ chainRound > r
LastWordIsTrue ==
  \A r \in Rounds :
    <>[]Waiting(r) => <>[](\E b \in balance : b.round = r /\ b.kind \in {Payout(r), "unknown"})

\* cash-out-state.spec.ts: "does not promise a payout to a losing miner".
NoPromiseToLosers ==
  \A b \in balance : b.kind \in {"winnings", "refund"} => Payout(b.round) # "none"

\* "Round #N ended without a payout" is not said of a round that pays, once the page
\* has nothing more to learn of it.
NoPayoutIsTrue ==
  \A b \in balance :
    /\ b.kind = "none" /\ b.state = "pending"
    /\ unrecorded = {} /\ roundHistory = RecentRounds
    => Payout(b.round) = "none"
=============================================================================
