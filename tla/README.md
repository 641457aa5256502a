# BlitzMine: a verification project in TLA+

BlitzMine is a betting game on Solana: rounds on a board of 25 squares, a
verifiable random draw per round, custodial miner accounts, a jackpot
("motherlode"), a NestJS backend that cranks the rounds forward and indexes
them, and a Next.js client. This directory holds TLA+ specifications of it, the
TLC instances that check them and TLAPS proofs about them.

## 1. Inventory

### On-chain program (`src/program/programs/blitzmine/src`)

| Part | State | Operations |
|---|---|---|
| rounds | `Board` (round id, clock, VRF flags, request nonce), one `Round` account per round (bets per square, counts, randomness, totals, expiry, flags) | `prepare_round`, `deploy`, `request_randomness`, `callback_resolve_round`, `cancel_round` |
| ledger | one `Miner` account per player (balance, bets of its current round, fee reserve, settlement marker, nonce), `Treasury` (admin fees, jackpot) | `fund_miner`, `checkpoint`, `claim_sol`, `claim_admin_fees` |
| settlement arithmetic | none | `calculate_settlement`, `calculate_rewards` |
| delegation | on which ledger an account lives, base copy and rollup copy | `delegate_*`, `commit_game`, `commit_checkpoint`, `undelegate_miner` |
| configuration | `Config` | `initialize`, `update` (rewrites keys nothing reads) |
| closing | | `close_round`: written, but not exported, so unreachable |

A transaction is atomic and the accounts it names are locked, so the unit of
interleaving is the instruction. What is hard is not data races but *order*: an
oracle that answers late, twice or never; settlement in any order by owners and
bots, before and after a deadline; players moving from a finished round to the
next; and lamports that are kept twice, in an account's balance and in its
books.

Correct means: bets are frozen before the draw; a round ends exactly once;
every lamport is accounted for; a round can pay everybody it owes, in any order;
each player is paid once; no bet is locked for ever.

### Backend (`src/backend/src/modules`)

| Part | State | Hard behaviour | Correct means |
|---|---|---|---|
| `round-manager` (crank) | last observed round, prepared and committed sets, in memory | restart forgets them; every step can fail half way | rounds are drawn when all is in place, and every ended round is committed |
| `scheduler-lock` | lease rows | expiry and takeover while the task still runs | one process at a time, and never none for long |
| `solana` | rollup connection | multi-transaction preparation and delegation | nothing is taken for ready that is not |
| `mining`, ingestion | deployments by transaction hash, seats, totals of miners | report, subscriptions and backfill record the same deploy at once | each deploy is booked once and announced once |
| `indexer` | projected rounds, cursor, memory of ends, throttles | notifications out of order, failed items behind the cursor, restarts | the end of a round is announced once, kept, and never missing for ever |
| `auth` | challenges, sessions, token families | refresh against refresh, refresh against logout | a family is a chain with one live session; once it has none it never gets one again |
| `rate-limit` | windows in Redis, memory or database | check-then-act, fallback between stores | nobody is refused within the limit; by how much the limit is exceeded |
| `chat`, `websocket` | messages, reactions, connections | broadcast before persistence, sessions that change during an await, fan-out | what is said is said by a proven wallet, delivered once, stored |
| `profile` | names and pictures | read, check, write without a transaction | unique names; a page that shows what is stored |
| `retention` | none | deletes rows that are in use | no call is misled by a deletion |
| `analytics`, `health`, config | none | | |

### Frontend (`src/frontend/src`)

| Part | State | Hard behaviour | Correct means |
|---|---|---|---|
| mining runtime: session (`hooks/use-mining-runtime.ts`) | calls in progress | five transactions on two ledgers, each of which may fail, be late or be repeated | a square is paid once, the money comes home |
| mining runtime: end of a round | phase, the round it is of, the kept board, the winner | countdown, poll and `round_end` in any order | each end once, the right winner on the right board, and back to the game |
| mining runtime: bets on screen | pending bets, ledger of recorded ones | the same bet from click, event, poll and report | tiles are blocked while they should be, each bet is listed once |
| `round-resolution.ts`, `round-dissolve.ts` | none; the picture of a frame | rounding; frames at any time | prizes as the program pays them; the winner alone at the end |
| cash-out panel, `cash-out-state.ts` | three readings of different age | what is promised before settlement | winnings are announced to winners only |
| `privy-provider.tsx`, `auth-client.ts` | wallet, session, flows in progress | the wallet changes during an exchange | the session is of the wallet, or there is none |
| `use-websocket.ts` | socket, timers | events of replaced sockets, silent links | one live socket, that comes back |
| `use-home-chat-controller.ts` | rows, pending messages, reactions, profile cards | timeouts, retries, histories, batches that fail | each message once and in its true state |
| profile drawer, `user-profile-context.tsx` | draft, shown name | late answers over new input | the page comes to show the stored name |

The rest of the frontend is rendering.

### How the parts interact

The client sends `fund_miner`, `delegate_miner`, `claim_sol` to the base layer
and `deploy`, `checkpoint` to the rollup. The crank runs once a second under a
lease: it prepares and delegates the next round, requests the draw after the
deadline, cancels after the timeout and commits finished rounds. The oracle
calls back into the program. The program's events reach the indexer, which
writes the database and pushes to clients over the gateway; clients report
their own deploys, which the backend re-derives from the transaction.

## 2. Modules

| Module | What it is |
|---|---|
| `Settlement` | the integer arithmetic of a settlement, pure operators over fee constants |
| `MCSettlement` | builds every small pot bet by bet and checks the arithmetic on it |
| `BlitzMine` | the on-chain program: state, one action per instruction, properties, fairness, refinement mapping |
| `RoundLifecycle` | the abstract specification: what the game promises its players |
| `MCBlitzMine` | constants of the finite instances (wallets, symmetry) |
| `SumProofs` | sums over finite sets and over intervals, for all proofs about money and about the limiters |
| `BlitzMineProofs` | the theorems about `Settlement`; type correctness of `BlitzMine`, one lemma per instruction; the phase invariant and the two action properties that follow from it |
| `LedgerProofs` | the money of `BlitzMine`: backed books, exact totals, solvency, dust, who is paid, and the refinement of `RoundLifecycle` |
| `MinerSession` | one player's balance on two ledgers and the browser's handlers that move it: bet, top up, cash out |
| `MinerCustody` | the abstract specification: one balance that is only moved |
| `MCMinerSession` | its finite instances (symmetry) |
| `MinerSessionProofs` | types, a settled balance at home, no square paid twice, and the refinement of `MinerCustody` |
| `Crank` | the lifecycle crank: several replicas, every await a step, commits to the base layer |
| `SchedulerLock` | the lease that lets one process at a time run a job |
| `Scheduling` | crank and lease side by side |
| `SchedulingProofs` | the four safety properties of the crank, for any number of replicas; mutual exclusion while leases are renewed, and their expiry; the two beside each other |
| `MCRounds` | instance: a game of two rounds, pots of `MCSettlement`, prizes of `RoundResult` |
| `MCScheduling` | an instance of `Scheduling`, for safety |
| `MCSchedulerLock` | instances of `Crank` and `SchedulerLock`, for liveness |
| `Backend` | the services of the backend side by side, any of which run, and what each promises |
| `BackendRecordsProofs` | ingestion, indexer and the two limiters: their inductive invariants |
| `BackendProofs` | sessions, chat and reactions; the theorems about `Backend` |
| `MCBackend` | an instance of `Backend` in which one service runs at a time |
| `MCPage` | instances of the parts of the page |
| `MCAnswers` | smaller instances of both, under their fairness |
| `Ingestion` | recording a deploy: concurrent database transactions with their locks, retries and announcements |
| `Indexer` | the projection of the chain: two subscriptions, cursor, backfill, reconciliation, account changes |
| `RateLimit` | what a limiter counts, and what the two have in common |
| `RealtimeLimit` | the limiter in Redis and in memory, and its fallback |
| `DatabaseLimit` | the limiter in the database, statement by statement, and its clean-up |
| `AuthSessions` | challenges, sessions, refresh rotation, revocation, statement by statement |
| `ChatGateway` | sockets and sessions, a message from the frame to the room and the row, fan-out over Redis |
| `ChatReactions` | a reaction from the click to the other screens |
| `RealtimeSocket` | connecting, reconnecting and unmounting in the page; registry and heartbeat in the gateway |
| `ClientAuth` | signing in: the wallet, the exchange, the cached session, the socket |
| `ChatClient` | a chat message on the page that sends it |
| `HoverCards` | the cache of profile cards |
| `Profile` | saving a profile, and the name and picture a page shows |
| `RoundView` | the phases at the end of a round on a page |
| `Dissolve` | the frames of its animation |
| `DeployView` | a player's pending and recorded bets on the page |
| `RoundResult` | the prizes a page computes |
| `CashOutView` | what a page says of a payout before it is settled |

The components from `Ingestion` on share no variables: where one needs another
it has that one's promise as an action of its environment (`Indexer` records a
deploy in one step, which is what `Ingestion` takes apart; `ChatClient` has a
gateway that lets a frame through or not; `CashOutView` has rows that arrive in
any order), and its head comment says so.

The `MC` modules with several instances have a variable `part`, chosen in `Init`
and never changed: in a behaviour one component takes all the steps and the
others stand still. The states of such a module are the union, not the product,
of those of its components, so each is explored exactly as if it were alone; a
property guarded by `part = "x"` says of the component what its own module says.
They are joined for a reader's sake (one run answers one question: does the page say
only what is so?) and not because they interact.

`Backend` joins the services of the backend in the same way, but without the
restriction: `running` is any set of them, and all that run take steps in any
order. `MCBackend` has one run at a time, which keeps its states few; the
theorems are about `Backend`, for every choice of `running`, and one of them
(`ServicesAreImplemented`) says that a behaviour of the backend is a behaviour of
each service that runs, so nothing is lost by exploring them one by one. A
service that does not run has the value `Off` in its variables.

`BlitzMine` extends `Settlement`, instantiates `RoundLifecycle` and is extended
by `MCBlitzMine` and by the proof modules. `MinerSession` instantiates
`MinerCustody`. The two families meet in the instructions on a miner:
`BlitzMine` has them in full on one copy of the state, for many players;
`MinerSession` has what they do to one miner, on two copies, under the client.
`CashOutView` and `RoundResult` compare what a page says with what those two
have the program do; `RoundResult` extends `Settlement`.
`Crank` is what justifies the fairness `BlitzMine` and `MinerSession` assume of
the end of a round; it has the phases of a round and not its bets. `Scheduling`
has `Crank` and `SchedulerLock` beside each other, and the lease does not hold the
crank back: it can be lost while the job goes on, so the crank is checked, and
proved, without its help.

### How `BlitzMine` corresponds to the code

* A variable is an account (or a family of accounts): `board`, `rounds`,
  `miners`, `treasury`; `prepared` is the set of round accounts that exist,
  `wallet` the system accounts, `now` the clock sysvar, `requests` what the
  oracle has been asked. Fields keep their names. `lamports` is the account's
  real balance and includes the rent.
* Anchor checks, seeds and `require!`s are the guard; the body is one atomic
  step. Checked arithmetic on `u64` is a guard `\in U64`; saturating arithmetic
  is `SaturatingSub`. Fields whose overflow would take 2^64 transactions
  (`count`, `total_miners`, `request_nonce`) are unbounded naturals.
* `deploy` is split into named parts in the order of the handler: `BettingOpen`
  (phase and clock), `StartedBoard` (the first bet starts the clock), `MayJoin`
  and `Joined` (a miner enters another round), `Selected`, `CanPay`.
* `settle_round`, `advance_board`, `calculate_rewards` are operators of the same
  name; the callback also rebalances treasury and round, as the handler does,
  in either direction.
* A draw is a winning square and whether the jackpot is hit. The two hashes are
  domain separated, so every combination is possible; `Randomness` is that
  product. Rejection sampling and hashing are abstracted.
* The oracle is external. `requests` only grows, so an answer may come late, be
  repeated, cross another one or never come; the handler's own checks decide.
* `Init` is the state `initialize` leaves: round 0 prepared, no clock.

Left out of `BlitzMine`: fields nothing in the program reads (`lifetime_*`,
`last_claim_sol_at`, `epoch_id`, `treasury.total_vaulted`, `rent_payer`,
bumps), events, `update`, and *where* an account lives: every instruction here
acts on one copy of the state. That is what the rollup gives while accounts stay
delegated; the two copies of a miner are the subject of `MinerSession`.

### How `MinerSession` corresponds to the code

* `base` and `rollup` are the `Miner` account as each ledger has it, `place`
  which of them may be written: `delegate_miner` moves the account to the
  rollup, `undelegate_miner` schedules its commit and freezes both copies
  (`"returning"`), `Return` is the commit arriving.
* `round`, `outcome` and `spent` are what one player sees of the rounds:
  `RoundEnds` stands for a draw or a cancellation, `BotCheckpoint` for a bot
  that settles late and takes the reserve.
* `call` holds the handler calls in progress. Each `await` of
  `handleManualDeploy` (with `ensureMinerReady`) and `handleCashOut` in
  `use-mining-runtime.ts` is a `pc`: the sign-in, the router's delegation
  status, a read of either copy, a transaction, a wait for delegation. What a
  call remembers across an `await` (the round of its render, its squares,
  whether it has refreshed the balance once) is in its record.
* A transaction's instruction runs in `Landed`; `Refuse` is a transaction the
  program turns down, `GiveUp` a call that throws at any point, a declined
  signature, an unreachable endpoint, `confirmTransaction` timing out or a
  reload. What a call that gave up had sent is in `late` and may land at any
  time after (`LandLate`), or never.
* Whether the cash-out button is live (`CanCashOut`) depends, while a round of
  the player waits to be settled, on the page's recent rounds: the balance that
  is settled, or a settlement kind other than "none". `row` is what those rounds
  have of the player's round, as last polled (`RecentRounds`): nothing, a round
  without the player's bets, with them but no winner, with a winner that is not
  among the recorded squares, or is. It follows the chain late, in part or never
  (the deviations `EveryDeployIndexed` and `NoPayoutIsTrue` below), and `Hidden`
  is the button that stays dead although the chain may owe the player. That a
  round drops out of the ten recent ones, which makes its kind unknown and the
  button live again, is left out; the runs have fewer rounds than that.
* `isDeployPending` is tested in `PressDeploy` and set in `Begin`, two awaits
  later, as in the handler: two presses can pass the test. Deploying does not
  look at `isCashOutPending`, so a bet may start while a cash-out is under way.
* The delegation program, the rollup and the router are external, and modelled
  by what the client and the program rely on: who may write which copy, a commit
  that arrives whole, a router that agrees with the base layer. A rollup asked
  for an account it no longer owns may answer with its last copy or with the
  base layer's (`RollupReads`).

Left out of `MinerSession`: the clock of the betting window (a deploy can be
refused at any time), the division of pots and their expiry (`BlitzMine`), rent
and network fees, the faucet of the local network, notices, the deploy's report
to the backend, and a second browser tab.

Two presses that pass the test together may both deposit the deficit. The code
allows it, the surplus stays the player's, and `MoneyComesHome` covers it.

### How `SchedulerLock` corresponds to the code

* `lease` is the row of one lease name in `job_leases`. A call of `runWithLease`
  is at `pc`: `acquiring` and `creating` are the two statements of `acquire`,
  `running` the task, `releasing` the statement of `release`. `inProcessRunning`
  is the set of the same name, for this lease name.
* Every statement carries a time its process read before (`stamp`); the database
  applies the statement later, all at once. Clocks differ by up to `MaxSkew`.
* Renewals are sent by a timer and not awaited by anybody, so any number of them
  is under way (`renewals`), in any order, also after the call that sent them.
* A statement may fail with a pool timeout (P2024) or with another error; an
  `acquire` that fails with another error may have been applied. What each
  `catch` does with the two is `AcquireFails`, `RenewFails` and `ReleaseFails`.
* `granted` is a history variable: the expiry a process last wrote as owner.
* A restarted process has a new `ownerId` and is another member of `Processes`.

### How `Crank` corresponds to the code

* `initialized`, `prepared`, `delegated`, `core`, `board`, `baseBoard`, `commits`
  and `resolved` are the accounts and where they live. Times are abstracted to
  five phases of the current round; the replica's clock may be ahead of the
  program's, so it may request or cancel too early and be refused.
* `memory` is what `RoundManagerService` and `SolanaService` keep between ticks
  (`observedRoundId`, `preparedRounds`, `committedRounds`, `coreDelegationReady`,
  the connection); `tick` holds the local variables of `advanceLifecycle`; `pc` is
  the await it is at. The actions of `Step` are in the order of the code.
* A transaction that is refused, and any await that throws (`Throw`), ends the
  tick with what the memory has by then. `Restart` clears the memory.
* A connection to the base layer shows a delegated board as it was last
  committed (`Seen`); it is chosen while the board is not delegated, or when the
  router does not answer and no rollup endpoint is configured.
* `commit_game` schedules a commit: it reaches the base layer later (`Land`), in
  any order. The replica takes the round for committed at once, as in the code.

Left out of `Crank`: `getCurrentRound` and `getRound` (views), the local faucet,
validator choice and transaction options.

### The backend's services

* `Ingestion`: a call of `ingestFromSignature` is at the statement it awaits;
  what its transaction has inserted is invisible and locked until it commits
  (`Inserting`, `Locking`), a unique key that another committed makes it fail (P2002) and
  start again, at most `Attempts` times. `handleMinerChange` writes beside it.
* `Indexer`: `pending` are logs on their way, `notes` account notifications,
  `writes` database writes under way; a worker is one call of
  `processProgramLogs`. `Restart` clears what is in memory (`processedRoundEnds`,
  the workers), loses the logs that were on their way, and keeps the rows and the
  cursor. Every write of the cursor is in
  it, the one in the `finally` of the backfill too.
* `RealtimeLimit` and `DatabaseLimit`: one identifier and action.
  `initializeRedis` does not wait for its connection, so the process counts in
  memory until `RedisReady`, then in Redis, and in memory again after `RedisEnds`
  or a refusal, for good. The Lua script is one step, the database path is a read and a later write. `assertRateLimit`,
  which nothing calls, is left out. `RateLimit` has the clock and the two
  histories, what was admitted when and the last refusal.
* `AuthSessions`: every statement of every transaction is a step, with the locks
  it takes. `issueSessionForWallet` starts a family, `refreshSession` replaces the
  newest session of one. The HTTP interface exposes the Privy exchange, `logout`
  and `me`; the rest of the service is modelled although nothing calls it yet.
* `ChatGateway`: what a handler does between two awaits is a step. `meta` is what
  the gateway holds of a socket, `check` the asynchronous look at the session,
  `save` the storing of a message with its retries, `bus` the Redis channel.
* `ChatReactions`: a click flips the screen (`view`) and starts a call that
  deletes the row, or creates it, reads the list and tells the room.

### The parts of the page

* `RealtimeSocket`: sockets are numbered; `events` are the callbacks a socket
  has to deliver, also after it was replaced. The gateway's `clients` and
  `pinged` are beside them. Only the gateway has a heartbeat: a link that died
  silently leaves the page "connected" (`Back` says so).
* `ClientAuth`: a `flow` is one run of the exchange in `privy-provider.tsx`, with
  the wallet of the render that started it. An effect is a step.
* `ChatClient`: `messages` are the rows on screen, `pendingMessages` and `timers`
  what the page watches, `rememberedRows` the cache of an earlier load.
* `HoverCards`: a `batch` is one call of `prefetchHoverBatch`, `cache` the cards.
* `Profile`: an `update` is one PATCH, in three queries; `profileQuery` and
  `fetch` are what the page was told and is being told. `Effects` are the two
  effects of `UserProfileProvider`.
* `RoundView`: one action per event of the machine of phases in
  `use-mining-runtime.ts`; a board, a winner and a result are the round they are
  of, so "the wrong one" can be said.
* `Dissolve`: `dim` is how dark each tile is drawn; times are 100 ms and the
  easing is given by `Eased`.
* `DeployView`: a click is a flow with its awaits; `pendingDeploys` and
  `deploymentLedger` are the two books a bet is shown from.
* `CashOutView`: `miner`, `currentRoundId` and `roundHistory` are the three
  readings; `balance` is what the query made of them.
* `RoundResult`: `allocateProportional` and the ordering of winners, over rows
  that are added one at a time.

## 3. The runs

| Run | Asks | Result |
|---|---|---|
| `rounds` | two consecutive rounds, late and duplicate answers, cancellation, settlement and re-entry: phases, books, bets, outcomes, and the refinement of `RoundLifecycle`; with the real fees (1 %, 10 %): does every split of every pot conserve lamports, fit its winners' shares, cost a winner at most the fee, and does the page compute the same prizes? | holds |
| `claims` | one round with uneven stakes, jackpot, bots, expiry: solvency, bounded dust, nobody paid twice | holds |
| `liveness` | a crank that keeps going, an oracle that may stay silent: is every bet settled? | holds |
| `session` | two handler calls at once, one that gives up, transactions that land late: is each square paid once, is only a settled balance brought home, is it one balance throughout? | holds |
| `home` | does a player who keeps pressing cash-out get everything home, whatever was left half done? | holds |
| `scheduling` | two replicas crank at once, awaits throw: is a round drawn only when what it needs is in place, and committed only when it is over? Skewed clocks, late, failing, overtaken statements, a crash: does the lease exclude while it is renewed, and free itself soon? | holds |
| `progress` | awaits throw, a replica restarts and forgets, the oracle is silent: does every round with a bet end and reach the base layer? A crash and pool timeouts: is the job run again and again? | holds |
| `backend` | calls of one service overlap, stores fail, a process restarts: do the rows tell one story, is everything announced and counted once, does a session serve only whom it should? | holds |
| `page` | answers, events, polls, timers, frames and clicks in every order: does the page say only what is so, and say it once? | holds |
| `answers` | failures, a crash, lost connections: does every call return, every message and sign-in settle, every screen move on, each part agree with the chain or the store in the end? | holds |
| `lease_release` | README.md:64 of the repository: the backend "prepares and delegates the next round before it is needed, asks for randomness once the deadline passes, cancels timed out rounds, commits finished rounds back to Solana" | violated |
| `refund` | README.md:31 of the repository: "everyone can recover their principal" from a cancelled round | violated |

The properties, and what each would catch:

* `PhaseInv`: earlier rounds closed, the current one open and existing, later
  ones untouched; the clock runs exactly when there is a bet (so a settlement
  never divides by an empty pot); VRF flags agree with the stored nonce.
* `Backed`: each miner's `rewards_sol + checkpoint_fee` and the treasury's
  books equal the balance above rent.
* `OpenRoundBooks`: the totals of the open round are the sums of the bets in
  the miners' accounts, per square.
* `RoundsSolvent`: a round holds what all unsettled players could ask for at
  once, so `handle_checkpoint` never fails with `InsufficientBalance`.
* `DustBounded`: what rounding strands in a drawn round before expiry is less
  than three lamports per winner beyond the first.
* `BetsFrozenByRequest`, `OutcomeFinal`, `RoundPaysOnlyItsPlayers`: what no step
  may do (move a bet after the request, change an outcome, pay anybody but an
  unsettled player of the round).
* `ImplementsLifecycle`: every behaviour of the program is one of
  `RoundLifecycle`, where a round goes from open to drawing to drawn or
  refunded, once.
* `EveryBetIsSettled`: a player with an unsettled bet is eventually settled.
* `EverySquarePaidOnce`: what a player's deploys put into the current round is
  one stake for each square held, however often the button was pressed and
  however late a transaction lands.
* `HomeIsSettled`: a balance that has left the rollup, or is about to, has
  no round to settle: on the base layer it could not be settled, nor claimed.
* `ImplementsCustody`: the copies, the delegation and the handlers implement
  one balance (`MinerCustody`): a commit that is lost, or a copy that is written
  while the other counts, would be a step no custodian may take.
* `MoneyComesHome`: in the end nothing is left on either ledger for the player
  to collect, and no round owes anything; but when all there is to collect is the
  payout of a round whose rows leave out the winning bet, the button is dead and
  the money waits for the next deploy, a bot, or rows that are put right.

* `NothingLeftBehind`: when a draw is under way every earlier round has been
  committed, or its commit is on its way; so a replica that restarts need only
  look at the one round before the current one, as `advanceLifecycle` does.
* `NextRoundReady`: no draw without the next round's account on the rollup, where
  the oracle's answer writes it. (`request_randomness` would take one that was
  prepared but not delegated: the crank's order makes the difference.)
* `OnlyFinishedCommitted`: a replica that goes by an old reading of the board,
  from the base layer or from the start of a long tick, commits no round that is
  still played.
* `EveryRoundEnds`: a round with a bet ends and reaches the base layer.
* `Exclusive`: two processes are in the job at once only if one of them has
  written no expiry that is still good by every clock. The lease promises no more
  than that: a process whose renewals fail for a whole time to live loses the row
  and is not stopped (`runWithLease` only logs the loss).
* `SoonExpired`: a dead owner blocks the others for a time to live at most.
* `JobKeepsRunning`: some process is in the job again and again.

A run that has several components has one property per question, a conjunction
of properties each of which is defined in the module named.

Of the backend (`backend`: `RecordedOnce`, `LimitsHold`, `SessionsAreChains`,
`SpokenOnce` and the action property `NothingTakenBack` of `Backend`):

* `BooksMatch`, `AnnouncedOnce`, `GivesUpOnFirst` (`Ingestion`): deploys,
  seats and totals of the miners agree whenever no transaction is open; a deploy
  is announced once; only what was already recorded is given up.
* `AnnouncedOnce`, `KeepsWinner` (`Indexer`): the end of a round goes out once per
  life of the process, and no late account state takes its winner away.
* `RefusedOnlyWhenFull` (`RateLimit`), `FallbackBounded` (`RealtimeLimit`),
  `OvershootBounded` (`DatabaseLimit`): nobody within the limit is refused; less
  than three times the limit passes in a window, whenever Redis becomes ready,
  refuses or goes away; without transactions at most one more for each concurrent
  call but the first.
* `OneLivePerFamily`, `FamilyIsChain`, `StaysClosed`, `ChallengeUsedOnce`,
  `RevokingHasAReason` (`AuthSessions`): a family is a chain with one live session
  at its end; a family without a live session never gets one again; a session is
  revoked only by its replacement, logout or reuse. A logout (or a reuse) revokes
  the live sessions it has read: one that a refresh commits between that reading
  and the update is not among them and stays live, so that the family is not
  closed at all. The code allows it, and these properties do not exclude it.
* `DeliveredOnce`, `OnlyProvenWallets`, `GivenUpAfterAllAttempts`,
  `ClearingHasAReason` (`ChatGateway`): an event reaches a socket once; a message
  speaks for a wallet whose session was checked.
* `ClicksAddUp`, `ScreensShowTheStored` (`ChatReactions`): with two clicks at once
  the row is what their number says; screens that are told last show it.

Of the page (`page`), in `SessionIsTheUsers`: `SignedOutHoldsNothing`,
`SessionFollowsWallet` (`ClientAuth`). In `ChatIsTrue`: `NoRowTwice`,
`PendingIsWatched`, `TwiceOnlyAfterTimeout` (`ChatClient`), `OneLiveSocket`,
`ConnectedIsTrue` (`RealtimeSocket`), `LoadingIsAwaited` (`HoverCards`),
`SavedNameWasStored`, `TakenByAnother` (`Profile`). In `GameIsTrue`:
`WinnerOfTheBoard` (`RoundView`), `PendingHasFlow`, `UnderWayIsBlocked`,
`OneEntryPerBet` (`DeployView`), `WinningsAreReal`, `PendingIsOver`
(`CashOutView`), `ClosesInOnTheWinner`, `WinnerStandsAlone` (`Dissolve`). In the
action property `ShownIsNotTakenBack`: `KeepsSent` (`ChatClient`),
`EndsUnanswered` (`RealtimeSocket`), `StartsUnshown`, `LeavesRevealed`
(`RoundView`), `KeepsDeployments` (`DeployView`), `StaysDark` (`Dissolve`). The
comments in `MCPage` and in each module say what each would catch.

Of `rounds`: `SharesAreRight` joins `ConservesEveryLamport`, `SharesFitThePot`
and `WinnerPaysAtMostTheFee` (`MCSettlement`) with `PrizesAddUp`, `WithinALamport`
and `MoreForMore` (`RoundResult`), which compare the prizes of the page with those
of `Settlement`.

Of `answers`, whose definitions name the parts:

* `EveryCallReturns`: no two transactions wait for each other for ever; a call is
  idle again and again.
* `NothingWaitsForEver`: whatever is open in a component gets closed. What it does
  not promise, because the code does not: a message whose every attempt to be
  stored met a failure (`GivenUp`) is not stored; rows remembered from an earlier
  visit stay "sending" (`FromEarlierVisit`); an answer to the exchange that is
  not JSON leaves the sign-in between its states; a token that the gateway
  answered with `RATE_LIMITED` (websocket.service.ts:224-236) is dropped by
  use-websocket.ts:380 and not sent again on that socket, so its user stays out
  of the chat until socket or token changes (`InTheChat`, `limited`).
* `EveryPartCatchesUp`: what each part comes to agree with. For the indexer that
  is `MissedForAReason`: the cursor comes to rest at the newest transaction,
  wherever it was moved in between, the newest deploy is missed only if its
  ingestion failed, and while the process lives no more deploys are missed than
  there were failures and lost logs.

The `lease_release` counterexample: a process takes the lease, runs the job and
the `release` statement fails with an error other than a pool timeout. `release`
rethrows it, inside the `finally` of `runWithLease` and before
`inProcessRunning.delete(name)`; from then on every call returns at the first
`if`. The row has expired, so another replica could take it; with one replica the
rounds stop until it is restarted. `progress` shows that the same holds of
neither pool timeouts nor crashes.

The `refund` counterexample: bet, deadline, request, no answer, cancel, wait for
`expires_at`, checkpoint: the stake stays in the round account and the miner is
marked settled. `handle_checkpoint` treats a cancelled round like a drawn one
once the claim window (one day) has passed. The promise holds within the window:
`RoundsSolvent` counts the principal of a cancelled round as owed until then.

### Bounds, and why they are enough

* Two miners and two squares: a winner and a loser, two winners, one miner on
  both squares, one entering after the other, nobody on the winning square.
  Miners are interchangeable and squares are interchangeable, so the safety runs
  use both symmetries; the liveness run uses none.
* `MaxRound` 1 in `claims` and `liveness` (round 0 is played and settled, round
  1 exists so that it can end) and 2 in `rounds` (a player moves from round 0
  to round 1, and requests of both rounds are outstanding at once).
* Windows of one to a few seconds and a clock of three to five: every deadline
  (round end, intermission, VRF timeout, bot window, expiry) can be missed,
  met exactly and passed in at least one run. In `rounds` the intermission is
  zero, and the claim window outlasts the clock: intermission and expiry are
  questions of `claims`.
* `MaxNonce` bounds the deploys of one miner, `FundAmounts` and `DeployAmounts`
  the amounts; wallets are small, so funding stops. Fees are 25 % and 50 % in
  the game instances so that pots of a few lamports exercise every rounding;
  the real ones are used for the pots of `rounds`, with stakes around the points where
  1 % and 10 % round (99, 101, 9999).
* `session`: two calls, two presses of deploy, one call that gives up, two
  squares and two rounds to bet on: enough for two sessions side by side, a
  bet beside a cash-out, a retry of a bet whose first transaction is still on its
  way, a late transaction of a round that is over, and a second deposit. Calls and
  squares are interchangeable. `home` has one square and no symmetry. In
  `home` the rows may become anything (`RowsSeen`); `session` leaves them at none,
  when the button is live whenever a round waits, which only adds presses.
* `Opening` is enough for both deposits, so funding is refused only by
  the place of the account.
* `U64_MAX` and `I64_MAX` are small numbers above every value reached.
* `scheduling`: two replicas (interchangeable), two rounds to end and one await
  that throws; a third round id so that a commit can be two behind. The lease: two
  processes, a time to live of two, renewal every one, clocks that differ by one,
  five units of time: a lease is renewed, missed, taken over at the boundary and
  taken back. One failure and one crash.
* `progress`: for the crank one replica, two failures and a restart: a second
  replica could only help a round to end, and the safety of their overlap is
  proved for any number. `LeaseOutlasted` allows a crash, or a release that fails
  for good, only while the bounded clock leaves time for the lease to be seen
  expired.
* `backend`: three concurrent calls for ingestion, rate limit and the socket, two
  elsewhere; three deploys of two wallets, of which two meet on a square; a round
  with a bet and its draw for the indexer, with a lost log and a restart; a window
  of three time units in a clock of eight. Calls are interchangeable.
* `page`: two wallets, two clicks, two batches or two calls (interchangeable),
  two rounds and one bet, or one round and two bets, for the cash-out; two own
  messages and two frames; three losses of the connection; four rounds for the
  phases; a board of two by three for the dissolve, with frames before, in and
  after every window.
* `answers`: about half of these, each with the failures that make its property
  hard. The indexer has two instances: a round with its draw, a failure and a
  crash; and two deploys with a lost log besides, read in pages of one, so that
  live logs and the older page move the cursor back, and it passes over what
  failed or was lost. Signing in has two: one wallet that comes or goes once, two
  exchanges of which each may fail and one may not be JSON; and one wallet that
  stays, with three sockets of which one may be answered `RATE_LIMITED`. (Two
  wallets and two tokens are in `page`, for safety.) A chat message may meet as
  many failures as it has attempts to be stored; the page of the chat
  is visited twice, so that rows come back from its cache. Two losses of the
  connection, a bet in another tab, a round that leaves a history of one.
* Deadlock checking is off: with clock, nonces, wallets, clicks and calls
  exhausted an instance has nothing left to do.

### Fairness

`FairSpec` assumes weak fairness of: the clock; `PrepareRound` of the next round
by the crank, `RequestRandomness` and `CancelRound` (all three are attempted by
`RoundManagerService.checkRoundStatus`, once a second, until they succeed); and
each owner's own `Checkpoint` (a player who keeps asking; the handler admits the
owner at any time). Nothing is assumed of the oracle, of bots, or of further
deposits and bets. Weak fairness is enough since each of these stays enabled
until it, or the step that makes it unnecessary, is taken. `ClockExhausted(id)`
excuses only round `id` itself, while it is the current one, when its deadline
or its VRF timeout lies past the bounded clock; a round that is over is excused
nothing.

`MinerSession`'s `FairSpec` assumes weak fairness of: the end of a round with a
bet of the player in it (what `liveness` establishes of the program and the
crank); `Return`, the commit the rollup has been asked for; the next step of
every call in progress, since each `await` resolves or throws; and the player
pressing the cash-out button while it is live. It assumes nothing of late
transactions, bots, empty rounds or further bets; `MaxFailures` makes the
failures finite, without which no retry need ever succeed.

`Crank`'s `FairSpec` assumes weak fairness of: the clock (`Deadline`,
`VrfTimeout`); commits that arrive; and each replica's next await, since cron
calls it every second and every await resolves or throws, finitely often. It
assumes nothing of the oracle, nor of bets. `SchedulerLock`'s assumes it of the
clock, of cron, of statements that are answered and of jobs that end; not of
renewals, which nothing need wait for.

The fairness of `answers` is, part by part, that of the component (`Duty(n)` is
what the running part is fair to, under a number; `part` never changes, so weak
fairness of each number is weak fairness of each duty of that part): calls whose
statements are answered (`Step`), logs and notifications that are delivered,
effects that React runs, requests that come back or fail, timers that fire, a
user's page that stays open where the property says so. It assumes nothing of
the user, of failures, of lost messages, or of the other side being right.

### Known deviations

While the components were modelled, these statements of the repository turned
out not to be kept. Each is stated as a property in its module; no run lists it
since TLC refutes it. To see the counterexample, list the property in the `.cfg`
of the run that has the component.

* `RecordedSquaresCharged` (`Ingestion`),
  `mining-event-ingestion.service.ts:72`: The row of a deploy is written with
  the lowest squares of the mask, as many as the event counts, although the
  program charges the squares of the mask the miner did not hold already;
  README.md:89 says "Deploy reports coming from the client are re-derived from
  the on chain transaction before anything is written to the database." The counterexample
  shows a second deploy over a held square whose row names a square that was not
  charged.
* `LifetimeCountedOnce` (`Ingestion`), `indexer.service.ts:611`:
  handleMinerChange sets lifetimeDeployed to the total on the chain, which
  already has the deploy, and the ingestion of the event then increments it by
  the amount again; mining-event-ingestion.service.spec.ts:119 expects
  "lifetimeDeployed: { increment: 4000n }", each deploy once. The counterexample shows the
  account change before the event and a total above the one on the chain.
* `EveryDeployIndexed` (`Indexer`), `indexer.service.ts:217`: Every log that is
  processed moves the cursor to its own signature, and the finally block of the
  backfill moves it past what failed (:261) and, newest page first, past the
  pages not read yet; what lies below the cursor is never asked for again.
  README.md:64 says the backend "indexes program events out to the frontend over
  WebSocket". The counterexample shows a live log processed before an older one, and a
  restart after which the older deploy is never recorded.
* `EndsReconciled` (`Indexer`), `indexer.service.ts:343`: applyFulfillEvent
  marks the event as processed before it updates the round, with updateMany,
  which matches nothing when the row is not written yet; the row that a late
  account change then creates is without a winner, and the reconciliation finds
  the event among the processed ones and skips it until a restart.
  indexer.service.spec.ts:104 says "recovers a missed fulfillment from VRF
  transaction history". It happens only to a round whose row does not exist yet:
  `answers` checks it, in `NothingWaitsForEver`, for rounds that are known
  (`Known`).
* `StrictWithRedis` (`RealtimeLimit`), `rate-limit.service.ts:110`:
  throwRateLimitError is called inside the try (:107), so the refusal is caught
  here, logged as a failure of Redis, and the request is counted by the empty
  window in memory, which admits it; the warning at :119 says "Realtime rate
  limit is using in-memory fallback. Configure Redis for strict multi-instance
  limits." The counterexample shows Redis configured and answering, and more than the limit
  admitted within one window.
* `SenderKnown` (`ChatGateway`), `websocket.service.ts:332`: handleMessage
  checks the wallet of the socket before it awaits validateReplyTo (:318) and
  reads meta.wallet again after it; an auth message handled meanwhile has
  cleared the session, and the room is sent a message whose sender is null.
  chat.service.ts:27 says "sender: string;".
* `ReactionsReachTheRoom` (`ChatReactions`), `websocket.service.ts:443`: The
  news of a reaction is sent to the sockets of this instance only and is not
  published to Redis as chat messages are; the comment at :442 says "Broadcast
  to all clients in the reactor's current room". The counterexample shows two instances and
  a socket of the room that is not told.
* `SessionIsOfTheWallet` (`ClientAuth`), `privy-provider.tsx:275`: The exchange
  is called with the wallet of the render that started it and its answer is kept
  without a look at the wallet connected now; auth-client.ts:257 says "Backend
  session wallet mismatch" of a session of another wallet, but compares it with
  the same old wallet. The counterexample shows a wallet that changes during the exchange
  and ends up marked as authenticated with the session of the one before.
* `CanSignInAgain` (`ClientAuth`), `use-home-chat-controller.ts:928`: When the
  gateway says the session has expired, the chat is no longer authenticated, but
  the cached token is not cleared and the key of the last dispatch is the same,
  so nothing is sent again (:928) and the composer stays at "connecting" while
  the socket stands; use-websocket.ts:377 says "Session expired. Please sign in
  again."
* `RetryIsThere` (`ChatClient`), `use-home-chat-controller.ts:679`:
  loadRoomHistory replaces the list of messages by the history, so a message
  that is pending or failed loses its row; when its timer runs out the user is
  told "Message failed to send. Tap retry." (:766) and there is no row to tap.
* `RevealByRoundEnd` (`RoundView`), `use-mining-runtime.ts:1002`: A round_end is
  shown only if the page still holds its round at that moment; if the poll has
  brought the next round first, it is marked as processed and its winner is not
  revealed, while the countdown has the page show the end of that round all the
  same. indexer.service.ts:492 says "Gameplay reveal must be driven exclusively
  by round_end."
* `KeepsCompletedTiles` (`RoundView`), `use-mining-runtime.ts:1034`: In a hidden
  tab no frame starts the resolution; when the round_end arrives after the poll
  has brought the next round, the tiles are taken from the current round, and
  the end of the finished one is shown over the tiles of the next.
  round-board.spec.ts:5 says "keeps the completed tile values while the next
  round is already live".
* `FailedDidNotLand` (`DeployView`), `use-mining-runtime.ts:1963`: The report to
  the backend is awaited in the same try as the deploy: when the deploy was
  confirmed and only the report fails, the pending tiles are cleared and the
  player is told "Deployment failed. Please try again." (:1986) of a bet that
  stands.
* `PrizeIsPaid` (`RoundResult`), `round-resolution.ts:274`: A round without
  losers has winnings of zero, and the page then takes the sum of the stakes for
  the pool; control-panel.tsx:302 announces it as "SOL prize", although the
  settlement keeps the fee of the pot and pays the winner less than that.
* `OncePerCooldown` (`Profile`), `profile.service.ts:92`: The time of the last
  change is read at :73 and the name is written later without a condition on it,
  so two saves at once both pass; :100 says "Username can be changed again in
  ${remainingDays} day(s)". The counterexample shows two changes of one name within one
  cooldown.
* `NoPromiseToLosers` (`CashOutView`), `indexer.service.ts:525`: The account
  change of a finished round stores it as completed before the event brings the
  winner, and deriveSettlementPayout (cash-out-state.ts:32) takes a completed
  round without a winner for one that is refunded; cash-out-state.spec.ts:89
  says "does not promise a payout to a losing miner".
* `NoPayoutIsTrue` (`CashOutView`), `mining-event-ingestion.service.ts:72`: The
  squares stored for a deploy are the lowest of its mask, held ones included, so
  the square it really bought may not be among them, and
  getPendingSettlementKind finds no winning square of the wallet;
  control-panel.tsx:111 says "`${settlementRoundLabel} ended without a payout`"
  of a round in which the chain pays the miner.

Smaller ones, without a statement they contradict: a message that timed out and
was sent again is stored twice (`TwiceOnlyAfterTimeout` allows just that); rows
that were pending when the page was left come back from the cache and stay if
the history cannot be fetched; who is answered `RATE_LIMITED` while the socket
authenticates stays out of the chat on that socket; a reply that goes over the
WebSocket is stored without the message it replies to; a chunk of hover cards that fails makes every
card of its call unavailable; the picture a user uploads is put back by an
effect before it is sent; a dissolve that starts before the winner is known
darkens the winner's tile too; a third concurrent toggle breaks the count of
reactions.

## 4. Proofs

All proofs are for arbitrary constants that satisfy the named assumptions
(`FeeAssumption`: fees are proper fractions of the denominator;
`PlayersAssumption`: wallets are distinct, and there are finitely many players
(an authority is a key of 32 bytes) and squares;
`DrawAssumption`: a draw differs from the zero bytes of an undrawn round, which
the refinement mapping needs to tell whether there is a winner yet;
`ParameterAssumption`: amounts, windows and rents are naturals;
`ClockAssumption`: the clock stays a window away from `i64::MAX`).

* `SettlementConserves`: the parts of a settlement add up to the pot. The heart
  is `FeeSplitFits`: the share of the fee that falls on the losing side fits in
  what the losers staked although it was obtained by rounding the *other* share
  down; so none of the saturating subtractions saturates.
* `ShareWithinPot`: a winner's share is at most the round's payable pot, and all
  of it when the winner is alone.
* `TypeCorrect`: `Spec => []TypeOK`. `TypeOK` is not inductive, since the
  draw subtracts the winning stake from the pot: `TypeInv` adds that no square
  holds more than its round's total. One lemma per instruction.
* `PhasesAgree`: `Spec => []PhaseInv`, inductive together with `TypeInv`.
  `AdvancePhase` is the common part of the callback and of cancellation.
* `BetsFrozen` and `RoundsEndOnce`: both follow from `EveryRoundStep`, a case
  analysis of what a step can do to an arbitrary round, and `PhaseInv`, which
  excludes the cases that would break them.
* `BooksBacked`: `Spec => []Backed`, inductive together with `TypeInv`.

The rest of the money is in `LedgerProofs`, on one inductive invariant,
`LedgerInv` (`LedgerInductive`), the conjunction of `TypeInv`, `PhaseInv`,
`Backed` and `Ledger`:

* `Seated`: no miner is settled for, or plays in, a round after the open one, and
  whoever plays in the open one has not been settled for it. `deploy` needs it:
  a bet by someone who was already crossed off would never be paid.
* `OpenRoundBooks`: `deploy` updates totals and counts as it goes, and a player
  who joins from an earlier round overwrites that round's bets. `BetKeepsBooks`
  shows both cases; the joining one rests on the earlier round owing the player
  nothing any more.
* `OpenUndrawn`: the open round has no outcome.
* `ClosedSettleable`: a round that ended holds its rent, what it owes to each
  player not settled yet, and `t` more, with `t` at most the dust of rounding; and
  no more unsettled players are on the winning square than it counted winners.
  `RoundsSolvent` alone is not inductive: that a draw leaves enough follows from
  `OpenRoundBooks`, which is about every player's bets, and from
  `SettlementConserves` and the bounds on shares
  (`DrawnSettleable`); a cancelled round holds every stake (`CanceledSettleable`,
  from `StakesAddUp`: the stakes by square and by player are the same sum).
  Afterwards each checkpoint takes one player's part out of both sides
  (`PaidOnce`), and the passing of the deadline only lessens what is owed
  (`SettleableStays`).

From it: `OpenBooksExact`, `RoundsStaySolvent`, `LittleDust`, each
`Spec => []P`; `OnlyPlayersPaid`, an action property, by a case analysis of what
can change a round that ended; and `LifecycleImplemented`, `Spec =>
ImplementsLifecycle`: `Init` maps to the lifecycle's, `deploy` to `Bet`,
`request_randomness` to `StopBetting`, the callback to `Draw`, `cancel_round` to
`Refund`, `checkpoint` to `Pay` (or to a stutter if it pays nothing), and the
others to a stutter. The payment needs solvency: the lifecycle's pot never goes
below zero.

`SumProofs` makes this possible: the sum of a finite
function is defined by a fold, whose value for every set is an induction over
data. The induction theorems of the library take an operator as a parameter; `SetInduction` states induction
with a *set* of subsets closed under one more element, which first-order provers
can instantiate, and is itself proved from `NumberInduction` and that from the
least element of a set of numbers. Everything else about sums (one element
changed, two sums compared, rows or columns first, what lies within an interval)
follows from it.
`LedgerInv` was checked by TLC on the instance of `claims` before it was proved.

Of `MinerSession`, under `SessionAssumption` (stake and reserve are positive,
finitely many squares; any number of calls, presses, failures and rounds):

* `SessionTypeCorrect`: `Spec => []TypeOK`, which needs the whole of the
  invariant `SessionInv`, since it says that a balance is never overdrawn.
* `AlwaysSettledAtHome`: `Spec => []HomeIsSettled`. It is inductive only with
  the fact that the base layer's copy, while it counts, has the bets and the
  settlement marker the rollup last saw (`CopiesAgree`).
* `NoSquarePaidTwice`: `Spec => []EverySquarePaidOnce`, from `BetsAccounted`,
  which adds that rounds after the player's last one have no bet in them.
* `SessionIsCustody`: `Spec => Custody!Spec`. Every action maps to a step of
  `MinerCustody` or to a stutter. What a call remembers is typed
  (`ClientType`) but otherwise not used in these proofs: they rest on the
  guards of the six instructions, whoever sends them and in whatever order. The
  safety of the balance is the program's doing; the handlers matter for
  `MoneyComesHome`.

Of `SchedulerLock`, under `LeaseAssumption` (any processes, times and skew):

* `LeaseExcludes`: `SchedulingSpec => []Exclusive`. The invariant `LeaseInv` says that a
  process in the job whose last expiry is good by every clock owns the row
  (`FreshOwns`), that the row of an owner in the job has the expiry it wrote
  (`OwnerWrote`), and that a statement compares the row with a time that is past
  (`StampsPast`). Another process's reading is at most `MaxSkew` ahead: that is
  why the skew is in `Fresh`.
* `LeaseSoonExpires`: `SchedulingSpec => []SoonExpired`, because every reading under way,
  in a statement or a renewal, is of a clock that is past (`Readings`).
* `LockTypeCorrect`: `Spec => []TypeOK`.
* `BothAreImplemented`: a behaviour of `Scheduling` is one of `Crank` and one of
  `SchedulerLock`, so what is proved of the lease alone holds beside the crank.

Of `Crank`, under `CrankAssumption` (any replicas, any number of rounds, failures
and restarts): `CrankTypeCorrect`, `CrankCommitsAll`, `CrankReadiesNext`,
`CrankCommitsFinished`. The invariant `CrankInv` joins the three properties with
`Bounds` (every copy of the board is of an earlier or the same round) and with
`ReplicaInv`: what a replica remembers, or has concluded in this tick, is so, and
stays so whatever the others do, since rounds only grow and nothing sent is lost
(`GameGrows`). The two facts lean on each other: a replica that remembers
nothing is right to start one round back because of `NothingLeftBehind`
(`FirstCompletedRight`), and `NothingLeftBehind` survives a request because the
replica that makes it has been through the loop.

Of `Backend`, under `BackendAssumption`, the conjunction of the assumptions of
its services (any number of transactions, calls, workers, sessions, sockets,
instances, wallets and failures, any limits and windows, any set of services that
run; it asks for finitely many calls and transactions, for a log in which a round
is drawn once, which `RoundsEndOnce` shows of the program, and for a database
that keeps rows for a window at least): `BackendTypeCorrect`, `RecordsAreKeptOnce`,
`LimitersHold`, `FamiliesAreChains`, `MessagesReachTheRoomOnce`,
`NothingIsTakenBack`, which state the six properties run `backend` checks, and
`ServicesAreImplemented`: each service that runs does what its own module says,
whatever the others do. The invariant, `BackendInv`, is the conjunction of one
for each service; a step is of one of them and leaves the variables of the
others alone (`StepsOfEach`). What each of the seven rests on:

* `IngestionInv`. The heart is `CommitBooks`: the columns that `BooksMatch` is
  about stay right when one more deploy is committed, whether or not its seat is
  taken. The proof uses no lock but the unique key on the transaction's hash: the
  others decide who waits for whom. That the lifetime total is a natural number
  is a fold over the transactions; `SumProofs` has it. `IngestionTypes` adds that
  a call has attempts left while it is at work, without which the counter of
  attempts would not stay within its bounds.
* `IndexerInv`. `OnlyDrawn`: wherever a winner of a round is, in its row, in the
  memory of ends, in a write under way, it is the one drawn, so that no order in
  which the writes land can take it away or exchange it. `EndsMarked`: a call
  that is announcing an end has put it among the processed ones before its first
  await, alone, and has not announced it yet; that is why two subscriptions, the
  backfill and the reconciliation announce it once, and why a restart, which
  forgets both what was processed and who was at work, begins a new count.
* `RealtimeInv`. What was admitted is kept apart by who admitted it
  (`viaRedis`, `Together`). Until Redis is gone its window has all that it
  admitted in the last `windowMs` (`RedisKnows`), so that any window of time has
  the limit of that at most (`RedisStrict`). Memory counts before Redis is ready
  and after it is gone, in the same windows, which know nothing of what Redis
  admitted in between: `MemoryCounts` keeps what was admitted before the window
  of now and in it apart, together at most one less than the limit more than that
  window has counted, and from it follows `MemoryBounded`, less than twice the
  limit. `FallbackBounded` is the sum of the two.
* `DatabaseInv`. `RoomTaken`: the count in the row and the number of calls that
  have read a row with room in it (`Passing`) are at most the limit and one less
  than the calls. A read adds to the second, a write moves one from the second to
  the first, an expired row starts at one with calls still on their way: that is
  the whole argument for `OvershootBounded`. `RowsCovered`: what a row counts, now
  or when a call read it, was really admitted since its window began, so
  that who is refused has used the limit up (`RefusedOnlyWhenFull`).
* `AuthInv`. `RotatingLive`: the session whose row a rotation has locked is live
  and has no successor until the rotation ends, because whoever wants to change
  the row waits for it. This is what all of the chain rests on: that
  `refreshSession` has read the row and seen a live session before proves nothing,
  since anything may happen between the reading and the update. `ChallengesInv`:
  a challenge is in the hands of one call at most. What can happen to rows is
  stated once, without calls: they age (`RowsAge`), a family starts
  (`FamilyStarts`) or a session is replaced (`SessionReplaced`); each keeps the
  families chains, and only the last needs a live session.
* `GatewayInv`. `ProvenInv`: the session a socket has is one it proved. With it a
  message may be built before or after a reply's target was looked up. `BusInv`
  and `DeliveryInv`: a queue of Redis holds a message once, with the instance it
  came from, and a message that waits for another instance has not reached a
  socket there; each alone is not inductive. That `Relays` skips an instance's own
  publications is what makes the sender's instance no exception (`RoomIsSent`).
  `StagesInv`, `AttemptsInv` and `InactiveInv` say when a message is checked and
  stored, how often, and that a revocation is never taken back.
* `ReactionInv`. `Sums`: a wallet's reaction is stored exactly if an odd number
  of its clicks has changed the rows, as long as every click meets one other at
  most (`MeetOnce`; a third breaks it, see above). A click that finds nothing to
  delete and then cannot create is right to delete, because the one it met has
  created. `Shown`: when no two clicks overlap, what a client was told last is
  what is stored.

`BackendInv` was checked by TLC on the instance of run `backend`. Some of what
the proofs asked for went back into the modules. The page of the indexer is now a
set of transactions dealt with oldest or newest first, as its callers do, in
place of a sequence built by recursion; the two limiters, which were one module
with a case distinction in every action, are two. `BackendRecordsProofs` and
`BackendProofs` begin each service with a lemma (`IngestionOperators` and its
like): an instance has its own copies of the operators its module extends, and the
lemma says they are the same.

Only model-checked: liveness under fairness, which these provers do not do
(`EveryBetIsSettled`, `MoneyComesHome`, `EveryRoundEnds`, `JobKeepsRunning` and
the properties of `answers`); the arithmetic `SharesAreRight` compares with the
page's, whose parts about the program are `SettlementConserves` and
`ShareWithinPot`; and the safety of the page's parts (run `page`).

## 5. Mutants

The definitions named `...Whole`, `...RoundedUp`, `...Late`, `...Stale...`,
`...Always`, `...Unsettled`, `...Uncommitted`, `...Pending`, `...Marked` and so on, marked
`mutant`, are plausible bugs of the operator they stand beside.
`PROJECT.json` pairs each property with one that breaks it, which shows that the
property depends on the code it is about.

## 6. Not modelled

Components with status `not_modelled` or `partly` in `PROJECT.json` say what is
left out. In short: `close.rs` is unreachable and `update.rs` writes what nothing
reads; `commit_checkpoint` is sent by nothing but an end-to-end test; of
retention only the deletions that meet calls in progress are modelled (rate
limits, challenges, sessions), not those of old messages, failed transactions
and leases a day past their end; analytics, health and configuration are queries
and wiring; the frontend's views are rendering, apart from what `CashOutView`
and `Dissolve` say of them; the elimination functions of `round-resolution.ts`
are used by nothing but their test; nothing writes a profile's rewards or rounds
won.

## 7. Plan

Theorems still worth proving: of the page's parts, first the chat client (what is
shown was sent, and is sent once) and the sign-in (the session is the wallet's),
in the way of `Backend`: a module that has the parts side by side, and an
invariant for each.
