------------------------------ MODULE DeployView ------------------------------
(***************************************************************************)
(* What a player's page shows of the player's own bets (useMiningRuntime). *)
(*                                                                         *)
(* A click is a flow of its own: it waits for the sign-in and the deploy   *)
(* readiness, shows the bet as pending, has the wallet sign it, sends it,  *)
(* waits for its confirmation and reports its signature.  Meanwhile the    *)
(* same bet comes back as a new_deploy message and in the poll of the      *)
(* round's deployments, in any order, and the round may end.  A bet is     *)
(* shown from two books, the pending ones and the ledger of recorded ones; *)
(* the flows are of one wallet, which may also play in another tab.        *)
(*                                                                         *)
(* External: the program (a bet is charged the squares the wallet does not *)
(* hold), the recording of a bet (Ingestion), lost messages.  A row of the *)
(* database is the bet it is of; its squares are those the decoder gives.  *)
(***************************************************************************)
EXTENDS Integers, FiniteSets

CONSTANTS
  Squares,              \* the 25 tiles
  Clicks,               \* bound: clicks on Deploy in this page
  OtherTab,             \* bound: bets of the wallet made elsewhere
  MaxRounds             \* bound: rounds played

DeployViewAssumption ==
  Squares \subseteq Nat /\ Clicks \intersect OtherTab = {} /\ MaxRounds \in Nat \ {0}

Bets == Clicks \union OtherTab
Rounds == 1..MaxRounds

VARIABLES
  chainRound,           \* the round the program plays
  sent,                 \* signed bets the network has
  charged,              \* squares a bet was charged, {} before it lands
  recorded,             \* rows of the database
  newDeploys, roundEnds,        \* messages on the way to the page
  bet,                  \* round, squares and nonce of every bet
  flow,                 \* where handleManualDeploy is
  isDeployPending,
  currentRoundId,
  pendingDeploys,
  deploymentLedger,     \* deploymentLedgerByRound
  roundDeployments,     \* the answer of the poll that is on its way
  processed             \* processedRoundEndIdsRef

chain == <<chainRound, sent, charged, recorded>>
messages == <<newDeploys, roundEnds>>
page == <<isDeployPending, currentRoundId, pendingDeploys, deploymentLedger, roundDeployments, processed>>
vars == <<chain, messages, bet, flow, page>>

Landed(b) == charged[b] # {}
Held(r) == UNION {charged[b] : b \in {c \in Bets : bet[c].round = r}}

\* the squares of a row: the lowest of the mask, as many as were charged
RowSquares(b) ==
  {s \in bet[b].squares :
     Cardinality({u \in bet[b].squares : u < s}) < Cardinality(charged[b])}
-----------------------------------------------------------------------------
(* mergeDeployments: one entry per transaction, the later one stays. *)
\* mutant: an entry per id; a message has no id and gets one of its own
DeploymentKeyById(d) == <<d.tx, d.id>>
DeploymentKey(d) == <<d.tx>>
\* mutant: the answer of the poll is the ledger
MergeReplaces(current, incoming) == incoming
MergeDeployments(current, incoming) ==
  {d \in current : \A e \in incoming : DeploymentKey(e) # DeploymentKey(d)} \union incoming

(* reconcilePendingByRealtimeDeploy: the bet p is the bet that was recorded. *)
\* mutant: the number of squares is enough
SameNumber(p, b) ==
  /\ bet[p.id].round = bet[b].round
  /\ \/ p.txHash = {b}
     \/ ~p.old /\ Cardinality(bet[p.id].squares) = Cardinality(RowSquares(b))
\* mutant: after the window not even by its transaction
WithinWindow(p, b) ==
  /\ bet[p.id].round = bet[b].round
  /\ ~p.old
  /\ \/ p.txHash = {b}
     \/ bet[p.id].squares = RowSquares(b)
Settles(p, b) ==
  /\ bet[p.id].round = bet[b].round
  /\ \/ p.txHash = {b}
     \/ ~p.old /\ bet[p.id].squares = RowSquares(b)

Reconciled(b) == {p \in pendingDeploys : ~Settles(p, b)}
WithoutClient(f) == {p \in pendingDeploys : p.id # f}
\* mutant: the bet with its transaction is one more
WithTxHashToo(f) == pendingDeploys \union {[p EXCEPT !.txHash = {f}] : p \in pendingDeploys \ WithoutClient(f)}
WithTxHash(f) == WithoutClient(f) \union {[p EXCEPT !.txHash = {f}] : p \in pendingDeploys \ WithoutClient(f)}

OfRound(r) == {p \in pendingDeploys : bet[p.id].round = r}
LockedIn(r) == UNION {RowSquares(d.tx) : d \in {e \in deploymentLedger : bet[e.tx].round = r}}
BlockedIn(r) == LockedIn(r) \union UNION {bet[p.id].squares : p \in OfRound(r)}
-----------------------------------------------------------------------------
(* handleDeploy and handleManualDeploy. *)
Click(f, squares) ==
  /\ flow[f] = "idle" /\ ~isDeployPending
  /\ flow' = [flow EXCEPT ![f] = "ready?"]
  /\ bet' = [bet EXCEPT ![f] = [round |-> currentRoundId, squares |-> squares, nonce |-> 0]]
  /\ UNCHANGED <<chain, messages, page>>

\* withAuthReady and ensureDeployReady: not signed in, or may not deploy
NotReady(f) ==
  /\ flow[f] = "ready?"
  /\ flow' = [flow EXCEPT ![f] = "done"]
  /\ UNCHANGED <<chain, messages, bet, page>>

Pend(f) ==
  /\ flow[f] = "ready?"
  /\ flow' = [flow EXCEPT ![f] = "build"]
  /\ pendingDeploys' = pendingDeploys \union {[id |-> f, txHash |-> {}, old |-> FALSE]}
  /\ isDeployPending' = TRUE
  /\ UNCHANGED <<chain, messages, bet, currentRoundId, deploymentLedger, roundDeployments, processed>>

\* ensureMinerReady and buildDeployTransaction
Build(f) ==
  /\ flow[f] = "build"
  /\ flow' = [flow EXCEPT ![f] = "sign"]
  /\ bet' = [bet EXCEPT ![f].nonce = Cardinality({b \in Bets : Landed(b)})]
  /\ UNCHANGED <<chain, messages, page>>

\* submitWalletTransaction
SignAndSend(f) ==
  /\ flow[f] = "sign"
  /\ flow' = [flow EXCEPT ![f] = "confirm"]
  /\ sent' = sent \union {f}
  /\ UNCHANGED <<chainRound, charged, recorded, messages, bet, page>>

\* attachPendingTxHash
Confirmed(f) ==
  /\ flow[f] = "confirm" /\ Landed(f)
  /\ flow' = [flow EXCEPT ![f] = "report"]
  /\ pendingDeploys' = WithTxHash(f)
  /\ UNCHANGED <<chain, messages, bet, isDeployPending, currentRoundId, deploymentLedger,
                 roundDeployments, processed>>

\* reportDeploymentSignature returned
Reported(f) ==
  /\ flow[f] = "report" /\ f \in recorded
  /\ flow' = [flow EXCEPT ![f] = "done"]
  /\ pendingDeploys' = Reconciled(f)
  /\ isDeployPending' = FALSE
  /\ UNCHANGED <<chain, messages, bet, currentRoundId, deploymentLedger, roundDeployments, processed>>

\* clearPendingByClientId
Ends(f, outcome) ==
  /\ flow' = [flow EXCEPT ![f] = outcome]
  /\ pendingDeploys' = WithoutClient(f)
  /\ isDeployPending' = FALSE
  /\ UNCHANGED <<chain, messages, bet, currentRoundId, deploymentLedger, roundDeployments, processed>>

\* refused by the wallet or the program, or no confirmation in time
SubmitFails(f) == flow[f] \in {"sign", "confirm"} /\ Ends(f, "refused")
\* thrown by ensureMinerReady, or no answer to the report
Fails(f) == flow[f] \in {"build", "report"} /\ Ends(f, "failed")
-----------------------------------------------------------------------------
(* The program and the backend. *)
MayLand(b) ==
  /\ ~Landed(b) /\ bet[b].round = chainRound
  /\ bet[b].nonce = Cardinality({c \in Bets : Landed(c)})
Charge(b) ==
  LET selected == bet[b].squares \ Held(chainRound)
  IN selected # {} /\ charged' = [charged EXCEPT ![b] = selected]

Lands(b) ==
  /\ b \in sent /\ MayLand(b) /\ Charge(b)
  /\ UNCHANGED <<chainRound, sent, recorded, messages, bet, flow, page>>

PlacesElsewhere(b, squares) ==
  /\ b \notin sent /\ squares \ Held(chainRound) # {}
  /\ sent' = sent \union {b}
  /\ bet' = [bet EXCEPT ![b] = [round |-> chainRound, squares |-> squares, nonce |-> 0]]
  /\ charged' = [charged EXCEPT ![b] = squares \ Held(chainRound)]
  /\ UNCHANGED <<chainRound, recorded, messages, flow, page>>

\* a report or the log subscription; the first to record a bet announces it
Records(b) ==
  /\ Landed(b) /\ b \notin recorded
  /\ recorded' = recorded \union {b}
  /\ newDeploys' \in {newDeploys, newDeploys \union {b}}
  /\ UNCHANGED <<chainRound, sent, charged, roundEnds, bet, flow, page>>

RoundEnds ==
  /\ chainRound < MaxRounds
  /\ chainRound' = chainRound + 1
  /\ roundEnds' \in {roundEnds, roundEnds \union {chainRound}}
  /\ UNCHANGED <<sent, charged, recorded, newDeploys, bet, flow, page>>
-----------------------------------------------------------------------------
(* What the page hears. *)
OnNewDeploy(b) ==
  /\ b \in newDeploys
  /\ newDeploys' = newDeploys \ {b}
  /\ deploymentLedger' = MergeDeployments(deploymentLedger, {[tx |-> b, id |-> "local"]})
  /\ pendingDeploys' = Reconciled(b)
  /\ UNCHANGED <<chain, roundEnds, bet, flow, isDeployPending, currentRoundId, roundDeployments, processed>>

OnRoundEnd(r) ==
  /\ r \in roundEnds
  /\ roundEnds' = roundEnds \ {r}
  /\ processed' = processed \union {r}
  /\ pendingDeploys' = pendingDeploys \ OfRound(r)
  /\ UNCHANGED <<chain, newDeploys, bet, flow, isDeployPending, currentRoundId, deploymentLedger,
                 roundDeployments>>

FetchCurrentRound ==
  /\ currentRoundId # chainRound
  /\ currentRoundId' = chainRound
  /\ roundDeployments' = {}
  /\ UNCHANGED <<chain, messages, bet, flow, isDeployPending, pendingDeploys, deploymentLedger, processed>>

\* roundDeploymentsQuery: the rows are read, and arrive
Fetch ==
  /\ roundDeployments = {}
  /\ roundDeployments' = {b \in recorded : bet[b].round = currentRoundId}
  /\ UNCHANGED <<chain, messages, bet, flow, isDeployPending, currentRoundId, pendingDeploys,
                 deploymentLedger, processed>>

Rows == {[tx |-> b, id |-> "row"] : b \in roundDeployments}
Fetched ==
  /\ roundDeployments # {}
  /\ deploymentLedger' = MergeDeployments(deploymentLedger, Rows)
  /\ roundDeployments' = {}
  /\ UNCHANGED <<chain, messages, bet, flow, isDeployPending, currentRoundId, pendingDeploys, processed>>

\* PENDING_DEPLOY_FALLBACK_WINDOW_MS
WindowPasses ==
  /\ \E p \in pendingDeploys : ~p.old
  /\ pendingDeploys' = {[p EXCEPT !.old = TRUE] : p \in pendingDeploys}
  /\ UNCHANGED <<chain, messages, bet, flow, isDeployPending, currentRoundId, deploymentLedger,
                 roundDeployments, processed>>
-----------------------------------------------------------------------------
Init ==
  /\ chainRound = 1 /\ sent = {} /\ charged = [b \in Bets |-> {}] /\ recorded = {}
  /\ newDeploys = {} /\ roundEnds = {}
  /\ bet = [b \in Bets |-> [round |-> 1, squares |-> {}, nonce |-> 0]]
  /\ flow = [f \in Clicks |-> "idle"]
  /\ isDeployPending = FALSE /\ currentRoundId = 1
  /\ pendingDeploys = {} /\ deploymentLedger = {} /\ roundDeployments = {} /\ processed = {}

Answered(f) ==
  \/ NotReady(f) \/ Pend(f) \/ Build(f) \/ SignAndSend(f)
  \/ Confirmed(f) \/ Reported(f) \/ SubmitFails(f) \/ Fails(f)
Flow(f) == Answered(f) \/ \E squares \in (SUBSET Squares) \ {{}} : Click(f, squares)
World ==
  \/ \E b \in Bets : Lands(b) \/ Records(b)
  \/ \E b \in OtherTab, squares \in (SUBSET Squares) \ {{}} : PlacesElsewhere(b, squares)
  \/ RoundEnds
Page ==
  \/ \E b \in Bets : OnNewDeploy(b)
  \/ \E r \in Rounds : OnRoundEnd(r)
  \/ FetchCurrentRound \/ Fetch \/ Fetched \/ WindowPasses
Next == (\E f \in Clicks : Flow(f)) \/ World \/ Page

(* The wallet answers, the program takes a bet or the wait for it ends, a   *)
(* report is answered, and the polls go on: each ends in its own time.      *)
Fairness ==
  /\ \A f \in Clicks : WF_vars(Answered(f))
  /\ WF_vars(FetchCurrentRound) /\ WF_vars(Fetched)
  /\ WF_vars(Fetch /\ roundDeployments' # {})
Spec == Init /\ [][Next]_vars /\ Fairness
-----------------------------------------------------------------------------
TypeOK ==
  /\ chainRound \in Rounds /\ currentRoundId \in Rounds
  /\ sent \subseteq Bets /\ recorded \subseteq Bets /\ charged \in [Bets -> SUBSET Squares]
  /\ newDeploys \subseteq recorded /\ roundEnds \subseteq Rounds /\ processed \subseteq Rounds
  /\ bet \in [Bets -> [round : Rounds, squares : SUBSET Squares, nonce : 0..Cardinality(Bets)]]
  /\ flow \in [Clicks -> {"idle", "ready?", "build", "sign", "confirm", "report", "done", "refused", "failed"}]
  /\ isDeployPending \in BOOLEAN
  /\ pendingDeploys \subseteq [id : Clicks, txHash : {{}} \union {{b} : b \in Bets}, old : BOOLEAN]
  /\ \A p, q \in pendingDeploys : p.id = q.id => p = q
  /\ deploymentLedger \subseteq [tx : recorded, id : {"local", "row"}]
  /\ roundDeployments \subseteq recorded

Running(f) == flow[f] \in {"build", "sign", "confirm", "report"}

\* A bet is shown as pending only while its flow runs: however the messages, the
\* report and the two minutes of the window interleave, no pending bet is left
\* behind that nothing will ever take away.
PendingHasFlow == \A p \in pendingDeploys : Running(p.id)

\* The tiles of a bet that is under way stay blocked until the page has heard the
\* end of its round or the bet is recorded; it is dropped for another bet of the
\* wallet only when one on the very same tiles was recorded.
UnderWayIsBlocked ==
  \A f \in Clicks :
    Running(f) /\ bet[f].round \notin processed =>
      \/ bet[f].squares \subseteq BlockedIn(bet[f].round)
      \/ f \in recorded
      \/ \E b \in recorded : bet[b].round = bet[f].round /\ RowSquares(b) = bet[f].squares

\* A bet that came as a message and in a poll is one entry, not two, of the sum
\* shown as deployed.
OneEntryPerBet == \A d, e \in deploymentLedger : d.tx = e.tx => d = e

\* What the page has seen recorded it never forgets: an answer of the poll that
\* was read before the message came does not take the bet away again.
KeepsDeployments == {d.tx : d \in deploymentLedger} \subseteq {d.tx : d \in deploymentLedger'}
NeverForgotten == [][KeepsDeployments]_vars

\* Every recorded bet is in the end shown, and counted once, whichever of the
\* messages are lost, unless the page has moved on to the next round.
Counted(b) ==
  \/ currentRoundId # bet[b].round
  \/ (\E d \in deploymentLedger : d.tx = b) /\ \A p \in pendingDeploys : p.id # b
EveryBetCountedOnce == \A b \in Bets : (b \in recorded) ~> Counted(b)

\* "Deployment failed. Please try again." is said of bets that did not land: the
\* same message stands for a report that was not answered.
FailedDidNotLand == \A f \in Clicks : flow[f] = "failed" => ~Landed(f)
=============================================================================
