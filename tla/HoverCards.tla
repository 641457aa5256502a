----------------------------- MODULE HoverCards -----------------------------
(***************************************************************************)
(* The profile cards of the chat: a cache by wallet that the page fills    *)
(* with batches of at most a chunk of wallets (prefetchHoverBatch), on     *)
(* every new message and every 15 seconds, and that the player's own       *)
(* profile writes into as well.  A card that is ready is asked for again   *)
(* when it is older than 15 seconds; batches overlap, their answers come   *)
(* in any order, and a request may fail.                                   *)
(*                                                                         *)
(* A profile is the number of times it was changed.                        *)
(***************************************************************************)
EXTENDS Integers, FiniteSets, FiniteSetsExt

CONSTANTS
  Wallets, Own,         \* authors of messages; the wallet of the page
  Batches,              \* bound: calls of prefetchHoverBatch at a time
  ChunkSize,            \* 100
  MaxChanges            \* bound: changes of a profile

HoverCardsAssumption ==
  /\ Own \in Wallets /\ ChunkSize \in Nat \ {0} /\ MaxChanges \in Nat

Unknown == -1           \* placeholderProfile
NoCard == [status |-> "none", data |-> Unknown, fresh |-> FALSE]
NoBatch == [stage |-> "idle", pending |-> {}, left |-> {}, chunk |-> {}, answer |-> <<>>]

VARIABLES
  profile,      \* the database
  authors,      \* wallets of the last 120 messages
  userName,     \* the own profile as the page's context has it
  cache,        \* userProfileCacheRef
  batch         \* calls of prefetchHoverBatch under way

vars == <<profile, authors, userName, cache, batch>>
-----------------------------------------------------------------------------
Card(status, data) == [status |-> status, data |-> data, fresh |-> TRUE]

\* mutant: a card that is ready is never asked for again
PendingOnce(w) == cache[w].status \in {"none", "error"}
\* mutant: a card that could not be had stays so
PendingNeverFailed(w) == cache[w].status # "error" /\ ~cache[w].fresh /\ cache[w].status # "loading"
Pending(w) ==
  \/ cache[w].status \in {"none", "error"}
  \/ cache[w].status = "ready" /\ ~cache[w].fresh

PrefetchHoverBatch(b, wallets) ==
  LET pending == {w \in wallets : Pending(w)}
  IN /\ batch[b] = NoBatch /\ pending # {}
     /\ batch' = [batch EXCEPT ![b] = [NoBatch EXCEPT !.stage = "next", !.pending = pending, !.left = pending]]
     /\ cache' = [w \in Wallets |-> IF w \in pending /\ cache[w] = NoCard
                                    THEN Card("loading", Unknown) ELSE cache[w]]

\* a new message, and the interval of 15 seconds
MessageArrives(b, w) ==
  /\ w \notin authors /\ authors' = authors \union {w}
  /\ PrefetchHoverBatch(b, authors')
  /\ UNCHANGED <<profile, userName>>
Interval(b) ==
  /\ PrefetchHoverBatch(b, authors)
  /\ UNCHANGED <<profile, authors, userName>>

\* mutant: all that is left in one request
WholeLength(left) == Cardinality(left)
ChunkLength(left) == Min({ChunkSize, Cardinality(left)})

NextChunk(b) ==
  /\ batch[b].stage = "next"
  /\ \E chunk \in kSubset(ChunkLength(batch[b].left), batch[b].left) :
       batch' = [batch EXCEPT ![b].stage = "asked", ![b].chunk = chunk, ![b].left = @ \ chunk]
  /\ UNCHANGED <<profile, authors, userName, cache>>

\* buildHoverMap, for the POST of the chunk
GetHoverBatch(b) ==
  /\ batch[b].stage = "asked"
  /\ batch' = [batch EXCEPT ![b].stage = "answered",
                            ![b].answer = [w \in batch[b].chunk |-> profile[w]]]
  /\ UNCHANGED <<profile, authors, userName, cache>>

ChunkArrives(b) ==
  /\ batch[b].stage = "answered"
  /\ cache' = [w \in Wallets |-> IF w \in batch[b].chunk THEN Card("ready", batch[b].answer[w])
                                 ELSE cache[w]]
  /\ batch' = [batch EXCEPT ![b] = IF @.left = {} THEN NoBatch
                                   ELSE [@ EXCEPT !.stage = "next", !.chunk = {}, !.answer = <<>>]]
  /\ UNCHANGED <<profile, authors, userName>>

\* mutant: only the cards of the chunk that failed
LostChunk(b) == batch[b].chunk
Lost(b) == batch[b].pending

ChunkFails(b) ==
  /\ batch[b].stage \in {"asked", "answered"}
  /\ cache' = [w \in Wallets |-> IF w \in Lost(b) THEN Card("error", Unknown) ELSE cache[w]]
  /\ batch' = [batch EXCEPT ![b] = NoBatch]
  /\ UNCHANGED <<profile, authors, userName>>

Expire(w) ==
  /\ cache[w].status = "ready" /\ cache[w].fresh
  /\ cache' = [cache EXCEPT ![w].fresh = FALSE]
  /\ UNCHANGED <<profile, authors, userName, batch>>
-----------------------------------------------------------------------------
Change(w) ==
  /\ profile[w] < MaxChanges
  /\ profile' = [profile EXCEPT ![w] = @ + 1]
  /\ UNCHANGED <<authors, userName, cache, batch>>

\* The context reads the own profile again (Profile), and the effect writes it.
OwnProfile ==
  /\ userName # profile[Own]
  /\ userName' = profile[Own]
  /\ cache' = [cache EXCEPT ![Own] = Card("ready", profile[Own])]
  /\ UNCHANGED <<profile, authors, batch>>
-----------------------------------------------------------------------------
Init ==
  /\ profile = [w \in Wallets |-> 0] /\ authors = {} /\ userName = Unknown
  /\ cache = [w \in Wallets |-> NoCard] /\ batch = [b \in Batches |-> NoBatch]

Step(b) == NextChunk(b) \/ GetHoverBatch(b) \/ ChunkArrives(b) \/ ChunkFails(b)
Next ==
  \/ \E b \in Batches :
       \/ \E w \in Wallets : MessageArrives(b, w)
       \/ Interval(b) \/ Step(b)
  \/ \E w \in Wallets : Expire(w) \/ Change(w)
  \/ OwnProfile

(* A request is answered or fails, the interval and the clock go on.       *)
Fairness ==
  /\ \A b \in Batches : WF_vars(Step(b))
  /\ WF_vars(\E b \in Batches : Interval(b))
  /\ \A w \in Wallets : WF_vars(Expire(w))
  /\ WF_vars(OwnProfile)
Spec == Init /\ [][Next]_vars /\ Fairness
-----------------------------------------------------------------------------
TypeOK ==
  /\ profile \in [Wallets -> 0..MaxChanges] /\ authors \subseteq Wallets
  /\ userName \in Unknown..MaxChanges
  /\ \A w \in Wallets :
       /\ cache[w].status \in {"none", "loading", "ready", "error"} /\ cache[w].fresh \in BOOLEAN
       /\ cache[w].data \in (IF cache[w].status = "ready" THEN 0..profile[w] ELSE {Unknown})
  /\ \A b \in Batches :
       /\ batch[b].stage \in {"idle", "next", "asked", "answered"}
       /\ batch[b].chunk \union batch[b].left \subseteq batch[b].pending
       /\ Cardinality(batch[b].chunk) <= ChunkSize

Awaits(b, w) == w \in batch[b].left \union batch[b].chunk

\* A card is loading only while a call still has to answer for it, so that no card is
\* left loading: a loading card is never asked for again.
LoadingIsAwaited ==
  \A w \in Wallets : cache[w].status = "loading" => \E b \in Batches : Awaits(b, w)

\* Overlapping calls, old answers and failures notwithstanding, a card that stays up
\* comes to show the profile as it is.
UpToDate(w) == cache[w].status = "ready" /\ w \in authors => cache[w].data = profile[w]
CardsCatchUp == \A w \in Wallets : <>[]UpToDate(w)

\* A card that could not be had is asked for again.
Failed(w) == cache[w].status = "error" /\ w \in authors
ErrorsAreRetried ==
  \A w \in Wallets : Failed(w) ~> (cache[w].status = "ready" \/ \E b \in Batches : Awaits(b, w))
=============================================================================
