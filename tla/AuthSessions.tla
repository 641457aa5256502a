---------------------------- MODULE AuthSessions ----------------------------
(***************************************************************************)
(* Wallet challenges and the sessions of the backend (AuthService).  A     *)
(* session is issued for a Privy token or a signed challenge and starts a  *)
(* family; refreshing it replaces it by the next of the family, in one     *)
(* database transaction; a logout, or a refresh token that comes back      *)
(* after it was replaced, revokes the family.  Calls overlap: two tabs     *)
(* refresh at once, a logout meets a refresh, a call that failed is made   *)
(* again, and the retention job deletes what is expired or revoked.        *)
(*                                                                         *)
(* Every statement is a step.  A row that a transaction has changed stays  *)
(* locked, and as it was for everybody else, until it commits.  An update  *)
(* of many rows finds them first (its snapshot), waits for those that are  *)
(* locked, and looks at each again before it changes it.                   *)
(*                                                                         *)
(* Tokens stand for the session they name: secrets, signatures and the     *)
(* rate limits (module RateLimit) are left out.  A token or a challenge    *)
(* may be found expired whenever its time is looked at.  External: Privy,  *)
(* wallets, time, the database.                                            *)
(***************************************************************************)
EXTENDS Integers, FiniteSets

CONSTANTS
  Callers,
  Challenges,
  MaxSessions,            \* bound: sessions ever issued
  MaxFailures             \* bound: calls that fail half way

AuthAssumption == MaxSessions \in Nat \ {0} /\ MaxFailures \in Nat

Ids == 1..MaxSessions
NoId == 0

VARIABLES
  authSession,        \* rows: familyId, parentSessionId, replacedBySessionId, revoked, deleted
  consumed,           \* challenges with consumedAt, or deleted
  call,               \* pc, session or challenge presented, snapshot of an update
  issued,             \* history: sessions issued for each challenge
  failures

database == <<authSession, consumed, issued>>
vars == <<database, call, failures>>

Places == {"idle", "findChallenge", "consume", "create", "find", "rotate",
           "rotating", "guard", "logout", "scan", "revoke"}
Session == [familyId : Ids \union {NoId}, parentSessionId : Ids \union {NoId},
            replacedBySessionId : Ids \union {NoId}, revoked : BOOLEAN, deleted : BOOLEAN]
NoSession == [familyId |-> NoId, parentSessionId |-> NoId,
              replacedBySessionId |-> NoId, revoked |-> FALSE, deleted |-> FALSE]

Issued(s) == authSession[s].familyId # NoId
Exists(s) == Issued(s) /\ ~authSession[s].deleted
Live(s) == Exists(s) /\ ~authSession[s].revoked
FamilyOf(s) == authSession[s].familyId
Family(f) == {s \in Ids : Exists(s) /\ FamilyOf(s) = f}

\* randomUUID
Fresh(s) == s \in Ids /\ ~Issued(s) /\ \A t \in Ids : t < s => Issued(t)

\* bound: an id is left for every call that may issue a session
Creating == {"findChallenge", "consume", "create", "find", "rotate", "rotating"}
IdsLeft ==
  Cardinality({s \in Ids : Issued(s)}) +
  Cardinality({c \in Callers : call[c].pc \in Creating}) < MaxSessions

NoCall == [pc |-> "idle", session |-> NoId, challenge |-> {}, snapshot |-> {}]
GoTo(c, p) == call' = [call EXCEPT ![c].pc = p]
Return(c) == call' = [call EXCEPT ![c] = NoCall]
Begin(c, p, s, ch) ==
  /\ call[c] = NoCall
  /\ call' = [call EXCEPT ![c] = [NoCall EXCEPT !.pc = p, !.session = s, !.challenge = ch]]
  /\ UNCHANGED database
-----------------------------------------------------------------------------
(* exchangePrivyToken, verifyAndIssueSession *)
ExchangePrivyToken(c) == IdsLeft /\ Begin(c, "create", NoId, {})
VerifyChallenge(c, ch) == IdsLeft /\ Begin(c, "findChallenge", NoId, {ch})

FindChallenge(c) ==
  /\ call[c].pc = "findChallenge"
  /\ \/ Return(c)                                 \* expired or consumed
     \/ call[c].challenge \cap consumed = {} /\ GoTo(c, "consume")
  /\ UNCHANGED database

\* mutant: WHERE id = ..., without consumedAt IS NULL
ConsumesRead(c) == TRUE
\* what the WHERE of the update matches
Consumes(c) == call[c].challenge \cap consumed = {}

Consume(c) ==
  /\ call[c].pc = "consume"
  /\ IF Consumes(c)
       THEN consumed' = consumed \union call[c].challenge /\ GoTo(c, "create")
       ELSE Return(c) /\ UNCHANGED consumed
  /\ UNCHANGED <<authSession, issued>>

CreateSession(c) ==
  /\ call[c].pc = "create"
  /\ \E s \in Ids :
       /\ Fresh(s)
       /\ authSession' = [authSession EXCEPT ![s] = [NoSession EXCEPT !.familyId = s]]
  /\ issued' = [ch \in Challenges |-> issued[ch] + IF ch \in call[c].challenge THEN 1 ELSE 0]
  /\ Return(c)
  /\ UNCHANGED consumed
-----------------------------------------------------------------------------
(* refreshSession *)
RefreshSession(c, s) == IdsLeft /\ Exists(s) /\ Begin(c, "find", s, {})

FindSession(c) ==
  /\ call[c].pc = "find"
  /\ LET s == call[c].session IN
     \/ Exists(s) /\ authSession[s].replacedBySessionId # NoId /\ GoTo(c, "scan")
     \/ ~(Exists(s) /\ authSession[s].replacedBySessionId # NoId) /\ Return(c)
     \/ Live(s) /\ authSession[s].replacedBySessionId = NoId /\ GoTo(c, "rotate")
  /\ UNCHANGED database

\* mutants: no row lock; a row that is read is locked as well
LockedNever(s) == FALSE
LockedByReaders(s) ==
  \E c \in Callers : call[c].pc \in {"rotate", "rotating"} /\ call[c].session = s
Locked(s) == \E c \in Callers : call[c].pc = "rotating" /\ call[c].session = s

\* mutants: one of the two conditions of the WHERE is missing
RotatesRevoked(s) == Exists(s) /\ authSession[s].replacedBySessionId = NoId
RotatesAnything(s) == Exists(s)
Rotates(s) == Live(s) /\ authSession[s].replacedBySessionId = NoId

\* the conditional update waits for the row; no row: reuse
Rotate(c) ==
  /\ call[c].pc = "rotate" /\ ~Locked(call[c].session)
  /\ GoTo(c, IF Rotates(call[c].session) THEN "rotating" ELSE "scan")
  /\ UNCHANGED database

\* the next session is created and the transaction commits
Commit(c) ==
  /\ call[c].pc = "rotating"
  /\ LET s == call[c].session IN \E t \in Ids :
       /\ Fresh(t)
       /\ authSession' = [authSession EXCEPT
            ![s].revoked = TRUE, ![s].replacedBySessionId = t,
            ![t] = [NoSession EXCEPT !.familyId = FamilyOf(s), !.parentSessionId = s]]
  /\ Return(c)
  /\ UNCHANGED <<consumed, issued>>
-----------------------------------------------------------------------------
(* logout, behind the guard that verifies the access token *)
Logout(c, s) == Exists(s) /\ Begin(c, "guard", s, {})

GetActiveSession(c) ==
  /\ call[c].pc = "guard"
  /\ \/ Return(c)                                 \* revoked or expired
     \/ Live(call[c].session) /\ GoTo(c, "logout")
  /\ UNCHANGED database

RevokeSessionFamily(c) ==
  /\ call[c].pc = "logout"
  /\ IF Exists(call[c].session) THEN GoTo(c, "scan") ELSE Return(c)
  /\ UNCHANGED database

(* revokeSessionFamilyByFamilyId: every session has a familyId, so its     *)
(* second update, of rows without one, matches nothing                     *)
ScanFamily(c) ==
  /\ call[c].pc = "scan"
  /\ call' = [call EXCEPT ![c].pc = "revoke",
                ![c].snapshot = {s \in Family(FamilyOf(call[c].session)) : Live(s)}]
  /\ UNCHANGED database

RevokeFamily(c) ==
  /\ call[c].pc = "revoke"
  /\ \A s \in call[c].snapshot : ~Locked(s)
  /\ authSession' = [s \in Ids |->
       IF s \in call[c].snapshot THEN [authSession[s] EXCEPT !.revoked = TRUE]
       ELSE authSession[s]]
  /\ Return(c)
  /\ UNCHANGED <<consumed, issued>>
-----------------------------------------------------------------------------
\* mutant: two statements, not a transaction: the replaced session has no successor
RolledBackHalf(c) ==
  IF call[c].pc = "rotating"
    THEN [authSession EXCEPT ![call[c].session].revoked = TRUE]
    ELSE authSession
\* what a call that fails leaves behind
RolledBack(c) == authSession

Fail(c) ==
  /\ call[c].pc # "idle" /\ failures < MaxFailures
  /\ failures' = failures + 1
  /\ authSession' = RolledBack(c)
  /\ Return(c)
  /\ UNCHANGED <<consumed, issued>>

(* The retention job: a row that is expired or has been revoked for a day  *)
(* is deleted, a challenge that is expired or was consumed as well         *)
CleanAuthSessions(s) ==
  /\ Exists(s) /\ ~Locked(s)
  /\ authSession' = [authSession EXCEPT ![s].deleted = TRUE]
  /\ UNCHANGED <<consumed, issued>>

CleanWalletChallenges(ch) ==
  /\ consumed' = consumed \union {ch}
  /\ UNCHANGED <<authSession, issued>>

Retention ==
  /\ (\E s \in Ids : CleanAuthSessions(s)) \/ (\E ch \in Challenges : CleanWalletChallenges(ch))
  /\ UNCHANGED <<call, failures>>

Step(c) ==
  /\ \/ FindChallenge(c) \/ Consume(c) \/ CreateSession(c) \/ FindSession(c)
     \/ Rotate(c) \/ Commit(c) \/ GetActiveSession(c) \/ RevokeSessionFamily(c)
     \/ ScanFamily(c) \/ RevokeFamily(c)
  /\ UNCHANGED failures

Call(c) ==
  /\ \/ ExchangePrivyToken(c)
     \/ \E ch \in Challenges : VerifyChallenge(c, ch)
     \/ \E s \in Ids : RefreshSession(c, s) \/ Logout(c, s)
  /\ UNCHANGED failures

Init ==
  /\ authSession = [s \in Ids |-> NoSession]
  /\ consumed = {}
  /\ call = [c \in Callers |-> NoCall]
  /\ issued = [ch \in Challenges |-> 0]
  /\ failures = 0

Next == (\E c \in Callers : Call(c) \/ Step(c) \/ Fail(c)) \/ Retention

\* the database answers
Fairness == \A c \in Callers : WF_vars(Step(c))
Spec == Init /\ [][Next]_vars /\ Fairness
-----------------------------------------------------------------------------
TypeOK ==
  /\ authSession \in [Ids -> Session]
  /\ consumed \subseteq Challenges
  /\ call \in [Callers -> [pc : Places, session : Ids \union {NoId},
                           challenge : SUBSET Challenges, snapshot : SUBSET Ids]]
  /\ \A c, d \in Callers :                       \* a lock has one holder
       (call[c].pc = "rotating" /\ call[d].pc = "rotating"
          /\ call[c].session = call[d].session) => c = d
  /\ issued \in [Challenges -> Nat] /\ failures \in 0..MaxFailures

(* However many tabs refresh at once, one session of a family is live at   *)
(* most: the browser never holds two tokens that both work.                *)
OneLivePerFamily ==
  \A s, t \in Ids : (Live(s) /\ Live(t) /\ FamilyOf(s) = FamilyOf(t)) => s = t

(* A family is a chain: a session that was replaced has exactly the        *)
(* successor its row names, in its family, also when a refresh fails       *)
(* between the two statements or is made again.                            *)
FamilyIsChain ==
  \A s, t \in Ids :
    /\ (s # NoId /\ authSession[s].replacedBySessionId = t) =>
         authSession[t].parentSessionId = s /\ FamilyOf(t) = FamilyOf(s)
    /\ (Issued(t) /\ authSession[t].parentSessionId = s) =>
         authSession[s].replacedBySessionId = t /\ authSession[s].revoked

(* A challenge yields one session, however many calls present it at once.  *)
ChallengeUsedOnce == \A ch \in Challenges : issued[ch] <= 1

Closed(f) == Issued(f) /\ \A s \in Family(f) : ~Live(s)

(* A family that has no live session left, by a logout or by the reuse of  *)
(* a token, never gets one again: a refresh that read its row before that  *)
(* does not bring it back.                                                 *)
StaysClosed == \A f \in Ids : Closed(f) => Closed(f)'
ClosedForGood == [][StaysClosed]_vars

(* A refresh that fails half way costs nothing: the session it presented   *)
(* does not die but of its replacement, a logout, a reuse or its age.      *)
RevokingHasAReason ==
  \A s \in Ids : (Live(s) /\ ~Live(s)') =>
    \/ authSession'[s].replacedBySessionId # NoId
    \/ authSession'[s].deleted
    \/ \E c \in Callers : call[c].pc = "revoke" /\ s \in call[c].snapshot
RevokedForAReason == [][RevokingHasAReason]_vars

(* No call waits for ever for a row another one has locked.                *)
EveryCallReturns == \A c \in Callers : call[c].pc # "idle" ~> call[c].pc = "idle"
=============================================================================
