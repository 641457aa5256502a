--------------------------- MODULE BackendProofs ----------------------------
(***************************************************************************)
(* What the backend promises, whichever of its services run and however    *)
(* their steps fall between one another.  First what sessions, the chat    *)
(* and its reactions keep, each by itself, as in BackendRecordsProofs;     *)
(* then the services together: a step of the backend is a step of each of  *)
(* them or does not concern it, so the invariants of all are kept at once. *)
(***************************************************************************)
EXTENDS BackendRecordsProofs

-----------------------------------------------------------------------------
(***************************************************************************)
(* The sessions of the backend, for any number of calls, challenges,       *)
(* sessions and failures: a family is a chain with one live session at     *)
(* most, a challenge yields one session, a family that was closed stays    *)
(* so, and a session dies of a reason.                                     *)
(*                                                                         *)
(* These rest on one fact about calls under way: a session whose row a     *)
(* transaction has locked is live until it commits.                        *)
(***************************************************************************)
(* The operators this instance takes from the modules it extends.          *)
LEMMA AuthOperators ==
  \A S : Auth!Cardinality(S) = Cardinality(S)
  BY DEF Auth!Cardinality, Cardinality, Auth!IsFiniteSet, IsFiniteSet

Creates(c, ch) == authCall[c].pc = "create" /\ ch \in authCall[c].challenge

\* a row that was never inserted is blank; a family is that of an issued session
RowsInv ==
  /\ \A s \in Auth!Ids : ~Auth!Issued(s) => authSession[s] = Auth!NoSession
  /\ \A s \in Auth!Ids : Auth!Issued(s)
       => Auth!FamilyOf(s) \in Auth!Ids /\ Auth!Issued(Auth!FamilyOf(s))

\* calls are about sessions that were issued
CallsInv ==
  \A c \in SignIns :
    /\ authCall[c].pc \in {"find", "rotate", "rotating", "guard", "logout", "scan"} =>
         authCall[c].session \in Auth!Ids /\ Auth!Issued(authCall[c].session)
    /\ \A s \in authCall[c].snapshot : Auth!Issued(s)

\* a locked row is live, and nobody has replaced it
RotatingLive ==
  \A c \in SignIns : authCall[c].pc = "rotating" =>
    /\ Auth!Live(authCall[c].session)
    /\ authSession[authCall[c].session].replacedBySessionId = Auth!NoId

\* one call is about to issue a session for a challenge, or has done so
ChallengesInv ==
  \A ch \in Challenges :
    /\ issued[ch] <= 1
    /\ issued[ch] = 1 => ch \in consumed
    /\ \A c \in SignIns : Creates(c, ch) => ch \in consumed /\ issued[ch] = 0
    /\ \A c, d \in SignIns : Creates(c, ch) /\ Creates(d, ch) => c = d

AuthInv ==
  /\ Auth!TypeOK /\ RowsInv /\ CallsInv /\ RotatingLive
  /\ Auth!OneLivePerFamily /\ Auth!FamilyIsChain /\ ChallengesInv

(* No session has the id that stands for none.                             *)
LEMMA IdsAre == Auth!NoId \notin Auth!Ids /\ Auth!Ids \subseteq Nat
  BY DEF Auth!Ids, Auth!NoId
-----------------------------------------------------------------------------
(***************************************************************************)
(* The rows.  They change in three ways: rows age (they are revoked or     *)
(* deleted), a family starts, or a session is replaced.                    *)
(***************************************************************************)
RowsOK == RowsInv /\ Auth!OneLivePerFamily /\ Auth!FamilyIsChain

Ages ==
  \A s \in Auth!Ids :
    /\ authSession'[s].familyId = authSession[s].familyId
    /\ authSession'[s].parentSessionId = authSession[s].parentSessionId
    /\ authSession'[s].replacedBySessionId = authSession[s].replacedBySessionId
    /\ authSession[s].revoked => authSession'[s].revoked
    /\ authSession[s].deleted => authSession'[s].deleted
    /\ ~Auth!Issued(s) => authSession'[s] = authSession[s]

(* Age brings no session to life and takes no link away.                   *)
LEMMA RowsAge == ASSUME RowsOK, Ages PROVE RowsOK' /\ Auth!StaysClosed
<1>1. \A s \in Auth!Ids : /\ Auth!Issued(s)' <=> Auth!Issued(s)
                          /\ Auth!FamilyOf(s)' = Auth!FamilyOf(s)
                          /\ Auth!Exists(s)' => Auth!Exists(s)
                          /\ Auth!Live(s)' => Auth!Live(s)
  BY DEF Ages, Auth!Issued, Auth!FamilyOf, Auth!Exists, Auth!Live
<1>2. RowsInv'
  BY <1>1 DEF Ages, RowsOK, RowsInv
<1>3. Auth!OneLivePerFamily'
  BY <1>1 DEF RowsOK, Auth!OneLivePerFamily
<1>4. Auth!FamilyIsChain'
  BY <1>1 DEF Ages, RowsOK, Auth!FamilyIsChain
<1>5. Auth!StaysClosed
  BY <1>1 DEF Auth!StaysClosed, Auth!Closed, Auth!Family
<1>6. QED
  BY <1>2, <1>3, <1>4, <1>5 DEF RowsOK

\* row t, which was blank, becomes row; the others are as they are
Inserts(t, record) ==
  /\ t \in Auth!Ids /\ ~Auth!Issued(t)
  /\ authSession' = [authSession EXCEPT ![t] = record]

(* A family starts with a session nobody else belongs to.                  *)
LEMMA FamilyStarts ==
  ASSUME Auth!TypeOK, RowsOK, NEW t, Inserts(t, [Auth!NoSession EXCEPT !.familyId = t])
  PROVE  RowsOK' /\ Auth!StaysClosed /\ Auth!RevokingHasAReason
<1> USE IdsAre
<1>1. /\ authSession'[t] = [Auth!NoSession EXCEPT !.familyId = t]
      /\ \A s \in Auth!Ids \ {t} : authSession'[s] = authSession[s]
  BY DEF Auth!TypeOK, Inserts
<1>2. /\ Auth!Issued(t)' /\ Auth!FamilyOf(t)' = t /\ Auth!Live(t)'
      /\ authSession'[t].parentSessionId = Auth!NoId
      /\ authSession'[t].replacedBySessionId = Auth!NoId
  BY <1>1 DEF Inserts, Auth!Issued, Auth!FamilyOf, Auth!Exists, Auth!Live, Auth!NoSession
<1>3. \A s \in Auth!Ids \ {t} : /\ Auth!Issued(s)' <=> Auth!Issued(s)
                                /\ Auth!FamilyOf(s)' = Auth!FamilyOf(s)
                                /\ Auth!Exists(s)' <=> Auth!Exists(s)
                                /\ Auth!Live(s)' <=> Auth!Live(s)
  BY <1>1 DEF Auth!Issued, Auth!FamilyOf, Auth!Exists, Auth!Live
<1>4. \A s \in Auth!Ids : Auth!Issued(s) => Auth!FamilyOf(s) # t
  BY DEF RowsOK, RowsInv, Inserts
<1>5. \A s \in Auth!Ids : Auth!Live(s) => Auth!Issued(s)
  BY DEF Auth!Live, Auth!Exists
<1>6. RowsInv'
  BY <1>1, <1>2, <1>3, <1>4 DEF RowsOK, RowsInv, Inserts
<1>7. Auth!OneLivePerFamily'
  BY <1>2, <1>3, <1>4, <1>5 DEF RowsOK, Auth!OneLivePerFamily
<1>8. Auth!FamilyIsChain'
  <2> SUFFICES ASSUME NEW s \in Auth!Ids, NEW u \in Auth!Ids
               PROVE  /\ authSession'[s].replacedBySessionId = u =>
                           authSession'[u].parentSessionId = s
                             /\ Auth!FamilyOf(u)' = Auth!FamilyOf(s)'
                      /\ Auth!Issued(u)' /\ authSession'[u].parentSessionId = s =>
                           authSession'[s].replacedBySessionId = u
                             /\ authSession'[s].revoked
    BY DEF Auth!FamilyIsChain
  <2>1. /\ authSession[t].parentSessionId = Auth!NoId
        /\ authSession[t].replacedBySessionId = Auth!NoId
    BY DEF RowsOK, RowsInv, Inserts, Auth!NoSession
  <2>2. /\ authSession[s].replacedBySessionId = u =>
             authSession[u].parentSessionId = s /\ Auth!FamilyOf(u) = Auth!FamilyOf(s)
        /\ Auth!Issued(u) /\ authSession[u].parentSessionId = s =>
             authSession[s].replacedBySessionId = u /\ authSession[s].revoked
    BY DEF RowsOK, Auth!FamilyIsChain
  <2>3. CASE s = t
    BY <1>1, <1>2, <1>3, <2>1, <2>2, <2>3
  <2>4. CASE s # t /\ u = t
    BY <1>1, <1>2, <2>1, <2>2, <2>4
  <2>5. CASE s # t /\ u # t
    BY <1>1, <1>3, <2>2, <2>5
  <2>6. QED
    BY <2>3, <2>4, <2>5
<1>9. Auth!StaysClosed
  BY <1>2, <1>3 DEF Auth!StaysClosed, Auth!Closed, Auth!Family, Inserts
<1>10. Auth!RevokingHasAReason
  BY <1>2, <1>3 DEF Auth!RevokingHasAReason
<1>11. QED
  BY <1>6, <1>7, <1>8, <1>9, <1>10 DEF RowsOK

\* s is replaced by t, in one transaction
Replaces(s, t) ==
  /\ s \in Auth!Ids /\ t \in Auth!Ids /\ ~Auth!Issued(t)
  /\ authSession' = [authSession EXCEPT
       ![s].revoked = TRUE, ![s].replacedBySessionId = t,
       ![t] = [Auth!NoSession EXCEPT !.familyId = Auth!FamilyOf(s), !.parentSessionId = s]]

(* A live session without a successor is replaced by a new one.            *)
LEMMA SessionReplaced ==
  ASSUME Auth!TypeOK, RowsOK, NEW s, NEW t, Replaces(s, t),
         Auth!Live(s), authSession[s].replacedBySessionId = Auth!NoId
  PROVE  RowsOK' /\ Auth!StaysClosed /\ Auth!RevokingHasAReason
<1> USE IdsAre
<1>0. s \in Auth!Ids /\ t \in Auth!Ids /\ s # t /\ Auth!Issued(s) /\ ~Auth!Issued(t)
  BY DEF Replaces, Auth!Live, Auth!Exists
<1>1. /\ authSession'[t] =
           [Auth!NoSession EXCEPT !.familyId = Auth!FamilyOf(s), !.parentSessionId = s]
      /\ authSession'[s] =
           [authSession[s] EXCEPT !.revoked = TRUE, !.replacedBySessionId = t]
      /\ \A u \in Auth!Ids \ {s, t} : authSession'[u] = authSession[u]
  BY <1>0 DEF Auth!TypeOK, Replaces
<1>2. Auth!FamilyOf(s) \in Auth!Ids /\ Auth!Issued(Auth!FamilyOf(s))
  BY <1>0 DEF RowsOK, RowsInv
<1>3. /\ Auth!Issued(t)' /\ Auth!FamilyOf(t)' = Auth!FamilyOf(s) /\ Auth!Live(t)'
      /\ authSession'[t].parentSessionId = s
      /\ authSession'[t].replacedBySessionId = Auth!NoId
  BY <1>1, <1>2 DEF Auth!Issued, Auth!FamilyOf, Auth!Exists, Auth!Live, Auth!NoSession
<1>4. /\ Auth!Issued(s)' /\ Auth!FamilyOf(s)' = Auth!FamilyOf(s) /\ ~Auth!Live(s)'
      /\ authSession'[s].parentSessionId = authSession[s].parentSessionId
      /\ authSession'[s].replacedBySessionId = t
      /\ authSession'[s].revoked
  BY <1>0, <1>1
     DEF Auth!TypeOK, Auth!Session, Auth!Issued, Auth!FamilyOf, Auth!Exists, Auth!Live
<1>5. \A u \in Auth!Ids \ {s, t} : /\ Auth!Issued(u)' <=> Auth!Issued(u)
                                   /\ Auth!FamilyOf(u)' = Auth!FamilyOf(u)
                                   /\ Auth!Exists(u)' <=> Auth!Exists(u)
                                   /\ Auth!Live(u)' <=> Auth!Live(u)
  BY <1>1 DEF Auth!Issued, Auth!FamilyOf, Auth!Exists, Auth!Live
<1>6. RowsInv'
  BY <1>0, <1>1, <1>2, <1>3, <1>4, <1>5 DEF RowsOK, RowsInv
<1>7. Auth!OneLivePerFamily'
  <2>1. \A u \in Auth!Ids \ {s} : ~(Auth!Live(u) /\ Auth!FamilyOf(u) = Auth!FamilyOf(s))
    BY <1>0 DEF RowsOK, Auth!OneLivePerFamily
  <2>2. QED
    BY <1>0, <1>3, <1>4, <1>5, <2>1 DEF RowsOK, Auth!OneLivePerFamily
<1>8. Auth!FamilyIsChain'
  <2> SUFFICES ASSUME NEW u \in Auth!Ids, NEW v \in Auth!Ids
               PROVE  /\ authSession'[u].replacedBySessionId = v =>
                           authSession'[v].parentSessionId = u
                             /\ Auth!FamilyOf(v)' = Auth!FamilyOf(u)'
                      /\ Auth!Issued(v)' /\ authSession'[v].parentSessionId = u =>
                           authSession'[u].replacedBySessionId = v
                             /\ authSession'[u].revoked
    BY DEF Auth!FamilyIsChain
  <2>1. /\ authSession[t].parentSessionId = Auth!NoId
        /\ authSession[t].replacedBySessionId = Auth!NoId
    BY <1>0 DEF RowsOK, RowsInv, Auth!NoSession
  <2>2. \A a, b \in Auth!Ids :
          /\ authSession[a].replacedBySessionId = b =>
               authSession[b].parentSessionId = a /\ Auth!FamilyOf(b) = Auth!FamilyOf(a)
          /\ Auth!Issued(b) /\ authSession[b].parentSessionId = a =>
               authSession[a].replacedBySessionId = b /\ authSession[a].revoked
    BY DEF RowsOK, Auth!FamilyIsChain
  <2>3. /\ authSession[u].replacedBySessionId = v =>
             authSession[v].parentSessionId = u /\ Auth!FamilyOf(v) = Auth!FamilyOf(u)
        /\ Auth!Issued(v) /\ authSession[v].parentSessionId = u =>
             authSession[u].replacedBySessionId = v /\ authSession[u].revoked
    BY <2>2
  <2>4. CASE u = t
    <3>1. ~(Auth!Issued(v)' /\ authSession'[v].parentSessionId = t)
      <4>1. CASE v = t
        BY <1>0, <1>3, <4>1
      <4>2. CASE v = s
        BY <1>0, <1>4, <2>1, <2>2, <4>2
      <4>3. CASE v \notin {s, t}
        BY <1>0, <1>1, <1>5, <2>1, <2>2, <2>3, <2>4, <4>3
      <4>4. QED
        BY <4>1, <4>2, <4>3
    <3>2. QED
      BY <1>3, <2>4, <3>1
  <2>5. CASE u = s
    <3>1. Auth!Issued(v)' /\ authSession'[v].parentSessionId = s => v = t
      <4>1. CASE v = s
        BY <1>0, <1>4, <2>2, <4>1
      <4>2. CASE v \notin {s, t}
        BY <1>0, <1>1, <1>5, <2>2, <4>2
      <4>3. QED
        BY <4>1, <4>2
    <3>2. QED
      BY <1>3, <1>4, <2>5, <3>1
  <2>6. CASE u \notin {s, t} /\ v = t
    BY ZenonT(30), <1>0, <1>1, <1>3, <2>1, <2>3, <2>6
  <2>7. CASE u \notin {s, t} /\ v = s
    BY <1>0, <1>1, <1>4, <1>5, <2>3, <2>7
  <2>8. CASE u \notin {s, t} /\ v \notin {s, t}
    BY <1>1, <1>5, <2>3, <2>8
  <2>9. QED
    BY <2>4, <2>5, <2>6, <2>7, <2>8
<1>9. Auth!StaysClosed
  <2> SUFFICES ASSUME NEW f \in Auth!Ids, Auth!Closed(f) PROVE Auth!Closed(f)'
    BY DEF Auth!StaysClosed
  <2>1. f # Auth!FamilyOf(s)
    BY <1>0 DEF Auth!Closed, Auth!Family, Auth!Live
  <2>2. QED
    BY <1>0, <1>3, <1>4, <1>5, <2>1 DEF Auth!Closed, Auth!Family
<1>10. Auth!RevokingHasAReason
  BY <1>0, <1>3, <1>4, <1>5 DEF Auth!RevokingHasAReason
<1>11. QED
  BY <1>6, <1>7, <1>8, <1>9, <1>10 DEF RowsOK
-----------------------------------------------------------------------------
(***************************************************************************)
(* Types, one action at a time.                                            *)
(***************************************************************************)
AuthCalls ==
  [pc : Auth!Places, session : Auth!Ids \union {Auth!NoId},
   challenge : SUBSET Challenges, snapshot : SUBSET Auth!Ids]
OneHolder ==
  \A c, d \in SignIns :
    (authCall[c].pc = "rotating" /\ authCall[d].pc = "rotating"
       /\ authCall[c].session = authCall[d].session) => c = d

(* The types one by one, as the provers need them,                         *)
LEMMA TypeParts ==
  Auth!TypeOK <=> /\ authSession \in [Auth!Ids -> Auth!Session]
                  /\ consumed \subseteq Challenges
                  /\ authCall \in [SignIns -> AuthCalls] /\ OneHolder
                  /\ issued \in [Challenges -> Nat] /\ authFailures \in 0..MaxAuthFailures
  BY DEF Auth!TypeOK, AuthCalls, OneHolder

(* and after a step.                                                       *)
LEMMA TypePartsNext ==
  Auth!TypeOK' <=> /\ authSession' \in [Auth!Ids -> Auth!Session]
                   /\ consumed' \subseteq Challenges
                   /\ authCall' \in [SignIns -> AuthCalls] /\ OneHolder'
                   /\ issued' \in [Challenges -> Nat]
                   /\ authFailures' \in 0..MaxAuthFailures
  BY DEF Auth!TypeOK, AuthCalls, OneHolder

(* A call that does not lock a row takes no lock from another.             *)
LEMMA AuthCallMoves ==
  ASSUME Auth!TypeOK, NEW c \in SignIns, NEW to \in AuthCalls,
         authCall' = [authCall EXCEPT ![c] = to], to.pc # "rotating"
  PROVE  authCall' \in [SignIns -> AuthCalls] /\ OneHolder'
<1>1. authCall \in [SignIns -> AuthCalls] /\ OneHolder
  BY TypeParts
<1>2. authCall'[c] = to /\ \A d \in SignIns \ {c} : authCall'[d] = authCall[d]
  BY <1>1
<1>3. QED
  BY <1>1, <1>2 DEF OneHolder

(* A call goes to its next statement,                                      *)
LEMMA AuthGoesTo ==
  ASSUME Auth!TypeOK, NEW c \in SignIns, NEW p \in Auth!Places \ {"rotating"},
         Auth!GoTo(c, p)
  PROVE  authCall' \in [SignIns -> AuthCalls] /\ OneHolder'
<1> DEFINE to == [authCall[c] EXCEPT !.pc = p]
<1>1. authCall[c] \in AuthCalls
  BY TypeParts
<1>2. to \in AuthCalls /\ to.pc = p
  BY <1>1 DEF AuthCalls
<1>3. authCall' = [authCall EXCEPT ![c] = to]
  BY DEF Auth!GoTo
<1> HIDE DEF to
<1>4. QED
  BY <1>2, <1>3, AuthCallMoves

(* ends,                                                                   *)
LEMMA AuthReturns ==
  ASSUME Auth!TypeOK, NEW c \in SignIns, Auth!Return(c)
  PROVE  authCall' \in [SignIns -> AuthCalls] /\ OneHolder'
<1>1. Auth!NoCall \in AuthCalls /\ Auth!NoCall.pc # "rotating"
  BY DEF Auth!NoCall, AuthCalls, Auth!Places
<1>2. QED
  BY <1>1, AuthCallMoves DEF Auth!Return

(* or begins.                                                              *)
LEMMA Begins ==
  ASSUME Auth!TypeOK, NEW c \in SignIns, NEW p \in Auth!Places \ {"rotating"},
         NEW s \in Auth!Ids \union {Auth!NoId}, NEW ch \in SUBSET Challenges,
         Auth!Begin(c, p, s, ch),
         UNCHANGED authFailures
  PROVE  Auth!TypeOK'
<1> DEFINE to == [Auth!NoCall EXCEPT !.pc = p, !.session = s, !.challenge = ch]
<1>1. to \in AuthCalls /\ to.pc # "rotating"
  BY DEF Auth!NoCall, AuthCalls, Auth!Places
<1>2. authCall' = [authCall EXCEPT ![c] = to]
  BY DEF Auth!Begin
<1> HIDE DEF to
<1>3. authCall' \in [SignIns -> AuthCalls] /\ OneHolder'
  BY <1>1, <1>2, AuthCallMoves
<1>4. QED
  BY <1>3, TypeParts, TypePartsNext DEF Auth!Begin, Auth!database

(* Every step keeps the types; a row is locked by one call at a time.      *)
LEMMA AuthStepTypes ==
  ASSUME Auth!AuthAssumption, Auth!TypeOK, CallsInv, [Auth!Next]_(Auth!vars)
  PROVE  Auth!TypeOK'
<1> USE TypeParts, TypePartsNext
<1>1. ASSUME NEW c \in SignIns, Auth!Call(c) PROVE Auth!TypeOK'
  <2>1. /\ "create" \in Auth!Places \ {"rotating"}
        /\ "findChallenge" \in Auth!Places \ {"rotating"}
        /\ "find" \in Auth!Places \ {"rotating"} /\ "guard" \in Auth!Places \ {"rotating"}
    BY DEF Auth!Places
  <2>2. CASE Auth!ExchangePrivyToken(c)
    <3>1. Auth!Begin(c, "create", Auth!NoId, {}) /\ UNCHANGED authFailures
      BY <1>1, <2>2 DEF Auth!Call, Auth!ExchangePrivyToken
    <3>2. {} \in SUBSET Challenges /\ Auth!NoId \in Auth!Ids \union {Auth!NoId}
      OBVIOUS
    <3>3. QED
      BY <2>1, <3>1, <3>2, Begins
  <2>3. ASSUME NEW ch \in Challenges, Auth!VerifyChallenge(c, ch) PROVE Auth!TypeOK'
    BY <1>1, <2>1, <2>3, Begins DEF Auth!Call, Auth!VerifyChallenge
  <2>4. ASSUME NEW s \in Auth!Ids, Auth!RefreshSession(c, s) \/ Auth!Logout(c, s)
        PROVE  Auth!TypeOK'
    BY <1>1, <2>1, <2>4, Begins DEF Auth!Call, Auth!RefreshSession, Auth!Logout
  <2>5. QED
    BY <1>1, <2>2, <2>3, <2>4 DEF Auth!Call
<1>2. ASSUME NEW c \in SignIns, Auth!FindChallenge(c), UNCHANGED authFailures
      PROVE  Auth!TypeOK'
  BY <1>2, AuthGoesTo, AuthReturns DEF Auth!FindChallenge, Auth!database, Auth!Places
<1>3. ASSUME NEW c \in SignIns, Auth!Consume(c), UNCHANGED authFailures PROVE Auth!TypeOK'
  <2>1. authCall[c].challenge \subseteq Challenges
    BY DEF AuthCalls
  <2>2. QED
    BY <1>3, <2>1, AuthGoesTo, AuthReturns DEF Auth!Consume, Auth!Places
<1>4. ASSUME NEW c \in SignIns, Auth!CreateSession(c), UNCHANGED authFailures
      PROVE  Auth!TypeOK'
  <2>1. PICK s \in Auth!Ids :
          authSession' = [authSession EXCEPT ![s] = [Auth!NoSession EXCEPT !.familyId = s]]
    BY <1>4 DEF Auth!CreateSession
  <2>2. [Auth!NoSession EXCEPT !.familyId = s] \in Auth!Session
    BY DEF Auth!Session, Auth!NoSession
  <2>3. authSession' \in [Auth!Ids -> Auth!Session]
    BY <2>1, <2>2
  <2>4. issued' \in [Challenges -> Nat]
    BY <1>4 DEF Auth!CreateSession
  <2>5. QED
    BY <1>4, <2>3, <2>4, AuthReturns DEF Auth!CreateSession
<1>5. ASSUME NEW c \in SignIns, Auth!FindSession(c), UNCHANGED authFailures
      PROVE  Auth!TypeOK'
  BY <1>5, AuthGoesTo, AuthReturns DEF Auth!FindSession, Auth!database, Auth!Places
<1>6. ASSUME NEW c \in SignIns, Auth!Rotate(c), UNCHANGED authFailures PROVE Auth!TypeOK'
  <2>1. CASE ~Auth!Rotates(authCall[c].session)
    BY <1>6, <2>1, AuthGoesTo DEF Auth!Rotate, Auth!database, Auth!Places
  <2>2. CASE Auth!Rotates(authCall[c].session)
    <3>1. /\ authCall' = [authCall EXCEPT ![c].pc = "rotating"]
          /\ ~Auth!Locked(authCall[c].session)
      BY <1>6, <2>2 DEF Auth!Rotate, Auth!GoTo
    <3>2. authCall' \in [SignIns -> AuthCalls]
      BY <3>1 DEF AuthCalls, Auth!Places
    <3>3. /\ authCall'[c].session = authCall[c].session
          /\ \A d \in SignIns \ {c} : authCall'[d] = authCall[d]
      BY <3>1 DEF AuthCalls
    <3>4. OneHolder'
      BY <3>1, <3>3 DEF OneHolder, Auth!Locked
    <3>5. QED
      BY <1>6, <3>2, <3>4 DEF Auth!Rotate, Auth!database
  <2>3. QED
    BY <2>1, <2>2
<1>7. ASSUME NEW c \in SignIns, Auth!Commit(c), UNCHANGED authFailures PROVE Auth!TypeOK'
  <2>1. authCall[c].session \in Auth!Ids /\ Auth!Issued(authCall[c].session)
    BY <1>7 DEF Auth!Commit, CallsInv
  <2>2. PICK t \in Auth!Ids : authSession' = [authSession EXCEPT
            ![authCall[c].session].revoked = TRUE,
            ![authCall[c].session].replacedBySessionId = t,
            ![t] = [Auth!NoSession EXCEPT !.familyId = Auth!FamilyOf(authCall[c].session),
                                     !.parentSessionId = authCall[c].session]]
    BY <1>7 DEF Auth!Commit
  <2>3. Auth!FamilyOf(authCall[c].session) \in Auth!Ids \union {Auth!NoId}
    BY <2>1 DEF Auth!FamilyOf, Auth!Session
  <2>4. authSession' \in [Auth!Ids -> Auth!Session]
    BY ZenonT(30), <2>1, <2>2, <2>3 DEF Auth!Session, Auth!NoSession
  <2>5. QED
    BY <1>7, <2>4, AuthReturns DEF Auth!Commit
<1>8. ASSUME NEW c \in SignIns, Auth!GetActiveSession(c), UNCHANGED authFailures
      PROVE  Auth!TypeOK'
  BY <1>8, AuthGoesTo, AuthReturns DEF Auth!GetActiveSession, Auth!database, Auth!Places
<1>9. ASSUME NEW c \in SignIns, Auth!RevokeSessionFamily(c), UNCHANGED authFailures
      PROVE  Auth!TypeOK'
  BY <1>9, AuthGoesTo, AuthReturns DEF Auth!RevokeSessionFamily, Auth!database, Auth!Places
<1>10. ASSUME NEW c \in SignIns, Auth!ScanFamily(c), UNCHANGED authFailures
       PROVE  Auth!TypeOK'
  <2> DEFINE found == {s \in Auth!Family(Auth!FamilyOf(authCall[c].session)) : Auth!Live(s)}
             to == [authCall[c] EXCEPT !.pc = "revoke", !.snapshot = found]
  <2>1. found \in SUBSET Auth!Ids
    BY DEF Auth!Family
  <2>2. authCall' = [authCall EXCEPT ![c] = to]
    BY <1>10 DEF Auth!ScanFamily
  <2> HIDE DEF found
  <2>3. to \in AuthCalls /\ to.pc # "rotating"
    BY <2>1 DEF AuthCalls, Auth!Places
  <2> HIDE DEF to
  <2>4. QED
    BY <1>10, <2>2, <2>3, AuthCallMoves DEF Auth!ScanFamily, Auth!database
<1>11. ASSUME NEW c \in SignIns, Auth!RevokeFamily(c), UNCHANGED authFailures
       PROVE  Auth!TypeOK'
  <2>1. authSession' \in [Auth!Ids -> Auth!Session]
    BY <1>11 DEF Auth!RevokeFamily, Auth!Session
  <2>2. QED
    BY <1>11, <2>1, AuthReturns DEF Auth!RevokeFamily
<1>12. ASSUME NEW c \in SignIns, Auth!Fail(c) PROVE Auth!TypeOK'
  BY <1>12, AuthReturns DEF Auth!Fail, Auth!RolledBack, Auth!AuthAssumption
<1>13. ASSUME Auth!Retention PROVE Auth!TypeOK'
  <2>1. ASSUME NEW s \in Auth!Ids, Auth!CleanAuthSessions(s)
        PROVE  authSession' \in [Auth!Ids -> Auth!Session]
    BY <2>1 DEF Auth!CleanAuthSessions, Auth!Session
  <2>2. OneHolder'
    BY <1>13 DEF Auth!Retention, OneHolder
  <2>3. QED
    BY <1>13, <2>1, <2>2
       DEF Auth!Retention, Auth!CleanAuthSessions, Auth!CleanWalletChallenges
<1>14. ASSUME UNCHANGED Auth!vars PROVE Auth!TypeOK'
  BY <1>14 DEF Auth!vars, Auth!database, OneHolder
<1>15. QED
  BY <1>1, <1>2, <1>3, <1>4, <1>5, <1>6, <1>7, <1>8, <1>9, <1>10, <1>11, <1>12, <1>13, <1>14
     DEF Auth!Next, Auth!Step
-----------------------------------------------------------------------------
(***************************************************************************)
(* What each action does to the rows.                                      *)
(***************************************************************************)
RowsGood == RowsOK' /\ Auth!StaysClosed /\ Auth!RevokingHasAReason

(* Statements that read.                                                   *)
LEMMA RowsStay == ASSUME RowsOK, authSession' = authSession PROVE RowsGood
<1>1. Ages
  BY DEF Ages
<1>2. Auth!RevokingHasAReason
  BY DEF Auth!RevokingHasAReason, Auth!Live, Auth!Exists, Auth!Issued
<1>3. QED
  BY <1>1, <1>2, RowsAge DEF RowsGood

(* createSession starts a family,                                          *)
LEMMA CreateRows ==
  ASSUME AuthInv, NEW c \in SignIns, Auth!CreateSession(c)
  PROVE  RowsGood /\ \E t : Inserts(t, [Auth!NoSession EXCEPT !.familyId = t])
<1>1. PICK t : Inserts(t, [Auth!NoSession EXCEPT !.familyId = t])
  BY DEF Auth!CreateSession, Auth!Fresh, Inserts
<1>2. RowsGood
  BY <1>1, FamilyStarts DEF AuthInv, RowsOK, RowsGood
<1>3. QED
  BY <1>1, <1>2

(* a refresh that commits replaces the session it locked,                  *)
LEMMA CommitRows ==
  ASSUME AuthInv, NEW c \in SignIns, Auth!Commit(c)
  PROVE  RowsGood /\ \E t : Replaces(authCall[c].session, t)
<1>1. authCall[c].session \in Auth!Ids /\ authCall[c].pc = "rotating"
  BY DEF Auth!Commit, AuthInv, CallsInv
<1>2. PICK t : Replaces(authCall[c].session, t)
  BY <1>1 DEF Auth!Commit, Auth!Fresh, Replaces
<1>3. /\ Auth!Live(authCall[c].session)
      /\ authSession[authCall[c].session].replacedBySessionId = Auth!NoId
  BY <1>1 DEF AuthInv, RotatingLive
<1>4. RowsGood
  BY <1>2, <1>3, SessionReplaced DEF AuthInv, RowsOK, RowsGood
<1>5. QED
  BY <1>2, <1>4

(* the revocation of a family ages what it found before,                   *)
LEMMA RevokeRows ==
  ASSUME AuthInv, NEW c \in SignIns, Auth!RevokeFamily(c)
  PROVE  /\ RowsGood
         /\ \A s \in Auth!Ids : s \notin authCall[c].snapshot
              => authSession'[s] = authSession[s]
<1>1. authSession \in [Auth!Ids -> Auth!Session]
  BY TypeParts DEF AuthInv
<1>2. /\ \A s \in Auth!Ids : s \notin authCall[c].snapshot
           => authSession'[s] = authSession[s]
      /\ \A s \in Auth!Ids : s \in authCall[c].snapshot =>
           authSession'[s] = [authSession[s] EXCEPT !.revoked = TRUE]
  BY DEF Auth!RevokeFamily
<1>3. \A s \in authCall[c].snapshot : Auth!Issued(s)
  BY DEF AuthInv, CallsInv
<1>4. Ages
  <2>1. \A s \in Auth!Ids :
          /\ authSession'[s].familyId = authSession[s].familyId
          /\ authSession'[s].parentSessionId = authSession[s].parentSessionId
          /\ authSession'[s].replacedBySessionId = authSession[s].replacedBySessionId
          /\ authSession'[s].deleted = authSession[s].deleted
          /\ authSession[s].revoked => authSession'[s].revoked
    <3>1. ASSUME NEW s \in Auth!Ids, s \in authCall[c].snapshot
          PROVE  /\ authSession'[s].familyId = authSession[s].familyId
                 /\ authSession'[s].parentSessionId = authSession[s].parentSessionId
                 /\ authSession'[s].replacedBySessionId = authSession[s].replacedBySessionId
                 /\ authSession'[s].deleted = authSession[s].deleted
                 /\ authSession'[s].revoked
      <4>1. /\ authSession'[s] = [authSession[s] EXCEPT !.revoked = TRUE]
            /\ authSession[s] \in Auth!Session
        BY <1>1, <1>2, <3>1
      <4>2. QED
        BY <4>1 DEF Auth!Session
    <3>2. QED
      BY <1>2, <3>1
  <2>2. \A s \in Auth!Ids : ~Auth!Issued(s) => authSession'[s] = authSession[s]
    BY <1>2, <1>3
  <2>3. QED
    BY <2>1, <2>2 DEF Ages
<1>5. Auth!RevokingHasAReason
  <2>1. \A s \in Auth!Ids : Auth!Live(s) /\ ~Auth!Live(s)' => s \in authCall[c].snapshot
    BY <1>2 DEF Auth!Live, Auth!Exists, Auth!Issued
  <2>2. QED
    BY <2>1 DEF Auth!RevokingHasAReason, Auth!RevokeFamily
<1>6. QED
  BY <1>2, <1>4, <1>5, RowsAge DEF AuthInv, RowsOK, RowsGood

(* and so does the retention job.                                          *)
LEMMA CleanRows ==
  ASSUME AuthInv, NEW t \in Auth!Ids, Auth!CleanAuthSessions(t)
  PROVE  RowsGood /\ \A s \in Auth!Ids \ {t} : authSession'[s] = authSession[s]
<1>1. authSession \in [Auth!Ids -> Auth!Session]
  BY TypeParts DEF AuthInv
<1>2. /\ \A s \in Auth!Ids \ {t} : authSession'[s] = authSession[s]
      /\ authSession'[t] = [authSession[t] EXCEPT !.deleted = TRUE] /\ Auth!Issued(t)
  BY <1>1 DEF Auth!CleanAuthSessions, Auth!Exists
<1>3. Ages
  BY <1>1, <1>2 DEF Ages, Auth!Session
<1>4. Auth!RevokingHasAReason
  <2>1. \A s \in Auth!Ids \ {t} : Auth!Live(s)' <=> Auth!Live(s)
    BY <1>2 DEF Auth!Live, Auth!Exists, Auth!Issued
  <2>2. authSession'[t].deleted
    BY <1>1, <1>2 DEF Auth!Session
  <2>3. QED
    BY <2>1, <2>2 DEF Auth!RevokingHasAReason
<1>5. QED
  BY <1>2, <1>3, <1>4, RowsAge DEF AuthInv, RowsOK, RowsGood

(* Every step keeps the rows in order.                                     *)
LEMMA StepRows == AuthInv /\ [Auth!Next]_(Auth!vars) => RowsGood
<1> SUFFICES ASSUME AuthInv, [Auth!Next]_(Auth!vars) PROVE RowsGood
  OBVIOUS
<1>1. RowsOK
  BY DEF AuthInv, RowsOK
<1>2. ASSUME NEW c \in SignIns, Auth!Call(c) \/ Auth!Fail(c) PROVE RowsGood
  BY <1>1, <1>2, RowsStay
     DEF Auth!Call, Auth!ExchangePrivyToken, Auth!VerifyChallenge, Auth!RefreshSession,
         Auth!Logout, Auth!Begin, Auth!database, Auth!Fail, Auth!RolledBack
<1>3. ASSUME NEW c \in SignIns, Auth!Step(c), ~Auth!CreateSession(c), ~Auth!Commit(c),
        ~Auth!RevokeFamily(c)
      PROVE  RowsGood
  BY <1>1, <1>3, RowsStay
     DEF Auth!Step, Auth!FindChallenge, Auth!Consume, Auth!FindSession, Auth!Rotate,
         Auth!GetActiveSession, Auth!RevokeSessionFamily, Auth!ScanFamily, Auth!database
<1>4. ASSUME Auth!Retention PROVE RowsGood
  BY <1>1, <1>4, RowsStay, CleanRows DEF Auth!Retention, Auth!CleanWalletChallenges
<1>5. CASE UNCHANGED Auth!vars
  BY <1>1, <1>5, RowsStay DEF Auth!vars, Auth!database
<1>6. QED
  BY <1>2, <1>3, <1>4, <1>5, CreateRows, CommitRows, RevokeRows DEF Auth!Next
-----------------------------------------------------------------------------
(***************************************************************************)
(* What the calls under way know.                                          *)
(***************************************************************************)
\* no row that was issued is taken back
Remains == \A s \in Auth!Ids : Auth!Issued(s) => Auth!Issued(s)'

(* Whatever step is taken.                                                 *)
LEMMA StepRemains == AuthInv /\ [Auth!Next]_(Auth!vars) => Remains
<1> SUFFICES ASSUME AuthInv, [Auth!Next]_(Auth!vars) PROVE Remains
  OBVIOUS
<1>1. authSession \in [Auth!Ids -> Auth!Session]
  BY TypeParts DEF AuthInv
<1>2. ASSUME authSession' = authSession PROVE Remains
  BY <1>2 DEF Remains, Auth!Issued
<1>3. ASSUME NEW c \in SignIns, Auth!CreateSession(c) PROVE Remains
  BY <1>1, <1>3, CreateRows DEF Inserts, Remains, Auth!Issued
<1>4. ASSUME NEW c \in SignIns, Auth!Commit(c) PROVE Remains
  <2>1. PICK t : Replaces(authCall[c].session, t)
    BY <1>4, CommitRows
  <2>2. \A u \in Auth!Ids \ {t} : authSession'[u].familyId = authSession[u].familyId
    BY <1>1, <2>1 DEF Replaces, Auth!Session
  <2>3. QED
    BY <2>1, <2>2 DEF Replaces, Remains, Auth!Issued
<1>5. ASSUME NEW c \in SignIns, Auth!RevokeFamily(c) PROVE Remains
  BY <1>1, <1>5 DEF Auth!RevokeFamily, Remains, Auth!Issued, Auth!Session
<1>6. ASSUME NEW s \in Auth!Ids, Auth!CleanAuthSessions(s) PROVE Remains
  BY <1>1, <1>6 DEF Auth!CleanAuthSessions, Remains, Auth!Issued, Auth!Session
<1>7. QED
  BY <1>2, <1>3, <1>4, <1>5, <1>6
     DEF Auth!Next, Auth!Call, Auth!Step, Auth!Retention, Auth!ExchangePrivyToken,
         Auth!VerifyChallenge, Auth!RefreshSession, Auth!Logout, Auth!Begin, Auth!Fail,
         Auth!RolledBack, Auth!FindChallenge, Auth!Consume, Auth!FindSession, Auth!Rotate,
         Auth!GetActiveSession, Auth!RevokeSessionFamily, Auth!ScanFamily,
         Auth!CleanWalletChallenges, Auth!vars, Auth!database
(* A call that knows of an issued session goes on knowing of it.           *)
LEMMA StepCalls == AuthInv /\ [Auth!Next]_(Auth!vars) => CallsInv'
<1> SUFFICES ASSUME AuthInv, [Auth!Next]_(Auth!vars) PROVE CallsInv'
  OBVIOUS
<1> DEFINE About == {"find", "rotate", "rotating", "guard", "logout", "scan"}
           Knows(to) ==
             /\ to.pc \in About => to.session \in Auth!Ids /\ Auth!Issued(to.session)
             /\ \A s \in to.snapshot : Auth!Issued(s)
<1>1. authCall \in [SignIns -> AuthCalls]
  BY TypeParts DEF AuthInv
<1>2. \A c \in SignIns : authCall[c] \in AuthCalls /\ Knows(authCall[c])
  BY <1>1 DEF AuthInv, CallsInv
<1>3. Remains
  BY StepRemains
<1>4. ASSUME NEW c \in SignIns, NEW to \in AuthCalls, Knows(to),
        authCall' = [authCall EXCEPT ![c] = to]
      PROVE  CallsInv'
  <2>1. \A d \in SignIns : authCall'[d] \in AuthCalls /\ Knows(authCall'[d])
    BY <1>1, <1>2, <1>4
  <2>2. QED
    BY <1>3, <2>1 DEF CallsInv, Remains, AuthCalls
<1>5. Knows(Auth!NoCall) /\ Auth!NoCall \in AuthCalls
  BY DEF Auth!NoCall, AuthCalls, Auth!Places
<1>6. ASSUME NEW c \in SignIns, Auth!Return(c) PROVE CallsInv'
  BY <1>4, <1>5, <1>6 DEF Auth!Return
<1>7. ASSUME NEW c \in SignIns, NEW p \in Auth!Places, Auth!GoTo(c, p),
             p \in About => authCall[c].pc \in About
      PROVE  CallsInv'
  <2> DEFINE to == [authCall[c] EXCEPT !.pc = p]
  <2>1. to \in AuthCalls /\ Knows(to)
    BY <1>2, <1>7 DEF AuthCalls
  <2>2. QED
    BY <1>4, <1>7, <2>1 DEF Auth!GoTo
<1>8. ASSUME NEW c \in SignIns, NEW p \in Auth!Places,
        NEW s \in Auth!Ids \union {Auth!NoId},
             NEW ch \in SUBSET Challenges, Auth!Begin(c, p, s, ch),
             p \in About => s \in Auth!Ids /\ Auth!Issued(s)
      PROVE  CallsInv'
  <2> DEFINE to == [Auth!NoCall EXCEPT !.pc = p, !.session = s, !.challenge = ch]
  <2>1. to \in AuthCalls /\ Knows(to)
    BY <1>8 DEF AuthCalls, Auth!NoCall
  <2>2. QED
    BY <1>4, <1>8, <2>1 DEF Auth!Begin
<1>9. ASSUME NEW c \in SignIns, Auth!Call(c) PROVE CallsInv'
  <2>1. {"create", "findChallenge", "find", "guard"} \subseteq Auth!Places
    BY DEF Auth!Places
  <2>2. CASE Auth!ExchangePrivyToken(c)
    BY <1>8, <2>1, <2>2 DEF Auth!ExchangePrivyToken
  <2>3. ASSUME NEW ch \in Challenges, Auth!VerifyChallenge(c, ch) PROVE CallsInv'
    BY <1>8, <2>1, <2>3 DEF Auth!VerifyChallenge
  <2>4. ASSUME NEW s \in Auth!Ids, Auth!RefreshSession(c, s) \/ Auth!Logout(c, s)
        PROVE  CallsInv'
    BY <1>8, <2>1, <2>4 DEF Auth!RefreshSession, Auth!Logout, Auth!Exists
  <2>5. QED
    BY <1>9, <2>2, <2>3, <2>4 DEF Auth!Call
<1>10. ASSUME NEW c \in SignIns, Auth!ScanFamily(c) PROVE CallsInv'
  <2> DEFINE found == {s \in Auth!Family(Auth!FamilyOf(authCall[c].session)) : Auth!Live(s)}
             to == [authCall[c] EXCEPT !.pc = "revoke", !.snapshot = found]
  <2>1. found \in SUBSET Auth!Ids /\ \A s \in found : Auth!Issued(s)
    BY DEF Auth!Family, Auth!Exists
  <2>2. authCall' = [authCall EXCEPT ![c] = to]
    BY <1>10 DEF Auth!ScanFamily
  <2> HIDE DEF found
  <2>3. to \in AuthCalls /\ Knows(to)
    BY <1>2, <2>1 DEF AuthCalls, Auth!Places
  <2>4. QED
    BY <1>4, <2>2, <2>3
<1>11. ASSUME NEW c \in SignIns, Auth!Step(c) PROVE CallsInv'
  BY <1>6, <1>7, <1>10, <1>11
     DEF Auth!Step, Auth!FindChallenge, Auth!Consume, Auth!CreateSession, Auth!FindSession,
         Auth!Rotate, Auth!Commit, Auth!GetActiveSession, Auth!RevokeSessionFamily,
         Auth!RevokeFamily, Auth!Places
<1>12. ASSUME UNCHANGED authCall PROVE CallsInv'
  BY <1>2, <1>3, <1>12 DEF CallsInv, Remains, AuthCalls
<1>13. QED
  BY <1>6, <1>9, <1>11, <1>12 DEF Auth!Next, Auth!Fail, Auth!Retention, Auth!vars

(* A locked row stays as it is: who would change it waits for the lock.    *)
LEMMA StepRotating == AuthInv /\ [Auth!Next]_(Auth!vars) => RotatingLive'
<1> SUFFICES ASSUME AuthInv, [Auth!Next]_(Auth!vars) PROVE RotatingLive'
  OBVIOUS
<1> DEFINE Ready(s) == Auth!Live(s) /\ authSession[s].replacedBySessionId = Auth!NoId
           Same(s) == authSession'[s] = authSession[s]
           Holds(d) == authCall[d].pc = "rotating"
<1>1. /\ authCall \in [SignIns -> AuthCalls] /\ OneHolder
      /\ authSession \in [Auth!Ids -> Auth!Session]
  BY TypeParts DEF AuthInv
<1>2. \A d \in SignIns : Holds(d) =>
        /\ authCall[d].session \in Auth!Ids
        /\ Auth!Issued(authCall[d].session) /\ Ready(authCall[d].session)
  BY DEF AuthInv, RotatingLive, CallsInv
<1>3. ASSUME \A d \in SignIns : Holds(d)' =>
               /\ authCall'[d].session = authCall[d].session
               /\ Ready(authCall[d].session) /\ Same(authCall[d].session)
      PROVE  RotatingLive'
  BY <1>3 DEF RotatingLive, Auth!Live, Auth!Exists, Auth!Issued
\* no row changes, and nobody takes a lock
<1>4. ASSUME authSession' = authSession,
             \A d \in SignIns : Holds(d)' =>
               /\ authCall'[d].session = authCall[d].session
               /\ Holds(d) \/ Ready(authCall[d].session)
      PROVE  RotatingLive'
  BY <1>2, <1>3, <1>4
<1>5. ASSUME NEW c \in SignIns,
             Auth!Return(c) \/ \E p \in Auth!Places \ {"rotating"} : Auth!GoTo(c, p)
      PROVE  \A d \in SignIns : Holds(d)' =>
               d # c /\ authCall'[d].session = authCall[d].session /\ Holds(d)
  BY <1>1, <1>5 DEF Auth!Return, Auth!GoTo, Auth!NoCall, AuthCalls
<1>6. ASSUME NEW c \in SignIns, NEW p \in Auth!Places \ {"rotating"}, NEW s, NEW ch,
             Auth!Begin(c, p, s, ch)
      PROVE  RotatingLive'
  <2>1. \A d \in SignIns : Holds(d)'
          => authCall'[d].session = authCall[d].session /\ Holds(d)
    BY <1>1, <1>6 DEF Auth!Begin, Auth!NoCall, AuthCalls
  <2>2. QED
    BY <1>4, <1>6, <2>1 DEF Auth!Begin, Auth!database
<1>7. ASSUME NEW c \in SignIns, Auth!Call(c) PROVE RotatingLive'
  <2>1. {"create", "findChallenge", "find", "guard"} \subseteq Auth!Places \ {"rotating"}
    BY DEF Auth!Places
  <2>2. QED
    BY <1>6, <1>7, <2>1
       DEF Auth!Call, Auth!ExchangePrivyToken, Auth!VerifyChallenge, Auth!RefreshSession,
           Auth!Logout
<1>8. ASSUME NEW c \in SignIns,
             \/ Auth!FindChallenge(c) \/ Auth!Consume(c) \/ Auth!FindSession(c)
             \/ Auth!GetActiveSession(c) \/ Auth!RevokeSessionFamily(c)
      PROVE  RotatingLive'
  <2>1. {"consume", "create", "scan", "rotate", "logout"}
          \subseteq Auth!Places \ {"rotating"}
    BY DEF Auth!Places
  <2>2. Auth!Return(c) \/ (\E p \in Auth!Places \ {"rotating"} : Auth!GoTo(c, p))
    BY <1>8, <2>1
       DEF Auth!FindChallenge, Auth!Consume, Auth!FindSession, Auth!GetActiveSession,
           Auth!RevokeSessionFamily
  <2>3. authSession' = authSession
    BY <1>8
       DEF Auth!FindChallenge, Auth!Consume, Auth!FindSession, Auth!GetActiveSession,
           Auth!RevokeSessionFamily, Auth!database
  <2>4. QED
    BY <1>4, <1>5, <2>2, <2>3
<1>9. ASSUME NEW c \in SignIns, Auth!ScanFamily(c) PROVE RotatingLive'
  <2>1. \A d \in SignIns : Holds(d)'
          => authCall'[d].session = authCall[d].session /\ Holds(d)
    BY <1>1, <1>9 DEF Auth!ScanFamily, AuthCalls
  <2>2. QED
    BY <1>4, <1>9, <2>1 DEF Auth!ScanFamily, Auth!database
<1>10. ASSUME NEW c \in SignIns, Auth!Rotate(c) PROVE RotatingLive'
  <2>1. \A d \in SignIns : Holds(d)' =>
          /\ authCall'[d].session = authCall[d].session
          /\ Holds(d) \/ (d = c /\ Auth!Rotates(authCall[c].session))
    BY <1>1, <1>10 DEF Auth!Rotate, Auth!GoTo, AuthCalls
  <2>2. QED
    BY <1>4, <1>10, <2>1 DEF Auth!Rotate, Auth!Rotates, Auth!database
<1>11. ASSUME NEW c \in SignIns, Auth!CreateSession(c) PROVE RotatingLive'
  <2>1. PICK t : Inserts(t, [Auth!NoSession EXCEPT !.familyId = t])
    BY <1>11, CreateRows
  <2>2. \A s \in Auth!Ids : Auth!Issued(s) => Same(s)
    BY <1>1, <2>1 DEF Inserts
  <2>3. Auth!Return(c)
    BY <1>11 DEF Auth!CreateSession
  <2>4. QED
    BY <1>2, <1>3, <1>5, <2>2, <2>3
<1>12. ASSUME NEW c \in SignIns, Auth!Commit(c) PROVE RotatingLive'
  <2>1. PICK t : Replaces(authCall[c].session, t)
    BY <1>12, CommitRows
  <2>2. \A s \in Auth!Ids : Auth!Issued(s) /\ s # authCall[c].session => Same(s)
    BY <1>1, <2>1 DEF Replaces
  <2>3. Auth!Return(c) /\ Holds(c)
    BY <1>12 DEF Auth!Commit
  <2>4. \A d \in SignIns : Holds(d) /\ d # c => authCall[d].session # authCall[c].session
    BY <1>1, <2>3 DEF OneHolder
  <2>5. QED
    BY <1>2, <1>3, <1>5, <2>2, <2>3, <2>4
<1>13. ASSUME NEW c \in SignIns, Auth!RevokeFamily(c) PROVE RotatingLive'
  <2>1. \A s \in Auth!Ids : s \notin authCall[c].snapshot => Same(s)
    BY <1>13, RevokeRows
  <2>2. \A d \in SignIns : Holds(d) => authCall[d].session \notin authCall[c].snapshot
    BY <1>13 DEF Auth!RevokeFamily, Auth!Locked
  <2>3. Auth!Return(c)
    BY <1>13 DEF Auth!RevokeFamily
  <2>4. QED
    BY <1>2, <1>3, <1>5, <2>1, <2>2, <2>3
<1>14. ASSUME NEW c \in SignIns, Auth!Fail(c) PROVE RotatingLive'
  BY <1>4, <1>5, <1>14 DEF Auth!Fail, Auth!RolledBack
<1>15. ASSUME Auth!Retention PROVE RotatingLive'
  <2>1. \A d \in SignIns : Holds(d) => Same(authCall[d].session)
    <3>1. ASSUME NEW s \in Auth!Ids, Auth!CleanAuthSessions(s)
          PROVE  \A d \in SignIns : Holds(d) => Same(authCall[d].session)
      BY <1>2, <3>1, CleanRows DEF Auth!CleanAuthSessions, Auth!Locked
    <3>2. QED
      BY <1>15, <3>1 DEF Auth!Retention, Auth!CleanWalletChallenges
  <2>2. UNCHANGED authCall
    BY <1>15 DEF Auth!Retention
  <2>3. QED
    BY <1>2, <1>3, <2>1, <2>2
<1>16. CASE UNCHANGED Auth!vars
  BY <1>4, <1>16 DEF Auth!vars, Auth!database
<1>17. QED
  BY <1>7, <1>8, <1>9, <1>10, <1>11, <1>12, <1>13, <1>14, <1>15, <1>16
     DEF Auth!Next, Auth!Step
(* A challenge is consumed by one call, which issues one session for it.   *)
LEMMA StepChallenges == AuthInv /\ [Auth!Next]_(Auth!vars) => ChallengesInv'
<1> SUFFICES ASSUME AuthInv, [Auth!Next]_(Auth!vars), NEW ch \in Challenges
             PROVE  /\ issued'[ch] <= 1
                    /\ issued'[ch] = 1 => ch \in consumed'
                    /\ \A c \in SignIns :
                         Creates(c, ch)' => ch \in consumed' /\ issued'[ch] = 0
                    /\ \A c, d \in SignIns : Creates(c, ch)' /\ Creates(d, ch)' => c = d
  BY DEF ChallengesInv
<1> DEFINE Goal == /\ issued'[ch] <= 1
                   /\ issued'[ch] = 1 => ch \in consumed'
                   /\ \A c \in SignIns : Creates(c, ch)'
                        => ch \in consumed' /\ issued'[ch] = 0
                   /\ \A c, d \in SignIns : Creates(c, ch)' /\ Creates(d, ch)' => c = d
<1> SUFFICES Goal
  OBVIOUS
<1>1. /\ authCall \in [SignIns -> AuthCalls] /\ issued \in [Challenges -> Nat]
      /\ consumed \subseteq Challenges
  BY TypeParts DEF AuthInv
<1>2. /\ issued[ch] <= 1
      /\ issued[ch] = 1 => ch \in consumed
      /\ \A c \in SignIns : Creates(c, ch) => ch \in consumed /\ issued[ch] = 0
      /\ \A c, d \in SignIns : Creates(c, ch) /\ Creates(d, ch) => c = d
  BY DEF AuthInv, ChallengesInv
\* nobody comes to create a session for ch
<1>3. ASSUME issued' = issued, ch \in consumed => ch \in consumed',
             \A d \in SignIns : Creates(d, ch)' => Creates(d, ch)
      PROVE  Goal
  BY <1>2, <1>3
<1>4. ASSUME NEW c \in SignIns,
             Auth!Return(c) \/ \E p \in Auth!Places \ {"create"} : Auth!GoTo(c, p)
      PROVE  \A d \in SignIns : Creates(d, ch)' => d # c /\ Creates(d, ch)
  BY <1>1, <1>4 DEF Auth!Return, Auth!GoTo, Auth!NoCall, AuthCalls, Creates
<1>5. ASSUME NEW c \in SignIns, Auth!Call(c) PROVE Goal
  <2>1. \A d \in SignIns : Creates(d, ch)' => Creates(d, ch)
    BY ZenonT(30), <1>1, <1>5
       DEF Auth!Call, Auth!ExchangePrivyToken, Auth!VerifyChallenge, Auth!RefreshSession,
           Auth!Logout, Auth!Begin, Auth!NoCall, AuthCalls, Creates
  <2>2. UNCHANGED <<consumed, issued>>
    BY <1>5
       DEF Auth!Call, Auth!ExchangePrivyToken, Auth!VerifyChallenge, Auth!RefreshSession,
           Auth!Logout, Auth!Begin, Auth!database
  <2>3. QED
    BY <1>3, <2>1, <2>2
<1>6. ASSUME NEW c \in SignIns, Auth!Consume(c) PROVE Goal
  <2>1. CASE ~Auth!Consumes(c)
    BY <1>3, <1>4, <1>6, <2>1 DEF Auth!Consume
  <2>2. CASE Auth!Consumes(c)
    <3>1. /\ consumed' = consumed \union authCall[c].challenge /\ Auth!GoTo(c, "create")
          /\ issued' = issued
      BY <1>6, <2>2 DEF Auth!Consume
    <3>2. \A d \in SignIns : Creates(d, ch)' =>
            Creates(d, ch) \/ (d = c /\ ch \in authCall[c].challenge)
      BY <1>1, <3>1 DEF Auth!GoTo, AuthCalls, Creates
    <3>3. ch \in authCall[c].challenge => ch \notin consumed
      BY <2>2 DEF Auth!Consumes
    <3>4. issued[ch] \in Nat
      BY <1>1
    <3>5. QED
      BY <1>2, <3>1, <3>2, <3>3, <3>4
  <2>3. QED
    BY <2>1, <2>2
<1>7. ASSUME NEW c \in SignIns, Auth!CreateSession(c) PROVE Goal
  <2>1. /\ Auth!Return(c) /\ authCall[c].pc = "create" /\ consumed' = consumed
        /\ issued'[ch] = issued[ch] + IF ch \in authCall[c].challenge THEN 1 ELSE 0
    BY <1>7 DEF Auth!CreateSession
  <2>2. CASE ch \in authCall[c].challenge
    <3>1. Creates(c, ch)
      BY <2>1, <2>2 DEF Creates
    <3>2. \A d \in SignIns : ~Creates(d, ch)'
      BY <1>2, <1>4, <2>1, <3>1
    <3>3. QED
      BY <1>2, <2>1, <2>2, <3>1, <3>2
  <2>3. CASE ch \notin authCall[c].challenge
    <3>1. issued'[ch] = issued[ch]
      BY <1>1, <2>1, <2>3
    <3>2. QED
      BY <1>2, <1>4, <2>1, <3>1
  <2>4. QED
    BY <2>2, <2>3
<1>8. ASSUME NEW c \in SignIns, Auth!ScanFamily(c) PROVE Goal
  <2>1. \A d \in SignIns : Creates(d, ch)' => Creates(d, ch)
    BY <1>1, <1>8 DEF Auth!ScanFamily, AuthCalls, Creates
  <2>2. QED
    BY <1>3, <1>8, <2>1 DEF Auth!ScanFamily, Auth!database
<1>9. ASSUME NEW c \in SignIns, Auth!Step(c), ~Auth!Consume(c), ~Auth!CreateSession(c),
        ~Auth!ScanFamily(c)
      PROVE  Goal
  <2>1. Auth!Return(c) \/ (\E p \in Auth!Places \ {"create"} : Auth!GoTo(c, p))
    <3>1. {"consume", "scan", "rotate", "rotating", "logout"}
            \subseteq Auth!Places \ {"create"}
      BY DEF Auth!Places
    <3>2. QED
      BY <1>9, <3>1
         DEF Auth!Step, Auth!FindChallenge, Auth!FindSession, Auth!Rotate, Auth!Commit,
             Auth!GetActiveSession, Auth!RevokeSessionFamily, Auth!RevokeFamily
  <2>2. UNCHANGED <<consumed, issued>>
    BY <1>9
       DEF Auth!Step, Auth!FindChallenge, Auth!FindSession, Auth!Rotate, Auth!Commit,
           Auth!GetActiveSession, Auth!RevokeSessionFamily, Auth!RevokeFamily, Auth!database
  <2>3. QED
    BY <1>3, <1>4, <2>1, <2>2
<1>10. ASSUME NEW c \in SignIns, Auth!Fail(c) PROVE Goal
  BY <1>3, <1>4, <1>10 DEF Auth!Fail
<1>11. CASE Auth!Retention \/ UNCHANGED Auth!vars
  BY <1>3, <1>11
     DEF Auth!Retention, Auth!CleanAuthSessions, Auth!CleanWalletChallenges, Auth!vars,
         Auth!database, Creates
<1>12. QED
  BY <1>5, <1>6, <1>7, <1>8, <1>9, <1>10, <1>11 DEF Auth!Next
-----------------------------------------------------------------------------
(* Nothing is issued, consumed or under way at first.                      *)
LEMMA AuthInitially == ASSUME Auth!AuthAssumption, Auth!Init PROVE AuthInv
<1>1. \A s \in Auth!Ids : ~Auth!Issued(s) /\ authSession[s] = Auth!NoSession
  BY DEF Auth!Init, Auth!Issued, Auth!NoSession
<1>2. Auth!NoSession \in Auth!Session /\ Auth!NoCall \in AuthCalls
  BY DEF Auth!NoSession, Auth!Session, Auth!NoCall, AuthCalls, Auth!Places
<1>3. \A c \in SignIns : authCall[c] = Auth!NoCall
  BY DEF Auth!Init
<1>4. Auth!TypeOK
  <2>1. OneHolder
    BY <1>3 DEF OneHolder, Auth!NoCall
  <2>2. authCall \in [SignIns -> AuthCalls] /\ authSession \in [Auth!Ids -> Auth!Session]
    BY <1>2 DEF Auth!Init
  <2>3. authFailures \in 0..MaxAuthFailures
    BY DEF Auth!Init, Auth!AuthAssumption
  <2>4. consumed \subseteq Challenges /\ issued \in [Challenges -> Nat]
    BY DEF Auth!Init
  <2>5. QED
    BY <2>1, <2>2, <2>3, <2>4, TypeParts
<1>5. RowsInv /\ Auth!OneLivePerFamily
  BY <1>1 DEF RowsInv, Auth!OneLivePerFamily, Auth!Live, Auth!Exists
<1>6. Auth!FamilyIsChain
  BY <1>1, IdsAre DEF Auth!FamilyIsChain, Auth!NoSession
<1>7. CallsInv /\ RotatingLive
  BY <1>3 DEF CallsInv, RotatingLive, Auth!NoCall
<1>8. ChallengesInv
  BY <1>3 DEF ChallengesInv, Creates, Auth!NoCall, Auth!Init
<1>9. QED
  BY <1>4, <1>5, <1>6, <1>7, <1>8 DEF AuthInv

(* Every step keeps the invariant.                                         *)
LEMMA StepAuth ==
  ASSUME Auth!AuthAssumption
  PROVE  AuthInv /\ [Auth!Next]_(Auth!vars) => AuthInv'
<1> SUFFICES ASSUME AuthInv, [Auth!Next]_(Auth!vars) PROVE AuthInv'
  OBVIOUS
<1>1. Auth!TypeOK'
  BY AuthStepTypes DEF AuthInv
<1>2. QED
  BY <1>1, StepRows, StepCalls, StepRotating, StepChallenges DEF AuthInv, RowsGood, RowsOK

(* It says what the sessions promise, of states                            *)
LEMMA AuthGood ==
  ASSUME AuthInv
  PROVE  /\ Auth!TypeOK /\ Auth!OneLivePerFamily /\ Auth!FamilyIsChain
         /\ Auth!ChallengeUsedOnce
  BY DEF AuthInv, ChallengesInv, Auth!ChallengeUsedOnce

(* and of steps.                                                           *)
LEMMA AuthSteps ==
  ASSUME AuthInv, [Auth!Next]_(Auth!vars)
  PROVE  Auth!StaysClosed /\ Auth!RevokingHasAReason
  BY StepRows DEF RowsGood
-----------------------------------------------------------------------------
(***************************************************************************)
(* The gateway, for any number of instances, sockets, sessions, requests   *)
(* and failures: a message speaks for a wallet its socket has proved, what *)
(* the room is sent reaches a socket once at most, a message is given up   *)
(* after all attempts to store it and not before, and a socket loses its   *)
(* session for a reason.                                                   *)
(***************************************************************************)
\* of a request that a client made, the socket is known
MovingInv ==
  \A r \in Calls :
    /\ handler[r].pc # "idle" => handler[r].socket \in Sockets
    /\ handler[r].pc = "idle" => handler[r] = Chat!NoHandler
    /\ handler[r].pc = "verified" => handler[r].session \in Sessions

\* a socket has a session it proved
ProvenInv ==
  /\ proven \in [Sockets -> SUBSET Sessions]
  /\ \A s \in Sockets : meta[s].authSessionId # NoOne => meta[s].authSessionId \in proven[s]

\* a message is looked at and stored when it went out
StagesInv ==
  \A r \in Calls :
    handler[r].pc # "emitted" => check[r].pc = "none" /\ save[r].pc = "none"

\* the attempts to store a message are counted
AttemptsInv ==
  /\ lostAttempts \in [Calls -> Nat]
  /\ \A r \in Calls :
       /\ save[r].pc = "none" => lostAttempts[r] = 0
       /\ save[r].pc \in {"create", "upsert", "createAgain", "stored"} =>
            save[r].left >= 1 /\ lostAttempts[r] + save[r].left = MaxAttempts
       /\ save[r].pc = "failed" => lostAttempts[r] = MaxAttempts

\* a check that found its session revoked is right, and stays so
InactiveInv == \A r \in Calls : check[r].pc = "inactive" => ~Chat!Active(check[r].session)

\* what Redis brings to an instance was sent by another request's instance,
\* once, and has not reached the sockets there
Origin(r) == InstanceOf[handler[r].socket]
Awaited(i, r) == \E n \in 1..Len(bus[i]) : bus[i][n].id = r /\ bus[i][n].instanceId # i

BusInv ==
  /\ bus \in [Instances -> Seq(Chat!Event)]
  /\ \A i \in Instances : \A n \in 1..Len(bus[i]) :
       /\ handler[bus[i][n].id].pc = "emitted"
       /\ bus[i][n].instanceId = Origin(bus[i][n].id)
       /\ \A m \in 1..Len(bus[i]) : bus[i][m].id = bus[i][n].id => m = n

DeliveryInv ==
  /\ delivered \in [Sockets -> [Calls -> Nat]]
  /\ Chat!DeliveredOnce
  /\ \A s \in Sockets, r \in Calls : delivered[s][r] # 0 =>
       /\ handler[r].pc = "emitted"
       /\ ~Awaited(InstanceOf[s], r)

GatewayInv ==
  /\ Chat!TypeOK /\ MovingInv /\ ProvenInv /\ Chat!OnlyProvenWallets /\ StagesInv
  /\ AttemptsInv /\ InactiveInv /\ BusInv /\ DeliveryInv
-----------------------------------------------------------------------------
(***************************************************************************)
(* Types.                                                                  *)
(***************************************************************************)
Meta ==
  [authSessionId : Chat!MaybeSession, messageCount : 0..MaxPerWindow + 1, open : BOOLEAN]
Handler ==
  [kind : Kinds \union {"none"}, socket : Sockets \union {NoOne},
   session : Chat!MaybeSession, sender : Chat!MaybeWallet,
   pc : {"idle", "verify", "verified", "rejected", "replying", "built", "emitted", "done"}]
Check ==
  [pc : {"none", "revalidate", "inactive", "limit", "done"}, session : Chat!MaybeSession]
Save ==
  [pc : {"none", "create", "upsert", "createAgain", "stored", "failed"},
   left : 0..MaxAttempts, sender : Chat!MaybeWallet]

WorkTypes ==
  /\ handler \in [Calls -> Handler] /\ check \in [Calls -> Check]
  /\ save \in [Calls -> Save]
ChatDatabaseTypes ==
  /\ revoked \subseteq Sessions /\ miner \subseteq Wallets /\ chatMessage \subseteq Calls
  /\ chatFailures \in 0..MaxChatFailures
  /\ pubReady \in [Instances -> BOOLEAN] /\ subReady \in [Instances -> BOOLEAN]

(* The type invariant, in parts: queues have their types by BusInv.        *)
LEMMA ChatTypeParts ==
  ASSUME BusInv
  PROVE  Chat!TypeOK <=> meta \in [Sockets -> Meta] /\ WorkTypes /\ ChatDatabaseTypes
<1>1. \A i \in Instances : \A n \in 1..Len(bus[i]) : bus[i][n] \in Chat!Event
  BY DEF BusInv
<1>2. QED
  BY <1>1 DEF Chat!TypeOK, WorkTypes, ChatDatabaseTypes, Meta, Handler, Check, Save

(* The same of the next state.                                             *)
LEMMA ChatTypePartsNext ==
  ASSUME BusInv'
  PROVE  Chat!TypeOK' <=> (meta \in [Sockets -> Meta])' /\ WorkTypes' /\ ChatDatabaseTypes'
<1>1. \A i \in Instances : \A n \in 1..Len(bus'[i]) : bus'[i][n] \in Chat!Event
  BY DEF BusInv
<1>2. QED
  BY <1>1 DEF Chat!TypeOK, WorkTypes, ChatDatabaseTypes, Meta, Handler, Check, Save

(* The wallet of a socket, and what it is to have one.                     *)
LEMMA WalletFacts ==
  ASSUME Chat!GatewayAssumption, meta \in [Sockets -> Meta], NEW s \in Sockets
  PROVE  /\ Chat!Wallet(s) \in Chat!MaybeWallet
         /\ Chat!Wallet(s) # NoOne => /\ meta[s].authSessionId \in Sessions
                                      /\ Chat!Wallet(s) = WalletOf[meta[s].authSessionId]
  BY DEF Chat!Wallet, Chat!WalletIn, Meta, Chat!MaybeWallet, Chat!MaybeSession,
         Chat!GatewayAssumption

(* Counting a message leaves the session of its socket alone.              *)
LEMMA CountedType ==
  ASSUME Chat!GatewayAssumption, meta \in [Sockets -> Meta], NEW s \in Sockets
  PROVE  /\ Chat!Counted(s) \in [Sockets -> Meta]
         /\ \A t \in Sockets : Chat!Counted(s)[t].authSessionId = meta[t].authSessionId
<1>1. meta[s].messageCount \in 0..MaxPerWindow + 1 /\ MaxPerWindow \in Nat
  BY DEF Meta, Chat!GatewayAssumption
<1>2. (IF meta[s].messageCount > MaxPerWindow THEN meta[s].messageCount
       ELSE meta[s].messageCount + 1) \in 0..MaxPerWindow + 1
  BY <1>1
<1>3. QED
  BY <1>2 DEF Chat!Counted, Meta
-----------------------------------------------------------------------------
(***************************************************************************)
(* What a step does to requests, and to the sessions of sockets.           *)
(***************************************************************************)
ChatMoves(r) ==
  /\ handler[r].pc \notin {"emitted", "done"}
  /\ handler'[r].pc # "idle" /\ handler'[r].socket \in Sockets
  /\ handler[r].pc # "idle" => handler'[r].socket = handler[r].socket
  /\ handler'[r].pc = "verified" => handler'[r].session \in Sessions
  /\ handler'[r].sender \in {handler[r].sender, Chat!Wallet(handler'[r].socket)}

HandlersMove ==
  /\ handler' \in [Calls -> Handler]
  /\ \A r \in Calls : handler'[r] = handler[r] \/ ChatMoves(r)

\* a socket keeps its session, loses it for a reason, or has one it proves
Reason(s) ==
  \/ meta[s].authSessionId \in revoked
  \/ \E r \in Calls : handler[r].pc = "rejected" /\ handler[r].socket = s

SessionsMove ==
  /\ meta' \in [Sockets -> Meta] /\ proven' \in [Sockets -> SUBSET Sessions]
  /\ \A s \in Sockets :
       /\ proven[s] \subseteq proven'[s]
       /\ \/ meta'[s].authSessionId = meta[s].authSessionId
          \/ meta'[s].authSessionId = NoOne /\ Reason(s)
          \/ meta'[s].authSessionId \in proven'[s]

(* An arrival: a request that nobody handles yet.                          *)
LEMMA Received ==
  ASSUME Chat!GatewayAssumption, GatewayInv, NEW r \in Calls, NEW s \in Sockets,
         NEW kind \in Kinds, NEW session \in Chat!MaybeSession,
         NEW p \in {"verify", "replying", "emitted", "done"},
         Chat!Receive(r, kind, s, session, p)
  PROVE  HandlersMove
<1>1. handler \in [Calls -> Handler] /\ handler[r] = Chat!NoHandler
  BY DEF GatewayInv, Chat!TypeOK, Handler, Chat!Receive
<1>2. handler' = [handler EXCEPT ![r] =
         [kind |-> kind, pc |-> p, socket |-> s, session |-> session, sender |-> NoOne]]
  BY DEF Chat!Receive
<1>3. handler' \in [Calls -> Handler]
  BY <1>1, <1>2 DEF Handler, Chat!MaybeWallet, Chat!MaybeSession
<1>4. ChatMoves(r)
  BY <1>1, <1>2 DEF ChatMoves, Chat!NoHandler
<1>5. QED
  BY <1>1, <1>2, <1>3, <1>4 DEF HandlersMove

(* A handler goes on, or ends.                                             *)
LEMMA Goes ==
  ASSUME GatewayInv, NEW r \in Calls,
         NEW p \in {"verified", "rejected", "emitted", "done"},
         handler[r].pc \notin {"idle", "emitted", "done"}, Chat!GoTo(r, p),
         p = "verified" => handler[r].session \in Sessions
  PROVE  HandlersMove
<1>1. handler \in [Calls -> Handler] /\ handler[r].socket \in Sockets
  BY DEF GatewayInv, Chat!TypeOK, Handler, MovingInv
<1>2. handler' = [handler EXCEPT ![r].pc = p]
  BY DEF Chat!GoTo
<1>3. handler' \in [Calls -> Handler]
  BY <1>1, <1>2 DEF Handler
<1>4. ChatMoves(r)
  BY <1>1, <1>2 DEF ChatMoves, Handler
<1>5. QED
  BY <1>1, <1>2, <1>3, <1>4 DEF HandlersMove

(* A message is built with the wallet its socket has now.                  *)
LEMMA Builds ==
  ASSUME Chat!GatewayAssumption, GatewayInv, NEW r \in Calls, NEW s \in Sockets,
         Chat!SendMessage(r, s) \/ (Chat!BuildRealtimeMessage(r) /\ s = handler[r].socket)
  PROVE  HandlersMove
<1>0. /\ handler \in [Calls -> Handler] /\ meta \in [Sockets -> Meta]
      /\ Chat!Wallet(s) \in Chat!MaybeWallet
  BY WalletFacts DEF GatewayInv, Chat!TypeOK, Handler, Meta
<1>1. CASE Chat!SendMessage(r, s)
  <2>1. CASE \E p \in {"replying", "done"} :
               "send_message" \in Kinds /\ Chat!Receive(r, "send_message", s, NoOne, p)
    BY <2>1, Received DEF Chat!MaybeSession
  <2>2. CASE /\ handler[r] = Chat!NoHandler /\ "send_message" \in Kinds
             /\ handler' = [handler EXCEPT ![r] =
                  [kind |-> "send_message", pc |-> "built", socket |-> s,
                   session |-> NoOne, sender |-> Chat!Wallet(s)]]
    <3>0. [kind |-> "send_message", pc |-> "built", socket |-> s,
           session |-> NoOne, sender |-> Chat!Wallet(s)] \in Handler
      BY <1>0, <2>2 DEF Handler, Chat!MaybeSession
    <3>1. handler' \in [Calls -> Handler]
      BY <1>0, <2>2, <3>0
    <3>2. ChatMoves(r)
      BY <1>0, <2>2 DEF ChatMoves, Chat!NoHandler
    <3>3. QED
      BY <1>0, <2>2, <3>1, <3>2 DEF HandlersMove
  <2>3. QED
    BY <1>1, <2>1, <2>2 DEF Chat!SendMessage, Chat!Receive
<1>2. CASE Chat!BuildRealtimeMessage(r) /\ s = handler[r].socket
  <2>1. CASE Chat!Done(r)
    BY <1>2, <2>1, Goes DEF Chat!Done, Chat!BuildRealtimeMessage
  <2>2. CASE handler' = [handler EXCEPT ![r].pc = "built", ![r].sender = Chat!Wallet(s)]
    <3>1. handler[r].pc = "replying"
      BY <1>2 DEF Chat!BuildRealtimeMessage
    <3> DEFINE h == [handler[r] EXCEPT !.pc = "built", !.sender = Chat!Wallet(s)]
    <3>0. h \in Handler /\ handler' = [handler EXCEPT ![r] = h]
      <4>1. handler[r] \in Handler
        BY <1>0
      <4>2. h \in Handler
        BY <1>0, <4>1 DEF Handler
      <4>3. QED
        BY <1>0, <2>2, <4>1, <4>2 DEF Handler
    <3> HIDE DEF h
    <3>2. handler' \in [Calls -> Handler]
      BY <1>0, <3>0
    <3>3. ChatMoves(r)
      BY <1>0, <1>2, <2>2, <3>1 DEF ChatMoves, Handler
    <3>4. QED
      BY <1>0, <2>2, <3>2, <3>3 DEF HandlersMove
  <2>3. QED
    BY <1>2, <2>1, <2>2 DEF Chat!BuildRealtimeMessage
<1>3. QED
  BY <1>1, <1>2

(* An answer that the handler of a token gets, and acts on.                *)
LEMMA Verifies ==
  ASSUME GatewayInv, NEW r \in Calls, Chat!VerifyAccessToken(r) \/ Chat!Authenticated(r)
  PROVE  HandlersMove
<1>1. handler \in [Calls -> Handler]
  BY DEF GatewayInv, Chat!TypeOK, Handler
<1>2. Chat!Active(handler[r].session) => handler[r].session \in Sessions
  BY <1>1 DEF Chat!Active, Handler, Chat!MaybeSession
<1>3. QED
  BY <1>2, Goes DEF Chat!VerifyAccessToken, Chat!Authenticated, Chat!Done

(* Of the handlers, a step moves one at most.                              *)
LEMMA StepHandlers ==
  ASSUME Chat!GatewayAssumption, GatewayInv, [Chat!Next]_(Chat!vars)
  PROVE  HandlersMove
<1>1. CASE UNCHANGED handler
  <2>1. handler \in [Calls -> Handler]
    BY DEF GatewayInv, Chat!TypeOK, Handler
  <2>2. QED
    BY <1>1, <2>1 DEF HandlersMove
<1>2. ASSUME NEW r \in Calls, NEW s \in Sockets, NEW session \in Chat!MaybeSession,
             Chat!Authenticate(r, s, session)
      PROVE  HandlersMove
  <2>1. "authenticate" \in Kinds /\ Chat!Receive(r, "authenticate", s, session, "verify")
    BY <1>2 DEF Chat!Authenticate, Chat!Receive
  <2>2. QED
    BY <2>1, Received
<1>3. ASSUME NEW r \in Calls, NEW s \in Sockets, Chat!Announce(r, s)
      PROVE  HandlersMove
  <2>1. "announce" \in Kinds /\ Chat!Receive(r, "announce", s, NoOne, "emitted")
    BY <1>3 DEF Chat!Announce, Chat!Receive
  <2>2. QED
    BY <2>1, Received DEF Chat!MaybeSession
<1>4. ASSUME NEW r \in Calls, Chat!BuildRealtimeMessage(r)
      PROVE  HandlersMove
  <2>1. handler[r].socket \in Sockets
    BY <1>4 DEF Chat!BuildRealtimeMessage, GatewayInv, MovingInv
  <2>2. QED
    BY <1>4, <2>1, Builds
<1>5. ASSUME NEW r \in Calls, Chat!Emit(r) \/ Chat!HydrateFails(r)
      PROVE  HandlersMove
  BY <1>5, Goes DEF Chat!Emit, Chat!HydrateFails, Chat!Done, Chat!GoTo
<1>6. QED
  <2>1. ASSUME NEW r \in Calls, NEW s \in Sockets, Chat!Ask(r, s)
        PROVE  HandlersMove
    BY <2>1, <1>2, <1>3, Builds DEF Chat!Ask, Chat!MaybeSession
  <2>2. ASSUME NEW r \in Calls, Chat!Step(r)
        PROVE  HandlersMove
    BY <2>2, <1>1, <1>4, <1>5, Verifies
    DEF Chat!Step, Chat!CreateMessage, Chat!UpsertMiner, Chat!AssertSessionActive,
        Chat!SessionInactive, Chat!Limit
  <2>3. QED
    BY <2>1, <2>2, <1>1
    DEF Chat!Next, Chat!HandleDistributedMessage, Chat!RedisEnds, Chat!WindowPasses,
        Chat!Close, Chat!Revoke, Chat!vars, Chat!work

(* A socket that loses its session does so in the check of a message whose *)
(* session is revoked, or because a token was rejected.                    *)
LEMMA Clears ==
  ASSUME Chat!GatewayAssumption, GatewayInv, NEW r \in Calls,
         Chat!Authenticated(r) \/ Chat!SessionInactive(r)
  PROVE  SessionsMove
<1>0. /\ meta \in [Sockets -> Meta] /\ proven \in [Sockets -> SUBSET Sessions]
      /\ handler \in [Calls -> Handler]
  BY DEF GatewayInv, Chat!TypeOK, Meta, Handler, ProvenInv
<1>1. CASE Chat!Authenticated(r)
  <2> DEFINE s == handler[r].socket
  <2>1. s \in Sockets
    BY <1>1 DEF Chat!Authenticated, GatewayInv, MovingInv
  <2>2. CASE UNCHANGED <<meta, proven>>
    BY <1>0, <2>2 DEF SessionsMove
  <2>3. CASE /\ handler[r].pc = "verified"
             /\ meta' = [meta EXCEPT ![s].authSessionId = handler[r].session]
             /\ proven' = [proven EXCEPT ![s] = @ \union {handler[r].session}]
    <3>1. handler[r].session \in Sessions
      BY <2>3 DEF GatewayInv, MovingInv
    <3>2. QED
      BY <1>0, <2>1, <2>3, <3>1 DEF SessionsMove, Meta, Chat!MaybeSession
  <2>4. CASE handler[r].pc = "rejected" /\ Chat!ClearClientAuth(s) /\ UNCHANGED proven
    <3>1. Reason(s)
      BY <2>4 DEF Reason
    <3>2. QED
      BY <1>0, <2>1, <2>4, <3>1
         DEF SessionsMove, Chat!ClearClientAuth, Meta, Chat!MaybeSession
  <2>5. QED
    BY <1>1, <2>2, <2>3, <2>4 DEF Chat!Authenticated
<1>2. CASE Chat!SessionInactive(r)
  <2> DEFINE s == handler[r].socket
  <2>1. CASE UNCHANGED meta
    BY <1>0, <1>2, <2>1 DEF Chat!SessionInactive, SessionsMove
  <2>2. CASE Chat!Checked(r) /\ Chat!ClearClientAuth(s)
    <3>1. check[r].pc = "inactive" /\ handler[r].pc = "emitted"
      BY <1>2 DEF Chat!SessionInactive, GatewayInv, StagesInv
    <3>2. s \in Sockets
      BY <3>1 DEF GatewayInv, MovingInv
    <3>3. meta[s].authSessionId = NoOne \/ Reason(s)
      BY <2>2, <3>1 DEF Chat!Checked, Reason, Chat!Active, GatewayInv, InactiveInv
    <3>4. QED
      BY <1>0, <1>2, <2>2, <3>2, <3>3
      DEF SessionsMove, Chat!SessionInactive, Chat!ClearClientAuth, Meta, Chat!MaybeSession
  <2>3. QED
    BY <1>2, <2>1, <2>2 DEF Chat!SessionInactive
<1>3. QED
  BY <1>1, <1>2

(* What a step does to the sockets and their sessions.                     *)
LEMMA StepSessions ==
  ASSUME Chat!GatewayAssumption, GatewayInv, [Chat!Next]_(Chat!vars)
  PROVE  SessionsMove
<1>0. /\ meta \in [Sockets -> Meta] /\ proven \in [Sockets -> SUBSET Sessions]
  BY DEF GatewayInv, Chat!TypeOK, Meta, ProvenInv
<1>1. CASE UNCHANGED <<meta, proven>>
  BY <1>0, <1>1 DEF SessionsMove
<1>2. ASSUME NEW r \in Calls, NEW s \in Sockets, Chat!SendMessage(r, s)
      PROVE  SessionsMove
  BY <1>0, <1>2, CountedType DEF Chat!SendMessage, SessionsMove
<1>3. ASSUME NEW r \in Calls, Chat!Limit(r)
      PROVE  SessionsMove
  <2>1. CASE UNCHANGED meta
    BY <1>0, <1>3, <2>1 DEF Chat!Limit, SessionsMove
  <2>2. CASE meta' = [meta EXCEPT ![handler[r].socket].messageCount = MaxPerWindow + 1]
    <3>1. MaxPerWindow + 1 \in 0..MaxPerWindow + 1
      BY DEF Chat!GatewayAssumption
    <3>2. QED
      BY ZenonT(30), <1>0, <1>3, <2>2, <3>1 DEF Chat!Limit, SessionsMove, Meta
  <2>3. QED
    BY <1>3, <2>1, <2>2 DEF Chat!Limit
<1>4. ASSUME NEW s \in Sockets, Chat!WindowPasses(s) \/ Chat!Close(s)
      PROVE  SessionsMove
  <2>1. 0 \in 0..MaxPerWindow + 1
    BY DEF Chat!GatewayAssumption
  <2>2. CASE Chat!WindowPasses(s)
    BY <1>0, <2>1, <2>2 DEF Chat!WindowPasses, SessionsMove, Meta
  <2>3. CASE Chat!Close(s)
    BY <1>0, <2>3 DEF Chat!Close, SessionsMove, Meta
  <2>4. QED
    BY <1>4, <2>2, <2>3
<1>5. QED
  <2>1. ASSUME NEW r \in Calls, NEW s \in Sockets, Chat!Ask(r, s)
        PROVE  SessionsMove
    BY <2>1, <1>1, <1>2 DEF Chat!Ask, Chat!Authenticate, Chat!Announce, Chat!sockets
  <2>2. ASSUME NEW r \in Calls, Chat!Step(r)
        PROVE  SessionsMove
    BY <2>2, <1>1, <1>3, Clears
    DEF Chat!Step, Chat!CreateMessage, Chat!UpsertMiner, Chat!AssertSessionActive,
        Chat!VerifyAccessToken,
        Chat!BuildRealtimeMessage, Chat!Emit, Chat!HydrateFails, Chat!sockets
  <2>3. QED
    BY <2>1, <2>2, <1>1, <1>4
    DEF Chat!Next, Chat!HandleDistributedMessage, Chat!RedisEnds, Chat!Revoke, Chat!vars,
        Chat!sockets

(* So requests keep to what is known of them, and what their messages      *)
(* speak for stays proven.                                                 *)
LEMMA StepProven ==
  ASSUME Chat!GatewayAssumption, GatewayInv, HandlersMove, SessionsMove
  PROVE  MovingInv' /\ ProvenInv' /\ Chat!OnlyProvenWallets'
<1>0. meta \in [Sockets -> Meta] /\ handler \in [Calls -> Handler]
  BY DEF GatewayInv, Chat!TypeOK, Meta, Handler
<1>1. MovingInv'
  BY DEF GatewayInv, MovingInv, HandlersMove, ChatMoves
<1>2. ProvenInv'
  BY DEF GatewayInv, ProvenInv, SessionsMove
<1>3. Chat!OnlyProvenWallets'
  <2> SUFFICES ASSUME NEW r \in Calls, handler'[r].sender # NoOne
               PROVE  \E session \in proven'[handler'[r].socket] :
                        WalletOf[session] = handler'[r].sender
    BY DEF Chat!OnlyProvenWallets
  <2> DEFINE s == handler'[r].socket
  <2>1. CASE /\ handler'[r].sender = handler[r].sender /\ s = handler[r].socket
             /\ s \in Sockets
    BY <2>1 DEF GatewayInv, Chat!OnlyProvenWallets, SessionsMove
  <2>2. CASE s \in Sockets /\ handler'[r].sender = Chat!Wallet(s)
    <3>1. meta[s].authSessionId # NoOne
      BY <2>2 DEF Chat!Wallet, Chat!WalletIn
    <3>2. meta[s].authSessionId \in proven'[s]
      BY <2>2, <3>1 DEF GatewayInv, ProvenInv, SessionsMove
    <3>3. QED
      BY <1>0, <2>2, <3>2, WalletFacts
  <2>3. CASE handler'[r] = handler[r]
    <3>1. handler[r].pc # "idle"
      BY <2>3 DEF GatewayInv, MovingInv, Chat!NoHandler
    <3>2. s \in Sockets
      BY <2>3, <3>1 DEF GatewayInv, MovingInv
    <3>3. QED
      BY <2>1, <2>3, <3>2
  <2>4. CASE ChatMoves(r)
    <3>1. CASE handler[r].pc = "idle"
      <4>1. handler[r].sender = NoOne
        BY <3>1 DEF GatewayInv, MovingInv, Chat!NoHandler
      <4>2. QED
        BY <2>2, <2>4, <4>1 DEF ChatMoves
    <3>2. CASE handler[r].pc # "idle"
      BY <2>1, <2>2, <2>4, <3>2 DEF ChatMoves
    <3>3. QED
      BY <3>1, <3>2
  <2>5. QED
    BY <2>3, <2>4 DEF HandlersMove
<1>4. QED
  BY <1>1, <1>2, <1>3
-----------------------------------------------------------------------------
(***************************************************************************)
(* The checks after a message, and the attempts to store it.               *)
(***************************************************************************)
WorkGood ==
  /\ check' \in [Calls -> Check] /\ save' \in [Calls -> Save]
  /\ StagesInv' /\ AttemptsInv' /\ InactiveInv'

(* A request whose message has gone out is handled no further.             *)
LEMMA EmittedStays ==
  ASSUME HandlersMove, NEW r \in Calls, handler[r].pc = "emitted"
  PROVE  handler'[r] = handler[r]
  BY DEF HandlersMove, ChatMoves

(* Nothing of this kind happens.                                           *)
LEMMA WorkStays ==
  ASSUME GatewayInv, HandlersMove, UNCHANGED <<check, save, lostAttempts>>,
         revoked \subseteq revoked'
  PROVE  WorkGood
<1>1. check \in [Calls -> Check] /\ save \in [Calls -> Save]
  BY DEF GatewayInv, Chat!TypeOK, Check, Save
<1>2. StagesInv'
  BY EmittedStays DEF GatewayInv, StagesInv
<1>3. AttemptsInv' /\ InactiveInv'
  BY DEF GatewayInv, AttemptsInv, InactiveInv, Chat!Active
<1>4. QED
  BY <1>1, <1>2, <1>3 DEF WorkGood

(* A message goes out.                                                     *)
LEMMA EmitWork ==
  ASSUME Chat!GatewayAssumption, GatewayInv, NEW r \in Calls, Chat!Emit(r),
         UNCHANGED lostAttempts
  PROVE  WorkGood
<1> DEFINE s == handler[r].socket
<1>1. /\ check \in [Calls -> Check] /\ save \in [Calls -> Save]
      /\ handler \in [Calls -> Handler] /\ meta \in [Sockets -> Meta]
  BY DEF GatewayInv, Chat!TypeOK, Check, Save, Handler, Meta
<1>2. s \in Sockets /\ save[r].pc = "none"
  BY DEF Chat!Emit, GatewayInv, MovingInv, StagesInv
<1>3. /\ meta[s].authSessionId \in Chat!MaybeSession /\ Chat!Wallet(s) \in Chat!MaybeWallet
      /\ MaxAttempts \in 0..MaxAttempts /\ MaxAttempts >= 1
  BY <1>1, <1>2, WalletFacts DEF Meta, Chat!GatewayAssumption
<1>4. PICK p \in {"revalidate", "limit"} :
        check' = [check EXCEPT ![r] = [pc |-> p, session |-> meta[s].authSessionId]]
  BY DEF Chat!Emit
<1>5. /\ save' = [save EXCEPT ![r] =
           [pc |-> "create", left |-> MaxAttempts, sender |-> Chat!Wallet(s)]]
      /\ handler' = [handler EXCEPT ![r].pc = "emitted"]
      /\ UNCHANGED <<revoked, lostAttempts>>
  BY DEF Chat!Emit, Chat!database
<1>6. check' \in [Calls -> Check] /\ save' \in [Calls -> Save]
  BY <1>1, <1>3, <1>4, <1>5 DEF Check, Save
<1>7. StagesInv'
  BY <1>1, <1>4, <1>5 DEF GatewayInv, StagesInv, Handler
<1>8. AttemptsInv'
  <2>1. lostAttempts[r] = 0 /\ MaxAttempts \in Nat
    BY <1>2 DEF GatewayInv, AttemptsInv, Chat!GatewayAssumption
  <2>2. QED
    BY <1>1, <1>3, <1>5, <2>1 DEF GatewayInv, AttemptsInv
<1>9. InactiveInv'
  BY <1>1, <1>4, <1>5 DEF GatewayInv, InactiveInv, Chat!Active
<1>10. QED
  BY <1>6, <1>7, <1>8, <1>9 DEF WorkGood

(* A check goes on.                                                        *)
LEMMA CheckWork ==
  ASSUME GatewayInv, NEW r \in Calls, UNCHANGED lostAttempts,
         Chat!AssertSessionActive(r) \/ Chat!SessionInactive(r) \/ Chat!Limit(r)
  PROVE  WorkGood
<1>1. check \in [Calls -> Check] /\ save \in [Calls -> Save]
  BY DEF GatewayInv, Chat!TypeOK, Check, Save
<1>2. /\ UNCHANGED <<handler, save, revoked, lostAttempts>>
      /\ check[r].pc # "none"
      /\ \E p \in {"limit", "inactive", "done"} :
           /\ check' = [check EXCEPT ![r].pc = p]
           /\ p = "inactive" => ~Chat!Active(check[r].session)
  BY DEF Chat!AssertSessionActive, Chat!SessionInactive, Chat!Limit, Chat!CheckDone,
         Chat!database
<1>3. PICK p \in {"limit", "inactive", "done"} :
           /\ check' = [check EXCEPT ![r].pc = p]
           /\ p = "inactive" => ~Chat!Active(check[r].session)
  BY <1>2
<1>4. check' \in [Calls -> Check]
  BY <1>1, <1>3 DEF Check
<1>5. StagesInv'
  BY <1>1, <1>2, <1>3 DEF GatewayInv, StagesInv, Check
<1>6. AttemptsInv'
  BY <1>2 DEF GatewayInv, AttemptsInv
<1>7. InactiveInv'
  BY <1>1, <1>2, <1>3 DEF GatewayInv, InactiveInv, Chat!Active, Check
<1>8. QED
  BY <1>1, <1>2, <1>4, <1>5, <1>6, <1>7 DEF WorkGood

(* An attempt to store a message succeeds, goes on or fails.               *)
LEMMA AttemptWork ==
  ASSUME Chat!GatewayAssumption, GatewayInv, NEW r \in Calls,
         UNCHANGED <<handler, check, revoked>>,
         save[r].pc \in {"create", "createAgain", "upsert"},
         \/ /\ \E p \in {"stored", "upsert", "createAgain"} :
              save' = [save EXCEPT ![r].pc = p]
            /\ UNCHANGED lostAttempts
         \/ Chat!AttemptFails(r)
  PROVE  WorkGood
<1>1. check \in [Calls -> Check] /\ save \in [Calls -> Save] /\ MaxAttempts \in Nat
  BY DEF GatewayInv, Chat!TypeOK, Check, Save, Chat!GatewayAssumption
<1>2. /\ save[r].left \in 0..MaxAttempts /\ lostAttempts \in [Calls -> Nat]
      /\ save[r].left >= 1 /\ lostAttempts[r] + save[r].left = MaxAttempts
  BY <1>1 DEF Save, GatewayInv, AttemptsInv
<1>3. handler[r].pc = "emitted"
  BY DEF GatewayInv, StagesInv
<1>4. InactiveInv'
  BY DEF GatewayInv, InactiveInv, Chat!Active
<1>5. CASE /\ \E p \in {"stored", "upsert", "createAgain"} :
                save' = [save EXCEPT ![r].pc = p]
           /\ UNCHANGED lostAttempts
  <2>1. PICK p \in {"stored", "upsert", "createAgain"} : save' = [save EXCEPT ![r].pc = p]
    BY <1>5
  <2>2. save' \in [Calls -> Save]
    BY <1>1, <2>1 DEF Save
  <2>3. StagesInv'
    BY <1>1, <1>3, <2>1 DEF GatewayInv, StagesInv
  <2>4. AttemptsInv'
    BY <1>1, <1>2, <1>5, <2>1 DEF GatewayInv, AttemptsInv, Save
  <2>5. QED
    BY <1>1, <1>4, <2>2, <2>3, <2>4 DEF WorkGood
<1>6. CASE Chat!AttemptFails(r)
  <2> DEFINE p == IF Chat!LastAttempt(r) THEN "failed" ELSE "create"
             new == [save[r] EXCEPT !.pc = p, !.left = save[r].left - 1]
  <2>1. /\ new \in Save /\ new.pc = p /\ new.left = save[r].left - 1
        /\ save' = [save EXCEPT ![r] = new]
    <3>1. save[r] \in Save /\ save[r].left - 1 \in 0..MaxAttempts
      BY <1>1, <1>2
    <3>2. QED
      BY <1>1, <1>6, <3>1 DEF Chat!AttemptFails, Save
  <2>2. lostAttempts' = [lostAttempts EXCEPT ![r] = @ + 1]
    BY <1>6 DEF Chat!AttemptFails
  <2>3. p = "failed" => save[r].left = 1
    BY <1>2 DEF Chat!LastAttempt
  <2>4. p = "create" => save[r].left >= 2
    BY <1>2 DEF Chat!LastAttempt
  <2>5. p \in {"failed", "create"}
    OBVIOUS
  <2> HIDE DEF p, new
  <2>6. StagesInv'
    BY <1>1, <1>3, <2>1, <2>5 DEF GatewayInv, StagesInv
  <2>7. AttemptsInv'
    BY <1>1, <1>2, <2>1, <2>2, <2>3, <2>4, <2>5 DEF GatewayInv, AttemptsInv
  <2>8. save' \in [Calls -> Save]
    BY <1>1, <2>1
  <2>9. QED
    BY <1>1, <1>4, <2>6, <2>7, <2>8 DEF WorkGood
<1>7. QED
  BY <1>5, <1>6

(* What a step does to them.                                               *)
LEMMA StepWork ==
  ASSUME Chat!GatewayAssumption, GatewayInv, [Chat!Next]_(Chat!vars)
  PROVE  WorkGood
<1>0. HandlersMove
  BY StepHandlers
<1>1. CASE UNCHANGED <<check, save, lostAttempts>> /\ revoked \subseteq revoked'
  BY <1>0, <1>1, WorkStays
<1>2. ASSUME NEW r \in Calls, Chat!CreateMessage(r) \/ Chat!UpsertMiner(r)
      PROVE  WorkGood
  BY <1>2, AttemptWork DEF Chat!CreateMessage, Chat!UpsertMiner
<1>3. ASSUME NEW r \in Calls, Chat!Step(r)
      PROVE  WorkGood
  BY <1>3, <1>1, <1>2, EmitWork, CheckWork
  DEF Chat!Step, Chat!VerifyAccessToken, Chat!Authenticated, Chat!BuildRealtimeMessage,
      Chat!HydrateFails, Chat!database
<1>4. ASSUME NEW r \in Calls, NEW s \in Sockets, Chat!Ask(r, s)
      PROVE  WorkGood
  BY <1>4, <1>1
     DEF Chat!Ask, Chat!Authenticate, Chat!SendMessage, Chat!Announce, Chat!database
<1>5. QED
  BY <1>1, <1>3, <1>4
  DEF Chat!Next, Chat!HandleDistributedMessage, Chat!RedisEnds, Chat!WindowPasses,
      Chat!Close, Chat!Revoke, Chat!vars, Chat!work,
      Chat!database
-----------------------------------------------------------------------------
(***************************************************************************)
(* What the room is sent.                                                  *)
(***************************************************************************)
DeliveryGood == BusInv' /\ DeliveryInv'

(* Queues may only get shorter, at their heads.                            *)
Shorter ==
  /\ bus' \in [Instances -> Seq(Chat!Event)]
  /\ \A i \in Instances : \E d \in Nat :
       /\ Len(bus'[i]) + d = Len(bus[i])
       /\ \A n \in 1..Len(bus'[i]) : bus'[i][n] = bus[i][n + d]

(* What is then in a queue was there before.                               *)
LEMMA QueuesShrink ==
  ASSUME GatewayInv, HandlersMove, Shorter
  PROVE  /\ BusInv'
         /\ \A i \in Instances, r \in Calls : Awaited(i, r)' => Awaited(i, r)
<1>1. ASSUME NEW i \in Instances, NEW n \in 1..Len(bus'[i])
      PROVE  \E k \in 1..Len(bus[i]) :
               /\ bus'[i][n] = bus[i][k] /\ bus[i][k] \in Chat!Event
               /\ \A m \in 1..Len(bus'[i]) : bus'[i][m].id = bus'[i][n].id => m = n
  <2>1. bus[i] \in Seq(Chat!Event) /\ bus'[i] \in Seq(Chat!Event)
    BY DEF GatewayInv, BusInv, Shorter
  <2>2. PICK d \in Nat : /\ Len(bus'[i]) + d = Len(bus[i])
                         /\ \A m \in 1..Len(bus'[i]) : bus'[i][m] = bus[i][m + d]
    BY DEF Shorter
  <2>3. n \in Nat /\ \A m \in 1..Len(bus'[i]) : m \in Nat /\ m + d \in 1..Len(bus[i])
    BY <2>1, <2>2
  <2>4. \A m \in 1..Len(bus'[i]) : bus[i][m + d].id = bus[i][n + d].id => m + d = n + d
    BY <2>3 DEF GatewayInv, BusInv
  <2>5. \A m \in 1..Len(bus'[i]) : bus'[i][m].id = bus'[i][n].id => m = n
    <3> SUFFICES ASSUME NEW m \in 1..Len(bus'[i]), bus'[i][m].id = bus'[i][n].id
                 PROVE  m = n
      OBVIOUS
    <3>1. bus[i][m + d].id = bus[i][n + d].id
      BY <2>2
    <3>2. m + d = n + d
      BY <2>4, <3>1
    <3>3. QED
      BY <2>3, <3>2
  <2>6. bus[i][n + d] \in Chat!Event
    BY <2>1, <2>3
  <2>7. QED
    BY <2>2, <2>3, <2>5, <2>6
<1>2. BusInv'
  <2>1. ASSUME NEW i \in Instances, NEW n \in 1..Len(bus'[i])
        PROVE  /\ handler'[bus'[i][n].id].pc = "emitted"
               /\ bus'[i][n].instanceId = InstanceOf[handler'[bus'[i][n].id].socket]
               /\ \A m \in 1..Len(bus'[i]) : bus'[i][m].id = bus'[i][n].id => m = n
    <3>1. PICK k \in 1..Len(bus[i]) :
            /\ bus'[i][n] = bus[i][k] /\ bus[i][k] \in Chat!Event
            /\ \A m \in 1..Len(bus'[i]) : bus'[i][m].id = bus'[i][n].id => m = n
      BY <1>1
    <3>2. /\ bus[i][k].id \in Calls /\ handler[bus[i][k].id].pc = "emitted"
          /\ bus[i][k].instanceId = InstanceOf[handler[bus[i][k].id].socket]
      BY <3>1 DEF Chat!Event, GatewayInv, BusInv, Origin
    <3>3. handler'[bus[i][k].id] = handler[bus[i][k].id]
      BY <3>2, EmittedStays
    <3>4. QED
      BY <3>1, <3>2, <3>3
  <2>2. bus' \in [Instances -> Seq(Chat!Event)]
    BY DEF Shorter
  <2>3. QED
    BY <2>1, <2>2 DEF BusInv, Origin
<1>3. ASSUME NEW i \in Instances, NEW r \in Calls, Awaited(i, r)'
      PROVE  Awaited(i, r)
  <2>1. PICK n \in 1..Len(bus'[i]) : bus'[i][n].id = r /\ bus'[i][n].instanceId # i
    BY <1>3 DEF Awaited
  <2>2. PICK k \in 1..Len(bus[i]) : bus'[i][n] = bus[i][k]
    BY <1>1
  <2>3. QED
    BY <2>1, <2>2 DEF Awaited
<1>4. QED
  BY <1>2, <1>3

(* Nothing arrives.                                                        *)
LEMMA NothingArrives ==
  ASSUME Chat!GatewayAssumption, GatewayInv, HandlersMove, Shorter, UNCHANGED delivered
  PROVE  DeliveryGood
<1>1. \A s \in Sockets, r \in Calls : Awaited(InstanceOf[s], r)'
        => Awaited(InstanceOf[s], r)
  BY QueuesShrink DEF Chat!GatewayAssumption
<1>2. \A s \in Sockets, r \in Calls : delivered[s][r] # 0 =>
        handler'[r].pc = "emitted" /\ ~Awaited(InstanceOf[s], r)'
  BY <1>1, EmittedStays DEF GatewayInv, DeliveryInv
<1>3. DeliveryInv'
  BY <1>2 DEF GatewayInv, DeliveryInv, Chat!DeliveredOnce
<1>4. QED
  BY <1>3, QueuesShrink DEF DeliveryGood

(* No queue changes.                                                       *)
LEMMA SameQueues == ASSUME GatewayInv, UNCHANGED bus PROVE Shorter
<1>1. ASSUME NEW i \in Instances
      PROVE  /\ Len(bus'[i]) + 0 = Len(bus[i])
             /\ \A n \in 1..Len(bus'[i]) : bus'[i][n] = bus[i][n + 0]
  <2>1. bus[i] \in Seq(Chat!Event)
    BY DEF GatewayInv, BusInv
  <2>2. QED
    BY <2>1
<1>2. QED
  BY <1>1 DEF Shorter, GatewayInv, BusInv

(* One queue is cut by d elements.                                         *)
LEMMA QueueCut ==
  ASSUME GatewayInv, NEW j \in Instances, NEW q \in Seq(Chat!Event), NEW d \in Nat,
         bus' = [bus EXCEPT ![j] = q],
         Len(q) + d = Len(bus[j]), \A n \in 1..Len(q) : q[n] = bus[j][n + d]
  PROVE  Shorter
<1>1. bus \in [Instances -> Seq(Chat!Event)]
  BY DEF GatewayInv, BusInv
<1>2. \A i \in Instances \ {j} : /\ Len(bus'[i]) + 0 = Len(bus[i])
                                 /\ \A n \in 1..Len(bus'[i]) : bus'[i][n] = bus[i][n + 0]
  <2> TAKE i \in Instances \ {j}
  <2>1. bus'[i] = bus[i] /\ bus[i] \in Seq(Chat!Event)
    BY <1>1
  <2>2. QED
    BY <2>1
<1>3. bus'[j] = q /\ bus' \in [Instances -> Seq(Chat!Event)]
  BY <1>1
<1>4. \A i \in Instances : \E e \in Nat :
        /\ Len(bus'[i]) + e = Len(bus[i])
        /\ \A n \in 1..Len(bus'[i]) : bus'[i][n] = bus[i][n + e]
  <2> TAKE i \in Instances
  <2>1. CASE i = j
    BY <1>3, <2>1
  <2>2. CASE i # j
    BY <1>2, <2>2
  <2>3. QED
    BY <2>1, <2>2
<1>5. QED
  BY <1>3, <1>4 DEF Shorter

(* A queue without its first element.                                      *)
LEMMA QueueTail ==
  ASSUME GatewayInv, NEW j \in Instances, bus[j] # <<>>,
         bus' = [bus EXCEPT ![j] = Tail(@)]
  PROVE  /\ Shorter
         /\ Head(bus[j]) \in Chat!Event /\ Head(bus[j]) = bus[j][1] /\ 1 \in 1..Len(bus[j])
         /\ \A n \in 1..Len(bus'[j]) : bus'[j][n] = bus[j][n + 1]
              /\ n + 1 \in 1..Len(bus[j])
<1>1. bus[j] \in Seq(Chat!Event) /\ bus \in [Instances -> Seq(Chat!Event)]
  BY DEF GatewayInv, BusInv
<1>2. /\ Tail(bus[j]) \in Seq(Chat!Event) /\ Len(Tail(bus[j])) + 1 = Len(bus[j])
      /\ \A n \in 1..Len(Tail(bus[j])) : Tail(bus[j])[n] = bus[j][n + 1]
      /\ Head(bus[j]) \in Chat!Event /\ Head(bus[j]) = bus[j][1] /\ 1 \in 1..Len(bus[j])
  BY <1>1
<1>3. bus' = [bus EXCEPT ![j] = Tail(bus[j])] /\ bus'[j] = Tail(bus[j])
  BY <1>1
<1>4. \A n \in 1..Len(bus'[j]) : n + 1 \in 1..Len(bus[j])
  BY <1>1, <1>2, <1>3
<1>5. Shorter
  BY <1>2, <1>3, QueueCut
<1>6. QED
  BY <1>2, <1>3, <1>4, <1>5

(* An instance delivers the next message of another one.                   *)
LEMMA RelayDelivers ==
  ASSUME Chat!GatewayAssumption, GatewayInv, HandlersMove, NEW j \in Instances,
         Chat!HandleDistributedMessage(j)
  PROVE  DeliveryGood
<1>1. bus[j] # <<>> /\ bus' = [bus EXCEPT ![j] = Tail(@)]
  BY DEF Chat!HandleDistributedMessage
<1>2. Shorter
  BY <1>1, QueueTail
<1>3. CASE UNCHANGED delivered
  BY <1>2, <1>3, NothingArrives
<1>4. CASE Chat!Relays(j, Head(bus[j])) /\ Chat!Deliver(j, Head(bus[j]).id)
  <2>0. Head(bus[j]).id \in Calls
    BY <1>1, QueueTail DEF Chat!Event
  <2> PICK r \in Calls : r = Head(bus[j]).id
    BY <2>0
  <2>1. /\ Head(bus[j]) = bus[j][1] /\ 1 \in 1..Len(bus[j])
        /\ bus[j][1].id = r /\ bus[j][1].instanceId # j
    BY <1>1, <1>4, QueueTail DEF Chat!Relays
  <2>2. handler[r].pc = "emitted" /\ Awaited(j, r)
    BY <2>1 DEF GatewayInv, BusInv, Awaited
  <2>3. ~Awaited(j, r)'
    <3> SUFFICES ASSUME Awaited(j, r)' PROVE FALSE
      OBVIOUS
    <3> PICK n \in 1..Len(bus'[j]) : bus'[j][n].id = r
      BY DEF Awaited
    <3>1. bus[j][n + 1].id = r /\ n + 1 \in 1..Len(bus[j])
      BY <1>1, QueueTail
    <3>2. n + 1 = 1
      BY <2>1, <3>1 DEF GatewayInv, BusInv
    <3>3. QED
      BY <3>2
  <2>4. \A s \in Sockets : InstanceOf[s] = j => delivered[s][r] = 0
    BY <2>1, <2>2 DEF GatewayInv, DeliveryInv
  <2>5. /\ delivered \in [Sockets -> [Calls -> Nat]]
        /\ \A s \in Sockets, t \in Calls : delivered[s][t] <= 1
    BY DEF GatewayInv, DeliveryInv, Chat!DeliveredOnce
  <2>6. delivered' \in [Sockets -> [Calls -> Nat]]
    BY <1>4, <2>1, <2>5 DEF Chat!Deliver
  <2>7. \A s \in Sockets, t \in Calls :
          \/ delivered'[s][t] = delivered[s][t]
          \/ t = r /\ InstanceOf[s] = j /\ delivered'[s][t] = delivered[s][t] + 1
    BY <1>4, <2>1, <2>5 DEF Chat!Deliver, Chat!Room
  <2>8. Chat!DeliveredOnce'
    BY <2>1, <2>4, <2>5, <2>7 DEF Chat!DeliveredOnce
  <2>9. \A s \in Sockets, t \in Calls : delivered'[s][t] # 0 =>
          handler'[t].pc = "emitted" /\ ~Awaited(InstanceOf[s], t)'
    <3> TAKE s \in Sockets, t \in Calls
    <3>1. CASE delivered[s][t] # 0
      <4>1. handler[t].pc = "emitted" /\ ~Awaited(InstanceOf[s], t)
        BY <3>1 DEF GatewayInv, DeliveryInv
      <4>2. InstanceOf[s] \in Instances
        BY DEF Chat!GatewayAssumption
      <4>3. QED
        BY <4>1, <4>2, <1>2, EmittedStays, QueuesShrink
    <3>2. CASE t = r /\ InstanceOf[s] = j
      BY <2>1, <2>2, <2>3, <3>2, EmittedStays
    <3>3. QED
      BY <2>7, <3>1, <3>2
  <2>10. DeliveryInv'
    BY <2>6, <2>8, <2>9 DEF DeliveryInv
  <2>11. QED
    BY <1>2, <2>10, QueuesShrink DEF DeliveryGood
<1>5. QED
  BY <1>3, <1>4 DEF Chat!HandleDistributedMessage

(* What is sent to the room: to the sockets of the sender's instance, and  *)
(* to the queues of the others.                                            *)
LEMMA RoomIsSent ==
  ASSUME Chat!GatewayAssumption, GatewayInv, HandlersMove, NEW r \in Calls,
         NEW s \in Sockets,
         handler[r].pc # "emitted", handler'[r].pc = "emitted", handler'[r].socket = s,
         Chat!Deliver(InstanceOf[s], r), Chat!PublishDistributedEvent(InstanceOf[s], r)
  PROVE  DeliveryGood
<1> DEFINE e == [instanceId |-> InstanceOf[s], id |-> r]
<1>0. /\ bus \in [Instances -> Seq(Chat!Event)] /\ e \in Chat!Event
      /\ InstanceOf[s] \in Instances
      /\ delivered \in [Sockets -> [Calls -> Nat]]
  BY DEF GatewayInv, BusInv, DeliveryInv, Chat!Event, Chat!GatewayAssumption
<1>1. ASSUME NEW i \in Instances
      PROVE  bus'[i] = bus[i] \/ bus'[i] = Append(bus[i], e)
  BY <1>0 DEF Chat!PublishDistributedEvent
<1>2. bus' \in [Instances -> Seq(Chat!Event)]
  <2>1. \A i \in Instances : Append(bus[i], e) \in Seq(Chat!Event)
    BY <1>0
  <2>2. QED
    BY <1>0, <2>1 DEF Chat!PublishDistributedEvent
<1>3. ASSUME NEW i \in Instances, NEW n \in 1..Len(bus'[i])
      PROVE  \/ n \in 1..Len(bus[i]) /\ bus'[i][n] = bus[i][n]
             \/ n = Len(bus[i]) + 1 /\ bus'[i][n] = e
  <2>1. bus[i] \in Seq(Chat!Event) /\ e \in Chat!Event
    BY <1>0
  <2>2. QED
    BY <1>1, <2>1
<1>4. ASSUME NEW i \in Instances, NEW n \in 1..Len(bus[i])
      PROVE  /\ bus[i][n].id \in Calls \ {r}
             /\ handler'[bus[i][n].id] = handler[bus[i][n].id]
             /\ handler[bus[i][n].id].pc = "emitted"
             /\ bus[i][n].instanceId = InstanceOf[handler[bus[i][n].id].socket]
  <2>1. bus[i][n] \in Chat!Event
    BY <1>0
  <2>2. bus[i][n].id \in Calls
    BY <2>1 DEF Chat!Event
  <2>3. QED
    BY <2>2, EmittedStays DEF GatewayInv, BusInv, Origin
<1>5. BusInv'
  <2>1. ASSUME NEW i \in Instances, NEW n \in 1..Len(bus'[i])
        PROVE  /\ handler'[bus'[i][n].id].pc = "emitted"
               /\ bus'[i][n].instanceId = InstanceOf[handler'[bus'[i][n].id].socket]
               /\ \A m \in 1..Len(bus'[i]) : bus'[i][m].id = bus'[i][n].id => m = n
    <3>1. CASE n \in 1..Len(bus[i]) /\ bus'[i][n] = bus[i][n]
      <4>1. \A m \in 1..Len(bus[i]) : bus[i][m].id = bus[i][n].id => m = n
        BY <3>1 DEF GatewayInv, BusInv
      <4>2. QED
        BY <1>3, <1>4, <3>1, <4>1
    <3>2. CASE n = Len(bus[i]) + 1 /\ bus'[i][n] = e
      BY <1>3, <1>4, <3>2
    <3>3. QED
      BY <1>3, <3>1, <3>2
  <2>2. QED
    BY <1>2, <2>1 DEF BusInv, Origin
<1>6. \A t \in Sockets : delivered[t][r] = 0
  BY <1>0 DEF GatewayInv, DeliveryInv
<1>7. /\ delivered' \in [Sockets -> [Calls -> Nat]]
      /\ \A t \in Sockets, q \in Calls :
           \/ delivered'[t][q] = delivered[t][q]
           \/ q = r /\ InstanceOf[t] = InstanceOf[s] /\ delivered'[t][q] = 1
  BY <1>0, <1>6 DEF Chat!Deliver, Chat!Room
<1>8. Chat!DeliveredOnce'
  BY <1>7 DEF GatewayInv, DeliveryInv, Chat!DeliveredOnce
<1>9. ASSUME NEW t \in Sockets, NEW q \in Calls, delivered'[t][q] # 0
      PROVE  handler'[q].pc = "emitted" /\ ~Awaited(InstanceOf[t], q)'
  <2>0. InstanceOf[t] \in Instances
    BY DEF Chat!GatewayAssumption
  <2>1. CASE q = r /\ InstanceOf[t] = InstanceOf[s]
    <3> SUFFICES ASSUME Awaited(InstanceOf[t], q)' PROVE FALSE
      BY <2>1
    <3>1. PICK n \in 1..Len(bus'[InstanceOf[s]]) :
            /\ bus'[InstanceOf[s]][n].id = r
            /\ bus'[InstanceOf[s]][n].instanceId # InstanceOf[s]
      BY <2>1 DEF Awaited
    <3>2. CASE bus'[InstanceOf[s]][n] = e
      BY <3>1, <3>2
    <3>3. CASE n \in 1..Len(bus[InstanceOf[s]])
            /\ bus'[InstanceOf[s]][n] = bus[InstanceOf[s]][n]
      BY <1>0, <1>4, <3>1, <3>3
    <3>4. QED
      BY <1>0, <1>3, <3>2, <3>3
  <2>2. CASE q # r
    <3>1. /\ handler[q].pc = "emitted" /\ handler'[q] = handler[q]
          /\ ~Awaited(InstanceOf[t], q)
      BY <1>7, <1>9, <2>2, EmittedStays DEF GatewayInv, DeliveryInv
    <3>2. SUFFICES ASSUME Awaited(InstanceOf[t], q)' PROVE FALSE
      BY <3>1
    <3>3. PICK n \in 1..Len(bus'[InstanceOf[t]]) :
            /\ bus'[InstanceOf[t]][n].id = q
            /\ bus'[InstanceOf[t]][n].instanceId # InstanceOf[t]
      BY <3>2 DEF Awaited
    <3>4. QED
      BY <1>3, <2>0, <2>2, <3>1, <3>3 DEF Awaited
  <2>3. QED
    BY <1>6, <1>7, <1>9, <2>1, <2>2
<1>10. DeliveryInv'
  BY <1>7, <1>8, <1>9 DEF DeliveryInv
<1>11. QED
  BY <1>5, <1>10 DEF DeliveryGood

(* What a step does to queues and deliveries.                              *)
LEMMA StepDelivery ==
  ASSUME Chat!GatewayAssumption, GatewayInv, [Chat!Next]_(Chat!vars)
  PROVE  DeliveryGood
<1>0. HandlersMove /\ handler \in [Calls -> Handler]
  BY StepHandlers DEF GatewayInv, Chat!TypeOK, Handler
<1>1. CASE UNCHANGED <<bus, delivered>>
  BY <1>0, <1>1, SameQueues, NothingArrives
<1>2. ASSUME NEW r \in Calls, Chat!Emit(r)
      PROVE  DeliveryGood
  <2>1. handler[r].socket \in Sockets
    BY <1>2 DEF Chat!Emit, GatewayInv, MovingInv
  <2>2. handler'[r].pc = "emitted" /\ handler'[r].socket = handler[r].socket
    BY <1>0, <1>2 DEF Chat!Emit, Handler
  <2>3. QED
    BY <1>0, <1>2, <2>1, <2>2, RoomIsSent DEF Chat!Emit
<1>3. ASSUME NEW r \in Calls, NEW s \in Sockets, Chat!Announce(r, s)
      PROVE  DeliveryGood
  <2>1. /\ handler[r].pc # "emitted"
        /\ handler'[r].pc = "emitted" /\ handler'[r].socket = s
    BY <1>0, <1>3 DEF Chat!Announce, Chat!Receive, Chat!NoHandler
  <2>2. QED
    BY <1>0, <1>3, <2>1, RoomIsSent DEF Chat!Announce
<1>4. ASSUME NEW i \in Instances, Chat!RedisEnds(i)
      PROVE  DeliveryGood
  <2>1. CASE UNCHANGED bus
    BY <1>1, <1>4, <2>1 DEF Chat!RedisEnds, Chat!sockets
  <2>2. CASE bus' = [bus EXCEPT ![i] = <<>>]
    <3>1. bus[i] \in Seq(Chat!Event)
      BY DEF GatewayInv, BusInv
    <3>2. /\ <<>> \in Seq(Chat!Event) /\ Len(bus[i]) \in Nat
          /\ Len(<<>>) + Len(bus[i]) = Len(bus[i])
          /\ \A n \in 1..Len(<<>>) : <<>>[n] = bus[i][n + Len(bus[i])]
      BY <3>1
    <3>3. Shorter
      BY <2>2, <3>2, QueueCut
    <3>4. QED
      BY <1>0, <1>4, <3>3, NothingArrives DEF Chat!RedisEnds, Chat!sockets
  <2>3. QED
    BY <1>4, <2>1, <2>2 DEF Chat!RedisEnds
<1>5. ASSUME NEW r \in Calls, Chat!Step(r)
      PROVE  DeliveryGood
  BY <1>5, <1>1, <1>2
  DEF Chat!Step, Chat!CreateMessage, Chat!UpsertMiner, Chat!AssertSessionActive,
      Chat!SessionInactive, Chat!Limit,
      Chat!VerifyAccessToken, Chat!Authenticated, Chat!BuildRealtimeMessage,
      Chat!HydrateFails, Chat!sockets, Chat!redis
<1>6. ASSUME NEW r \in Calls, NEW s \in Sockets, Chat!Ask(r, s)
      PROVE  DeliveryGood
  BY <1>6, <1>1, <1>3
     DEF Chat!Ask, Chat!Authenticate, Chat!SendMessage, Chat!sockets, Chat!redis
<1>7. QED
  BY <1>0, <1>1, <1>4, <1>5, <1>6, RelayDelivers
  DEF Chat!Next, Chat!WindowPasses, Chat!Close, Chat!Revoke, Chat!vars, Chat!sockets,
      Chat!redis
-----------------------------------------------------------------------------
(* The database and the connections to Redis keep their types.             *)
LEMMA StepDatabase ==
  ASSUME Chat!GatewayAssumption, GatewayInv, [Chat!Next]_(Chat!vars)
  PROVE  ChatDatabaseTypes'
<1>0. ChatDatabaseTypes /\ MaxChatFailures \in Nat /\ save \in [Calls -> Save]
  BY DEF GatewayInv, Chat!TypeOK, ChatDatabaseTypes, Chat!GatewayAssumption, Save
<1>1. CASE UNCHANGED <<revoked, miner, chatMessage, pubReady, subReady>>
           /\ (Chat!Fails \/ UNCHANGED chatFailures)
  BY <1>0, <1>1 DEF ChatDatabaseTypes, Chat!Fails
<1>2. ASSUME NEW r \in Calls, Chat!CreateMessage(r)
      PROVE  ChatDatabaseTypes'
  BY <1>0, <1>2 DEF Chat!CreateMessage, ChatDatabaseTypes, Chat!Fails, Chat!redis
<1>3. ASSUME NEW r \in Calls, Chat!UpsertMiner(r)
      PROVE  ChatDatabaseTypes'
  <2>1. Chat!MinersWith(save[r].sender) \subseteq Wallets
    BY <1>0 DEF Chat!MinersWith, ChatDatabaseTypes, Save, Chat!MaybeWallet
  <2>2. QED
    BY <1>0, <1>3, <2>1 DEF Chat!UpsertMiner, ChatDatabaseTypes, Chat!Fails, Chat!redis
<1>4. ASSUME NEW i \in Instances, Chat!RedisEnds(i)
      PROVE  ChatDatabaseTypes'
  <2>1. /\ pubReady' \in [Instances -> BOOLEAN] /\ subReady' \in [Instances -> BOOLEAN]
    BY <1>0, <1>4 DEF Chat!RedisEnds, ChatDatabaseTypes
  <2>2. chatFailures' \in 0..MaxChatFailures
    BY <1>0, <1>4 DEF Chat!RedisEnds, ChatDatabaseTypes, Chat!Fails
  <2>3. QED
    BY <1>0, <1>4, <2>1, <2>2 DEF Chat!RedisEnds, ChatDatabaseTypes, Chat!database
<1>5. ASSUME NEW session \in Sessions, Chat!Revoke(session)
      PROVE  ChatDatabaseTypes'
  BY <1>0, <1>5 DEF Chat!Revoke, ChatDatabaseTypes, Chat!redis
<1>6. ASSUME NEW r \in Calls, Chat!Step(r)
      PROVE  ChatDatabaseTypes'
  BY <1>6, <1>1, <1>2, <1>3
  DEF Chat!Step, Chat!AssertSessionActive, Chat!SessionInactive, Chat!Limit,
      Chat!VerifyAccessToken, Chat!Authenticated,
      Chat!BuildRealtimeMessage, Chat!Emit, Chat!HydrateFails, Chat!redis, Chat!database
<1>7. ASSUME NEW r \in Calls, NEW s \in Sockets, Chat!Ask(r, s)
      PROVE  ChatDatabaseTypes'
  BY <1>7, <1>1
     DEF Chat!Ask, Chat!Authenticate, Chat!SendMessage, Chat!Announce, Chat!redis,
         Chat!database
<1>8. QED
  BY <1>1, <1>4, <1>5, <1>6, <1>7
  DEF Chat!Next, Chat!HandleDistributedMessage, Chat!WindowPasses, Chat!Close, Chat!vars,
      Chat!redis, Chat!database

(* A step keeps the invariant.                                             *)
LEMMA StepGateway ==
  ASSUME Chat!GatewayAssumption PROVE GatewayInv /\ [Chat!Next]_(Chat!vars) => GatewayInv'
<1> SUFFICES ASSUME GatewayInv, [Chat!Next]_(Chat!vars) PROVE GatewayInv'
  OBVIOUS
<1>1. HandlersMove /\ SessionsMove /\ WorkGood /\ DeliveryGood /\ ChatDatabaseTypes'
  BY StepHandlers, StepSessions, StepWork, StepDelivery, StepDatabase
<1>2. MovingInv' /\ ProvenInv' /\ Chat!OnlyProvenWallets'
  BY <1>1, StepProven
<1>3. Chat!TypeOK'
  BY <1>1, ChatTypePartsNext
  DEF HandlersMove, SessionsMove, WorkGood, WorkTypes, DeliveryGood
<1>4. QED
  BY <1>1, <1>2, <1>3 DEF GatewayInv, WorkGood, DeliveryGood

(* It holds at the start.                                                  *)
LEMMA GatewayInitially == ASSUME Chat!GatewayAssumption, Chat!Init PROVE GatewayInv
<1>1. BusInv
  <2>1. <<>> \in Seq(Chat!Event) /\ \A n \in 1..Len(<<>>) : FALSE
    OBVIOUS
  <2>2. bus \in [Instances -> Seq(Chat!Event)] /\ \A i \in Instances : bus[i] = <<>>
    BY <2>1 DEF Chat!Init
  <2>3. QED
    BY <2>1, <2>2 DEF BusInv
<1>2. 0 \in 0..MaxPerWindow + 1 /\ 0 \in 0..MaxAttempts /\ 0 \in 0..MaxChatFailures
  BY DEF Chat!GatewayAssumption
<1>3. meta \in [Sockets -> Meta]
  BY <1>2 DEF Chat!Init, Meta, Chat!MaybeSession
<1>4. WorkTypes
  BY <1>2
     DEF Chat!Init, WorkTypes, Handler, Chat!NoHandler, Check, Save, Chat!MaybeSession,
         Chat!MaybeWallet
<1>5. ChatDatabaseTypes
  BY <1>2 DEF Chat!Init, ChatDatabaseTypes
<1>6. Chat!TypeOK
  BY <1>1, <1>3, <1>4, <1>5, ChatTypeParts
<1>7. MovingInv /\ Chat!OnlyProvenWallets /\ StagesInv /\ InactiveInv
  BY DEF Chat!Init, MovingInv, Chat!OnlyProvenWallets, StagesInv, InactiveInv,
         Chat!NoHandler
<1>8. ProvenInv /\ AttemptsInv /\ DeliveryInv
  BY DEF Chat!Init, ProvenInv, AttemptsInv, DeliveryInv, Chat!DeliveredOnce
<1>9. QED
  BY <1>1, <1>6, <1>7, <1>8 DEF GatewayInv

(* It says what the chat promises, of states                               *)
LEMMA ChatGood ==
  ASSUME Chat!GatewayAssumption, GatewayInv
  PROVE  /\ Chat!TypeOK /\ Chat!DeliveredOnce /\ Chat!OnlyProvenWallets
         /\ Chat!GivenUpAfterAllAttempts
<1>1. Chat!GivenUpAfterAllAttempts
  <2> SUFFICES ASSUME NEW r \in Calls
               PROVE  (save[r].pc = "failed") = (lostAttempts[r] = MaxAttempts)
    BY DEF Chat!GivenUpAfterAllAttempts
  <2>1. /\ save[r] \in Save /\ lostAttempts[r] \in Nat /\ MaxAttempts \in Nat \ {0}
        /\ save[r].left \in 0..MaxAttempts
    BY DEF GatewayInv, Chat!TypeOK, Save, AttemptsInv, Chat!GatewayAssumption
  <2>2. save[r].pc \in {"none", "create", "upsert", "createAgain", "stored", "failed"}
    BY <2>1 DEF Save
  <2>3. CASE save[r].pc = "failed"
    BY <2>3 DEF GatewayInv, AttemptsInv
  <2>4. CASE save[r].pc = "none"
    BY <2>1, <2>4 DEF GatewayInv, AttemptsInv
  <2>5. CASE save[r].pc \in {"create", "upsert", "createAgain", "stored"}
    <3>1. save[r].left >= 1 /\ lostAttempts[r] + save[r].left = MaxAttempts
      BY <2>5 DEF GatewayInv, AttemptsInv
    <3>2. lostAttempts[r] # MaxAttempts
      BY <2>1, <3>1
    <3>3. QED
      BY <2>5, <3>2
  <2>6. QED
    BY <2>2, <2>3, <2>4, <2>5
<1>2. QED
  BY <1>1 DEF GatewayInv, DeliveryInv

(* and of steps.                                                           *)
LEMMA ChatSteps ==
  ASSUME Chat!GatewayAssumption, GatewayInv, [Chat!Next]_(Chat!vars)
  PROVE  Chat!ClearingHasAReason
<1>1. SessionsMove /\ ProvenInv'
  BY StepSessions, StepHandlers, StepProven
<1>2. NoOne \notin Sessions
  BY DEF Chat!GatewayAssumption
<1>3. QED
  BY <1>1, <1>2 DEF SessionsMove, Reason, Chat!ClearingHasAReason
-----------------------------------------------------------------------------
(***************************************************************************)
(* Reactions, for any number of tabs, wallets and clicks of which no more  *)
(* than two overlap: a reaction is stored if an odd number of clicks has   *)
(* taken effect, because a click that finds the other's work undoes it.    *)
(* Screens show what is stored when all is quiet, as the last click told   *)
(* everybody, or they load it.                                             *)
(***************************************************************************)
(* The operators this instance takes from the modules it extends.          *)
LEMMA ReactionOperators ==
  /\ \A S : Reactions!IsFiniteSet(S) <=> IsFiniteSet(S)
  /\ \A S : Reactions!Cardinality(S) = Cardinality(S)
  BY DEF Reactions!IsFiniteSet, IsFiniteSet, Reactions!Cardinality, Cardinality

ReactionStages == {"idle", "delete", "deleteAgain", "create", "read", "broadcast", "done"}
ReactionTypes ==
  /\ chatReaction \subseteq Wallets /\ view \in [Tabs -> SUBSET Wallets]
  /\ click \in [Calls -> [pc : ReactionStages, socket : SUBSET Tabs,
                          reactors : SUBSET Wallets]]
  /\ \A r \in Calls : click[r].pc # "idle" => \E s \in Tabs : click[r].socket = {s}
  /\ clickFailures \in 0..MaxReactionFailures /\ told \subseteq Tabs
  /\ overlaps \subseteq SUBSET Calls

\* calls under way have met; calls that met have begun
Meetings ==
  /\ \A q, r \in Calls : Reactions!Open(q) /\ Reactions!Open(r) /\ q # r
       => {q, r} \in overlaps
  /\ \A q, r \in Calls : {q, r} \in overlaps => click[q].pc # "idle"

\* a call that has changed the rows
Applied(r) == click[r].pc \in {"read", "broadcast", "done"}
AppliedBy(w) == {r \in Calls : Applied(r) /\ Reactions!Reactor(r) = w}
MeetOnce == clickFailures = 0 /\ \A r \in Calls : Cardinality(Reactions!Met(r)) <= 1
Sums ==
  /\ \A w \in Wallets : (w \in chatReaction) = (Cardinality(AppliedBy(w)) % 2 = 1)
  /\ \A r \in Calls : click[r].pc = "create" /\ Reactions!Reactor(r) \in chatReaction =>
       \E q \in Reactions!Met(r) : Applied(q)
  /\ \A r \in Calls : click[r].pc = "deleteAgain" =>
       Reactions!Reactor(r) \in chatReaction /\ \E q \in Reactions!Met(r) : Applied(q)

\* one call at a time: what it tells is what is stored
Shown ==
  /\ \A r \in Calls : click[r].pc = "broadcast" => click[r].reactors = chatReaction
  /\ Reactions!Quiet => \A s \in told : view[s] = chatReaction

ReactionInv ==
  /\ ReactionTypes /\ Meetings
  /\ MeetOnce => Sums
  /\ clickFailures = 0 /\ overlaps = {} => Shown

(* Finite sets: two members are more than one, and one more changes an odd *)
(* number into an even one.                                                *)
LEMMA TwoAreMore ==
  ASSUME NEW s, IsFiniteSet(s), NEW a \in s, NEW b \in s, a # b
  PROVE  ~(Cardinality(s) <= 1)
<1>1. Cardinality(s \ {a}) = Cardinality(s) - 1 /\ IsFiniteSet(s \ {a})
  BY FS_RemoveElement, Zenon
<1>2. Cardinality(s \ {a}) # 0
  BY <1>1, FS_EmptySet
<1>3. Cardinality(s) \in Nat /\ Cardinality(s \ {a}) \in Nat
  BY <1>1, FS_CardinalityType
<1>4. QED
  BY <1>1, <1>2, <1>3

(* Counting one more turns even to odd and odd to even.                    *)
LEMMA OneMoreIsOdd ==
  ASSUME NEW s, IsFiniteSet(s), NEW x, x \notin s
  PROVE  (Cardinality(s \cup {x}) % 2 = 1) = (Cardinality(s) % 2 # 1)
<1>1. Cardinality(s \cup {x}) = Cardinality(s) + 1 /\ Cardinality(s) \in Nat
  BY FS_AddElement, FS_CardinalityType, Zenon
<1>2. \A n \in Nat : ((n + 1) % 2 = 1) = (n % 2 # 1)
  OBVIOUS
<1>3. QED
  BY <1>1, <1>2

(* The types, and what the assumption says of clicks.                      *)
LEMMA ReactionParts ==
  ASSUME Reactions!ReactionsAssumption, ReactionInv
  PROVE  /\ IsFiniteSet(Calls) /\ TabWallet \in [Tabs -> Wallets]
         /\ MaxReactionFailures \in Nat
         /\ \A r \in Calls : IsFiniteSet(Reactions!Met(r)) /\ Reactions!Met(r) \subseteq Calls
         /\ \A r \in Calls : click[r].pc # "idle"
              => Reactions!Reactor(r) \in Wallets /\ Reactions!Of(r) \in Tabs
         /\ \A w : IsFiniteSet(AppliedBy(w))
         /\ click \in [Calls -> [pc : ReactionStages, socket : SUBSET Tabs,
                                 reactors : SUBSET Wallets]]
<1>1. IsFiniteSet(Calls) /\ TabWallet \in [Tabs -> Wallets] /\ MaxReactionFailures \in Nat
  BY ReactionOperators DEF Reactions!ReactionsAssumption
<1>2. \A r \in Calls : IsFiniteSet(Reactions!Met(r)) /\ Reactions!Met(r) \subseteq Calls
  BY <1>1, FS_Subset DEF Reactions!Met
<1>3. \A w : IsFiniteSet(AppliedBy(w))
  BY <1>1, FS_Subset DEF AppliedBy
<1>4. ASSUME NEW r \in Calls, click[r].pc # "idle"
      PROVE  Reactions!Reactor(r) \in Wallets /\ Reactions!Of(r) \in Tabs
  <2>1. PICK s \in Tabs : click[r].socket = {s}
    BY <1>4 DEF ReactionInv, ReactionTypes
  <2>2. Reactions!Of(r) = s
    BY <2>1 DEF Reactions!Of
  <2>3. QED
    BY <1>1, <2>2 DEF Reactions!Reactor
<1>5. QED
  BY <1>1, <1>2, <1>3, <1>4 DEF ReactionInv, ReactionTypes

\* a call goes on, without failing, and keeps its socket
GoesOn(r) ==
  /\ UNCHANGED <<clickFailures, overlaps>> /\ Reactions!Open(r)
  /\ click' \in [Calls -> [pc : ReactionStages, socket : SUBSET Tabs,
                           reactors : SUBSET Wallets]]
  /\ click'[r].pc # "idle" /\ click'[r].socket = click[r].socket
  /\ \A q \in Calls \ {r} : click'[q] = click[q]

(* What a call that goes on leaves as it was.                              *)
LEMMA GoingOn ==
  ASSUME Reactions!ReactionsAssumption, ReactionInv, NEW r \in Calls, GoesOn(r)
  PROVE  /\ Meetings' /\ (MeetOnce' => MeetOnce)
         /\ \A q \in Calls :
              /\ Reactions!Reactor(q)' = Reactions!Reactor(q)
              /\ Reactions!Of(q)' = Reactions!Of(q) /\ Reactions!Met(q)' = Reactions!Met(q)
         /\ \A q \in Calls \ {r} : Applied(q)' = Applied(q)
         /\ \A q \in Calls : (click'[q].pc # "idle") = (click[q].pc # "idle")
         /\ \A q \in Calls : click'[q].pc # "idle" => \E s \in Tabs : click'[q].socket = {s}
<1>1. \A q \in Calls : /\ click'[q].socket = click[q].socket
                       /\ (click'[q].pc # "idle") = (click[q].pc # "idle")
  BY DEF GoesOn, Reactions!Open
<1>2. \A q \in Calls : /\ Reactions!Reactor(q)' = Reactions!Reactor(q)
                       /\ Reactions!Of(q)' = Reactions!Of(q)
  BY <1>1 DEF Reactions!Reactor, Reactions!Of
<1>3. \A q \in Calls : Reactions!Met(q)' = Reactions!Met(q)
  BY <1>2 DEF Reactions!Met, GoesOn
<1>4. Meetings'
  <2>1. \A q \in Calls : Reactions!Open(q)' => Reactions!Open(q)
    BY DEF Reactions!Open, GoesOn
  <2>2. QED
    BY <1>1, <2>1 DEF ReactionInv, Meetings, GoesOn
<1>5. MeetOnce' => MeetOnce
  BY <1>3 DEF MeetOnce, GoesOn
<1>6. \A q \in Calls \ {r} : Applied(q)' = Applied(q)
  BY DEF Applied, GoesOn
<1>7. \A q \in Calls : click'[q].pc # "idle" => \E s \in Tabs : click'[q].socket = {s}
  BY <1>1 DEF ReactionInv, ReactionTypes
<1>8. QED
  BY <1>1, <1>2, <1>3, <1>4, <1>5, <1>6, <1>7

(* Two calls of one wallet that are under way have met; a third they have  *)
(* not, if everybody meets one other call at most.                         *)
LEMMA NoThird ==
  ASSUME Reactions!ReactionsAssumption, ReactionInv, MeetOnce, NEW r \in Calls,
         NEW q \in Calls,
         q # r, Reactions!Open(q), Reactions!Open(r),
         Reactions!Reactor(q) = Reactions!Reactor(r), ~Applied(r)
  PROVE  r \in Reactions!Met(q) /\ ~(\E p \in Reactions!Met(q) : Applied(p))
<1>1. r \in Reactions!Met(q)
  BY DEF ReactionInv, Meetings, Reactions!Met
<1>2. ASSUME NEW p \in Reactions!Met(q), Applied(p) PROVE FALSE
  <2>1. p # r
    BY <1>2
  <2>2. ~(Cardinality(Reactions!Met(q)) <= 1)
    BY <1>1, <2>1, ReactionParts, TwoAreMore
  <2>3. QED
    BY <2>2 DEF MeetOnce
<1>3. QED
  BY <1>1, <1>2

(* A call that changes the rows once more.                                 *)
LEMMA AppliesOnce ==
  ASSUME Reactions!ReactionsAssumption, ReactionInv, Sums, NEW r \in Calls, GoesOn(r),
         ~Applied(r), Applied(r)', Reactions!Reactor(r)' = Reactions!Reactor(r),
         (Reactions!Reactor(r) \in chatReaction') =
             (Reactions!Reactor(r) \notin chatReaction),
         \A w \in Wallets \ {Reactions!Reactor(r)} :
             (w \in chatReaction') = (w \in chatReaction)
  PROVE  \A w \in Wallets : (w \in chatReaction') = (Cardinality(AppliedBy(w)') % 2 = 1)
<1>1. \A w : AppliedBy(w)' = IF w = Reactions!Reactor(r) THEN AppliedBy(w) \cup {r}
        ELSE AppliedBy(w)
  BY GoingOn DEF AppliedBy
<1>2. r \notin AppliedBy(Reactions!Reactor(r))
  BY DEF AppliedBy
<1>3. (Cardinality(AppliedBy(Reactions!Reactor(r)) \cup {r}) % 2 = 1)
        = (Cardinality(AppliedBy(Reactions!Reactor(r))) % 2 # 1)
  BY <1>2, ReactionParts, OneMoreIsOdd
<1>4. \A w \in Wallets : (w \in chatReaction) = (Cardinality(AppliedBy(w)) % 2 = 1)
  BY DEF Sums
<1>5. QED
  BY <1>1, <1>3, <1>4

(* Nobody's sum changes when a call goes on without changing the rows.     *)
LEMMA SumsStay ==
  ASSUME Reactions!ReactionsAssumption, ReactionInv, Sums, NEW r \in Calls, GoesOn(r),
         Applied(r)' = Applied(r), UNCHANGED chatReaction
  PROVE  \A w \in Wallets : (w \in chatReaction') = (Cardinality(AppliedBy(w)') % 2 = 1)
<1>1. \A w : AppliedBy(w)' = AppliedBy(w)
  BY GoingOn DEF AppliedBy
<1>2. QED
  BY <1>1 DEF Sums

\* the parts of the invariant that the step of a call keeps whatever it does
LEMMA CallTypes ==
  ASSUME Reactions!ReactionsAssumption, ReactionInv, NEW r \in Calls, GoesOn(r),
         chatReaction' \subseteq Wallets,
         view' \in [Tabs -> SUBSET Wallets], told' \subseteq Tabs
  PROVE  ReactionTypes'
  BY GoingOn DEF GoesOn, ReactionInv, ReactionTypes

(* A click begins: its screen shows it before anybody else knows of it.    *)
LEMMA ToggleKeeps ==
  ASSUME Reactions!ReactionsAssumption, ReactionInv, NEW r \in Calls, NEW s \in Tabs,
         Reactions!ToggleReaction(r, s)
  PROVE  ReactionInv'
<1>1. /\ click[r] = Reactions!NoCall /\ click[r].pc = "idle"
      /\ UNCHANGED <<chatReaction, told>>
      /\ view' = [view EXCEPT ![s] = Reactions!Flip(@, TabWallet[s])]
  BY DEF Reactions!ToggleReaction, Reactions!NoCall
<1>2. view' \in [Tabs -> SUBSET Wallets]
  <2>1. TabWallet[s] \in Wallets /\ view \in [Tabs -> SUBSET Wallets]
    BY ReactionParts DEF ReactionInv, ReactionTypes
  <2>2. Reactions!Flip(view[s], TabWallet[s]) \in SUBSET Wallets
    BY <2>1 DEF Reactions!Flip
  <2>3. QED
    BY <1>1, <2>1, <2>2
<1>3. CASE /\ click' =
                [click EXCEPT ![r] =
                [Reactions!NoCall EXCEPT !.pc = "delete", !.socket = {s}]]
           /\ overlaps' = overlaps \union {{q, r} : q \in {q \in Calls : Reactions!Open(q)}}
           /\ UNCHANGED clickFailures
  <2>1. /\ click' \in
             [Calls -> [pc : ReactionStages, socket : SUBSET Tabs,
                        reactors : SUBSET Wallets]]
        /\ click'[r].pc = "delete" /\ click'[r].socket = {s}
        /\ \A q \in Calls \ {r} : click'[q] = click[q]
    BY <1>3, ReactionParts DEF Reactions!NoCall, ReactionStages
  <2>2. \A q \in Calls \ {r} :
          /\ Reactions!Reactor(q)' = Reactions!Reactor(q)
          /\ Applied(q)' = Applied(q) /\ Reactions!Open(q)' = Reactions!Open(q)
    BY <2>1 DEF Reactions!Reactor, Reactions!Of, Applied, Reactions!Open
  <2>3. ~Applied(r) /\ ~Applied(r)' /\ ~Reactions!Open(r)
    BY <1>1, <2>1 DEF Applied, Reactions!Open
  <2>4. ReactionTypes'
    <3>1. overlaps' \subseteq SUBSET Calls
      BY <1>3 DEF ReactionInv, ReactionTypes
    <3>2. \A q \in Calls : click'[q].pc # "idle" => \E t \in Tabs : click'[q].socket = {t}
      BY <2>1 DEF ReactionInv, ReactionTypes
    <3>3. QED
      BY <1>1, <1>2, <1>3, <2>1, <3>1, <3>2 DEF ReactionInv, ReactionTypes
  <2>5. Meetings'
    <3>1. ASSUME NEW p \in Calls, NEW q \in Calls, Reactions!Open(p)', Reactions!Open(q)',
            p # q
          PROVE  {p, q} \in overlaps'
      <4>1. CASE p = r
        <5>1. Reactions!Open(q)
          BY <2>2, <3>1, <4>1
        <5>2. {p, q} = {q, r}
          BY <4>1
        <5>3. QED
          BY <1>3, <5>1, <5>2
      <4>2. CASE q = r
        <5>1. Reactions!Open(p)
          BY <2>2, <3>1, <4>2
        <5>2. QED
          BY <1>3, <4>2, <5>1
      <4>3. CASE p # r /\ q # r
        BY <1>3, <2>2, <3>1, <4>3 DEF ReactionInv, Meetings
      <4>4. QED
        BY <4>1, <4>2, <4>3
    <3>2. ASSUME NEW p \in Calls, NEW q \in Calls, {p, q} \in overlaps'
          PROVE  click'[p].pc # "idle"
      <4>1. CASE {p, q} \in overlaps
        BY <2>1, <4>1 DEF ReactionInv, Meetings
      <4>2. CASE {p, q} \notin overlaps
        <5>1. PICK o \in Calls : Reactions!Open(o) /\ {p, q} = {o, r}
          BY <1>3, <3>2, <4>2
        <5>2. p \in {o, r}
          BY <5>1
        <5>3. QED
          BY <2>1, <5>1, <5>2 DEF Reactions!Open
      <4>3. QED
        BY <4>1, <4>2
    <3>3. QED
      BY <3>1, <3>2 DEF Meetings
  <2>6. ASSUME MeetOnce' PROVE MeetOnce /\ Sums'
    <3>1. \A q \in Calls : click[q].pc # "idle"
            => Reactions!Met(q) \subseteq Reactions!Met(q)'
      <4>1. ASSUME NEW q \in Calls, click[q].pc # "idle", NEW p \in Reactions!Met(q)
            PROVE  p \in Reactions!Met(q)'
        <5>1. /\ p \in Calls \ {q} /\ {p, q} \in overlaps
              /\ Reactions!Reactor(p) = Reactions!Reactor(q)
          BY <4>1 DEF Reactions!Met
        <5>2. p # r /\ q # r
          BY <1>1, <4>1, <5>1 DEF ReactionInv, Meetings
        <5>3. {p, q} \in overlaps'
          BY <1>3, <5>1
        <5>4. QED
          BY <2>2, <5>1, <5>2, <5>3 DEF Reactions!Met
      <4>2. QED
        BY <4>1
    <3>2. \A q \in Calls : click[q].pc = "idle" => Reactions!Met(q) = {}
      <4>1. ASSUME NEW q \in Calls, NEW p \in Reactions!Met(q) PROVE click[q].pc # "idle"
        <5>1. p \in Calls /\ {p, q} \in overlaps /\ {q, p} = {p, q}
          BY <4>1 DEF Reactions!Met
        <5>2. QED
          BY <5>1 DEF ReactionInv, Meetings
      <4>2. QED
        BY <4>1
    <3>3. MeetOnce
      <4>1. \A q \in Calls : IsFiniteSet(Reactions!Met(q)')
              /\ Cardinality(Reactions!Met(q)') <= 1
        BY <2>6, ReactionParts, FS_Subset DEF MeetOnce, Reactions!Met
      <4>2. ASSUME NEW q \in Calls PROVE Cardinality(Reactions!Met(q)) <= 1
        <5>1. Reactions!Met(q) \subseteq Reactions!Met(q)'
          BY <3>1, <3>2
        <5>2. Cardinality(Reactions!Met(q)) <= Cardinality(Reactions!Met(q)')
          BY <4>1, <5>1, FS_Subset
        <5>3. /\ Cardinality(Reactions!Met(q)) \in Nat
              /\ Cardinality(Reactions!Met(q)') \in Nat
          BY <4>1, ReactionParts, FS_CardinalityType
        <5>4. QED
          BY <4>1, <5>2, <5>3
      <4>3. QED
        BY <1>3, <2>6, <4>2 DEF MeetOnce
    <3>4. Sums
      BY <3>3 DEF ReactionInv
    <3>5. \A w : AppliedBy(w)' = AppliedBy(w)
      BY <2>2, <2>3 DEF AppliedBy
    <3>6. \A q \in Calls : click[q].pc # "idle" /\ (\E p \in Reactions!Met(q) : Applied(p))
            =>
            \E p \in Reactions!Met(q)' : Applied(p)'
      <4>1. ASSUME NEW q \in Calls, click[q].pc # "idle", NEW p \in Reactions!Met(q),
              Applied(p)
            PROVE  p \in Reactions!Met(q)' /\ Applied(p)'
        <5>1. p \in Calls /\ p # r /\ p \in Reactions!Met(q)'
          BY <2>3, <3>1, <4>1 DEF Reactions!Met
        <5>2. QED
          BY <2>2, <4>1, <5>1
      <4>2. QED
        BY <4>1
    <3>7. QED
      BY <1>1, <2>1, <2>2, <3>3, <3>4, <3>5, <3>6 DEF Sums
  <2>7. overlaps' = {} /\ clickFailures' = 0 => Shown'
    <3>1. overlaps' = {} => overlaps = {}
      BY <1>3
    <3>2. ~Reactions!Quiet'
      BY <2>1 DEF Reactions!Quiet, Reactions!Open
    <3>3. QED
      BY <1>1, <1>3, <2>1, <3>1, <3>2 DEF ReactionInv, Shown
  <2>8. QED
    BY <2>4, <2>5, <2>6, <2>7 DEF ReactionInv
<1>4. CASE /\ clickFailures < MaxReactionFailures /\ clickFailures' = clickFailures + 1
           /\ click' = [click EXCEPT ![r] =
                [Reactions!NoCall EXCEPT !.pc = "done", !.socket = {s}]]
           /\ UNCHANGED overlaps
  <2>1. /\ click' \in
             [Calls -> [pc : ReactionStages, socket : SUBSET Tabs,
                        reactors : SUBSET Wallets]]
        /\ click'[r].pc = "done" /\ click'[r].socket = {s}
        /\ \A q \in Calls \ {r} : click'[q] = click[q]
    BY <1>4, ReactionParts DEF Reactions!NoCall, ReactionStages
  <2>2. clickFailures' \in 0..MaxReactionFailures /\ clickFailures' # 0
    BY <1>4, ReactionParts DEF ReactionInv, ReactionTypes
  <2>3. ReactionTypes'
    <3>1. \A q \in Calls : click'[q].pc # "idle" => \E t \in Tabs : click'[q].socket = {t}
      BY <2>1 DEF ReactionInv, ReactionTypes
    <3>2. QED
      BY <1>1, <1>2, <1>4, <2>1, <2>2, <3>1 DEF ReactionInv, ReactionTypes
  <2>4. Meetings'
    <3>1. \A q \in Calls : Reactions!Open(q)' => Reactions!Open(q)
      BY <1>1, <2>1 DEF Reactions!Open
    <3>2. \A q \in Calls : click[q].pc # "idle" => click'[q].pc # "idle"
      BY <1>1, <2>1
    <3>3. QED
      BY <1>4, <3>1, <3>2 DEF ReactionInv, Meetings
  <2>5. QED
    BY <2>2, <2>3, <2>4 DEF ReactionInv, MeetOnce
<1>5. QED
  BY <1>3, <1>4 DEF Reactions!ToggleReaction

(* A step of a call that is under way afterwards, and has told nobody      *)
(* anything: what it must keep of the sums is all that is left to show.    *)
LEMMA UnderWay ==
  ASSUME Reactions!ReactionsAssumption, ReactionInv, NEW r \in Calls, GoesOn(r),
         Reactions!Open(r)',
         click[r].pc # "broadcast", chatReaction' \subseteq Wallets,
         UNCHANGED <<view, told>>,
         click'[r].pc = "broadcast" => click'[r].reactors = chatReaction',
         MeetOnce /\ Sums => Sums'
  PROVE  ReactionInv'
<1>1. ReactionTypes'
  BY CallTypes DEF ReactionInv, ReactionTypes
<1>2. overlaps' = {} /\ clickFailures' = 0 => Shown'
  <2>1. ASSUME overlaps' = {} PROVE \A q \in Calls \ {r} : ~Reactions!Open(q)
    BY <2>1 DEF GoesOn, ReactionInv, Meetings
  <2>2. \A q \in Calls : Reactions!Open(q) => click[q].pc \notin {"idle", "done"}
    BY DEF Reactions!Open
  <2>3. ~Reactions!Quiet'
    BY DEF Reactions!Quiet
  <2>4. \A q \in Calls \ {r} : ~Reactions!Open(q) => click'[q].pc # "broadcast"
    BY DEF GoesOn, Reactions!Open
  <2>5. QED
    BY <2>1, <2>3, <2>4 DEF Shown
<1>3. QED
  BY <1>1, <1>2, GoingOn DEF ReactionInv

(* A click deletes the reaction, if there is one,                          *)
LEMMA DeleteKeeps ==
  ASSUME Reactions!ReactionsAssumption, ReactionInv, NEW r \in Calls,
         Reactions!DeleteReaction(r)
  PROVE  ReactionInv'
<1> DEFINE w == Reactions!Reactor(r)
           next == IF w \in chatReaction \/ click[r].pc = "deleteAgain"
                   THEN "read" ELSE "create"
<1>1. /\ click[r].pc \in {"delete", "deleteAgain"} /\ chatReaction' = chatReaction \ {w}
      /\ click' = [click EXCEPT ![r].pc = next]
      /\ UNCHANGED <<view, clickFailures, told, overlaps>>
  BY DEF Reactions!DeleteReaction, Reactions!GoTo
<1>2. GoesOn(r) /\ click'[r].pc = next /\ next \in {"read", "create"} /\ Reactions!Open(r)'
  BY <1>1, ReactionParts DEF GoesOn, Reactions!Open, ReactionStages
<1>3. ~Applied(r) /\ w \in Wallets /\ Reactions!Reactor(r)' = w /\ Reactions!Open(r)
  BY <1>1, <1>2, ReactionParts, GoingOn DEF Applied, Reactions!Open
<1>4. ASSUME MeetOnce, Sums PROVE Sums'
  <2>1. w \in chatReaction =>
          \A q \in Calls \ {r} : Reactions!Reactor(q) = w => click[q].pc # "deleteAgain"
    <3>1. ASSUME NEW q \in Calls \ {r}, Reactions!Reactor(q) = w,
            click[q].pc = "deleteAgain"
          PROVE  FALSE
      <4>1. ~(\E p \in Reactions!Met(q) : Applied(p))
        BY <1>3, <1>4, <3>1, NoThird DEF Reactions!Open
      <4>2. QED
        BY <1>4, <3>1, <4>1 DEF Sums
    <3>2. QED
      BY <3>1
  <2>2. \A q \in Calls \ {r} :
          /\ click'[q] = click[q] /\ Reactions!Reactor(q)' = Reactions!Reactor(q)
          /\ Reactions!Met(q)' = Reactions!Met(q) /\ Applied(q)' = Applied(q)
    BY <1>2, GoingOn DEF GoesOn
  <2>3. \A q \in Calls \ {r} : \A p \in Reactions!Met(q) : Applied(p) => Applied(p)'
    BY <1>3, <2>2 DEF Reactions!Met
  <2>4. CASE w \in chatReaction
    <3>1. Applied(r)' /\ click'[r].pc = "read"
      BY <1>2, <2>4 DEF Applied
    <3>2. \A v \in Wallets : (v \in chatReaction') = (Cardinality(AppliedBy(v)') % 2 = 1)
      BY <1>1, <1>2, <1>3, <1>4, <2>4, <3>1, AppliesOnce
    <3>3. \A q \in Calls :
            click'[q].pc = "create" /\ Reactions!Reactor(q)' \in chatReaction' =>
              \E p \in Reactions!Met(q)' : Applied(p)'
      <4>1. ASSUME NEW q \in Calls, click'[q].pc = "create",
              Reactions!Reactor(q)' \in chatReaction'
            PROVE  \E p \in Reactions!Met(q)' : Applied(p)'
        <5>1. q # r /\ click[q].pc = "create" /\ Reactions!Reactor(q) \in chatReaction
          BY <1>1, <2>2, <3>1, <4>1
        <5>2. QED
          BY <1>4, <2>2, <2>3, <5>1 DEF Sums
      <4>2. QED
        BY <4>1
    <3>4. \A q \in Calls : click'[q].pc = "deleteAgain" =>
            /\ Reactions!Reactor(q)' \in chatReaction'
            /\ \E p \in Reactions!Met(q)' : Applied(p)'
      <4>1. ASSUME NEW q \in Calls, click'[q].pc = "deleteAgain"
            PROVE  /\ Reactions!Reactor(q)' \in chatReaction'
                   /\ \E p \in Reactions!Met(q)' : Applied(p)'
        <5>1. q # r /\ click[q].pc = "deleteAgain" /\ Reactions!Reactor(q) # w
          BY <2>1, <2>2, <2>4, <3>1, <4>1
        <5>2. QED
          BY <1>1, <1>4, <2>2, <2>3, <5>1 DEF Sums
      <4>2. QED
        BY <4>1
    <3>5. QED
      BY <3>2, <3>3, <3>4 DEF Sums
  <2>5. CASE w \notin chatReaction
    <3>1. click[r].pc # "deleteAgain"
      BY <1>4, <2>5 DEF Sums
    <3>2. /\ click'[r].pc = "create" /\ chatReaction' = chatReaction
          /\ Applied(r)' = Applied(r)
      BY <1>1, <1>2, <1>3, <2>5, <3>1 DEF Applied
    <3>3. \A v \in Wallets : (v \in chatReaction') = (Cardinality(AppliedBy(v)') % 2 = 1)
      BY <1>2, <1>4, <3>2, SumsStay
    <3>4. QED
      BY <1>3, <1>4, <2>2, <2>3, <2>5, <3>2, <3>3 DEF Sums
  <2>6. QED
    BY <2>4, <2>5
<1>5. chatReaction' \subseteq Wallets
  BY <1>1 DEF ReactionInv, ReactionTypes
<1>6. QED
  BY <1>1, <1>2, <1>4, <1>5, UnderWay

(* creates it if there was none,                                           *)
LEMMA CreateKeeps ==
  ASSUME Reactions!ReactionsAssumption, ReactionInv, NEW r \in Calls,
         Reactions!CreateReaction(r)
  PROVE  ReactionInv'
<1> DEFINE w == Reactions!Reactor(r)
           next == IF w \in chatReaction THEN "deleteAgain" ELSE "read"
<1>1. /\ click[r].pc = "create" /\ chatReaction' = chatReaction \cup {w}
      /\ click' = [click EXCEPT ![r].pc = next]
      /\ UNCHANGED <<view, clickFailures, told, overlaps>>
  BY DEF Reactions!CreateReaction, Reactions!GoTo, Reactions!WhenItExists
<1>2. /\ GoesOn(r) /\ click'[r].pc = next /\ next \in {"read", "deleteAgain"}
      /\ Reactions!Open(r)'
  BY <1>1, ReactionParts DEF GoesOn, Reactions!Open, ReactionStages
<1>3. ~Applied(r) /\ w \in Wallets /\ Reactions!Reactor(r)' = w /\ Reactions!Open(r)
  BY <1>1, <1>2, ReactionParts, GoingOn DEF Applied, Reactions!Open
<1>4. ASSUME MeetOnce, Sums PROVE Sums'
  <2>1. \A q \in Calls \ {r} :
          /\ click'[q] = click[q] /\ Reactions!Reactor(q)' = Reactions!Reactor(q)
          /\ Reactions!Met(q)' = Reactions!Met(q) /\ Applied(q)' = Applied(q)
    BY <1>2, GoingOn DEF GoesOn
  <2>2. \A q \in Calls : \A p \in Reactions!Met(q) : Applied(p) => Applied(p)'
    BY <1>3, <2>1 DEF Reactions!Met
  <2>3. CASE w \notin chatReaction
    <3>1. Applied(r)' /\ click'[r].pc = "read"
      BY <1>2, <2>3 DEF Applied
    <3>2. \A v \in Wallets : (v \in chatReaction') = (Cardinality(AppliedBy(v)') % 2 = 1)
      BY <1>1, <1>2, <1>3, <1>4, <2>3, <3>1, AppliesOnce
    <3>3. \A q \in Calls :
            click'[q].pc = "create" /\ Reactions!Reactor(q)' \in chatReaction' =>
              \E p \in Reactions!Met(q)' : Applied(p)'
      <4>1. ASSUME NEW q \in Calls, click'[q].pc = "create",
              Reactions!Reactor(q)' \in chatReaction'
            PROVE  \E p \in Reactions!Met(q)' : Applied(p)'
        <5>1. q # r /\ click[q].pc = "create"
          BY <2>1, <3>1, <4>1
        <5>2. CASE Reactions!Reactor(q) \in chatReaction
          BY <1>4, <2>1, <2>2, <5>1, <5>2 DEF Sums
        <5>3. CASE Reactions!Reactor(q) \notin chatReaction
          <6>1. Reactions!Reactor(q) = w
            BY <1>1, <2>1, <4>1, <5>1, <5>3
          <6>2. r \in Reactions!Met(q)
            BY <1>3, <1>4, <5>1, <6>1, NoThird DEF Reactions!Open
          <6>3. QED
            BY <2>1, <3>1, <5>1, <6>2
        <5>4. QED
          BY <5>2, <5>3
      <4>2. QED
        BY <4>1
    <3>4. \A q \in Calls : click'[q].pc = "deleteAgain" =>
            /\ Reactions!Reactor(q)' \in chatReaction'
            /\ \E p \in Reactions!Met(q)' : Applied(p)'
      BY <1>1, <1>4, <2>1, <2>2, <3>1 DEF Sums
    <3>5. QED
      BY <3>2, <3>3, <3>4 DEF Sums
  <2>4. CASE w \in chatReaction
    <3>1. /\ click'[r].pc = "deleteAgain" /\ chatReaction' = chatReaction
          /\ Applied(r)' = Applied(r)
      BY <1>1, <1>2, <1>3, <2>4 DEF Applied
    <3>2. \A v \in Wallets : (v \in chatReaction') = (Cardinality(AppliedBy(v)') % 2 = 1)
      BY <1>2, <1>4, <3>1, SumsStay
    <3>3. Reactions!Met(r)' = Reactions!Met(r) /\ \E q \in Reactions!Met(r) : Applied(q)
      BY <1>1, <1>2, <1>4, <2>4, GoingOn DEF Sums
    <3>4. QED
      BY <1>3, <1>4, <2>1, <2>2, <2>4, <3>1, <3>2, <3>3 DEF Sums
  <2>5. QED
    BY <2>3, <2>4
<1>5. chatReaction' \subseteq Wallets
  BY <1>1, <1>3 DEF ReactionInv, ReactionTypes
<1>6. QED
  BY <1>1, <1>2, <1>4, <1>5, UnderWay

(* A call that goes on without changing the rows leaves the sums alone.    *)
LEMMA SumsKeep ==
  ASSUME Reactions!ReactionsAssumption, ReactionInv, Sums, NEW r \in Calls, GoesOn(r),
         Applied(r), Applied(r)',
         UNCHANGED chatReaction
  PROVE  Sums'
<1>1. \A w \in Wallets : (w \in chatReaction') = (Cardinality(AppliedBy(w)') % 2 = 1)
  BY SumsStay
<1>2. \A q \in Calls :
        /\ Reactions!Reactor(q)' = Reactions!Reactor(q)
        /\ Reactions!Met(q)' = Reactions!Met(q) /\ Applied(q)' = Applied(q)
  <2>1. Applied(r)' = Applied(r)
    BY DEF Applied
  <2>2. QED
    BY <2>1, GoingOn
<1>3. \A q \in Calls \ {r} : click'[q] = click[q]
  BY DEF GoesOn
<1>4. \A q \in Calls : \A p \in Reactions!Met(q) : Applied(p)' = Applied(p)
  BY <1>2 DEF Reactions!Met
<1>5. QED
  BY <1>1, <1>2, <1>3, <1>4 DEF Sums, Applied

(* reads who has reacted,                                                  *)
LEMMA ReadKeeps ==
  ASSUME Reactions!ReactionsAssumption, ReactionInv, NEW r \in Calls,
         Reactions!ReadReactions(r)
  PROVE  ReactionInv'
<1>1. /\ click[r].pc = "read"
      /\ UNCHANGED <<chatReaction, view, clickFailures, told, overlaps>>
      /\ click' = [click EXCEPT ![r].pc = "broadcast", ![r].reactors = chatReaction]
      /\ chatReaction \subseteq Wallets
  BY DEF Reactions!ReadReactions, ReactionInv, ReactionTypes
<1>2. /\ GoesOn(r) /\ click'[r].pc = "broadcast" /\ click'[r].reactors = chatReaction
      /\ Reactions!Open(r)'
  BY <1>1, ReactionParts DEF GoesOn, Reactions!Open, ReactionStages
<1>3. MeetOnce /\ Sums => Sums'
  BY <1>1, <1>2, SumsKeep DEF Applied
<1>4. QED
  BY <1>1, <1>2, <1>3, UnderWay

(* and tells every screen of its instance.                                 *)
LEMMA BroadcastKeeps ==
  ASSUME Reactions!ReactionsAssumption, ReactionInv, NEW r \in Calls, Reactions!Broadcast(r)
  PROVE  ReactionInv'
<1> DEFINE room == {s \in Tabs : TabInstance[s] = TabInstance[Reactions!Of(r)]}
<1>1. /\ click[r].pc = "broadcast" /\ UNCHANGED <<chatReaction, clickFailures, overlaps>>
      /\ view' = [s \in Tabs |-> IF s \in room THEN click[r].reactors ELSE view[s]]
      /\ told' = room /\ click' = [click EXCEPT ![r].pc = "done", ![r].reactors = {}]
  BY DEF Reactions!Broadcast, Reactions!Updated
<1>2. GoesOn(r) /\ click'[r].pc = "done"
  BY <1>1, ReactionParts DEF GoesOn, Reactions!Open, ReactionStages
<1>3. /\ view' \in [Tabs -> SUBSET Wallets] /\ told' \subseteq Tabs
      /\ chatReaction' \subseteq Wallets
  BY <1>1, ReactionParts DEF ReactionInv, ReactionTypes
<1>4. ReactionTypes'
  BY <1>2, <1>3, CallTypes
<1>5. Sums => Sums'
  BY <1>1, <1>2, SumsKeep DEF Applied
<1>6. overlaps' = {} /\ clickFailures' = 0 => Shown'
  <2>1. ASSUME overlaps' = {}, clickFailures' = 0 PROVE Shown'
    <3>1. Shown /\ \A q \in Calls \ {r} : ~Reactions!Open(q)
      BY <1>1, <2>1 DEF ReactionInv, Meetings, Reactions!Open
    <3>2. \A s \in told' : view'[s] = chatReaction'
      BY <1>1, <3>1 DEF Shown
    <3>3. \A q \in Calls : click'[q].pc # "broadcast"
      BY <1>2, <3>1 DEF GoesOn, Reactions!Open
    <3>4. QED
      BY <3>2, <3>3 DEF Shown
  <2>2. QED
    BY <2>1
<1>7. QED
  BY <1>2, <1>4, <1>5, <1>6, GoingOn DEF ReactionInv

(* A statement of a click fails.                                           *)
LEMMA FailKeeps ==
  ASSUME Reactions!ReactionsAssumption, ReactionInv, NEW r \in Calls, Reactions!Fail(r)
  PROVE  ReactionInv'
<1>1. /\ clickFailures' \in 0..MaxReactionFailures /\ clickFailures' # 0
      /\ Reactions!Open(r)
      /\ click' = [click EXCEPT ![r].pc = "done"]
      /\ UNCHANGED <<chatReaction, view, told, overlaps>>
  BY ReactionParts DEF Reactions!Fail, Reactions!GoTo, ReactionInv, ReactionTypes
<1>2. /\ click' \in
           [Calls -> [pc : ReactionStages, socket : SUBSET Tabs, reactors : SUBSET Wallets]]
      /\ click'[r].pc = "done" /\ click'[r].socket = click[r].socket
      /\ \A q \in Calls \ {r} : click'[q] = click[q]
  BY <1>1, ReactionParts DEF ReactionStages
<1>3. ReactionTypes'
  <2>1. \A q \in Calls : click'[q].pc # "idle" => \E s \in Tabs : click'[q].socket = {s}
    BY <1>1, <1>2 DEF ReactionInv, ReactionTypes, Reactions!Open
  <2>2. QED
    BY <1>1, <1>2, <2>1 DEF ReactionInv, ReactionTypes
<1>4. Meetings'
  BY <1>1, <1>2 DEF ReactionInv, Meetings, Reactions!Open
<1>5. QED
  BY <1>1, <1>3, <1>4 DEF ReactionInv, MeetOnce

(* A screen loads what is stored.                                          *)
LEMMA LoadKeeps ==
  ASSUME Reactions!ReactionsAssumption, ReactionInv, NEW s \in Tabs,
         Reactions!LoadHistory(s)
  PROVE  ReactionInv'
<1>1. /\ view' = [view EXCEPT ![s] = chatReaction]
      /\ UNCHANGED <<chatReaction, click, clickFailures, told, overlaps>>
  BY DEF Reactions!LoadHistory
<1>2. ReactionTypes'
  BY <1>1 DEF ReactionInv, ReactionTypes
<1>3. /\ \A q \in Calls :
           /\ Reactions!Reactor(q)' = Reactions!Reactor(q)
           /\ Applied(q)' = Applied(q) /\ Reactions!Open(q)' = Reactions!Open(q)
      /\ Reactions!Quiet' = Reactions!Quiet
  BY <1>1 DEF Reactions!Reactor, Reactions!Of, Applied, Reactions!Open, Reactions!Quiet
<1>4. Meetings' /\ (\A q \in Calls : Reactions!Met(q)' = Reactions!Met(q))
        /\ \A w : AppliedBy(w)' = AppliedBy(w)
  BY <1>1, <1>3 DEF ReactionInv, Meetings, Reactions!Met, AppliedBy
<1>5. MeetOnce' => Sums'
  <2>1. \A q \in Calls : \A p \in Reactions!Met(q) : Applied(p)' = Applied(p)
    BY <1>3 DEF Reactions!Met
  <2>2. QED
    BY <1>1, <1>3, <1>4, <2>1 DEF ReactionInv, MeetOnce, Sums
<1>6. overlaps' = {} /\ clickFailures' = 0 => Shown'
  BY <1>1, <1>3 DEF ReactionInv, ReactionTypes, Shown
<1>7. QED
  BY <1>2, <1>4, <1>5, <1>6 DEF ReactionInv

(* Every step of the reactions keeps their invariant.                      *)
LEMMA ReactionStep ==
  ASSUME Reactions!ReactionsAssumption, ReactionInv, Reactions!Next PROVE ReactionInv'
  BY ToggleKeeps, DeleteKeeps, CreateKeeps, ReadKeeps, BroadcastKeeps, FailKeeps, LoadKeeps
     DEF Reactions!Next

(* Nobody clicked yet.                                                     *)
LEMMA ReactionInitially ==
  ASSUME Reactions!ReactionsAssumption, Reactions!Init
  PROVE  ReactionInv
<1>1. /\ chatReaction = {} /\ clickFailures = 0 /\ view = [s \in Tabs |-> {}]
      /\ click = [r \in Calls |-> Reactions!NoCall] /\ told = Tabs /\ overlaps = {}
  BY DEF Reactions!Init
<1>2. ReactionTypes
  BY <1>1 DEF ReactionTypes, Reactions!NoCall, ReactionStages, Reactions!ReactionsAssumption
<1>3. Meetings
  BY <1>1 DEF Meetings, Reactions!Open, Reactions!NoCall
<1>4. Sums
  <2>1. \A w : AppliedBy(w) = {}
    BY <1>1 DEF AppliedBy, Applied, Reactions!NoCall
  <2>2. \A w : Cardinality(AppliedBy(w)) = 0
    BY <2>1, FS_EmptySet
  <2>3. QED
    BY <1>1, <2>2 DEF Sums, Reactions!NoCall
<1>5. Shown
  BY <1>1 DEF Shown, Reactions!NoCall
<1>6. QED
  BY <1>2, <1>3, <1>4, <1>5 DEF ReactionInv

(* What is said of the reactions follows from their invariant.             *)
LEMMA ReactionsAddUp ==
  ASSUME Reactions!ReactionsAssumption, ReactionInv
  PROVE  Reactions!TypeOK /\ Reactions!ClicksAddUp /\ Reactions!ScreensShowTheStored
<1>1. Reactions!TypeOK
  <2>1. \A r \in Calls : click[r].pc # "idle" => Cardinality(click[r].socket) = 1
    BY FS_Singleton DEF ReactionInv, ReactionTypes
  <2>2. QED
    BY <2>1, ReactionOperators
       DEF ReactionInv, ReactionTypes, Reactions!TypeOK, ReactionStages
<1>2. Reactions!ClicksAddUp
  <2>1. Reactions!Quiet => \A w : AppliedBy(w) = Reactions!Toggles(w)
    BY DEF Reactions!Quiet, Reactions!Open, AppliedBy, Applied, Reactions!Toggles
  <2>2. QED
    BY <2>1, ReactionOperators DEF ReactionInv, MeetOnce, Sums, Reactions!ClicksAddUp
<1>3. Reactions!ScreensShowTheStored
  BY DEF ReactionInv, Shown, Reactions!ScreensShowTheStored
<1>4. QED
  BY <1>1, <1>2, <1>3
-----------------------------------------------------------------------------
(***************************************************************************)
(* The services together.                                                  *)
(***************************************************************************)
\* what each of the services that run keeps
BackendInv ==
  /\ Runs("ingestion") => IngestionInv /\ IngestionTypes
  /\ Runs("indexer") => IndexerInv
  /\ Runs("realtimeLimit") => RealtimeInv
  /\ Runs("signInLimit") => DatabaseInv
  /\ Runs("auth") => AuthInv
  /\ Runs("chat") => GatewayInv
  /\ Runs("reactions") => ReactionInv

(* A step of the backend is a step of each service, or of no concern to    *)
(* it; which services run does not change.                                 *)
LEMMA StepsOfEach ==
  ASSUME [Next]_vars
  PROVE  /\ UNCHANGED running
         /\ [Ingestion!Next]_(Ingestion!vars) /\ [Indexer!Next]_(Indexer!vars)
         /\ [Realtime!Next]_(Realtime!vars) /\ [SignIn!Next]_(SignIn!vars)
         /\ [Auth!Next]_(Auth!vars) /\ [Chat!Next]_(Chat!vars)
         /\ [Reactions!Next]_(Reactions!vars)
<1>1. ingestionVars' = ingestionVars => UNCHANGED Ingestion!vars
  BY DEF ingestionVars, Ingestion!vars, Ingestion!chain, Ingestion!tables, Ingestion!counts
<1>2. indexerVars' = indexerVars => UNCHANGED Indexer!vars
  BY DEF indexerVars, Indexer!vars, Indexer!database, Indexer!memory,
         Indexer!counts
<1>3. realtimeVars' = realtimeVars => UNCHANGED Realtime!vars
  BY DEF realtimeVars, Realtime!vars, Realtime!redisVars
<1>4. signInVars' = signInVars => UNCHANGED SignIn!vars
  BY DEF signInVars, SignIn!vars
<1>5. authVars' = authVars => UNCHANGED Auth!vars
  BY DEF authVars, Auth!vars, Auth!database
<1>6. chatVars' = chatVars => UNCHANGED Chat!vars
  BY DEF chatVars, Chat!vars, Chat!redis, Chat!sockets, Chat!work, Chat!database
<1>7. reactionVars' = reactionVars => UNCHANGED Reactions!vars
  BY DEF reactionVars, Reactions!vars
<1>8. CASE UNCHANGED vars
  BY <1>1, <1>2, <1>3, <1>4, <1>5, <1>6, <1>7, <1>8 DEF vars
<1>9. CASE Next
  BY <1>1, <1>2, <1>3, <1>4, <1>5, <1>6, <1>7, <1>9 DEF Next
<1>10. QED
  BY <1>8, <1>9

(* What the invariants say does not depend on the other services: neither  *)
(* those of the indexer                                                    *)
LEMMA IndexerStays == ASSUME IndexerInv, UNCHANGED Indexer!vars PROVE IndexerInv'
  BY DEF IndexerInv, IndexerTypes, RecoveryTypes, Recoveries, Stages, OnlyDrawn, EndsMarked,
         Ending, Indexer!vars, Indexer!database, Indexer!memory, Indexer!counts

(* nor those of the limiter in memory                                      *)
LEMMA RealtimeStays == ASSUME RealtimeInv, UNCHANGED Realtime!vars PROVE RealtimeInv'
  BY DEF RealtimeInv, RealtimeTypes, RedisKnows, RedisStrict, Together, MemoryCounts,
         MemoryBounded, Until, RedisUntil, InMemory, Later, AdmittedIn, RedisIn, MemoryIn,
         viaMemory, Realtime!RefusedOnlyWhenFull, Realtime!Within, Realtime!Total,
         Realtime!vars, Realtime!redisVars

(* and in the database,                                                    *)
LEMMA DatabaseStays == ASSUME DatabaseInv, UNCHANGED SignIn!vars PROVE DatabaseInv'
  BY DEF DatabaseInv, DatabaseTypes, SignInBag, Open, Passing, Covered, SignInsIn,
         RowsCovered, RoomTaken, SignIn!RefusedOnlyWhenFull, SignIn!Within, SignIn!Total,
         SignIn!vars

(* those of the reactions,                                                 *)
LEMMA ReactionsStay == ASSUME ReactionInv, UNCHANGED Reactions!vars PROVE ReactionInv'
<1>1. /\ UNCHANGED <<chatReaction, view, click, clickFailures, told, overlaps>>
      /\ \A r \in Calls : Reactions!Reactor(r)' = Reactions!Reactor(r)
      /\ \A r \in Calls : Reactions!Met(r)' = Reactions!Met(r)
      /\ \A r \in Calls : Reactions!Open(r)' = Reactions!Open(r)
      /\ \A r \in Calls : Applied(r)' = Applied(r)
      /\ Reactions!Quiet' = Reactions!Quiet
  BY DEF Reactions!vars, Reactions!Reactor, Reactions!Of, Reactions!Met, Reactions!Open,
         Applied, Reactions!Quiet
<1>2. \A w \in Wallets : AppliedBy(w)' = AppliedBy(w)
  BY <1>1 DEF AppliedBy
<1>3. ReactionTypes' /\ Meetings' /\ (Shown => Shown') /\ (MeetOnce' => MeetOnce)
  BY <1>1 DEF ReactionInv, ReactionTypes, Meetings, Shown, MeetOnce
<1>4. Sums => Sums'
  <2>1. \A r \in Calls : (\E q \in Reactions!Met(r) : Applied(q))' <=>
                           \E q \in Reactions!Met(r) : Applied(q)
    BY <1>1 DEF Reactions!Met
  <2>2. Sums => \A w \in Wallets :
                  (w \in chatReaction') = (Cardinality(AppliedBy(w)') % 2 = 1)
    BY <1>1, <1>2 DEF Sums
  <2>3. QED
    BY <1>1, <2>1, <2>2 DEF Sums
<1>5. QED
  BY <1>1, <1>3, <1>4 DEF ReactionInv

(* and of the tables of deploys.                                           *)
LEMMA TypesStay == ASSUME IngestionTypes, UNCHANGED Ingestion!vars PROVE IngestionTypes'
  BY DEF IngestionTypes, DeploymentTypes, TriesTypes, ColumnTypes, CounterTypes,
         Ingestion!vars, Ingestion!tables, Ingestion!counts
(* The backend implements each of the services that run: their first state *)
(* is one it may start in, and every step of the backend is a step of that *)
(* service or leaves it alone.                                             *)
THEOREM ServicesAreImplemented ==
  Spec => /\ Runs("ingestion") => Ingestion!Init /\ [][Ingestion!Next]_(Ingestion!vars)
          /\ Runs("indexer") => Indexer!Init /\ [][Indexer!Next]_(Indexer!vars)
          /\ Runs("realtimeLimit") => Realtime!Init /\ [][Realtime!Next]_(Realtime!vars)
          /\ Runs("signInLimit") => SignIn!Init /\ [][SignIn!Next]_(SignIn!vars)
          /\ Runs("auth") => Auth!Init /\ [][Auth!Next]_(Auth!vars)
          /\ Runs("chat") => Chat!Init /\ [][Chat!Next]_(Chat!vars)
          /\ Runs("reactions") => Reactions!Init /\ [][Reactions!Next]_(Reactions!vars)
<1>1. Init => /\ Runs("ingestion") => Ingestion!Init
              /\ Runs("indexer") => Indexer!Init
              /\ Runs("realtimeLimit") => Realtime!Init
              /\ Runs("signInLimit") => SignIn!Init
              /\ Runs("auth") => Auth!Init
              /\ Runs("chat") => Chat!Init
              /\ Runs("reactions") => Reactions!Init
  BY DEF Init
<1>2. [Next]_vars => /\ [Ingestion!Next]_(Ingestion!vars) /\ [Indexer!Next]_(Indexer!vars)
                     /\ [Realtime!Next]_(Realtime!vars) /\ [SignIn!Next]_(SignIn!vars)
                     /\ [Auth!Next]_(Auth!vars) /\ [Chat!Next]_(Chat!vars)
                     /\ [Reactions!Next]_(Reactions!vars)
  BY StepsOfEach
<1>3. QED
  BY <1>1, <1>2, PTL DEF Spec
-----------------------------------------------------------------------------
(* Every step keeps the invariants of the services that run,               *)
LEMMA BackendStep == BackendInv /\ [Next]_vars => BackendInv'
<1> SUFFICES ASSUME BackendInv, [Next]_vars PROVE BackendInv'
  OBVIOUS
<1>0. UNCHANGED running
  BY StepsOfEach
<1>1. ASSUME Runs("ingestion") PROVE (IngestionInv /\ IngestionTypes)'
  <2>1. IngestionInv /\ IngestionTypes /\ Ingestion!IngestionAssumption
    BY <1>1, BackendAssumption DEF BackendInv
  <2>2. [Ingestion!Next]_(Ingestion!vars)
    BY StepsOfEach
  <2>3. IngestionInv'
    BY <2>1, <2>2, StepIngestion
  <2>4. IngestionTypes'
    BY <2>1, <2>2, TypesKept, TypesStay
  <2>5. QED
    BY <2>3, <2>4
<1>2. ASSUME Runs("indexer") PROVE IndexerInv'
  <2>1. IndexerInv /\ Indexer!IndexerAssumption
    BY <1>2, BackendAssumption DEF BackendInv
  <2>2. [Indexer!Next]_(Indexer!vars)
    BY StepsOfEach
  <2>3. QED
    BY <2>1, <2>2, IndexerStep, IndexerStays
<1>3. ASSUME Runs("realtimeLimit") PROVE RealtimeInv'
  <2>1. RealtimeInv /\ Realtime!RealtimeAssumption
    BY <1>3, BackendAssumption DEF BackendInv
  <2>2. [Realtime!Next]_(Realtime!vars)
    BY StepsOfEach
  <2>3. QED
    BY <2>1, <2>2, RealtimeStep, RealtimeStays
<1>4. ASSUME Runs("signInLimit") PROVE DatabaseInv'
  <2>1. DatabaseInv /\ SignIn!DatabaseAssumption
    BY <1>4, BackendAssumption DEF BackendInv
  <2>2. [SignIn!Next]_(SignIn!vars)
    BY StepsOfEach
  <2>3. QED
    BY <2>1, <2>2, DatabaseStep, DatabaseStays
<1>5. ASSUME Runs("auth") PROVE AuthInv'
  <2>1. AuthInv /\ Auth!AuthAssumption
    BY <1>5, BackendAssumption DEF BackendInv
  <2>2. [Auth!Next]_(Auth!vars)
    BY StepsOfEach
  <2>3. QED
    BY <2>1, <2>2, StepAuth
<1>6. ASSUME Runs("chat") PROVE GatewayInv'
  <2>1. GatewayInv /\ Chat!GatewayAssumption
    BY <1>6, BackendAssumption DEF BackendInv
  <2>2. [Chat!Next]_(Chat!vars)
    BY StepsOfEach
  <2>3. QED
    BY <2>1, <2>2, StepGateway
<1>7. ASSUME Runs("reactions") PROVE ReactionInv'
  <2>1. ReactionInv /\ Reactions!ReactionsAssumption
    BY <1>7, BackendAssumption DEF BackendInv
  <2>2. [Reactions!Next]_(Reactions!vars)
    BY StepsOfEach
  <2>3. QED
    BY <2>1, <2>2, ReactionStep, ReactionsStay
<1>8. QED
  BY <1>0, <1>1, <1>2, <1>3, <1>4, <1>5, <1>6, <1>7 DEF BackendInv, Runs

(* which hold at first.                                                    *)
LEMMA BackendInitially == Init => BackendInv
<1> SUFFICES ASSUME Init PROVE BackendInv
  OBVIOUS
<1>1. Runs("ingestion") => IngestionInv /\ IngestionTypes
  BY IngestionInitially, TypesInitially, BackendAssumption DEF Init
<1>2. Runs("indexer") => IndexerInv
  BY IndexerInitially, BackendAssumption DEF Init
<1>3. Runs("realtimeLimit") => RealtimeInv
  BY RealtimeInitially, BackendAssumption DEF Init
<1>4. Runs("signInLimit") => DatabaseInv
  BY DatabaseInitially, BackendAssumption DEF Init
<1>5. Runs("auth") => AuthInv
  BY AuthInitially, BackendAssumption DEF Init
<1>6. Runs("chat") => GatewayInv
  BY GatewayInitially, BackendAssumption DEF Init
<1>7. Runs("reactions") => ReactionInv
  BY ReactionInitially, BackendAssumption DEF Init
<1>8. QED
  BY <1>1, <1>2, <1>3, <1>4, <1>5, <1>6, <1>7 DEF BackendInv

(* What the invariants come to.                                            *)
LEMMA BackendGood ==
  BackendInv => TypeOK /\ RecordedOnce /\ LimitsHold /\ SessionsAreChains /\ SpokenOnce
<1> SUFFICES ASSUME BackendInv
             PROVE  TypeOK /\ RecordedOnce /\ LimitsHold /\ SessionsAreChains /\ SpokenOnce
  OBVIOUS
<1>1. Runs("ingestion") => /\ Ingestion!TypeOK /\ Ingestion!BooksMatch
                           /\ Ingestion!AnnouncedOnce
  BY IngestionTyped, BackendAssumption DEF BackendInv
<1>2. Runs("indexer") => Indexer!TypeOK /\ Indexer!AnnouncedOnce
  BY IndexerTyped, BackendAssumption DEF BackendInv
<1>3. Runs("realtimeLimit") => /\ Realtime!TypeOK /\ Realtime!RefusedOnlyWhenFull
                               /\ Realtime!FallbackBounded
  <2>1. RealtimeInv => Realtime!RefusedOnlyWhenFull
    BY DEF RealtimeInv
  <2>2. QED
    BY <2>1, RealtimeTyped, FallbackIs, BackendAssumption DEF BackendInv
<1>4. Runs("signInLimit") => /\ SignIn!TypeOK /\ SignIn!RefusedOnlyWhenFull
                             /\ SignIn!OvershootBounded
  BY DatabaseTyped, BackendAssumption DEF BackendInv
<1>5. Runs("auth") => /\ Auth!TypeOK /\ Auth!OneLivePerFamily /\ Auth!FamilyIsChain
                      /\ Auth!ChallengeUsedOnce
  BY AuthGood DEF BackendInv
<1>6. Runs("chat") => /\ Chat!TypeOK /\ Chat!DeliveredOnce /\ Chat!OnlyProvenWallets
                      /\ Chat!GivenUpAfterAllAttempts
  BY ChatGood, BackendAssumption DEF BackendInv
<1>7. Runs("reactions") => /\ Reactions!TypeOK /\ Reactions!ClicksAddUp
                           /\ Reactions!ScreensShowTheStored
  BY ReactionsAddUp, BackendAssumption DEF BackendInv
<1>8. QED
  BY <1>1, <1>2, <1>3, <1>4, <1>5, <1>6, <1>7
     DEF TypeOK, RecordedOnce, LimitsHold, SessionsAreChains, SpokenOnce

(* The invariants hold in every state.                                     *)
LEMMA BackendInductive == Spec => []BackendInv
  BY BackendInitially, BackendStep, PTL DEF Spec
-----------------------------------------------------------------------------
(* The tables, the memory and the calls of the services have their types,  *)
(* whichever of them run.                                                  *)
THEOREM BackendTypeCorrect == Spec => []TypeOK
  BY BackendInductive, BackendGood, PTL

(* What comes in by several ways at once is recorded and announced once:   *)
(* ingestDeployment, processProgramLogs.                                   *)
THEOREM RecordsAreKeptOnce == Spec => []RecordedOnce
  BY BackendInductive, BackendGood, PTL

(* The limiters refuse nobody too early.  A process admits less than three *)
(* times the limit in any window, whenever Redis becomes ready or goes     *)
(* away, and the database one less than there are calls above the limit    *)
(* (assertRealtimeRateLimit, enforceRateLimit).                            *)
THEOREM LimitersHold == Spec => []LimitsHold
  BY BackendInductive, BackendGood, PTL

(* The sessions of a family are a chain with one live session at most, and *)
(* a challenge yields one (refreshSession, verifyAndIssueSession).         *)
THEOREM FamiliesAreChains == Spec => []SessionsAreChains
  BY BackendInductive, BackendGood, PTL

(* A socket hears of a message once, and only of wallets that were proved; *)
(* clicks add up and the screens show it (websocket.service.ts,            *)
(* toggleReaction).                                                        *)
THEOREM MessagesReachTheRoomOnce == Spec => []SpokenOnce
  BY BackendInductive, BackendGood, PTL

(* Dropping a deploy, losing a winner, reviving a family, ending a session *)
(* or clearing a socket never happens without the reason the code has for  *)
(* it, whatever the services do between each other's statements.           *)
THEOREM NothingIsTakenBack == Spec => NothingTakenBack
<1> DEFINE Kept ==
      /\ Runs("ingestion") => Ingestion!GivesUpOnFirst
      /\ Runs("indexer") => Indexer!KeepsWinner
      /\ Runs("auth") => Auth!StaysClosed /\ Auth!RevokingHasAReason
      /\ Runs("chat") => Chat!ClearingHasAReason
<1>1. ASSUME BackendInv, [Next]_vars PROVE Kept
  <2>1. Runs("ingestion") => Ingestion!GivesUpOnFirst
    <3>1. IngestionInv => Ingestion!GivesUpOnFirst
      BY DEF IngestionInv, GivingUpInv, Ingestion!GivesUpOnFirst
    <3>2. QED
      BY <1>1, <3>1 DEF BackendInv
  <2>2. Runs("indexer") => Indexer!KeepsWinner
    <3>1. UNCHANGED Indexer!vars => Indexer!KeepsWinner
      BY DEF Indexer!vars, Indexer!database, Indexer!KeepsWinner
    <3>2. QED
      BY <1>1, <3>1, StepsOfEach, IndexerStep, BackendAssumption DEF BackendInv
  <2>3. Runs("auth") => Auth!StaysClosed /\ Auth!RevokingHasAReason
    BY <1>1, StepsOfEach, AuthSteps DEF BackendInv
  <2>4. Runs("chat") => Chat!ClearingHasAReason
    BY <1>1, StepsOfEach, ChatSteps, BackendAssumption DEF BackendInv
  <2>5. QED
    BY <2>1, <2>2, <2>3, <2>4
<1>2. BackendInv /\ [Next]_vars => [Kept]_<<ingestionVars, indexerVars, authVars, chatVars>>
  BY <1>1
<1>3. QED
  BY <1>2, BackendInductive, PTL DEF Spec, NothingTakenBack
=============================================================================
