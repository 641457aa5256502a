------------------------------- MODULE Profile -------------------------------
(***************************************************************************)
(* A player's profile: the row that PATCH /profiles/me updates, and the    *)
(* name and picture that a page of the player shows (UserProfileProvider,  *)
(* useProfileDrawerController).                                            *)
(*                                                                         *)
(* updateProfile reads the row, looks for another holder of the name and   *)
(* upserts, each a query of its own: calls of one wallet, from one page or *)
(* several, interleave.  The page shows the answer of a query it repeats;  *)
(* an effect puts back whatever differs from it.  A date is its month, so  *)
(* a name changed in the month that lasts is within the cooldown.  Bio,    *)
(* handles, website and banner are written as the picture is.              *)
(*                                                                         *)
(* External: PostgreSQL (an upsert is atomic, normalized names unique).    *)
(***************************************************************************)
EXTENDS Integers, FiniteSets

CONSTANTS
  Me, Others,           \* the wallet of the page, and the other wallets
  Letters, Cases,       \* a name is letters in some case
  Reserved,             \* RESERVED_USERNAMES
  Pictures,             \* http URLs of pictures
  Saves, Calls,         \* bound: saves of the page, calls made elsewhere
  MaxMonths,            \* bound: time
  MaxFailures           \* bound: calls and fetches that fail

ProfileAssumption ==
  /\ Me \notin Others /\ Reserved \subseteq Letters /\ Saves \intersect Calls = {}
  /\ MaxMonths \in Nat \ {0} /\ MaxFailures \in Nat

Wallets == {Me} \union Others
Updates == Saves \union Calls
Names == Letters \X Cases
normalizeUsername(name) == name[1]
Text(words) == <<words, "">>
NoName == Text("")      \* null, and a name that is not given
None == "none"          \* so for the picture
Anonymous == Text("Anonymous")
Upload == "data:"       \* a picture read from a file

VARIABLES
  now,
  profile,              \* user_profiles, by wallet
  update,               \* calls of updateProfile
  backendAuthenticated,
  profileQuery,         \* its data, if any
  fetch,                \* "no", "asked" or "read", and what was read
  userName, userPfp,
  failures,
  hadNames, heldNames,  \* history: during a call, names of its wallet and of the others
  rushed                \* history: a name was changed twice in a month

page == <<backendAuthenticated, profileQuery, fetch, userName, userPfp>>
history == <<hadNames, heldNames, rushed>>
vars == <<now, profile, update, page, failures, history>>

NoFetch == [at |-> "no", name |-> NoName, avatarUrl |-> None]
NoRow == [username |-> NoName, changedAt |-> 0, avatarUrl |-> None]
Idle == [pc |-> "idle", wallet |-> Me, username |-> NoName, avatarUrl |-> None,
         existing |-> NoRow, changed |-> FALSE, code |-> None]
HeldBy(ws) == {normalizeUsername(profile[w].username) : w \in {v \in ws : profile[v].username # NoName}}
-----------------------------------------------------------------------------
(* updateProfile. *)
Begin(u, wallet, username, avatarUrl) ==
  /\ update[u].pc = "idle"
  /\ update' = [update EXCEPT ![u] = [Idle EXCEPT !.pc = "read", !.wallet = wallet,
                                        !.username = username, !.avatarUrl = avatarUrl]]
  /\ hadNames' = [hadNames EXCEPT ![u] = {profile[wallet].username}]
  /\ heldNames' = [heldNames EXCEPT ![u] = HeldBy(Wallets \ {wallet})]
  /\ UNCHANGED <<now, profile, failures, rushed>>

GoTo(u, pc) == update' = [update EXCEPT ![u].pc = pc]
Refuse(u, code) == update' = [update EXCEPT ![u].pc = "refused", ![u].code = code]

ReadExisting(u) ==
  /\ update[u].pc = "read"
  /\ update' = [update EXCEPT ![u].pc = "check", ![u].existing = profile[update[u].wallet]]
  /\ UNCHANGED <<now, profile, page, failures, history>>

\* mutant: a name in another case is the same name
ChangedNormalized(u) ==
  LET name == update[u].username  old == update[u].existing.username
  IN name # NoName /\ (old = NoName \/ normalizeUsername(name) # normalizeUsername(old))
UsernameChanged(u) == update[u].username \notin {NoName, update[u].existing.username}
Cooldown(u) == update[u].existing.changedAt = now

Check(u) ==
  /\ update[u].pc = "check"
  /\ IF ~UsernameChanged(u) THEN GoTo(u, "upsert")
     ELSE IF normalizeUsername(update[u].username) \in Reserved THEN Refuse(u, "USERNAME_RESERVED")
     ELSE IF Cooldown(u) THEN Refuse(u, "USERNAME_COOLDOWN")
     ELSE GoTo(u, "conflict")
  /\ UNCHANGED <<now, profile, page, failures, history>>

\* mutant: its own name is in the way
ConflictAnyone(u) == normalizeUsername(update[u].username) \in HeldBy(Wallets)
Conflict(u) == normalizeUsername(update[u].username) \in HeldBy(Wallets \ {update[u].wallet})

FindConflict(u) ==
  /\ update[u].pc = "conflict"
  /\ IF Conflict(u) THEN Refuse(u, "USERNAME_TAKEN")
     ELSE update' = [update EXCEPT ![u].pc = "upsert", ![u].changed = TRUE]
  /\ UNCHANGED <<now, profile, page, failures, history>>

\* mutant: the date of the change is left out
WrittenUndated(u) ==
  LET row == profile[update[u].wallet]
  IN [row EXCEPT !.username = IF update[u].changed THEN update[u].username ELSE @,
                 !.avatarUrl = IF update[u].avatarUrl = None THEN @ ELSE update[u].avatarUrl]
\* only what was given
Written(u) ==
  LET row == profile[update[u].wallet]
  IN [username |-> IF update[u].changed THEN update[u].username ELSE row.username,
      changedAt |-> IF update[u].changed THEN now ELSE row.changedAt,
      avatarUrl |-> IF update[u].avatarUrl = None THEN row.avatarUrl ELSE update[u].avatarUrl]

Upsert(u) ==
  /\ update[u].pc = "upsert"
  /\ LET wallet == update[u].wallet  row == Written(u)
     IN IF update[u].changed /\ normalizeUsername(row.username) \in HeldBy(Wallets \ {wallet})
        THEN Refuse(u, "P2002") /\ UNCHANGED <<profile, history>>
        ELSE /\ profile' = [profile EXCEPT ![wallet] = row]
             /\ GoTo(u, "saved")
             /\ hadNames' = [d \in Updates |->
                  IF update[d].wallet = wallet THEN hadNames[d] \union {row.username} ELSE hadNames[d]]
             /\ heldNames' = [d \in Updates |->
                  IF update[d].wallet # wallet /\ update[u].changed
                  THEN heldNames[d] \union {normalizeUsername(row.username)} ELSE heldNames[d]]
             /\ rushed' = (rushed \/ /\ profile[wallet].changedAt = now
                                     /\ row.username # profile[wallet].username)
  /\ UNCHANGED <<now, page, failures>>

Month == now < MaxMonths /\ now' = now + 1 /\ UNCHANGED <<profile, update, page, failures, history>>
-----------------------------------------------------------------------------
(* The page.  handleSave sends the name, and the picture that is shown if  *)
(* it is a URL; it may be pressed again while a save is on its way.        *)
HandleSave(u, name) ==
  /\ backendAuthenticated
  /\ Begin(u, Me, name, IF userPfp \in Pictures THEN userPfp ELSE None)
  /\ UNCHANGED page
Elsewhere(u, wallet, name, avatarUrl) == Begin(u, wallet, name, avatarUrl) /\ UNCHANGED page

\* onSuccess: the queries are fetched anew, a fetch on its way is given up
OnSuccess(u) ==
  /\ update[u].pc = "saved" /\ u \in Saves
  /\ GoTo(u, "refetch")
  /\ fetch' = IF backendAuthenticated THEN [NoFetch EXCEPT !.at = "asked"] ELSE fetch
  /\ UNCHANGED <<now, profile, backendAuthenticated, profileQuery, userName, userPfp, failures, history>>

Awaited(pc) == IF pc = "refetch" THEN "refetched" ELSE pc
RefetchDone == update' = [u \in Updates |-> [update[u] EXCEPT !.pc = Awaited(@)]]

\* refetchInterval
Ask ==
  /\ backendAuthenticated /\ fetch.at = "no"
  /\ fetch' = [NoFetch EXCEPT !.at = "asked"]
  /\ UNCHANGED <<now, profile, update, backendAuthenticated, profileQuery, userName, userPfp, failures, history>>
FetchReads ==
  /\ fetch.at = "asked"
  /\ fetch' = [at |-> "read", name |-> profile[Me].username, avatarUrl |-> profile[Me].avatarUrl]
  /\ UNCHANGED <<now, profile, update, backendAuthenticated, profileQuery, userName, userPfp, failures, history>>
FetchArrives ==
  /\ fetch.at = "read"
  /\ profileQuery' = {fetch} /\ fetch' = NoFetch /\ RefetchDone
  /\ UNCHANGED <<now, profile, backendAuthenticated, userName, userPfp, failures, history>>
FetchFails ==
  /\ fetch.at # "no" /\ failures < MaxFailures
  /\ failures' = failures + 1 /\ fetch' = NoFetch /\ RefetchDone
  /\ UNCHANGED <<now, profile, backendAuthenticated, profileQuery, userName, userPfp, history>>

\* the last line of handleSave
SetUserName(u) ==
  /\ update[u].pc = "refetched"
  /\ GoTo(u, "done") /\ userName' = update[u].username
  /\ UNCHANGED <<now, profile, backendAuthenticated, profileQuery, fetch, userPfp, failures, history>>

ImageUpload ==
  /\ userPfp # Upload /\ userPfp' = Upload
  /\ UNCHANGED <<now, profile, update, backendAuthenticated, profileQuery, fetch, userName, failures, history>>

\* a wallet without a name is shown by its address
DisplayName(data) == IF data.name = NoName THEN Text(Me) ELSE data.name
\* mutant: only a page that shows nothing takes the answer
ShownFirst(data) == IF userName = Anonymous THEN DisplayName(data) ELSE userName
Shown(data) == DisplayName(data)

\* both effects of a commit; of two assignments the last stays
Effects ==
  /\ userName' = IF ~backendAuthenticated /\ userName # Anonymous THEN Anonymous
                 ELSE IF profileQuery = {} THEN userName
                 ELSE CHOOSE name \in {Shown(data) : data \in profileQuery} : TRUE
  /\ userPfp' = IF ~backendAuthenticated /\ userPfp # None THEN None
                ELSE IF profileQuery = {} THEN userPfp
                ELSE CHOOSE url \in {data.avatarUrl : data \in profileQuery} : TRUE
  /\ <<userName, userPfp>>' # <<userName, userPfp>>
  /\ UNCHANGED <<now, profile, update, backendAuthenticated, profileQuery, fetch, failures, history>>

SignIn ==
  /\ ~backendAuthenticated /\ backendAuthenticated' = TRUE
  /\ UNCHANGED <<now, profile, update, profileQuery, fetch, userName, userPfp, failures, history>>
\* the session ends, and perhaps the wallet goes with its queries
SignOut ==
  /\ backendAuthenticated /\ failures < MaxFailures
  /\ failures' = failures + 1 /\ backendAuthenticated' = FALSE
  /\ \/ UNCHANGED <<profileQuery, fetch, update>>
     \/ profileQuery' = {} /\ fetch' = NoFetch /\ RefetchDone
  /\ UNCHANGED <<now, profile, userName, userPfp, history>>
-----------------------------------------------------------------------------
Init ==
  /\ now = 1 /\ profile = [w \in Wallets |-> NoRow] /\ update = [u \in Updates |-> Idle]
  /\ backendAuthenticated = FALSE /\ profileQuery = {} /\ fetch = NoFetch
  /\ userName = Anonymous /\ userPfp = None /\ failures = 0
  /\ hadNames = [u \in Updates |-> {}] /\ heldNames = [u \in Updates |-> {}] /\ rushed = FALSE

Serve(u) == ReadExisting(u) \/ Check(u) \/ FindConflict(u) \/ Upsert(u)
Next ==
  \/ \E u \in Updates : Serve(u) \/ OnSuccess(u) \/ SetUserName(u)
  \/ \E u \in Saves, name \in Names : HandleSave(u, name)
  \/ \E u \in Calls, w \in Wallets, name \in Names \union {NoName}, picture \in Pictures \union {None} :
       Elsewhere(u, w, name, picture)
  \/ Ask \/ FetchReads \/ FetchArrives \/ FetchFails
  \/ ImageUpload \/ Effects \/ SignIn \/ SignOut \/ Month

(* Queries are answered, the page asks again and again, effects run.        *)
Fairness ==
  /\ \A u \in Updates : WF_vars(Serve(u)) /\ WF_vars(OnSuccess(u)) /\ WF_vars(SetUserName(u))
  /\ WF_vars(Ask) /\ WF_vars(FetchReads) /\ WF_vars(FetchArrives) /\ WF_vars(Effects)
Spec == Init /\ [][Next]_vars /\ Fairness
-----------------------------------------------------------------------------
Row == [username : Names \union {NoName}, changedAt : 0..MaxMonths, avatarUrl : Pictures \union {None}]
TypeOK ==
  /\ now \in 1..MaxMonths /\ profile \in [Wallets -> Row]
  /\ \A w \in Wallets : profile[w].username = NoName <=> profile[w].changedAt = 0
  /\ \A u \in Updates :
       /\ update[u].pc \in {"idle", "read", "check", "conflict", "upsert", "saved", "refetch",
                            "refetched", "done", "refused"}
       /\ update[u].wallet \in Wallets /\ update[u].existing \in Row /\ update[u].changed \in BOOLEAN
  /\ fetch \in [at : {"no", "asked", "read"}, name : Names \union {NoName}, avatarUrl : Pictures \union {None}]
  /\ userName \in Names \union {Anonymous, Text(Me)} /\ userPfp \in Pictures \union {None, Upload}
  /\ failures \in 0..MaxFailures

\* Whoever was told that the profile is saved has had the name: some time during the
\* call it was stored as given, however the calls of the wallet interleave.
SavedNameWasStored ==
  \A u \in Updates :
    update[u].pc = "saved" /\ update[u].username # NoName => update[u].username \in hadNames[u]

\* A name is refused as taken only if another wallet had it during the call.
TakenByAnother ==
  \A u \in Updates :
    update[u].code \in {"USERNAME_TAKEN", "P2002"} =>
      normalizeUsername(update[u].username) \in heldNames[u]

\* Once a player stays signed in, the page comes to show the name that is stored,
\* whichever answer came late and whatever was typed meanwhile.
ShowsTheStored == userName = DisplayName([name |-> profile[Me].username])
NameSettles == <>[]backendAuthenticated => <>[]ShowsTheStored

\* "Username can be changed again in ... day(s)": not twice in the time between.
OncePerCooldown == ~rushed
=============================================================================
