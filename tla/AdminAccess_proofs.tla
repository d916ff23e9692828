------------------------- MODULE AdminAccess_proofs -------------------------
(***************************************************************************)
(* Administrators, for any number of users, sessions, handlers and keys:   *)
(* who loses the right to be signed in is signed out in the same commit,   *)
(* the setup is won once, and every reset has used up a key.               *)
(***************************************************************************)
EXTENDS AdminAccess, FiniteSetTheorems, TLAPS

-----------------------------------------------------------------------------
(* Types                                                                   *)

\* What a handler knows when it has come to a place.
LEMMA HandlerTypes ==
    ASSUME TypeOK, NEW q \in Requests
    PROVE  /\ At(q, "verified") => request[q] \in [at: {"verified"}, user: Users]
           /\ At(q, "checked") \/ At(q, "signed") =>
                 request[q] \in [at: {"checked", "signed"}, session: Sessions]
           /\ At(q, "loaded") =>
                 request[q] \in [at: {"loaded"}, session: Sessions, user: Users,
                                 seen: {"on", "off"}]
BY DEF TypeOK, Handlers, Idle, At

\* Ending sessions and changing a password keep the shape of the rows.
LEMMA RowTypes ==
    ASSUME TypeOK, NEW q
    PROVE  /\ \A u \in Users : NewPassword(u) \in [Users -> UserRows]
           /\ \A u \in Users : Revoked(u, q) \in [Sessions -> SessionRows]
<1>1. ASSUME NEW u \in Users PROVE NewPassword(u) \in [Users -> UserRows]
  <2>1. user[u] \in UserRows /\ 1 - user[u].password \in 0..1
    BY DEF TypeOK, UserRows
  <2> QED BY <2>1 DEF NewPassword, TypeOK, UserRows
<1>2. ASSUME NEW u \in Users PROVE Revoked(u, q) \in [Sessions -> SessionRows]
  BY DEF Revoked, TypeOK, SessionRows
<1> QED BY <1>1, <1>2

LEMMA InitTypes == Init => TypeOK
BY AdminAssumption DEF Init, TypeOK, UserRows, SessionRows, Files, NoFile, Idle

\* A handler that starts or goes on does so at a place of its kind.
LEMMA PlaceTypes ==
    ASSUME TypeOK, NEW q \in Requests
    PROVE  /\ \A handler \in Handlers \cup {Idle} : Enter(q, handler) \/ Go(q, handler) =>
                 request' \in [Requests -> Handlers \cup {Idle}]
           /\ Return(q) => request' \in [Requests -> Handlers \cup {Idle}]
BY DEF TypeOK, Enter, Go, Return

LEMMA SetupTypes ==
    ASSUME TypeOK, NEW q \in Requests, SetupStep(q)
    PROVE  TypeOK'
<1>1. CASE BeginSetup(q)
  <2>1. [at |-> "setup"] \in Handlers
    BY DEF Handlers
  <2> QED BY <1>1, <2>1, PlaceTypes DEF BeginSetup, TypeOK
<1>2. CASE FinishSetup(q)
  <2>1. [state |-> "on", password |-> 1 - user[FirstUser].password] \in UserRows
    BY AdminAssumption DEF TypeOK, UserRows
  <2>2. user' \in [Users -> UserRows]
    BY <1>2, <2>1, AdminAssumption DEF FinishSetup, TypeOK
  <2> QED BY <1>2, <2>2, PlaceTypes DEF FinishSetup, TypeOK
<1> QED BY <1>1, <1>2 DEF SetupStep

LEMMA SessionTypes ==
    ASSUME TypeOK, NEW q \in Requests, SessionStep(q)
    PROVE  TypeOK'
<1>1. ASSUME NEW u \in Users, VerifyLogin(q, u) PROVE TypeOK'
  <2>1. [at |-> "verified", user |-> u] \in Handlers
    BY DEF Handlers
  <2> QED BY <1>1, <2>1, PlaceTypes DEF VerifyLogin, TypeOK
<1>2. ASSUME NEW s \in Sessions, OpenSession(q, s) PROVE TypeOK'
  <2>1. [state |-> "open", user |-> request[q].user] \in SessionRows
    BY <1>2, HandlerTypes DEF OpenSession, SessionRows
  <2> QED BY <1>2, <2>1, PlaceTypes DEF OpenSession, TypeOK
<1>3. ASSUME NEW s \in Sessions, Authenticate(q, s) PROVE TypeOK'
  <2>1. [at |-> "checked", session |-> s] \in Handlers
    BY DEF Handlers
  <2> QED BY <1>3, <2>1, PlaceTypes DEF Authenticate, TypeOK
<1>4. CASE NoteSeen(q)
  <2>1. [at |-> "signed", session |-> request[q].session] \in Handlers
    BY <1>4, HandlerTypes DEF NoteSeen, Handlers
  <2> QED BY <1>4, <2>1, PlaceTypes DEF NoteSeen, TypeOK
<1>5. CASE Logout(q)
  BY <1>5, PlaceTypes, HandlerTypes DEF Logout, TypeOK, SessionRows
<1>6. CASE ChangePassword(q)
  <2>1. session[request[q].session].user \in Users
    BY <1>6, HandlerTypes DEF ChangePassword, TypeOK, SessionRows
  <2> QED BY <1>6, <2>1, PlaceTypes, RowTypes DEF ChangePassword, TypeOK
<1> QED BY <1>1, <1>2, <1>3, <1>4, <1>5, <1>6 DEF SessionStep

LEMMA UserTypes ==
    ASSUME TypeOK, NEW q \in Requests, NEW u \in Users, UserStep(q, u)
    PROVE  TypeOK'
<1>1. ASSUME NEW state \in {"on", "off"}, CreateUser(q, u, state) PROVE TypeOK'
  BY <1>1, PlaceTypes DEF CreateUser, TypeOK, UserRows
<1>2. CASE LoadUser(q, u)
  <2>1. [at |-> "loaded", session |-> request[q].session, user |-> u,
         seen |-> user[u].state] \in Handlers
    BY <1>2, HandlerTypes DEF LoadUser, System, Ordinary, Exists, Handlers, TypeOK, UserRows
  <2> QED BY <1>2, <2>1, PlaceTypes DEF LoadUser, TypeOK
<1>3. CASE EnableUser(q, u)
  BY <1>3, PlaceTypes DEF EnableUser, TypeOK, UserRows
<1>4. CASE DisableUser(q, u)
  <2>1. user' \in [Users -> UserRows]
    BY <1>4 DEF DisableUser, TypeOK, UserRows
  <2> QED BY <1>4, <2>1, PlaceTypes, RowTypes DEF DisableUser, TypeOK
<1>5. CASE ResetUserPassword(q, u)
  BY <1>5, PlaceTypes, RowTypes DEF ResetUserPassword, TypeOK
<1>6. CASE DeleteUser(q, u)
  <2>1. user' \in [Users -> UserRows]
    BY <1>6 DEF DeleteUser, TypeOK, UserRows
  <2> QED BY <1>6, <2>1, PlaceTypes, RowTypes DEF DeleteUser, TypeOK
<1> QED BY <1>1, <1>2, <1>3, <1>4, <1>5, <1>6 DEF UserStep

LEMMA KeyTypes ==
    ASSUME TypeOK, NEW q \in Requests, KeyStep(q)
    PROVE  TypeOK'
<1>1. CASE RequestReset(q)
  <2>1. [at |-> "issue"] \in Handlers
    BY DEF Handlers
  <2> QED BY <1>1, <2>1, PlaceTypes DEF RequestReset, TypeOK
<1>2. CASE WriteKey(q)
  <2>1. issued + 1 \in 0..MaxKeys
    BY <1>2, AdminAssumption DEF WriteKey, TypeOK
  <2> QED BY <1>2, <2>1, PlaceTypes DEF WriteKey, TypeOK, Files
<1>3. CASE StatFile(q)
  <2>1. [at |-> "stat", old |-> file.old] \in Handlers
    BY DEF TypeOK, Files, Handlers
  <2> QED BY <1>3, <2>1, PlaceTypes DEF StatFile, TypeOK
<1>4. ASSUME NEW k \in 1..issued, ReadKey(q, k) PROVE TypeOK'
  <2>1. \A place \in {"expired", "matched"} : [at |-> place] \in Handlers
    BY DEF Handlers
  <2> QED BY <1>4, <2>1, PlaceTypes DEF ReadKey, TypeOK
<1>5. NoFile \in Files
  BY AdminAssumption DEF NoFile, Files
<1>6. CASE RemoveExpired(q)
  BY <1>5, <1>6, PlaceTypes DEF RemoveExpired, TypeOK
<1>7. CASE SpendKey(q)
  <2>1. [at |-> "spent"] \in Handlers
    BY DEF Handlers
  <2> QED BY <1>5, <1>7, <2>1, PlaceTypes DEF SpendKey, TypeOK
<1>8. CASE CompleteReset(q)
  <2>1. user' \in [Users -> UserRows] /\ session' \in [Sessions -> SessionRows]
    BY <1>8, AdminAssumption, RowTypes DEF CompleteReset
  <2>2. request' \in [Requests -> Handlers \cup {Idle}]
    BY <1>8, PlaceTypes DEF CompleteReset
  <2> QED BY <1>8, <2>1, <2>2 DEF CompleteReset, TypeOK
<1> QED BY <1>1, <1>2, <1>3, <1>4, <1>6, <1>7, <1>8 DEF KeyStep

LEMMA NextTypes == TypeOK /\ [Next]_vars => TypeOK'
<1> SUFFICES ASSUME TypeOK, [Next]_vars PROVE TypeOK'
  OBVIOUS
<1>1. ASSUME NEW q \in Requests, Abandon(q) PROVE TypeOK'
  BY <1>1, PlaceTypes DEF Abandon, TypeOK
<1>2. ASSUME NEW s \in Sessions, ExpireSession(s) PROVE TypeOK'
  BY <1>2 DEF ExpireSession, TypeOK, SessionRows
<1>3. CASE KeyExpires
  BY <1>3 DEF KeyExpires, TypeOK, Files
<1>4. CASE UNCHANGED vars
  BY <1>4 DEF vars, TypeOK
<1> QED BY <1>1, <1>2, <1>3, <1>4, SetupTypes, SessionTypes, UserTypes, KeyTypes DEF Next

\* Every table, the file and the handlers keep their shape.
THEOREM AdminTypeCorrect == Spec => []TypeOK
BY InitTypes, NextTypes, PTL DEF Spec

-----------------------------------------------------------------------------
(* Passwords and sign-in                                                   *)

\* A user record that is handled under /users is never that of the setup.
LoadedOrdinary ==
    \A q \in Requests : At(q, "loaded") => request[q].user # FirstUser

LEMMA LoadedStaysOrdinary ==
    ASSUME TypeOK, LoadedOrdinary, [Next]_vars
    PROVE  LoadedOrdinary'
<1> SUFFICES ASSUME NEW r \in Requests, At(r, "loaded")'
             PROVE  request'[r].user # FirstUser
  BY DEF LoadedOrdinary
<1>1. CASE request'[r] = request[r]
  BY <1>1 DEF LoadedOrdinary, At
<1>2. ASSUME NEW u \in Users, LoadUser(r, u) PROVE request'[r].user # FirstUser
  BY <1>2 DEF LoadUser, Ordinary, Go, TypeOK
<1>3. ASSUME NEW u \in Users, UserStep(r, u), ~LoadUser(r, u)
      PROVE  request'[r] = Idle
  BY <1>3 DEF UserStep, LoadUser, CreateUser, EnableUser, DisableUser, ResetUserPassword,
              DeleteUser, Return, Go, TypeOK
<1>4. CASE SetupStep(r) \/ SessionStep(r) \/ KeyStep(r) \/ Abandon(r)
  BY <1>4 DEF SetupStep, BeginSetup, FinishSetup, SessionStep, VerifyLogin, OpenSession,
              Authenticate, NoteSeen, Logout, ChangePassword, KeyStep, RequestReset, WriteKey,
              StatFile, ReadKey, RemoveExpired, SpendKey, CompleteReset, Abandon,
              Enter, Go, Return, Idle, At, TypeOK
<1>5. ASSUME NEW q \in Requests, q # r,
             \/ SetupStep(q) \/ SessionStep(q) \/ KeyStep(q) \/ Abandon(q)
             \/ \E u \in Users : UserStep(q, u)
      PROVE  request'[r] = request[r]
  <2>1. \E handler : request' = [request EXCEPT ![q] = handler]
    BY <1>5 DEF SetupStep, BeginSetup, FinishSetup, SessionStep, VerifyLogin, OpenSession,
              Authenticate, NoteSeen, Logout, ChangePassword, KeyStep, RequestReset, WriteKey,
              StatFile, ReadKey, RemoveExpired, SpendKey, CompleteReset, Abandon,
              UserStep, LoadUser, CreateUser, EnableUser, DisableUser, ResetUserPassword,
              DeleteUser, Enter, Go, Return
  <2> QED BY <1>5, <2>1 DEF TypeOK
<1>6. CASE KeyExpires \/ UNCHANGED vars \/ \E s \in Sessions : ExpireSession(s)
  BY <1>1, <1>6 DEF KeyExpires, vars, ExpireSession
<1>7. ~At(r, "loaded")' \/ request'[r] # Idle
  BY DEF At, Idle
<1> QED BY <1>1, <1>2, <1>3, <1>4, <1>5, <1>6, <1>7 DEF Next

\* The ways in which the users change in a step.
UsersChange ==
    \/ UNCHANGED user
    \/ /\ ~Exists(FirstUser)
       /\ \E p : user' = [user EXCEPT ![FirstUser] = [state |-> "on", password |-> p]]
    \/ \E u \in Users, state \in {"on", "off"} :
          /\ state = "on" \/ ~Exists(u)
          /\ user' = [user EXCEPT ![u].state = state]
    \/ \E u \in Users, q \in Requests :
          /\ session' = Revoked(u, q)
          /\ \/ \E state : user' = [user EXCEPT ![u].state = state]
             \/ /\ user' = NewPassword(u)
                /\ u = FirstUser =>
                      request[q].at \in {"signed", "spent"} /\ request'[q] = Idle

LEMMA UsersChangeSo ==
    ASSUME TypeOK, LoadedOrdinary, [Next]_vars
    PROVE  UsersChange
<1>1. ASSUME NEW q \in Requests, SetupStep(q) PROVE UsersChange
  <2>1. CASE BeginSetup(q)
    BY <2>1 DEF BeginSetup, UsersChange
  <2>2. CASE FinishSetup(q)
    BY <2>2 DEF FinishSetup, FirstKeyFree, UsersChange
  <2> QED BY <1>1, <2>1, <2>2 DEF SetupStep
<1>2. ASSUME NEW q \in Requests, ChangePassword(q) PROVE UsersChange
  <2> DEFINE u == session[request[q].session].user
  <2>1. u \in Users
    BY <1>2, HandlerTypes DEF ChangePassword, TypeOK, SessionRows
  <2>2. user' = NewPassword(u) /\ session' = Revoked(u, q)
    BY <1>2 DEF ChangePassword
  <2>3. At(q, "signed") /\ request'[q] = Idle
    BY <1>2 DEF ChangePassword, Return, Go, TypeOK
  <2> HIDE DEF u
  <2> QED BY <2>1, <2>2, <2>3 DEF UsersChange, At
<1>3. ASSUME NEW q \in Requests, CompleteReset(q) PROVE UsersChange
  <2>1. request'[q] = Idle
    BY <1>3 DEF CompleteReset, Return, Go, TypeOK
  <2> QED BY <1>3, <2>1, AdminAssumption DEF CompleteReset, UsersChange, At
<1>4. ASSUME NEW q \in Requests, NEW u \in Users, UserStep(q, u) PROVE UsersChange
  <2>1. ASSUME NEW state \in {"on", "off"}, CreateUser(q, u, state) PROVE UsersChange
    BY <2>1 DEF CreateUser, UsersChange
  <2>2. CASE LoadUser(q, u)
    BY <2>2 DEF LoadUser, UsersChange
  <2>3. CASE EnableUser(q, u)
    BY <2>3 DEF EnableUser, UsersChange
  <2>4. CASE DisableUser(q, u)
    BY <2>4 DEF DisableUser, UsersChange
  <2>5. CASE ResetUserPassword(q, u)
    <3>1. u # FirstUser
      BY <2>5 DEF ResetUserPassword, Loaded, LoadedOrdinary
    <3> QED BY <2>5, <3>1 DEF ResetUserPassword, UsersChange
  <2>6. CASE DeleteUser(q, u)
    BY <2>6 DEF DeleteUser, UsersChange
  <2> QED BY <1>4, <2>1, <2>2, <2>3, <2>4, <2>5, <2>6 DEF UserStep
<1>5. ASSUME NEW q \in Requests, SessionStep(q), ~ChangePassword(q) PROVE UsersChange
  BY <1>5 DEF SessionStep, VerifyLogin, OpenSession, Authenticate, NoteSeen, Logout, UsersChange
<1>6. ASSUME NEW q \in Requests, KeyStep(q), ~CompleteReset(q) PROVE UsersChange
  BY <1>6 DEF KeyStep, RequestReset, WriteKey, StatFile, ReadKey, RemoveExpired, SpendKey,
              UsersChange
<1>7. CASE \/ \E q \in Requests : Abandon(q)
           \/ KeyExpires \/ UNCHANGED vars \/ \E s \in Sessions : ExpireSession(s)
  BY <1>7 DEF Abandon, KeyExpires, vars, ExpireSession, UsersChange
<1> QED BY <1>1, <1>2, <1>3, <1>4, <1>5, <1>6, <1>7 DEF Next

LEMMA LoadedOrdinaryAlways == Spec => [](TypeOK /\ LoadedOrdinary)
<1>1. Init => LoadedOrdinary
  BY DEF Init, LoadedOrdinary, At, Idle
<1> QED BY <1>1, InitTypes, NextTypes, LoadedStaysOrdinary, PTL DEF Spec

\* Whoever's password changes, and whoever is disabled or deleted, has no open
\* session left after that commit.
THEOREM SignedOut == Spec => ShutOut
<1> DEFINE Out ==
      \A u \in Users :
           \/ Exists(u) /\ Exists(u)' /\ user'[u].password # user[u].password
           \/ user[u].state = "on" /\ user'[u].state # "on"
           => ~OpenFor(u)'
<1>1. ASSUME TypeOK, NEW u \in Users, NEW q, session' = Revoked(u, q) PROVE ~OpenFor(u)'
  BY <1>1 DEF Revoked, OpenFor, TypeOK, SessionRows
<1>2. ASSUME TypeOK, UsersChange PROVE Out
  <2> SUFFICES ASSUME NEW v \in Users,
                      \/ Exists(v) /\ Exists(v)' /\ user'[v].password # user[v].password
                      \/ user[v].state = "on" /\ user'[v].state # "on"
               PROVE  ~OpenFor(v)'
    OBVIOUS
  <2>1. CASE UNCHANGED user
    BY <2>1
  <2>2. ASSUME ~Exists(FirstUser), NEW p,
               user' = [user EXCEPT ![FirstUser] = [state |-> "on", password |-> p]]
        PROVE  FALSE
    BY <2>2 DEF Exists, TypeOK
  <2>3. ASSUME NEW u \in Users, NEW state \in {"on", "off"}, state = "on" \/ ~Exists(u),
               user' = [user EXCEPT ![u].state = state]
        PROVE  FALSE
    BY <2>3 DEF Exists, TypeOK, UserRows
  <2>4. ASSUME NEW u \in Users, NEW q \in Requests, session' = Revoked(u, q),
               \/ \E state : user' = [user EXCEPT ![u].state = state]
               \/ user' = NewPassword(u)
        PROVE  ~OpenFor(v)'
    <3>1. v # u => user'[v] = user[v]
      BY <1>2, <2>4 DEF NewPassword, TypeOK
    <3>2. v = u
      BY <3>1 DEF Exists
    <3> QED BY <1>1, <1>2, <2>4, <3>2
  <2> QED BY <1>2, <2>1, <2>2, <2>3, <2>4 DEF UsersChange
<1>3. TypeOK /\ LoadedOrdinary /\ [Next]_vars => [Out]_vars
  BY <1>2, UsersChangeSo
<1> QED BY <1>3, LoadedOrdinaryAlways, PTL DEF Spec, ShutOut

\* Once there is an administrator, its password is set only by a request that
\* is signed in or has spent a reset key: no second setup does it.
THEOREM SetUpIsOnce == Spec => SetUpOnce
<1> DEFINE Once ==
      Exists(FirstUser) /\ user'[FirstUser].password # user[FirstUser].password =>
           \E q \in Requests : request[q].at \in {"signed", "spent"} /\ request'[q] = Idle
<1>1. ASSUME TypeOK, UsersChange PROVE Once
  BY <1>1, AdminAssumption DEF UsersChange, NewPassword, TypeOK, UserRows
<1>2. TypeOK /\ LoadedOrdinary /\ [Next]_vars => [Once]_vars
  BY <1>1, UsersChangeSo
<1> QED BY <1>2, LoadedOrdinaryAlways, PTL DEF Spec, SetUpOnce

-----------------------------------------------------------------------------
(* Reset keys                                                              *)

Spent == {q \in Requests : At(q, "spent")}

\* Every key is in the file, with a request that has spent it, used up by a
\* reset, or lost.
KeysCount == resets + Cardinality(Spent) + (IF file.key = 0 THEN 0 ELSE 1) <= issued

LEMMA SpentFinite ==
    /\ IsFiniteSet(Spent) /\ Cardinality(Spent) \in Nat
    /\ IsFiniteSet(Spent') /\ Cardinality(Spent') \in Nat
<1>1. Spent \subseteq Requests /\ Spent' \subseteq Requests
  BY DEF Spent
<1> QED BY <1>1, AdminAssumption, FS_Subset, FS_CardinalityType

\* No request comes to have spent a key, and no key comes into the file.
LEMMA QuietKeeps ==
    ASSUME TypeOK, TypeOK', KeysCount, Spent' \subseteq Spent,
           UNCHANGED <<issued, resets>>, file'.key \in {0, file.key}
    PROVE  KeysCount'
<1>1. Cardinality(Spent') <= Cardinality(Spent)
  BY SpentFinite, FS_Subset
<1> QED BY <1>1, SpentFinite DEF KeysCount, TypeOK

\* A request moves to another place, and no other does.
Moves(q) == \A r \in Requests \ {q} : request'[r] = request[r]

LEMMA MovesQuietly ==
    ASSUME NEW q \in Requests, Moves(q), request'[q].at # "spent"
    PROVE  Spent' = Spent \ {q}
BY DEF Moves, Spent, At

LEMMA WriteKeyCounts ==
    ASSUME TypeOK, TypeOK', KeysCount, NEW q \in Requests, WriteKey(q)
    PROVE  KeysCount'
<1>1. Spent' \subseteq Spent
  <2>1. Moves(q) /\ request'[q].at # "spent"
    BY DEF WriteKey, Return, Go, Idle, Moves, TypeOK
  <2> QED BY <2>1, MovesQuietly
<1>2. Cardinality(Spent') <= Cardinality(Spent)
  BY <1>1, SpentFinite, FS_Subset
<1> QED BY <1>2, SpentFinite DEF KeysCount, TypeOK, WriteKey

LEMMA SpendKeyCounts ==
    ASSUME TypeOK, TypeOK', KeysCount, NEW q \in Requests, SpendKey(q)
    PROVE  KeysCount'
<1>1. Spent' = Spent \cup {q} /\ q \notin Spent
  BY DEF SpendKey, Go, Spent, At, TypeOK
<1>2. Cardinality(Spent') = Cardinality(Spent) + 1
  BY <1>1, SpentFinite, FS_AddElement
<1> QED BY <1>2, SpentFinite DEF KeysCount, TypeOK, SpendKey, FileThere, NoFile

LEMMA CompleteResetCounts ==
    ASSUME TypeOK, TypeOK', KeysCount, NEW q \in Requests, CompleteReset(q)
    PROVE  KeysCount'
<1>1. Spent' = Spent \ {q} /\ q \in Spent
  <2>1. Moves(q) /\ request'[q].at # "spent" /\ q \in Spent
    BY DEF CompleteReset, Return, Go, Idle, Moves, TypeOK, Spent, At
  <2> QED BY <2>1, MovesQuietly
<1>2. Cardinality(Spent') = Cardinality(Spent) - 1
  BY <1>1, SpentFinite, FS_RemoveElement
<1> QED BY <1>2, SpentFinite DEF KeysCount, TypeOK, CompleteReset

LEMMA NextCounts ==
    ASSUME TypeOK, TypeOK', KeysCount, [Next]_vars
    PROVE  KeysCount'
<1>1. ASSUME NEW q \in Requests, SetupStep(q) \/ SessionStep(q) \/ Abandon(q) PROVE KeysCount'
  <2>1. Moves(q) /\ request'[q].at # "spent"
    BY <1>1 DEF SetupStep, BeginSetup, FinishSetup, SessionStep, VerifyLogin, OpenSession,
                Authenticate, NoteSeen, Logout, ChangePassword, Abandon, Enter, Go, Return, Idle,
                Moves, TypeOK
  <2>2. UNCHANGED <<file, issued, resets>>
    BY <1>1 DEF SetupStep, BeginSetup, FinishSetup, SessionStep, VerifyLogin, OpenSession,
                Authenticate, NoteSeen, Logout, ChangePassword, Abandon
  <2>3. Spent' \subseteq Spent
    BY <2>1, MovesQuietly
  <2> QED BY <2>2, <2>3, QuietKeeps
<1>2. ASSUME NEW q \in Requests, NEW u \in Users, UserStep(q, u) PROVE KeysCount'
  <2>1. Moves(q) /\ request'[q].at # "spent"
    BY <1>2 DEF UserStep, LoadUser, CreateUser, EnableUser, DisableUser, ResetUserPassword,
                DeleteUser, Go, Return, Idle, Moves, TypeOK
  <2>2. UNCHANGED <<file, issued, resets>>
    BY <1>2 DEF UserStep, LoadUser, CreateUser, EnableUser, DisableUser, ResetUserPassword,
                DeleteUser
  <2>3. Spent' \subseteq Spent
    BY <2>1, MovesQuietly
  <2> QED BY <2>2, <2>3, QuietKeeps
<1>3. ASSUME NEW q \in Requests,
             \/ RequestReset(q) \/ StatFile(q) \/ RemoveExpired(q)
             \/ \E k \in 1..issued : ReadKey(q, k)
      PROVE  KeysCount'
  <2>1. Moves(q) /\ request'[q].at # "spent"
    BY <1>3 DEF RequestReset, StatFile, RemoveExpired, ReadKey, Enter, Go, Return, Idle,
                Moves, TypeOK
  <2>2. UNCHANGED <<issued, resets>> /\ file'.key \in {0, file.key}
    BY <1>3 DEF RequestReset, StatFile, RemoveExpired, ReadKey, NoFile
  <2>3. Spent' \subseteq Spent
    BY <2>1, MovesQuietly
  <2> QED BY <2>2, <2>3, QuietKeeps
<1>4. CASE KeyExpires \/ UNCHANGED vars \/ \E s \in Sessions : ExpireSession(s)
  <2>1. Spent' = Spent /\ UNCHANGED <<issued, resets>> /\ file'.key = file.key
    BY <1>4 DEF KeyExpires, vars, ExpireSession, Spent, At, TypeOK, Files
  <2> QED BY <2>1, QuietKeeps
<1> QED BY <1>1, <1>2, <1>3, <1>4, WriteKeyCounts, SpendKeyCounts, CompleteResetCounts
        DEF Next, KeyStep

\* However requests for keys, expiries and resets cross: there are never more
\* resets than keys, because only one request removes a key from the file.
THEOREM ResetsHaveKeys == Spec => []ResetsSpendKeys
<1>1. Init => KeysCount
  <2> SUFFICES ASSUME Init PROVE KeysCount
    OBVIOUS
  <2>1. Spent = {}
    BY DEF Init, Spent, At, Idle
  <2>2. Cardinality(Spent) = 0
    BY <2>1, FS_EmptySet
  <2>3. file.key = 0 /\ issued = 0 /\ resets = 0
    BY DEF Init, NoFile
  <2> QED BY <2>2, <2>3 DEF KeysCount
<1>2. TypeOK /\ KeysCount => ResetsSpendKeys
  BY SpentFinite DEF KeysCount, ResetsSpendKeys, TypeOK
<1>3. TypeOK /\ KeysCount /\ [Next]_vars => TypeOK' /\ KeysCount'
  BY NextTypes, NextCounts
<1> QED BY <1>1, <1>2, <1>3, InitTypes, PTL DEF Spec
=============================================================================
