---------------------------- MODULE AdminAccess ----------------------------
(***************************************************************************)
(* How administrators come in: the first setup, sign-in and sessions, the  *)
(* users that the system administrator keeps, and the password reset with  *)
(* a key in a file of the server (services/admin_auth.py,                  *)
(* services/password_reset.py, api/admin_auth.py, api/admin_users.py,      *)
(* api/setup.py).                                                          *)
(*                                                                         *)
(* All handlers run in the thread pool and take no lock before they write: *)
(* an action is what a handler reads, or what one commit or one operation  *)
(* on the file does, and anything may happen in between.  Time is not      *)
(* measured: a session or a key may turn out to be expired at any time.    *)
(***************************************************************************)
EXTENDS Naturals, FiniteSets

CONSTANTS
    Users,     \* admin_users
    FirstUser, \* the user of the setup, the one of role admin
    Sessions,  \* admin_sessions
    Requests,  \* bound: handlers at the same time
    MaxKeys    \* bound: reset keys that are issued

ASSUME AdminAssumption ==
    FirstUser \in Users /\ IsFiniteSet(Requests) /\ MaxKeys \in Nat

VARIABLES
    user,    \* the row of each user; the password by parity: it flips when it changes
    session, \* the row of each session; a deleted row counts as revoked
    file,    \* the key in the file (0: no file), and whether it has expired
    issued,  \* how many keys have been written
    resets,  \* how many times a reset has set a password
    request  \* what each handler knows

vars == <<user, session, file, issued, resets, request>>

UserRows == [state: {"absent", "on", "off"}, password: 0..1]
SessionRows == [state: {"absent", "open", "revoked"}, user: Users]
Files == [key: 0..MaxKeys, old: BOOLEAN]
NoFile == [key |-> 0, old |-> FALSE]
Idle == [at |-> "idle"]
Handlers ==
    [at: {"setup", "issue"}]
        \cup [at: {"verified"}, user: Users]
        \cup [at: {"checked", "signed"}, session: Sessions]
        \cup [at: {"loaded"}, session: Sessions, user: Users, seen: {"on", "off"}]
        \cup [at: {"stat"}, old: BOOLEAN]
        \cup [at: {"matched", "expired", "spent"}]

\* Every table, the file and the handlers keep their shape.
TypeOK ==
    /\ user \in [Users -> UserRows]
    /\ session \in [Sessions -> SessionRows]
    /\ file \in Files
    /\ issued \in 0..MaxKeys
    /\ resets \in Nat
    /\ request \in [Requests -> Handlers \cup {Idle}]

-----------------------------------------------------------------------------
(* Helpers                                                                 *)

At(q, place) == request[q].at = place
Exists(u) == user[u].state # "absent"

Ordinary(u) == Exists(u) /\ u # FirstUser

Init ==
    /\ user = [u \in Users |-> [state |-> "absent", password |-> 0]]
    /\ session \in [Sessions -> [state: {"absent"}, user: {FirstUser}]]
    /\ file = NoFile
    /\ issued = 0
    /\ resets = 0
    /\ request = [q \in Requests |-> Idle]

Enter(q, handler) == request[q] = Idle /\ request' = [request EXCEPT ![q] = handler]
Go(q, handler) == request' = [request EXCEPT ![q] = handler]
Return(q) == Go(q, Idle)

\* Mutant: the session of the request stays signed in.
RevokedOthers(u, q) ==
    [s \in Sessions |-> IF /\ session[s].user = u /\ session[s].state = "open"
                           /\ At(q, "spent") \/ s # request[q].session
                        THEN [session[s] EXCEPT !.state = "revoked"] ELSE session[s]]

\* Every session of a user ends.
Revoked(u, q) ==
    [s \in Sessions |-> IF session[s].user = u /\ session[s].state = "open"
                        THEN [session[s] EXCEPT !.state = "revoked"] ELSE session[s]]

NewPassword(u) == [user EXCEPT ![u].password = 1 - @]

-----------------------------------------------------------------------------
(* Setup                                                                   *)

BeginSetup(q) ==
    /\ \A u \in Users : ~Exists(u)
    /\ Enter(q, [at |-> "setup"])
    /\ UNCHANGED <<user, session, file, issued, resets>>

\* Mutant: the administrator gets the next free key.
AnyKeyFree == TRUE

\* The row is inserted under the key 1.
FirstKeyFree == ~Exists(FirstUser)

\* A second setup runs into the key of the first and is rolled back.
FinishSetup(q) ==
    /\ At(q, "setup")
    /\ IF FirstKeyFree
       THEN user' = [user EXCEPT ![FirstUser] = [state |-> "on", password |-> 1 - @.password]]
       ELSE UNCHANGED user
    /\ Return(q)
    /\ UNCHANGED <<session, file, issued, resets>>

-----------------------------------------------------------------------------
(* Sessions                                                                *)

\* The password is verified against the row as it is read.
VerifyLogin(q, u) ==
    /\ user[u].state = "on"
    /\ Enter(q, [at |-> "verified", user |-> u])
    /\ UNCHANGED <<user, session, file, issued, resets>>

\* The session refers to its user: without the row, the insert fails.
OpenSession(q, s) ==
    /\ At(q, "verified")
    /\ session[s].state = "absent"
    /\ Exists(request[q].user)
    /\ session' = [session EXCEPT ![s] = [state |-> "open", user |-> request[q].user]]
    /\ Return(q)
    /\ UNCHANGED <<user, file, issued, resets>>

Authenticate(q, s) ==
    /\ session[s].state = "open"
    /\ user[session[s].user].state = "on"
    /\ Enter(q, [at |-> "checked", session |-> s])
    /\ UNCHANGED <<user, session, file, issued, resets>>

\* A request with an expired session revokes it.
ExpireSession(s) ==
    /\ session[s].state = "open"
    /\ session' = [session EXCEPT ![s].state = "revoked"]
    /\ UNCHANGED <<user, file, issued, resets, request>>

\* The request notes the use of its session: only the idle deadline is
\* written, also when the session has been revoked meanwhile.
NoteSeen(q) ==
    /\ At(q, "checked")
    /\ Go(q, [at |-> "signed", session |-> request[q].session])
    /\ UNCHANGED <<user, session, file, issued, resets>>

Logout(q) ==
    /\ At(q, "signed")
    /\ session' = [session EXCEPT ![request[q].session].state = "revoked"]
    /\ Return(q)
    /\ UNCHANGED <<user, file, issued, resets>>

\* The current password is compared with the row that was read when the
\* request was authenticated.
ChangePassword(q) ==
    /\ At(q, "signed")
    /\ LET u == session[request[q].session].user
       IN /\ Exists(u)
          /\ user' = NewPassword(u)
          /\ session' = Revoked(u, q)
    /\ Return(q)
    /\ UNCHANGED <<file, issued, resets>>

-----------------------------------------------------------------------------
(* Users                                                                   *)

System(q) == At(q, "signed") /\ session[request[q].session].user = FirstUser

CreateUser(q, u, state) ==
    /\ System(q)
    /\ u # FirstUser /\ ~Exists(u)
    /\ user' = [user EXCEPT ![u].state = state]
    /\ Return(q)
    /\ UNCHANGED <<session, file, issued, resets>>

LoadUser(q, u) ==
    /\ System(q)
    /\ Ordinary(u)
    /\ Go(q, [at |-> "loaded", session |-> request[q].session, user |-> u,
              seen |-> user[u].state])
    /\ UNCHANGED <<user, session, file, issued, resets>>

Loaded(q, u) == At(q, "loaded") /\ request[q].user = u /\ Exists(u)

\* A flag that is as it was read is not written.
EnableUser(q, u) ==
    /\ Loaded(q, u)
    /\ user' = IF request[q].seen = "off" THEN [user EXCEPT ![u].state = "on"] ELSE user
    /\ Return(q)
    /\ UNCHANGED <<session, file, issued, resets>>

DisableUser(q, u) ==
    /\ Loaded(q, u)
    /\ user' = IF request[q].seen = "on" THEN [user EXCEPT ![u].state = "off"] ELSE user
    /\ session' = Revoked(u, q)
    /\ Return(q)
    /\ UNCHANGED <<file, issued, resets>>

ResetUserPassword(q, u) ==
    /\ Loaded(q, u)
    /\ user' = NewPassword(u)
    /\ session' = Revoked(u, q)
    /\ Return(q)
    /\ UNCHANGED <<file, issued, resets>>

\* The rows of the sessions go with the user.
DeleteUser(q, u) ==
    /\ Loaded(q, u)
    /\ user' = [user EXCEPT ![u].state = "absent"]
    /\ session' = Revoked(u, q)
    /\ Return(q)
    /\ UNCHANGED <<file, issued, resets>>

-----------------------------------------------------------------------------
(* The reset key                                                           *)

\* A key that has not expired is kept.
RequestReset(q) ==
    /\ user[FirstUser].state = "on"
    /\ file.key = 0 \/ file.old
    /\ Enter(q, [at |-> "issue"])
    /\ UNCHANGED <<user, session, file, issued, resets>>

\* The new file replaces whatever is there by now.
WriteKey(q) ==
    /\ At(q, "issue")
    /\ issued < MaxKeys
    /\ file' = [key |-> issued + 1, old |-> FALSE]
    /\ issued' = issued + 1
    /\ Return(q)
    /\ UNCHANGED <<user, session, resets>>

\* The time of the file is read before its content.
StatFile(q) ==
    /\ user[FirstUser].state = "on"
    /\ file.key # 0
    /\ Enter(q, [at |-> "stat", old |-> file.old])
    /\ UNCHANGED <<user, session, file, issued, resets>>

\* The administrator presents the key k.
ReadKey(q, k) ==
    /\ At(q, "stat")
    /\ file.key # 0
    /\ request[q].old \/ file.key = k
    /\ Go(q, [at |-> IF request[q].old THEN "expired" ELSE "matched"])
    /\ UNCHANGED <<user, session, file, issued, resets>>

RemoveExpired(q) ==
    /\ At(q, "expired")
    /\ file' = NoFile
    /\ Return(q)
    /\ UNCHANGED <<user, session, issued, resets>>

\* Mutant: a file that is gone already is fine.
FileMaybe == TRUE

\* Only one can remove the file.
FileThere == file.key # 0

SpendKey(q) ==
    /\ At(q, "matched")
    /\ FileThere
    /\ file' = NoFile
    /\ Go(q, [at |-> "spent"])
    /\ UNCHANGED <<user, session, issued, resets>>

CompleteReset(q) ==
    /\ At(q, "spent")
    /\ user' = NewPassword(FirstUser)
    /\ session' = Revoked(FirstUser, q)
    /\ resets' = resets + 1
    /\ Return(q)
    /\ UNCHANGED <<file, issued>>

KeyExpires ==
    /\ file.key # 0 /\ ~file.old
    /\ file' = [file EXCEPT !.old = TRUE]
    /\ UNCHANGED <<user, session, issued, resets, request>>

\* A handler refuses, raises, or dies with the process.
Abandon(q) ==
    /\ request[q] # Idle
    /\ Return(q)
    /\ UNCHANGED <<user, session, file, issued, resets>>

-----------------------------------------------------------------------------

SetupStep(q) == BeginSetup(q) \/ FinishSetup(q)

SessionStep(q) ==
    \/ \E u \in Users : VerifyLogin(q, u)
    \/ \E s \in Sessions : OpenSession(q, s) \/ Authenticate(q, s)
    \/ NoteSeen(q) \/ Logout(q) \/ ChangePassword(q)

UserStep(q, u) ==
    \/ \E state \in {"on", "off"} : CreateUser(q, u, state)
    \/ LoadUser(q, u) \/ EnableUser(q, u) \/ DisableUser(q, u)
    \/ ResetUserPassword(q, u) \/ DeleteUser(q, u)

KeyStep(q) ==
    \/ RequestReset(q) \/ WriteKey(q) \/ StatFile(q) \/ RemoveExpired(q)
    \/ \E k \in 1..issued : ReadKey(q, k)
    \/ SpendKey(q) \/ CompleteReset(q)

Next ==
    \/ \E q \in Requests :
          \/ SetupStep(q) \/ SessionStep(q) \/ KeyStep(q) \/ Abandon(q)
          \/ \E u \in Users : UserStep(q, u)
    \/ \E s \in Sessions : ExpireSession(s)
    \/ KeyExpires

Spec == Init /\ [][Next]_vars

-----------------------------------------------------------------------------
(* Properties                                                              *)

OpenFor(u) == \E s \in Sessions : session[s].state = "open" /\ session[s].user = u

\* Whoever's password changes, and whoever is disabled or deleted, is signed
\* in nowhere after that step, by whichever way it happens.
ShutOut ==
    [][\A u \in Users :
           \/ Exists(u) /\ Exists(u)' /\ user'[u].password # user[u].password
           \/ user[u].state = "on" /\ user'[u].state # "on"
           => ~OpenFor(u)']_vars

\* Of several setups at once one wins: once there is an administrator, only
\* a request that is signed in or has spent a reset key sets the password.
SetUpOnce ==
    [][Exists(FirstUser) /\ user'[FirstUser].password # user[FirstUser].password =>
           \E q \in Requests : request[q].at \in {"signed", "spent"} /\ request'[q] = Idle]_vars

\* Every reset has used up a key of its own: however requests for keys,
\* resets and expiries cross, there are never more resets than keys.
ResetsSpendKeys == resets <= issued
=============================================================================
