------------------------------ MODULE ToolLogins ------------------------------
(***************************************************************************)
(* How a Tool call gets its credential when no user authorizes it: Tool    *)
(* Sessions with the login data of an API (ToolSessionService.create and   *)
(* its re-login), sessions with injected credentials, and the token that a *)
(* source fetches with its own client credentials.                         *)
(*                                                                         *)
(* A handler's stretch between two awaits is one action.  It keeps a row   *)
(* over an await only while it holds it: session and credential over the   *)
(* login of a refresh, source and owner over the whole call.  After a 401  *)
(* session and login configuration are read again.  Whether Agent and      *)
(* source are enabled is the subject of Agents and ToolCatalog: a call     *)
(* that finds one of them disabled ends by GiveUp.                         *)
(***************************************************************************)
EXTENDS FiniteSets, Integers

CONSTANTS
    Sources,      \* API Sources
    Owners,       \* Agent keys, or sessions of administrators
    Sessions,     \* tool_user_sessions
    Calls,        \* bound: requests in flight
    Clients,      \* OAuth clients an administrator may configure
    None,         \* no source, no token, no client
    IdleTime, AbsoluteTime, \* idle_minutes, absolute_hours
    TokenTime,    \* how long a token lives of which the API says so
    MaxTime       \* bound of the clock

ASSUME LoginAssumption ==
    /\ {IdleTime, AbsoluteTime, TokenTime} \subseteq Nat \ {0}
    /\ MaxTime \in Nat
    /\ None \notin Sources \cup Clients

VARIABLES
    now,    \* the clock
    global, \* the source of the global login Tool
    own,    \* sources with an enabled login Tool of their own
    owner,  \* agent_api_keys, admin_sessions
    row,    \* tool_user_sessions, each with its one credential
    client, \* api_source_oauth_configs: a client and its cached token
    call    \* what each request in flight has read

vars == <<now, global, own, owner, row, client, call>>

Never == MaxTime + IdleTime + AbsoluteTime + TokenTime
Times == 0..Never
Statuses == {"absent", "ready", "expired", "revoked"}
OwnerStates == {"valid", "expired", "revoked"}

\* A token is known by the source whose login Tool, or the client for which
\* the issuer, has given it out.  `auth` and `ends` are the expiry of the
\* row's authorization and of its credential.
Rows == [status: Statuses, revoked: BOOLEAN, owner: Owners, source: Sources,
         login: BOOLEAN, idle: Times, absolute: Times, auth: Times, ends: Times,
         cred: Statuses, token: Sources \cup {None}]
Absent(o, x) ==
    [status |-> "absent", revoked |-> FALSE, owner |-> o, source |-> x,
     login |-> FALSE, idle |-> 0, absolute |-> 0, auth |-> 0, ends |-> 0,
     cred |-> "absent", token |-> None]
Idle == [step |-> "idle"]
CallStates ==
    [step: {"login"}, owner: Owners, config: Sources]
    \cup [step: {"sent"}, session: Sessions, mode: BOOLEAN]
    \cup [step: {"relogin"}, session: Sessions, mode: BOOLEAN, config: Sources,
          at: Times, forced: BOOLEAN]
    \cup [step: {"resent"}, session: Sessions]
    \cup [step: {"fetch"}, client: Clients]

\* Every row and every request keeps its shape.
TypeOK ==
    /\ now \in 0..MaxTime
    /\ global \in Sources \cup {None}
    /\ own \in [Sources -> BOOLEAN]
    /\ owner \in [Owners -> OwnerStates]
    /\ row \in [Sessions -> Rows]
    /\ client \in [config: Clients \cup {None}, token: Clients \cup {None}]
    /\ call \in [Calls -> CallStates \cup {Idle}]

-----------------------------------------------------------------------------
(* Helpers                                                                 *)

\* _config(source) of a request for which its source has, or has not, the
\* mode "tool": its own login Tool, or else the global one.
ConfigOf(x, mode) == IF mode /\ own[x] THEN x ELSE global

\* _config(): the only source with a login Tool of its own, or else the
\* global one.
ConfigOfAll ==
    IF Cardinality({x \in Sources : own[x]}) = 1
    THEN CHOOSE x \in Sources : own[x] ELSE global

Least(a, b) == IF a <= b THEN a ELSE b

Until(t, absolute) == Least(t + IdleTime, absolute)

TimedOut(r) == r.idle <= now \/ r.absolute <= now

Lapsed(r) == r.auth <= now \/ r.ends <= now

\* _expire: whatever has become of the row meanwhile.
Expired(r) ==
    [r EXCEPT !.status = "expired", !.login = FALSE, !.cred = "expired", !.token = None]

\* _find: the row is there and not revoked.
Found(s) == row[s].status # "absent" /\ ~row[s].revoked

Init ==
    /\ now = 0
    /\ global \in Sources \cup {None}
    /\ own = [x \in Sources |-> FALSE]
    /\ owner = [o \in Owners |-> "valid"]
    /\ row \in [Sessions -> {Absent(o, x) : o \in Owners, x \in Sources}]
    /\ client = [config |-> None, token |-> None]
    /\ call = [c \in Calls |-> Idle]

-----------------------------------------------------------------------------
(* New sessions                                                            *)

\* POST /v1/tool-sessions: the login Tool of the API is called.
Login(c, o) ==
    /\ call[c] = Idle
    /\ owner[o] = "valid"
    /\ ConfigOfAll # None
    /\ call' = [call EXCEPT ![c] = [step |-> "login", owner |-> o, config |-> ConfigOfAll]]
    /\ UNCHANGED <<now, global, own, owner, row, client>>

\* Mutant: the configuration is read again when the API has answered.
LoginSourceNow(c) ==
    IF call[c].step = "login" THEN ConfigOfAll
    ELSE ConfigOf(row[call[c].session].source, TRUE)

\* The configuration that was read before the API was called.
LoginSource(c) == call[c].config

\* The API has answered; its token may come without an expiry.
Create(c, s, lifetime) ==
    /\ call[c].step = "login"
    /\ row[s].status = "absent"
    /\ LoginSource(c) # None
    /\ LET absolute == now + Least(AbsoluteTime, lifetime)
           expiry == Least(now + lifetime, Never)
       IN row' = [row EXCEPT ![s] =
              [status |-> "ready", revoked |-> FALSE, owner |-> call[c].owner,
               source |-> LoginSource(c), login |-> TRUE,
               idle |-> Until(now, absolute), absolute |-> absolute,
               auth |-> expiry, ends |-> expiry,
               cred |-> "ready", token |-> call[c].config]]
    /\ call' = [call EXCEPT ![c] = Idle]
    /\ UNCHANGED <<now, global, own, owner, client>>

\* POST /api/tool-sessions/credentials: nothing is awaited.
Inject(s, o, x, lifetime) ==
    /\ row[s].status = "absent"
    /\ owner[o] = "valid"
    /\ row' = [row EXCEPT ![s] =
           [status |-> "ready", revoked |-> FALSE, owner |-> o, source |-> x,
            login |-> FALSE, idle |-> Until(now, now + lifetime),
            absolute |-> now + lifetime, auth |-> Never, ends |-> now + lifetime,
            cred |-> "ready", token |-> x]]
    /\ UNCHANGED <<now, global, own, owner, client, call>>

-----------------------------------------------------------------------------
(* Tool calls                                                              *)

\* resolve hands the token out and notes that the session was used.
Touched(s, at) == [row EXCEPT ![s].idle = Until(at, row[s].absolute)]

\* resolve up to the login or the request to the API.  A session without
\* login data, whose credential cannot be renewed, is expired; a login that
\* is not configured ends the call (GiveUp).
Resolve(c, s, mode, forced) ==
    LET r == row[s]
        renewed == forced \/ Lapsed(r)
        config == ConfigOf(r.source, mode)
    IN /\ Found(s)
       /\ \/ /\ TimedOut(r) \/ (r.status = "ready" /\ renewed /\ ~r.login)
             /\ row' = [row EXCEPT ![s] = Expired(r)]
             /\ call' = [call EXCEPT ![c] = Idle]
          \/ /\ r.status = "ready" /\ ~TimedOut(r)
             /\ renewed /\ r.login /\ config # None
             /\ call' = [call EXCEPT ![c] =
                   [step |-> "relogin", session |-> s, mode |-> mode,
                    config |-> config, at |-> now, forced |-> forced]]
             /\ UNCHANGED row
          \/ /\ r.status = "ready" /\ ~TimedOut(r)
             /\ ~renewed
             /\ row' = Touched(s, now)
             /\ call' = [call EXCEPT ![c] =
                   [step |-> "sent", session |-> s, mode |-> mode]]
       /\ UNCHANGED <<now, global, own, owner, client>>

\* POST /api/tools/{id}/invoke.
Invoke(c, s) ==
    /\ call[c] = Idle
    /\ owner[row[s].owner] = "valid"
    /\ Resolve(c, s, own[row[s].source], FALSE)

\* The API refuses the token.  The session is looked up again; its owner and
\* the mode of its source are those read before the call.
Refused(c) ==
    /\ call[c].step = "sent"
    /\ Resolve(c, call[c].session, call[c].mode, TRUE)

\* Mutant: the re-login makes the session ready.
StoredReady(c, r, lifetime) ==
    [r EXCEPT !.token = call[c].config, !.status = "ready", !.cred = "ready"]

\* What a re-login writes: the status that was read was ready, and is not
\* written again.  A credential of another source than that of the login is
\* left alone.
Stored(c, r, lifetime) ==
    LET home == LoginSource(c) = r.source
        expiry == Least(now + lifetime, Never)
    IN [r EXCEPT !.auth = expiry,
                 !.ends = IF home THEN Least(expiry, r.absolute) ELSE @,
                 !.token = IF home THEN call[c].config ELSE @]

\* Mutant: the status as it was read before the login.
StillReadyAsRead(c, s) == TRUE

\* The credential is read again.
StillReady(c, s) == row[s].cred = "ready"

Relogin(c, lifetime) ==
    /\ call[c].step = "relogin"
    /\ LET s == call[c].session
           r == Stored(c, row[s], lifetime)
           next == IF call[c].forced THEN [step |-> "resent", session |-> s]
                   ELSE [step |-> "sent", session |-> s, mode |-> call[c].mode]
       IN IF StillReady(c, s)
          THEN /\ row' = [row EXCEPT ![s] =
                     [r EXCEPT !.idle = Until(call[c].at, r.absolute)]]
               /\ call' = [call EXCEPT ![c] = next]
          ELSE /\ row' = [row EXCEPT ![s] = r]
               /\ call' = [call EXCEPT ![c] = Idle]
    /\ UNCHANGED <<now, global, own, owner, client>>

\* The API has answered, whatever it is, refused the login or the replay;
\* or the request is cancelled: a call leaves nothing behind.
GiveUp(c) ==
    /\ call[c] # Idle
    /\ call' = [call EXCEPT ![c] = Idle]
    /\ UNCHANGED <<now, global, own, owner, row, client>>

\* DELETE /v1/tool-sessions/{id}.
Revoke(s) ==
    /\ Found(s)
    /\ owner[row[s].owner] = "valid"
    /\ row' = [row EXCEPT ![s] =
           [@ EXCEPT !.status = "revoked", !.revoked = TRUE, !.login = FALSE,
                     !.cred = "revoked", !.token = None]]
    /\ UNCHANGED <<now, global, own, owner, client, call>>

-----------------------------------------------------------------------------
(* Client credentials                                                      *)

\* A Tool of the source is called: the cached token is used, or, when it has
\* expired or was refused, another one is fetched.
Fetch(c) ==
    /\ call[c] = Idle
    /\ client.config # None
    /\ call' = [call EXCEPT ![c] = [step |-> "fetch", client |-> client.config]]
    /\ UNCHANGED <<now, global, own, owner, row, client>>

\* The whole configuration is written back as it was read.
Cached(fetched) == [config |-> fetched, token |-> fetched]

Fetched(c) ==
    /\ call[c].step = "fetch"
    /\ client' = Cached(call[c].client)
    /\ call' = [call EXCEPT ![c] = Idle]
    /\ UNCHANGED <<now, global, own, owner, row>>

\* configure_source drops the cached token.
ConfigureClient(k) ==
    /\ client' = [config |-> k, token |-> None]
    /\ UNCHANGED <<now, global, own, owner, row, call>>

-----------------------------------------------------------------------------
(* Owners, login configurations and time                                   *)

RevokeOwner(o) ==
    /\ owner[o] # "revoked"
    /\ owner' = [owner EXCEPT ![o] = "revoked"]
    /\ UNCHANGED <<now, global, own, row, client, call>>

\* A key expires, or an administrator gives it another date.
TurnExpiry(o) ==
    /\ owner[o] # "revoked"
    /\ owner' = [owner EXCEPT ![o] = IF @ = "valid" THEN "expired" ELSE "valid"]
    /\ UNCHANGED <<now, global, own, row, client, call>>

ConfigureGlobal(x) ==
    /\ global' = x
    /\ UNCHANGED <<now, own, owner, row, client, call>>

ConfigureSource(x, enabled) ==
    /\ own' = [own EXCEPT ![x] = enabled]
    /\ UNCHANGED <<now, global, owner, row, client, call>>

Tick ==
    /\ now < MaxTime
    /\ now' = now + 1
    /\ UNCHANGED <<global, own, owner, row, client, call>>

-----------------------------------------------------------------------------

CallStep(c) ==
    \/ \E o \in Owners : Login(c, o)
    \/ \E s \in Sessions : Invoke(c, s)
    \/ \E lifetime \in {TokenTime, Never} :
          Relogin(c, lifetime) \/ \E s \in Sessions : Create(c, s, lifetime)
    \/ Refused(c) \/ GiveUp(c) \/ Fetch(c) \/ Fetched(c)

SessionStep(s) ==
    \/ Revoke(s)
    \/ \E o \in Owners, x \in Sources, lifetime \in {TokenTime, AbsoluteTime} :
          Inject(s, o, x, lifetime)

Next ==
    \/ \E c \in Calls : CallStep(c)
    \/ \E s \in Sessions : SessionStep(s)
    \/ \E k \in Clients : ConfigureClient(k)
    \/ \E o \in Owners : RevokeOwner(o) \/ TurnExpiry(o)
    \/ \E x \in Sources \cup {None} : ConfigureGlobal(x)
    \/ \E x \in Sources, enabled \in BOOLEAN : ConfigureSource(x, enabled)
    \/ Tick

Spec == Init /\ [][Next]_vars

-----------------------------------------------------------------------------
(* Properties                                                              *)

\* A token never reaches an API other than the one whose login Tool gave it
\* out, however the login configuration is switched while the API answers.
TokensStayHome ==
    \A s \in Sessions : row[s].token \in {None, row[s].source}

\* The login data of a session that has ended are erased, and no re-login
\* that was on its way brings them back.
EndedForgetsLogin ==
    \A s \in Sessions : row[s].status \in {"expired", "revoked"} => ~row[s].login

\* The cached token of a source was fetched by the client configured with
\* it, whatever is configured while the issuer is asked.
CachedTokenFits == client.token \in {None, client.config}

\* A session that has been expired or revoked never becomes ready again,
\* not even by a re-login that began before.
EndedStays ==
    [][\A s \in Sessions : row[s].status \in {"expired", "revoked"} =>
          row'[s].status \in {"expired", "revoked"} /\ row'[s].cred # "ready"]_vars

\* The token of a re-login is used only when the session has not ended while
\* the API was asked.
ReloginServesReady ==
    [][\A c \in Calls :
          call[c].step = "relogin" /\ call'[c].step \in {"sent", "resent"} =>
              row[call[c].session].status = "ready"]_vars
=============================================================================
