---------------------------- MODULE EmbedAccess ----------------------------
(***************************************************************************)
(* Embeds of Agents, their anonymous sessions, the Tool Sessions that a    *)
(* popup authorizes for one of them and the single-use grants that bring   *)
(* the result back (api/admin_embeds.py, embed/sessions.py,                *)
(* embed/grants.py, api/embed_public.py, api/embed_auth.py).               *)
(*                                                                         *)
(* A request with a bearer token is authenticated and noted in one commit, *)
(* and handled in later ones: anything may happen between two of them.     *)
(* What becomes of tokens at the issuer is the subject of                  *)
(* ToolSessionOAuth; here a Tool Session is its status, its owner and its  *)
(* login, which goes on in the popup whatever becomes of the row, and an   *)
(* Agent (the subject of Agents) is one of three states. Tool calls in the *)
(* name of a session change none of this, and are left out.                *)
(***************************************************************************)
EXTENDS FiniteSetsExt, Integers

CONSTANTS
    Agents,       \* Agents
    Embeds,       \* agent_embeds
    Sessions,     \* embed_sessions
    ToolSessions, \* Tool Sessions of embeds, each with its flow and its grant
    Requests,     \* bound: authenticated requests in flight
    IdleTime, AbsoluteTime, \* IDLE_HOURS, ABSOLUTE_DAYS
    LoginTime,    \* the ten minutes of a login form
    GrantTime,    \* GRANT_LIFETIME
    MaxTime       \* bound of the clock

ASSUME EmbedAssumption ==
    /\ {IdleTime, AbsoluteTime, LoginTime, GrantTime} \subseteq Nat \ {0}
    /\ MaxTime \in Nat
    /\ Agents # {} /\ Embeds # {} /\ Sessions # {}

VARIABLES
    agent,   \* runs (enabled, its provider too, a Skill runs), off or deleted
    now,     \* the clock
    embed,   \* agent_embeds: Agent, state and allow-list of each
    session, \* embed_sessions
    access,  \* Tool Sessions with their flows and grants; how often one was exchanged
    request  \* what each request in flight knows of its session

vars == <<agent, now, embed, session, access, request>>

Times == 0..(MaxTime + IdleTime + AbsoluteTime)
Actions == {"revoke", "start", "exchange", "logout"}
EmbedRows == [agent: Agents, state: {"absent", "on", "off", "deleted"}]
AgentStates == {"runs", "off", "deleted"}
SessionRows == [state: {"absent", "open", "revoked"}, embed: Embeds,
                idle: Times, absolute: Times]
Statuses == {"absent", "pending", "ready", "failed", "expired", "revoked"}
\* The login is open until its state is consumed, then claimed by one request
\* until the answer; "stored": the issuer's token is, its grant not yet.
Logins == {"none", "open", "claimed", "stored"}
AccessRows == [status: Statuses, session: Sessions, revoked: BOOLEAN, login: Logins,
               code: {"none", "open", "spent"}, expires: Times, exchanged: 0..2]
Idle == [at |-> "idle"]
RequestStates ==
    [at: {"checked", "noted"}, action: Actions, session: Sessions]

\* Every table keeps its shape.
TypeOK ==
    /\ agent \in [Agents -> AgentStates]
    /\ now \in 0..MaxTime
    /\ embed \in [Embeds -> EmbedRows]
    /\ session \in [Sessions -> SessionRows]
    /\ access \in [ToolSessions -> AccessRows]
    /\ request \in [Requests -> RequestStates \cup {Idle}]

-----------------------------------------------------------------------------
(* Helpers                                                                 *)

\* available_embed: the Agent has to be runnable, too.
Available(e) ==
    /\ embed[e].state = "on"
    /\ agent[embed[e].agent] = "runs"

\* Mutant: lifetimes add up.
UntilBoth(t, limit) == t + limit

Kept(a) == agent[a] # "deleted"

\* The shorter of two lifetimes.
Until(t, limit) == Min({t, limit})

Open(s) == session[s].state = "open"
Expired(s) == session[s].idle <= now \/ session[s].absolute <= now
OwnerValid(s) == Open(s) /\ session[s].absolute > now

Init ==
    /\ agent \in [Agents -> AgentStates \ {"deleted"}]
    /\ now = 0
    /\ embed = [e \in Embeds |-> [agent |-> CHOOSE a \in Agents : TRUE, state |-> "absent"]]
    /\ session \in [Sessions -> [state: {"absent"}, embed: {CHOOSE e \in Embeds : TRUE},
                                 idle: {0}, absolute: {0}]]
    /\ access \in [ToolSessions -> [status: {"absent"}, session: {CHOOSE s \in Sessions : TRUE},
                                    revoked: {FALSE}, login: {"none"}, code: {"none"},
                                    expires: {0}, exchanged: {0}]]
    /\ request = [q \in Requests |-> Idle]

-----------------------------------------------------------------------------
(* Administration                                                          *)

\* What becomes of an Agent, its provider and its Skills.
SwitchAgent(a, state) ==
    /\ Kept(a)
    /\ agent' = [agent EXCEPT ![a] = state]
    /\ UNCHANGED <<now, embed, session, access, request>>

CreateEmbed(e, a, state) ==
    /\ embed[e].state = "absent"
    /\ Kept(a)
    /\ embed' = [embed EXCEPT ![e] = [agent |-> a, state |-> state]]
    /\ UNCHANGED <<agent, now, session, access, request>>

UpdateEmbed(e, state) ==
    /\ embed[e].state \in {"on", "off"}
    /\ Kept(embed[e].agent)
    /\ embed' = [embed EXCEPT ![e].state = state]
    /\ UNCHANGED <<agent, now, session, access, request>>

DeleteEmbed(e) ==
    /\ embed[e].state \in {"on", "off"}
    /\ Kept(embed[e].agent)
    /\ embed' = [embed EXCEPT ![e].state = "deleted"]
    /\ UNCHANGED <<agent, now, session, access, request>>

-----------------------------------------------------------------------------
(* Sessions                                                                *)

\* The page around the embed has to be on its allow-list; without such a
\* page, the origin of the application is taken.
IssueSession(s, e) ==
    /\ session[s].state = "absent"
    /\ Available(e)
    /\ session' = [session EXCEPT ![s] =
           [state |-> "open", embed |-> e,
            idle |-> now + IdleTime, absolute |-> now + AbsoluteTime]]
    /\ UNCHANGED <<agent, now, embed, access, request>>

Authenticate(q, s, action) ==
    /\ request[q] = Idle
    /\ Open(s)
    /\ Available(session[s].embed)
    /\ ~Expired(s)
    /\ request' = [request EXCEPT ![q] = [at |-> "checked", action |-> action,
                                          session |-> s]]
    /\ UNCHANGED <<agent, now, embed, session, access>>

\* Only the columns that change are written.
Touched(row, idle) == [row EXCEPT !.idle = idle]

\* The same request notes that the session was seen.
NoteSeen(q) ==
    /\ request[q] # Idle
    /\ request[q].at = "checked"
    /\ LET s    == request[q].session
           idle == Until(now + IdleTime, session[s].absolute)
       IN /\ session' = [session EXCEPT ![s] = Touched(@, idle)]
          /\ request' = [request EXCEPT ![q].at = "noted"]
    /\ UNCHANGED <<agent, now, embed, access>>

\* A request with an expired token revokes the session.
ExpireSession(s) ==
    /\ Open(s)
    /\ Available(session[s].embed)
    /\ Expired(s)
    /\ session' = [session EXCEPT ![s].state = "revoked"]
    /\ UNCHANGED <<agent, now, embed, access, request>>

Handles(q, action) == request[q] # Idle /\ request[q].at = "noted" /\ request[q].action = action

RevokeSession(q) ==
    /\ Handles(q, "revoke")
    /\ session' = [session EXCEPT ![request[q].session].state = "revoked"]
    /\ request' = [request EXCEPT ![q] = Idle]
    /\ UNCHANGED <<agent, now, embed, access>>

-----------------------------------------------------------------------------
(* Authorization in a popup                                                *)

StartLogin(q, g) ==
    /\ Handles(q, "start")
    /\ access[g].status = "absent"
    /\ access' = [access EXCEPT ![g] =
           [status |-> "pending", session |-> request[q].session, revoked |-> FALSE,
            login |-> "open", code |-> "none", exchanged |-> 0,
            expires |-> Until(now + LoginTime, session[request[q].session].absolute)]]
    /\ request' = [request EXCEPT ![q] = Idle]
    /\ UNCHANGED <<agent, now, embed, session>>

\* The form, or the issuer's redirection, arrives: the state is consumed.
\* A logout in between has revoked the row but not the flow.
SubmitLogin(g) ==
    /\ access[g].login = "open"
    /\ access[g].expires > now
    /\ access' = [access EXCEPT ![g].login = "claimed", ![g].expires = 0]
    /\ UNCHANGED <<agent, now, embed, session, request>>

\* The issuer's redirection arrives too late.
ExpireLogin(g) ==
    /\ access[g].login = "open"
    /\ access[g].expires <= now
    /\ access' = [access EXCEPT ![g].status = "expired", ![g].login = "none"]
    /\ UNCHANGED <<agent, now, embed, session, request>>

\* Mutant: the grant lives its five minutes, whatever its owner does.
GrantEndsOwn(s) == now + GrantTime

GrantEnds(s) == Until(now + GrantTime, session[s].absolute)

\* The login Tool answers: token and grant are stored together.  The row was
\* read before the call: that it has been revoked since is not looked at.
FinishLogin(g) ==
    /\ access[g].login = "claimed"
    /\ OwnerValid(access[g].session)
    /\ access' = [access EXCEPT ![g].status = "ready", ![g].login = "none", ![g].code = "open",
                                ![g].expires = GrantEnds(access[g].session)]
    /\ UNCHANGED <<agent, now, embed, session, request>>

\* The issuer's token is stored first, revoked or not; its grant is a commit
\* of its own, and looks at the owner only.
StoreToken(g) ==
    /\ access[g].login = "claimed"
    /\ access' = [access EXCEPT ![g].status = "ready", ![g].login = "stored"]
    /\ UNCHANGED <<agent, now, embed, session, request>>

CreateGrant(g) ==
    /\ access[g].login = "stored"
    /\ OwnerValid(access[g].session)
    /\ access' = [access EXCEPT ![g].login = "none", ![g].code = "open",
                                ![g].expires = GrantEnds(access[g].session)]
    /\ UNCHANGED <<agent, now, embed, session, request>>

\* The login fails, or its owner is gone.
FailLogin(g) ==
    /\ access[g].login = "claimed"
    /\ access' = [access EXCEPT ![g].status = "failed", ![g].login = "none"]
    /\ UNCHANGED <<agent, now, embed, session, request>>

\* Mutant: a spent grant is accepted as long as it has not expired.
CodeUnexpired(g) == access[g].code # "none" /\ access[g].expires > now

CodeFits(g) == access[g].code = "open" /\ access[g].expires > now

\* Mutant: the status alone decides.
ReadyAgain(g) == access[g].status = "ready"

Deliverable(g) == access[g].status = "ready" /\ ~access[g].revoked

Exchange(q, g) ==
    /\ Handles(q, "exchange")
    /\ access[g].session = request[q].session
    /\ CodeFits(g)
    /\ Deliverable(g)
    /\ access' = [access EXCEPT ![g].code = "spent", ![g].exchanged = @ + 1]
    /\ request' = [request EXCEPT ![q] = Idle]
    /\ UNCHANGED <<agent, now, embed, session>>

\* All Tool Sessions of the owner for the source, whatever their status.
Logout(q) ==
    /\ Handles(q, "logout")
    /\ access' = [g \in ToolSessions |->
           IF access[g].status # "absent" /\ access[g].session = request[q].session
           THEN [access[g] EXCEPT !.status = "revoked", !.revoked = TRUE]
           ELSE access[g]]
    /\ request' = [request EXCEPT ![q] = Idle]
    /\ UNCHANGED <<agent, now, embed, session>>

\* A request is refused, or finds nothing to do, or its connection breaks.
Drop(q) ==
    /\ request[q] # Idle
    /\ request' = [request EXCEPT ![q] = Idle]
    /\ UNCHANGED <<agent, now, embed, session, access>>

Tick ==
    /\ now < MaxTime
    /\ now' = now + 1
    /\ UNCHANGED <<agent, embed, session, access, request>>

-----------------------------------------------------------------------------

EmbedStep(e) ==
    \/ \E state \in {"on", "off"} :
          \/ UpdateEmbed(e, state)
          \/ \E a \in Agents : CreateEmbed(e, a, state)
    \/ DeleteEmbed(e)

SessionStep(s) ==
    \/ \E e \in Embeds : IssueSession(s, e)
    \/ ExpireSession(s)

RequestStep(q) ==
    \/ \E s \in Sessions, action \in Actions : Authenticate(q, s, action)
    \/ \E g \in ToolSessions : StartLogin(q, g) \/ Exchange(q, g)
    \/ NoteSeen(q) \/ RevokeSession(q) \/ Logout(q) \/ Drop(q)

LoginStep(g) ==
    \/ SubmitLogin(g) \/ ExpireLogin(g) \/ FinishLogin(g) \/ FailLogin(g)
    \/ StoreToken(g) \/ CreateGrant(g)

Next ==
    \/ \E a \in Agents, state \in AgentStates : SwitchAgent(a, state)
    \/ \E e \in Embeds : EmbedStep(e)
    \/ \E s \in Sessions : SessionStep(s)
    \/ \E q \in Requests : RequestStep(q)
    \/ \E g \in ToolSessions : LoginStep(g)
    \/ Tick

Spec == Init /\ [][Next]_vars

-----------------------------------------------------------------------------
(* Properties                                                              *)

\* A grant is exchanged once, whichever requests present it and whatever
\* logins and logouts come in between.
ExchangedOnce == \A g \in ToolSessions : access[g].exchanged <= 1

Exchanged(g) == access'[g].exchanged > access[g].exchanged

\* What the user logged out of is delivered by no grant, and no later step
\* takes the logout back, though the login in the popup may end after it and
\* set the status to ready again; and none is delivered after the lifetime of
\* its embed session, however long the request, the login and the grant have
\* taken.
ExchangedInTime ==
    [][\A g \in ToolSessions :
          /\ Exchanged(g) => ~access[g].revoked /\ now < session[access[g].session].absolute
          /\ access[g].revoked => access'[g].revoked]_vars
=============================================================================
