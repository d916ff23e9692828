-------------------------- MODULE ToolSessionOAuth --------------------------
(***************************************************************************)
(* One OAuth-backed Tool Session: its row, its credential for one API      *)
(* Source, the authorization flow that obtains the token, and the request  *)
(* handlers that work on them (tool_sessions/oauth.py, the resolve/revoke  *)
(* half of tool_sessions/service.py and api/embed_auth.py).                *)
(*                                                                         *)
(* Handlers are coroutines of one event loop: a handler runs without       *)
(* interruption up to its call of the issuer (or of the login Tool), which *)
(* is where every other handler, a cancellation or a crash can come in.    *)
(* One action is therefore one stretch of a handler between two awaits.    *)
(***************************************************************************)
EXTENDS Integers

CONSTANTS
    Requests,        \* handler activations that may be in flight together
    Kinds,           \* the flow/owner combinations considered
    FlowLifetime,    \* lifetime of a pending flow
    PollInterval,    \* the issuer's initial device polling interval
    SlowDown,        \* seconds a slow_down answer adds (5)
    Lease,           \* lease of a claimed operation (60 s)
    WaitLimit,       \* how long a refresh waiter waits (25 s)
    IdleWindow,      \* idle_minutes
    AccessLifetime,  \* expires_in of an access token
    SessionLifetime, \* absolute lifetime of a refreshable session (8 h)
    OwnerExpires,    \* absolute_expires_at of the owning embed/browser session
    MaxClock,        \* bound: the clock stops here
    MaxGeneration    \* bound: operations claimed on the flow

\* The owner of a device flow is an Agent key; popups of embeds and of the
\* public chat own the other flows.
AllKinds == [flow: {"device"}, owner: {"key"}]
                \cup [flow: {"pkce"}, owner: {"key", "embed", "browser"}]
                \cup [flow: {"swagger"}, owner: {"embed", "browser"}]

ASSUME KindsAssumption == Kinds \subseteq AllKinds
ASSUME TimesAssumption ==
    /\ {FlowLifetime, SlowDown, WaitLimit, MaxGeneration} \subseteq Nat
    /\ {PollInterval, Lease, IdleWindow, AccessLifetime, SessionLifetime,
        OwnerExpires, MaxClock} \subseteq Nat \ {0}

VARIABLES
    clock,      \* utc_now()
    row,        \* the ToolUserSession
    credential, \* its ToolSessionCredential
    flow,       \* its ToolOAuthAuthorization
    ownerLive,  \* the owning key or session has not been revoked
    request     \* what each handler activation holds across its await

vars == <<clock, row, credential, flow, ownerLive, request>>
session == <<row, credential, flow>>

Statuses == {"pending", "ready", "expired", "revoked", "failed"}
FlowStatuses == {"pending", "ready", "expired", "failed"}

\* Tokens are told apart by the operation generation that fetched them;
\* 0 stands for the erased credential, encrypt_json({}).
Erased == 0

Calls == {"poll", "exchange", "login", "refresh", "resolve"}
NoRequest == [pc |-> "idle", call |-> "none", generation |-> 0, now |-> 0]

Rows == [kind: Kinds, status: Statuses, revoked: BOOLEAN,
         loginData: BOOLEAN, idleExpires: Nat, absoluteExpires: Nat]
Credentials == [status: Statuses, token: Nat, refreshable: BOOLEAN, expires: Nat]
Flows == [status: FlowStatuses, sealed: BOOLEAN, consumed: BOOLEAN,
          generation: Nat, inProgress: BOOLEAN, startedAt: Nat,
          interval: Nat, nextPollAt: Nat, expires: Nat]
HandlerStates == {NoRequest} \cup
    [pc: {"posting", "waiting"}, call: Calls, generation: Nat, now: Nat]

\* Every session, credential, flow and suspended handler keeps its shape.
TypeOK ==
    /\ clock \in Nat
    /\ row \in Rows
    /\ credential \in Credentials
    /\ flow \in Flows
    /\ ownerLive \in BOOLEAN
    /\ request \in [Requests -> HandlerStates]

-----------------------------------------------------------------------------
(* Helpers                                                                 *)

Least(a, b) == IF a <= b THEN a ELSE b
Most(a, b) == IF a >= b THEN a ELSE b

Capped(time) == IF row.kind.owner = "embed" THEN Least(time, OwnerExpires) ELSE time

\* _validate_owner, _find and binding_for_context: every call that fails one
\* of them changes nothing.
OwnerValid == ownerLive /\ (row.kind.owner = "key" \/ clock < OwnerExpires)

\* Mutant: the lease is one second short.
LeaseEndsEarly == flow.inProgress /\ flow.startedAt + Lease > clock + 1

RowTimedOut == row.idleExpires <= clock \/ row.absoluteExpires <= clock
LeaseLive == flow.inProgress /\ flow.startedAt + Lease > clock

IsIdle(r) == request[r] = NoRequest
IsPosting(r, call) == request[r].pc = "posting" /\ request[r].call = call
Holds(r) == flow.inProgress /\ flow.generation = request[r].generation

Begin(r, pc, call, generation) ==
    request' = [request EXCEPT
        ![r] = [pc |-> pc, call |-> call, generation |-> generation, now |-> clock]]
Done(r) == request' = [request EXCEPT ![r] = NoRequest]

\* Mutant: the device code or verifier outlives its flow.
ClosedStillSealed(f, status) ==
    [f EXCEPT !.status = status, !.inProgress = FALSE, !.startedAt = 0]

\* An answered, refused or abandoned flow keeps neither its device code or
\* verifier nor a claim.
Closed(f, status) ==
    [f EXCEPT !.status = status, !.sealed = FALSE,
              !.inProgress = FALSE, !.startedAt = 0]

Wiped(status) ==
    [credential EXCEPT !.status = status, !.token = Erased, !.refreshable = FALSE]

Terminal(status) ==
    /\ row' = [row EXCEPT !.status = status]
    /\ flow' = Closed(flow, status)
    /\ credential' = Wiped(status)

\* What _store_token leaves: a refresh keeps the absolute expiry it finds, a
\* first authorization sets it.
FirstAbsolute(refreshable) ==
    Capped(clock + IF refreshable THEN SessionLifetime ELSE AccessLifetime)

StoredRow(absolute) ==
    [row EXCEPT !.status = "ready", !.absoluteExpires = absolute,
                !.idleExpires = Least(clock + IdleWindow, absolute)]

StoreToken(generation, absolute, refreshable) ==
    /\ credential' = [status |-> "ready", token |-> generation + 1,
                      refreshable |-> refreshable,
                      expires |-> Least(clock + AccessLifetime, absolute)]
    /\ flow' = Closed(flow, "ready")

\* Mutant: expiry forgets the login data.
ExpireRowKeepsLogin ==
    /\ row' = [row EXCEPT !.status = "expired"]
    /\ credential' = Wiped("expired")

\* ToolSessionService._expire: the flow is left as it is.
ExpireRow ==
    /\ row' = [row EXCEPT !.status = "expired", !.loginData = FALSE]
    /\ credential' = Wiped("expired")

\* Mutant: the idle window slides past the absolute expiry.
ServedUncapped(r0, now) == [r0 EXCEPT !.idleExpires = now + IdleWindow]

Served(r0, now) ==
    [r0 EXCEPT !.idleExpires = Least(now + IdleWindow, r0.absoluteExpires)]

-----------------------------------------------------------------------------
(* The session as start_device, _start_pkce or _start_swagger commits it   *)

Init ==
    /\ clock = 0
    /\ ownerLive = TRUE
    /\ \E k \in Kinds :
         LET expires == IF k.owner = "key" THEN FlowLifetime
                        ELSE Least(FlowLifetime, OwnerExpires)
         IN  /\ row = [kind |-> k, status |-> "pending", revoked |-> FALSE,
                       loginData |-> FALSE, absoluteExpires |-> expires,
                       idleExpires |-> IF k.flow = "swagger" THEN expires
                                       ELSE Least(IdleWindow, expires)]
             /\ credential = [status |-> "pending", token |-> Erased,
                              refreshable |-> FALSE, expires |-> expires]
             /\ flow = [status |-> "pending", sealed |-> TRUE, consumed |-> FALSE,
                        generation |-> 0, inProgress |-> FALSE, startedAt |-> 0,
                        interval |-> PollInterval,
                        nextPollAt |-> IF k.flow = "device" THEN PollInterval ELSE 0,
                        expires |-> expires]
    /\ request = [r \in Requests |-> NoRequest]

-----------------------------------------------------------------------------
(* Device authorization: a poll claims the flow, posts, and finishes       *)

\* Mutant: a poll looks at the interval only, not at the lease of the last one.
MustWaitInterval == flow.nextPollAt > clock

MustWait ==
    LET retryAt == Most(flow.nextPollAt, flow.startedAt + Lease)
    IN  \/ flow.inProgress /\ retryAt > clock
        \/ ~flow.inProgress /\ flow.nextPollAt > clock

ClaimPoll(r) ==
    /\ flow.expires > clock
    /\ ~MustWait
    /\ flow.generation < MaxGeneration
    /\ flow' = [flow EXCEPT !.generation = @ + 1, !.inProgress = TRUE,
                            !.startedAt = clock,
                            !.nextPollAt = clock + flow.interval]
    /\ Begin(r, "posting", "poll", flow.generation + 1)
    /\ UNCHANGED <<row, credential>>

\* Mutant: a flow that is being polled is not expired.
ExpireUnclaimedFlow ==
    /\ flow.expires <= clock /\ ~flow.inProgress
    /\ Terminal("expired")
    /\ UNCHANGED request

ExpireFlow ==
    /\ flow.expires <= clock
    /\ Terminal("expired")
    /\ UNCHANGED request

PollDevice(r) ==
    /\ IsIdle(r)
    /\ row.kind.flow = "device"
    /\ OwnerValid /\ ~row.revoked
    /\ flow.status = "pending"
    /\ ExpireFlow \/ ClaimPoll(r)
    /\ UNCHANGED <<clock, ownerLive>>

\* The issuer answers a poll. A result whose claim is no longer the current
\* one is ignored.
TokenGranted(r) ==
    \E refreshable \in BOOLEAN :
      LET absolute == FirstAbsolute(refreshable)
      IN  /\ row' = StoredRow(absolute)
          /\ StoreToken(request[r].generation, absolute, refreshable)

PollContinues ==
    /\ flow' = [flow EXCEPT !.inProgress = FALSE, !.startedAt = 0]
    /\ UNCHANGED <<row, credential>>

\* Mutant: slow_down postpones the next poll by its increment only.
PollBarelySlowedDown ==
    /\ flow' = [flow EXCEPT !.inProgress = FALSE, !.startedAt = 0,
                            !.interval = @ + SlowDown,
                            !.nextPollAt = clock + SlowDown]
    /\ UNCHANGED <<row, credential>>

PollSlowedDown ==
    /\ flow' = [flow EXCEPT !.inProgress = FALSE, !.startedAt = 0,
                            !.interval = @ + SlowDown,
                            !.nextPollAt = clock + flow.interval + SlowDown]
    /\ UNCHANGED <<row, credential>>

FinishPoll(r) ==
    /\ IsPosting(r, "poll")
    /\ Done(r)
    /\ UNCHANGED <<clock, ownerLive>>
    /\ IF flow.status = "pending" /\ Holds(r)
       THEN \/ TokenGranted(r)
            \/ PollContinues \* authorization_pending, or _release_operation
            \/ PollSlowedDown
            \/ \E status \in {"expired", "failed"} : Terminal(status)
       ELSE UNCHANGED session

-----------------------------------------------------------------------------
(* Browser authorization: the state is consumed once, then exchanged       *)

\* Mutant: the callback does not look whether the state has been consumed.
PkceCallbackAgain == row.kind.flow = "pkce" /\ flow.status = "pending"

PkceCallback ==
    /\ row.kind.flow = "pkce"
    /\ flow.status = "pending"
    /\ ~flow.consumed

CompletePkce(r) ==
    /\ IsIdle(r)
    /\ PkceCallback
    /\ UNCHANGED <<clock, ownerLive>>
    /\ \/ ExpireFlow
       \/ /\ flow.expires > clock
          /\ flow' = [flow EXCEPT !.consumed = TRUE]
          /\ Begin(r, "posting", "exchange", 0)
          /\ UNCHANGED <<row, credential>>

FailClaimedPkce ==
    IF flow.status = "pending" /\ flow.consumed THEN Terminal("failed")
    ELSE UNCHANGED session

FinishExchange(r) ==
    /\ IsPosting(r, "exchange")
    /\ Done(r)
    /\ UNCHANGED <<clock, ownerLive>>
    /\ \/ FailClaimedPkce
       \/ TokenGranted(r)

RejectPkce ==
    /\ PkceCallback
    /\ IF flow.expires <= clock
       THEN Terminal("expired")
       ELSE /\ row' = [row EXCEPT !.status = "failed"]
            /\ flow' = [Closed(flow, "failed") EXCEPT !.consumed = TRUE]
            /\ credential' = Wiped("failed")
    /\ UNCHANGED <<clock, ownerLive, request>>

-----------------------------------------------------------------------------
(* The login popup of a source that is authorized by a login Tool          *)

SwaggerLogin(r) ==
    /\ IsIdle(r)
    /\ row.kind.flow = "swagger"
    /\ flow.status = "pending"
    /\ ~flow.consumed
    /\ flow.expires > clock
    /\ flow' = [flow EXCEPT !.consumed = TRUE]
    /\ Begin(r, "posting", "login", 0)
    /\ UNCHANGED <<clock, ownerLive, row, credential>>

FinishSwagger(r) ==
    /\ IsPosting(r, "login")
    /\ Done(r)
    /\ UNCHANGED <<clock, ownerLive>>
    /\ \/ /\ row' = [row EXCEPT !.status = "failed"]   \* the login was refused
          /\ flow' = [flow EXCEPT !.status = "failed", !.sealed = FALSE]
          /\ UNCHANGED credential
       \/ \E lifetime \in {SessionLifetime, Least(AccessLifetime, SessionLifetime)} :
            LET absolute == Least(request[r].now + lifetime, OwnerExpires)
                \* create_auth_grant refuses an embed session that has ended;
                \* the handler then keeps what the login has written
                granted == row.kind.owner = "browser" \/ OwnerValid
                status == IF granted THEN "ready" ELSE "failed"
            IN  /\ row' = [row EXCEPT !.status = status, !.loginData = TRUE,
                              !.absoluteExpires = absolute,
                              !.idleExpires = Least(request[r].now + IdleWindow, absolute)]
                /\ credential' = [status |-> "ready",
                                  token |-> request[r].generation + 1,
                                  refreshable |-> FALSE, expires |-> absolute]
                /\ flow' = [flow EXCEPT !.status = status, !.sealed = FALSE]

-----------------------------------------------------------------------------
(* Resolving credentials for a Tool call, and the single-flight refresh    *)

\* What the caller does when refresh_bound raises: resolve expires the
\* session, the refresh endpoint only answers with the error.
RefreshRaises(call) ==
    IF call = "resolve" THEN ExpireRow ELSE UNCHANGED <<row, credential>>

ExpireOAuthSession ==
    /\ ExpireRow
    /\ flow' = Closed(flow, "expired")

AllReady == row.status = "ready" /\ credential.status = "ready" /\ flow.status = "ready"

ClaimRefresh(r, call) ==
    \/ /\ RowTimedOut
       /\ ExpireOAuthSession
       /\ UNCHANGED request
    \/ /\ ~RowTimedOut
       /\ ~AllReady \/ (~LeaseLive /\ ~credential.refreshable)
       /\ RefreshRaises(call)
       /\ UNCHANGED <<flow, request>>
    \/ /\ ~RowTimedOut /\ AllReady /\ LeaseLive
       /\ Begin(r, "waiting", call, flow.generation)
       /\ UNCHANGED session
    \/ /\ ~RowTimedOut /\ AllReady /\ ~LeaseLive /\ credential.refreshable
       /\ flow.generation < MaxGeneration
       /\ flow' = [flow EXCEPT !.generation = @ + 1, !.inProgress = TRUE,
                               !.startedAt = clock]
       /\ Begin(r, "posting", call, flow.generation + 1)
       /\ UNCHANGED <<row, credential>>

\* POST /api/tool-sessions/oauth/refresh
RefreshEndpoint(r) ==
    /\ IsIdle(r)
    /\ row.kind.owner = "key"
    /\ OwnerValid /\ ~row.revoked
    /\ flow.status = "ready"
    /\ ClaimRefresh(r, "refresh")
    /\ UNCHANGED <<clock, ownerLive>>

\* resolve for keys and admin sessions, _resolve_for_session_owner for embed
\* and browser sessions, which select a ready row in the first place. "force"
\* is the replay after an upstream 401.
Selected ==
    /\ OwnerValid /\ ~row.revoked
    /\ row.kind.owner # "key" => row.status = "ready" /\ credential.status = "ready"

Resolve(r, force) ==
    /\ IsIdle(r)
    /\ Selected
    /\ UNCHANGED <<clock, ownerLive>>
    /\ \/ /\ RowTimedOut
          /\ ExpireRow
          /\ UNCHANGED <<flow, request>>
       \/ /\ ~RowTimedOut /\ row.status = "ready"
          /\ ~force /\ credential.expires > clock
          /\ credential.status = "ready"
          /\ row' = Served(row, clock)
          /\ UNCHANGED <<credential, flow, request>>
       \/ /\ ~RowTimedOut /\ row.status = "ready"
          /\ force \/ credential.expires <= clock
          /\ ClaimRefresh(r, "resolve")

\* Mutant: a refused refresh wipes the credential of a session left ready.
RefreshFailsQuietly(r, call) ==
    IF flow.status = "ready" /\ Holds(r)
    THEN /\ flow' = Closed(flow, "failed")
         /\ credential' = Wiped("failed")
         /\ UNCHANGED row
    ELSE RefreshRaises(call) /\ UNCHANGED flow

\* The issuer answers a refresh. Only the holder of the current generation
\* stores a token or fails the session, and resolve then serves or expires.
RefreshSucceeds(r, call) ==
    /\ flow.status = "ready" /\ Holds(r)
    /\ StoreToken(request[r].generation, row.absoluteExpires, TRUE)
    /\ row' = IF call = "resolve"
              THEN Served(StoredRow(row.absoluteExpires), request[r].now)
              ELSE StoredRow(row.absoluteExpires)

RefreshFails(r, call) ==
    IF flow.status = "ready" /\ Holds(r)
    THEN /\ flow' = Closed(flow, "failed")
         /\ IF call = "resolve" THEN ExpireRow
            ELSE /\ row' = [row EXCEPT !.status = "failed"]
                 /\ credential' = Wiped("failed")
    ELSE RefreshRaises(call) /\ UNCHANGED flow

FinishRefresh(r, call) ==
    /\ IsPosting(r, call)
    /\ call \in {"refresh", "resolve"}
    /\ Done(r)
    /\ UNCHANGED <<clock, ownerLive>>
    /\ RefreshSucceeds(r, call) \/ RefreshFails(r, call)

\* A stale holder's success is a failure too: RefreshSucceeds is then off.
WaiterServed(r) ==
    /\ ~flow.inProgress
    /\ flow.status = "ready" /\ credential.status = "ready"
    /\ flow.generation >= request[r].generation
    /\ row' = IF request[r].call = "resolve" THEN Served(row, request[r].now) ELSE row
    /\ UNCHANGED credential

\* Mutant: a waiter has no deadline of its own.
WaiterFailsWithHolder(r) ==
    /\ ~Holds(r)
    /\ flow.inProgress \/ flow.status # "ready" \/ credential.status # "ready"
    /\ RefreshRaises(request[r].call)

WaiterFails(r) ==
    /\ IF Holds(r) THEN request[r].now + WaitLimit <= clock
       ELSE flow.inProgress \/ flow.status # "ready" \/ credential.status # "ready"
    /\ RefreshRaises(request[r].call)

WakeWaiter(r) ==
    /\ request[r].pc = "waiting"
    /\ WaiterServed(r) \/ WaiterFails(r)
    /\ Done(r)
    /\ UNCHANGED <<clock, ownerLive, flow>>

-----------------------------------------------------------------------------
(* Revocation, cancellation, crash, and time                               *)

\* ToolSessionService.revoke and revoke_embed_auth
Revoke ==
    /\ OwnerValid
    /\ \/ row.kind.owner = "key" /\ ~row.revoked
       \/ row.kind.owner = "embed"
    /\ row' = [row EXCEPT !.status = "revoked", !.revoked = TRUE, !.loginData = FALSE]
    /\ credential' = Wiped("revoked")
    /\ UNCHANGED <<clock, flow, ownerLive, request>>

RevokeOwner ==
    /\ ownerLive
    /\ ownerLive' = FALSE
    /\ UNCHANGED <<clock, row, credential, flow, request>>

\* Cancelling a handler raises CancelledError at its await; only the PKCE
\* exchange cleans up after one.
Cancel(r) ==
    /\ ~IsIdle(r)
    /\ Done(r)
    /\ IF IsPosting(r, "exchange") THEN FailClaimedPkce ELSE UNCHANGED session
    /\ UNCHANGED <<clock, ownerLive>>

Crash ==
    /\ \E r \in Requests : ~IsIdle(r)
    /\ request' = [r \in Requests |-> NoRequest]
    /\ UNCHANGED <<clock, row, credential, flow, ownerLive>>

Tick ==
    /\ clock < MaxClock
    /\ clock' = clock + 1
    /\ UNCHANGED <<row, credential, flow, ownerLive, request>>

-----------------------------------------------------------------------------

Answered(r) ==
    \/ FinishPoll(r)
    \/ FinishExchange(r)
    \/ FinishSwagger(r)
    \/ \E call \in {"refresh", "resolve"} : FinishRefresh(r, call)

Next ==
    \/ \E r \in Requests :
         \/ PollDevice(r)
         \/ CompletePkce(r)
         \/ SwaggerLogin(r)
         \/ RefreshEndpoint(r)
         \/ \E force \in BOOLEAN : Resolve(r, force)
         \/ Answered(r)
         \/ WakeWaiter(r)
         \/ Cancel(r)
    \/ RejectPkce
    \/ Revoke
    \/ RevokeOwner
    \/ Crash
    \/ Tick

Spec == Init /\ [][Next]_vars

\* The event loop resumes what can go on and the issuer answers within its
\* timeout; a device client goes on polling. Nothing else has to happen.
Fairness ==
    /\ WF_vars(Tick)
    /\ \A r \in Requests :
         /\ WF_vars(PollDevice(r))
         /\ WF_vars(Answered(r))
         /\ WF_vars(WakeWaiter(r))

FairSpec == Spec /\ Fairness

-----------------------------------------------------------------------------
(* Properties                                                              *)

\* A session is ready only together with a stored token, a ready credential
\* and an authorization that has dropped its device code or verifier, in
\* whatever order polls, callbacks, refreshes, expiry and revocation fall.
ReadyIsBacked ==
    row.status = "ready" =>
        /\ credential.status = "ready" /\ credential.token # Erased
        /\ flow.status = "ready" /\ ~flow.sealed

\* No flow that has ended keeps its secrets, and a claim survives only on a
\* flow on which that operation still can end: pending for a poll, ready for
\* a refresh.
EndedFlowIsErased ==
    /\ flow.sealed <=> flow.status = "pending"
    /\ flow.inProgress => flow.status \in {"pending", "ready"}

\* Two claimed operations are at the issuer together only if the lease of the
\* earlier one had run out when the later one claimed: concurrent polls and
\* refreshes single-flight on one claim.
Claimed(r) == request[r].pc = "posting" /\ request[r].call \in {"poll", "refresh", "resolve"}

OneOperationPerLease ==
    \A r, s \in Requests :
        Claimed(r) /\ Claimed(s) /\ r # s =>
            /\ request[r].generation # request[s].generation
            /\ request[r].generation < request[s].generation =>
                  request[r].now + Lease <= request[s].now

\* A browser state is exchanged by one handler only, and while it is at the
\* issuer no other action ends the flow.
StateIsSingleUse ==
    \A r \in Requests :
        IsPosting(r, "exchange") \/ IsPosting(r, "login") =>
            /\ flow.consumed /\ flow.status = "pending" /\ flow.generation = 0
            /\ \A s \in Requests : request[s].pc = "posting" => s = r

\* What ties the handlers at the issuer to the flow, and makes the two
\* properties above inductive: the holder of the newest claim finds the flow
\* as it left it unless the flow has ended, older claims have lost their
\* lease, and a browser flow is never claimed while it is pending.
ClaimsFollowFlow ==
    /\ ~flow.inProgress => flow.startedAt = 0
    /\ flow.inProgress => flow.generation > 0
    /\ flow.status = "pending" /\ row.kind.flow # "device" => flow.generation = 0
    /\ \A r \in Requests :
         /\ IsPosting(r, "exchange") \/ IsPosting(r, "login") =>
              row.kind.flow # "device" /\ request[r].generation = 0
         /\ Claimed(r) =>
              /\ 0 < request[r].generation /\ request[r].generation <= flow.generation
              /\ request[r].generation < flow.generation =>
                   request[r].now + Lease <= clock
              /\ request[r].generation = flow.generation =>
                   \/ flow.inProgress /\ flow.startedAt = request[r].now
                   \/ flow.status \in {"expired", "failed"}

\* A credential never outlives its session, and the session of an embed never
\* outlives the embed session.
WithinLifetimes ==
    /\ row.idleExpires <= row.absoluteExpires
    /\ credential.status = "ready" => credential.expires <= row.absoluteExpires
    /\ row.kind.owner = "embed" => row.absoluteExpires <= OwnerExpires

\* Expiry leaves no token and no login data behind, also when a handler that
\* was suspended across it finishes afterwards.
ExpiredHoldsNoToken ==
    row.status = "expired" => credential.token = Erased /\ ~row.loginData

\* A late result of an operation that has lost its claim never replaces the
\* token of a newer one: what is stored comes from the newest claim.
StaleResultNeverStored ==
    [][credential'.token \notin {Erased, credential.token} =>
         credential'.token = flow.generation + 1]_vars

\* The issuer's throttle is durable: whatever a poll ends with, the next poll
\* is never allowed earlier than it was.
ThrottleNeverRelaxed ==
    [][flow'.nextPollAt >= flow.nextPollAt /\ flow'.interval >= flow.interval]_vars

\* The claims on the flow are a fenced, leased operation.
Fenced == INSTANCE FencedOperation
    WITH generation <- flow.generation, inProgress <- flow.inProgress,
         startedAt <- flow.startedAt, token <- credential.token

ImplementsFencedOperation == Fenced!Spec

\* A client that goes on polling sees its device flow end, also when a
\* claimed poll died with its handler.
DeviceFlowEnds ==
    row.kind.flow = "device" /\ flow.status = "pending" ~>
        flow.status # "pending" \/ row.revoked \/ ~ownerLive

\* Every handler comes to its end: a waiter does not depend on the holder of
\* the claim coming back. (The clock is bounded: only handlers whose deadline
\* is within the bound are looked at.)
HandlersEnd ==
    \A r \in Requests :
        ~IsIdle(r) /\ request[r].now + WaitLimit <= MaxClock ~> IsIdle(r)
=============================================================================
