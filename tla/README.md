# Verification of Chat4OpenAPI

TLA+ models of the backend in `src/backend/src/chat4openapi`, TLC runs over small
instances of them, and TLAPS proofs of what has to hold for every instance.

## 1. The system

A FastAPI application over one SQLite database, served by one uvicorn process,
and a Vue frontend. `async def` handlers share one event loop: they interleave
at `await` only. `def` handlers run in a thread pool. Writers take SQLite's
write lock; `serialized_write` (db/serialized_write.py) starts with
`BEGIN IMMEDIATE` and re-reads, so a block under it is atomic.

| Component | State | Operations | What makes it correct |
|---|---|---|---|
| OAuth Tool Sessions (`tool_sessions/oauth.py`, `api/tool_oauth.py`) | session row, credential, authorization flow with a leased, numbered operation | start/poll device flow, start/complete/reject PKCE, refresh with waiters | single flight, one-time state, no stale result stored, nothing outlives its bounds, secrets go with the flow |
| Tool Session service (`tool_sessions/service.py`, `credentials.py`, `auth_mapping.py`) | the same rows, login data | create by login, inject credentials, resolve, replay after 401, expire, revoke | only a live, unrevoked, unexpired session of the right owner is served |
| Embed and popup authorization (`embed/`, `api/embed_auth.py`, `api/embed_public.py`) | embed sessions, one-time auth grants, popup logins | create/authenticate/revoke embed session, start and complete a popup login, exchange grant | a grant is used once and by its owner only; nothing outlives the embed session |
| Auto-Agentify jobs (`auto_agentify/jobs.py`, `progress.py`, `service.py`, `api/admin_auto_agentify.py`, the page `frontend/src/composables/useAutoAgentifyJob.ts`) | job, its numbered events, running tasks | create, run, emit progress, cancel, stream events, interrupt at startup | one active job, a terminal state that stays, an ordered event log, applied drafts only for their sources |
| Auto-Agentify planner (`auto_agentify/planner.py`, `catalog.py`) | none (algorithm over the catalog and model answers) | catalog, staged planning, repair and retries | result covers and names only tools of the catalog |
| Chat turns (`chat/agent.py`, `chat/api.py`, `agui/`) | conversation, messages, pending authorization | start turn, tool loop, require authorization, resume, fail | message order, one answer per turn, resume only the turn that asked |
| Catalog administration (`api/admin_tools.py`, `tools/bulk.py`, `tools/execution_policy.py`, `api/admin_agents.py`, `admin_skills.py`, `admin_providers.py`) | sources, tools, skills, agents, providers | create, update, import, bulk change, enable, delete, choose default | no skill or agent that runs on something deleted; exactly one default; a login tool is never used as a tool |
| Admin authentication (`api/admin_auth.py`, `services/`, `api/setup.py`, `admin_users.py`, `security/`, `agent_keys.py`) | administrators, sessions, reset tokens, agent keys | setup, login, logout, change and reset password, key issue and revoke | one first administrator, reset ends sessions, last administrator stays |
| Tool execution (`tools/executor.py`, `openapi_loader.py`, `openapi_v2.py`, `network_policy.py`, `mcp/`, `llm/client.py`) | none | load a document, build a request, call a model | data conversion and I/O |
| Frontend (`frontend/src`) | stores, job composable, embed widget | poll and stream jobs, sign in, embed | view state follows the server |

Sessions are shared by components 1 to 3 (the same three tables); the chat turn
calls `resolve`/`execute` of the session service and waits for a popup login;
catalog changes decide what `execute` still may call; a job creates skills and
agents from the catalog.

Behaviours that are hard to test: two requests crossing at an `await` (polls,
refreshes, resume and cancel), results that come back after a lease, an expiry
or a revocation, cancellation of a handler, a restart with work in progress,
several expiries clipped against each other, and rows read before an `await`
and written after it. `PROJECT.json` lists each at its line under `hazards`.

## 2. Plan

Order of work, the most important behaviour first. Done:

1. `ToolSessionOAuth` with the abstract `FencedOperation`, its proofs.
2. `AgentifyJobs`: job life cycle, event log, cancellation, crash and restart, and
   the administration handlers that meet a job; its proofs.
3. `ChatTurn`: turns of one conversation that interleave, the Tool loop, calls
   suspended by authorization, clarification and client Tools, and resumption; its proofs.
4. `ToolCatalog` and `Agents`: sources, Tools, Skills, Agents, providers and login
   Tools under concurrent administration and bulk actions; their proofs.
5. `EmbedAccess`: embeds, their sessions, popup logins and one-time grants; its proofs.
6. `AdminAccess`: setup, sign-in, sessions, users and the reset key; its proofs.
7. `ToolLogins`: sessions with login data or injected credentials, the replay after
   a 401, the token of a source's own client; its proofs.
8. `AgentifyStream`, on top of `AgentifyJobs`: the event stream over connections that
   break, and the page that follows it; its proofs, with those of the jobs.

Left:

- the planner's stages as an algorithm: which answers lead to which plan;
- settings administration and the deletion of conversations.

Every run asks one question of a module: that its safety properties hold with two
actors of each kind that can meet, that what has begun ends, or that a document is
wrong.

## 3. Modules

### ToolSessionOAuth

One session, its credential for one source, its flow, and any number of request
handlers (`Requests`).

| TLA+ | Code |
|---|---|
| `row`, `credential`, `flow` | `ToolUserSession`, `ToolSessionCredential`, `ToolOAuthAuthorization` |
| `row.kind` | the flow type with the owner column that is set: device flows belong to Agent keys, PKCE to keys (admin sessions), embeds and public-chat browsers, popup logins to embeds and browsers |
| `credential.token` | which operation's token `encrypted_credentials` holds (its generation + 1); `Erased` is `encrypt_json({})` |
| `flow.sealed` | `encrypted_flow_data` still holds the device code or verifier |
| `flow.generation`, `inProgress`, `startedAt` | `operation_generation`, `operation_in_progress`, `operation_started_at` |
| `request[r]` | a handler suspended at the issuer (`posting`) or in `_wait_for_refresh` (`waiting`), with the generation and the `now` it keeps across the await |
| `PollDevice`, `FinishPoll` | `poll_device` with `_claim_device_poll`; `_finish_device_poll`, `_release_operation` |
| `CompletePkce`, `FinishExchange`, `RejectPkce` | `complete_pkce` before and after the exchange; `reject_pkce` |
| `SwaggerLogin`, `FinishSwagger` | `complete_swagger_login` before and after the login Tool |
| `RefreshEndpoint`, `Resolve`, `FinishRefresh`, `WakeWaiter` | `refresh`; `resolve` and `_resolve_for_session_owner`; `_finish_refresh_*`; `_wait_for_refresh` |
| `Revoke`, `RevokeOwner` | `revoke` and `revoke_embed_auth`; revoking the key or the owning session |
| `Cancel`, `Crash`, `Tick` | `CancelledError` at the await; loss of all handlers, the tables stay; time |

An action is a handler's run between two awaits; everything it writes before
its commit is in the one action. Sources that get disabled, malformed HTTP and
encryption are abstracted: a bad answer is a failed operation. The HTTP client's
timeouts (20 s, and the token endpoint may be tried twice) are longer than
`WaitLimit` and not tied to `Lease`, so an answer may come at any time.

### FencedOperation

What the claims promise, without sessions: take the next generation, never
before the lease of the last claim has run out; only the newest claim publishes.
`ImplementsFencedOperation` is the refinement, with the flow's own fields and
the stored token as the mapping.

### MCToolSessionOAuth

Symmetry of the handlers, and the kinds of sessions. The other `MC` modules are alike:
the symmetry of an instance and what a .cfg cannot write down.

### AgentifyJobs

Jobs, the asyncio tasks that run them and the requests that cancel them.

| TLA+ | Code |
|---|---|
| `rows` | `AutoAgentifyJob` with its `AutoAgentifyJobEvent`s, by primary key; a deleted row leaves the function's domain and its key may be given again |
| `task[r].at` | where `_run_job`, `generate` and the planner are: at an await (`Awaits`) or before the next commit |
| `task[r].known` | the job object in the task's session: read once, kept over commits, expired by a rollback and by `serialized_write` |
| `holder` | the task that runs on the event loop and will not await before its next place |
| `registry`, `canceller` | `_tasks`; the cancel requests suspended at `await task` |
| `made`, `skillsOn` | the configurations `_persist` committed, and which of their Skills still run |
| `Create`, `Start`, `Load` ... `Finish` | `create_job` with scheduling, then the commits of `_run_job` and `generate` in their order |
| `Raise`, `ReportFailure`, `MarkFailed` | any exception, then the two commits of `_fail_job` |
| `RequestCancel`, `FinishCancel`, `Unwind` | `cancel_auto_agentify_job` before and after `await task`; `CancelledError` in the task |
| `Crash`, `Restart` | loss of all tasks; `mark_interrupted_jobs` in the lifespan |
| `DeleteSource`, `DeleteUser`, `SwitchProvider` | handlers of the thread pool, possible between any two commits |

An action is one commit, or the way to the next await. `Plan` takes any path
through the planner that raises progress or asks the model once more: how often
the stages retry is bounded by the code and abstracted, and reports that repeat a
progress value are one. The job's document, metrics and messages are left out. A
flush writes only columns that differ from what the session knew (`Reported`):
that is what lets a task with an old object write part of a row.

### AgentifyStream

`EXTENDS AgentifyJobs`: the same jobs, and the page of one administrator.

| TLA+ | Code |
|---|---|
| `stream.cursor`, `sent`, `done` | `cursor` in `events()`; the last event that has arrived; the generator has ended |
| `page.shown`, `phase` | `events` by sequence; whether the composable listens, reads the job again, or takes it for ended |
| `Pass` | one turn of the loop in `stream_job_events`, between two awaits |
| `Deliver` | `applyEvent`: deduplication, and behind a terminal event the end of the stream |
| `Reconnect` | the connection breaks or the server has ended it; `EventSource` sends Last-Event-ID |
| `Open`, `Refresh`, `Stopped` | `load` (or `start`), `refreshUntilTerminal`, `stop` |
| `JobStep` | everything `AgentifyJobs` does; a crash takes the connection along |

The event loop's guard is that of `AgentifyJobs` (`LoopFree`), so a pass reads
status and rows of one moment, while the page's own request, in the thread pool,
may fall between two commits. A page that starts a second job after the first is
a new page here. `MaxWatched` bounds the jobs that exist next to an open page.

### ChatTurn

One conversation and the turns in flight on it.

| TLA+ | Code |
|---|---|
| `log` | the `ChatMessage`s by `sequence`: role, the calls of an assistant message, the call a Tool message answers and whether it reports a missing authorization |
| `status`, `pending`, `loaded` | `agent_status`, `pending_clarification` (its call), `loaded_skill_ids` |
| `channel` | the owner column that is set: public-chat browser, embed session or Agent key |
| `skillsOn` | Skills that run; a disabled Agent, Tool or source stops its Skill as far as a turn can see |
| `turn[t].known`, `asked` | what the turn's session remembers of the loaded Skills and the pending question; `expire_on_commit` is off, so only a token refresh in a Tool call makes it read again (`Reread`) |
| `turn[t].candidates`, `bound` | the candidate Skills read at the beginning; `_bound_tools` before the model is asked |
| `issued`, `handed`, `sent` | the model's calls by id; calls at the page; calls that APIs have accepted, in order |
| `turn[t].reached` | whether the call in execution has been accepted: a denial comes before that only |
| `Begin`, `Resume`, `Resumed`, `Open`, `Clear` | `run` up to its loop, with `_resume_authorized_tool` before and after its await |
| `Ask`, `Reply`, `Call`, `Break` | the loop: bind the Tools, await the model, store its answer, or fail |
| `HandOver`, `Load`, `AnswerCall`, `CallTool`, `Observed`, `Close` | `_handle_response`, call by call |
| `Execute`, `Send` | a Tool's execution begins, from `CallTool` or `Resume`; its request is accepted, after the awaits of tool_sessions/service.py:826-846 |
| `Abort`, `Crash`, `SwitchSkill` | a broken embed stream (`CancelledError`), loss of all turns, administration in the thread pool |

An action is one commit, or the way to the next await, or the moment at which the
request of a Tool call is accepted: anything may happen between the look at the Skill
(agent.py:420) and that moment, a stop of the Skill included. A request that is
answered 401 is not accepted, and the one that follows it is the same `Send`. Each Skill has one Tool;
`Clashing` Skills have Tools of the same name, and a call finds its Tool by name.
What the arguments are, whether they fit the schema and what a Tool returns is
abstracted: an invalid call is one of kind `other`, and an execution ends with a
result or without authorization. Which credential it uses is `ToolSessionOAuth`'s.
A compatible client sends its whole transcript: the model adds its new user
message, or nothing. `MaxMessages` bounds the messages of the user. Call ids are the provider's and
taken to be distinct. The
conversation begins with one answered turn, since only then its client knows it.

### ToolCatalog

| TLA+ | Code |
|---|---|
| `source`, `tool`, `skill` | the rows' `enabled` and `deleted_at` |
| `login` | the Tool of each enabled `LoginToolConfig`, of a source or global |
| `mode`, `oauth` | `auth_mode`, and whether the OAuth configuration is enabled |
| `binds` | `skill_tools` |
| `Import`, `StartRefresh`, `FinishRefresh` | import and refresh of a document, the second before and after the fetch |
| `EnableSource`, `DisableSource`, `DeleteSource`, `SetToolAuth`, `SetSourceToolAuth` | the handlers of `api/admin_tools.py`, each with the Skills it stops |
| `ActOnTools` | `tools/bulk.py`, which single actions use too: some Tools succeed, some are refused |
| `ReadSkill`, `WriteSkill`, `ReadToEnd`, `EndSkill`, `StartSkill` | `api/admin_skills.py`; only the start takes the write lock before it reads |
| `ReadScheme`, `ConfigureSource` | `ToolOAuthService.configure_source`, without the lock |
| `Persist` | the commit of an Auto-Agentify job, as far as it meets Tools |

`writer` holds what a handler without the lock has read. `unfit` are the Skills of which
not every Tool could be called at the commit that bound them: `WriteSkill` binds from
outdated reads, and `Persist`, though it reads under the lock, looks at deleted Tools
only, not at disabled sources or login Tools (auto_agentify/service.py:384-386, 425-434;
a login Tool can be called, so that binding one does not make a Skill unfit).
A Skill leaves `unfit` when it is bound to Tools that can be called, or started anew. `outdated` are the sources whose
OAuth was configured from outdated reads. `RunningIsUsable` leaves out the first,
`OneScheme` the second where it speaks of `auth_mode`; `TakesSkillsAlong`, the exclusion
of OAuth and a login Tool, and the others leave out nothing.

### Agents

Agents with their default, their provider and their Skills (`api/admin_agents.py`,
`api/admin_providers.py`), under the write lock but for the creation of a provider;
`Generate` is the job's commit, whose provider was checked before the model was
asked. `StartSkill`, `StopSkill` and `DeleteSkill` are what `ToolCatalog` does to Skills, as seen
from here.

### EmbedAccess

| TLA+ | Code |
|---|---|
| `agent` | whether an embed's Agent can run, cannot, or is deleted: `SwitchAgent` goes through these in any order |
| `embed`, `session` | `AgentEmbed`; `EmbedSession` with its idle and absolute deadline |
| `access` | the Tool Session of a popup login: status and `revoked_at` of its row, its grant, how often that was exchanged, and its `login` (open, claimed, or stored and still without a grant), which goes on in the popup whatever becomes of the row |
| `Authenticate`, `NoteSeen` | `authenticate_embed_session` and its commit of the new deadline |
| `StartLogin`, `SubmitLogin`, `ExpireLogin`, `FinishLogin`, `StoreToken`, `CreateGrant`, `FailLogin` | `api/embed_auth.py` and `complete_pkce`: the popup, its login Tool or issuer, and the grant |
| `Exchange`, `Logout`, `RevokeSession` | exchange of the grant, sign-off, end of the session |

A request is authenticated in one commit and handled in later ones: `request`
keeps what it knows of its session. A logout writes the rows only: a login at the
issuer ends after it all the same, sets the status to ready again and creates its grant,
and what keeps that grant from being exchanged is `revoked_at` alone. Tool calls in the
name of a session change nothing here and are not modelled.

### AdminAccess

All handlers run in the thread pool without the write lock: an action is what a
handler reads, or one commit, or one operation on the key file. `request[q].at`
says how far a handler has come (`verified`: password checked, `checked` and
`signed`: session read, `loaded`: user read, then the steps of the reset key).
`user[u].password` flips at every change; time is not measured, a session or a
key may be found expired at any moment. The key file is a number (`file.key`,
0 for none), `issued` and `resets` count keys and resets.

### ToolLogins

| TLA+ | Code |
|---|---|
| `row` | `ToolUserSession` with its one credential: login data, token, deadlines of the authorization (`auth`) and of the credential (`ends`) |
| `global`, `own` | the source of the global login Tool; sources with their own |
| `client` | the OAuth client of a source and its cached token (`client_credentials_auth`) |
| `call[c]` | a request: its session, the source's mode and, over the await of a login, the configuration and the time it was begun with. The session's row is looked up again whenever the session is resolved |
| `Login`, `Create` | `create` before and after the login Tool has answered |
| `Inject`, `Revoke` | `inject`, `revoke` |
| `Invoke`, `Refused`, `Relogin` | `execute`: the first attempt and, after a 401, the second, both by way of `Resolve`, which refuses a session that has ended meanwhile; and what follows the answer of a new login |
| `Fetch`, `Fetched`, `ConfigureClient` | the token of the source's own client, around its await |
| `ConfigureGlobal`, `ConfigureSource`, `RevokeOwner`, `TurnExpiry` | administration meanwhile |

## 4. Runs

| Run | Question | Result |
|---|---|---|
| `oauth_safety` | do all invariants, action properties and the refinement hold under every interleaving | holds, 306 394 states |
| `oauth_liveness` | does a polled device flow end, does every handler end | holds, 75 164 states |
| `jobs_safety` | do slots, logs, results, terminal states and what a page shows stay consistent | holds, 1 603 788 states |
| `jobs_end` | does every job, cancel request and page that follows a job end | holds, 135 022 states |
| `jobs_interrupted` | has a failed job created nothing | no: after a crash behind the commit of the configuration |
| `chat_turns` | can a conversation always be resumed from what it waits for, is a call executed once | holds, 2 420 578 states |
| `chat_overlap` | do two turns at once keep observations behind their calls, and execute no more calls than the model made | holds, 1 551 844 states |
| `tools` | does nothing run on a Tool that is gone, does a source keep one usable scheme | holds, 725 382 states |
| `agents` | is one Agent the default, and enabled | holds, 53 904 states |
| `embed` | is a grant exchanged once, in its lifetime, and not after a logout | holds, 399 180 states |
| `admin` | is the setup won once, does a reset use up a key, does losing a right end all sessions | holds, 76 018 states |
| `logins` | do tokens stay with their API, do ended sessions stay ended under a re-login | holds, 2 562 408 states |

Definitions commented `Mutant:` are plausible bugs of the operator that follows
them. They show, one property at a time, that the properties can fail; the models
use none of them.

Bounds of `oauth_safety`: two handlers (a holder and a waiter, or an overtaken
and an overtaking holder), three generations (claim, takeover, and one more),
all six kinds. The clock counts in units in which every order of the deadlines
occurs: the lease (2) ends before the flow (3), the session (4) and the owner (5),
after the access token (1) and the waiter (1), and the clock (6) passes them all.
`oauth_liveness` has a flow of 2, an owner of 3, a clock of 4 and two generations.
`MaxClock` and `MaxGeneration` bound counters that are unbounded in the code;
`CHECK_DEADLOCK FALSE` because the clock stops and a session may stay ready
with nobody calling.

Fairness of `oauth_liveness`: weak fairness of the clock; of the handlers'
continuations, since the event loop resumes whatever can run and the HTTP client
answers or times out; of polling, since a device client polls until it is told to
stop. No fairness of revocation, callbacks, cancellation, crashes or refreshes.
`HandlersEnd` looks at handlers whose deadline is within `MaxClock`.

Bounds of the job runs: two jobs are enough for every conflict of a slot and for a
reused key; two cancel requests meet on one job. The planner's reports are cut to
24 and 78 (one before and one after a question) and the event limit, 500 in the
code, to 7 in `jobs_safety`: a job from a source with one of the reports logs its
completion, one with both finds its log full. `jobs_safety` deletes no user: with a
deletion a surviving task may write into the job that got its key (section 6).
`jobs_end` deletes one and keeps logs to four events: a failure, a cancellation
and an interruption are logged, a completion is not. A page is open next to one job
(`MaxWatched`), which it may follow from any moment and reload at any time; jobs of
sources are left to `jobs_safety`. `CHECK_DEADLOCK FALSE` because `MaxRuns` jobs
may all have ended.

Fairness of `jobs_end`: weak fairness of every task's steps (the loop runs what is
ready; the HTTP client and the model client answer, fail or time out), of the
cancel requests' continuation, of the restart (the service is supervised), of the
browser's reconnection and of the page's own request, which is answered or fails.
Strong fairness of reading the stream and of delivering an event: with weak
fairness alone a service that crashes at every start, or a connection that breaks
before each event, would keep the page waiting, and neither is the program's doing.
None of creation, cancellation, crashes, deletions or reloads.

Bounds of the chat runs: `chat_turns` has one turn at a time, as the clients send
them, and four in a row: a call that is denied, its resumption, a crash in it, and
the turn after. Two calls in one answer are the least with a call behind another;
two iterations are the least with an observation that the model sees. One Skill
that stops and starts, up to four messages. `chat_overlap` has two requests of an
embedding at a time, whose client may ask for a resumption at any moment, and five in
all, with two calls: the least with which a call is executed twice (a resumption that
is denied once more asks again for the call behind it, which another request is just
executing). So `NoMoreThanCalled` is no consequence of `SentOnce` there. It checks
nothing of the status: two turns that overlap overwrite each other's status, question and
loaded Skills (each writes what its own session remembers), which the code accepts.
`MaxCalls`, `MaxBatch`, `MaxStarted` and `MaxMessages` bound what is unbounded in the
code. `CHECK_DEADLOCK FALSE` because all turns may have ended. Two Skills with Tools of
the same name are covered by the proofs only.

Bounds of the other runs:

- `tools`: two sources, one with two Tools; one Skill, of which the Tools may be of
  both; one handler without the write lock, across which every locked handler can
  commit; OAuth for one of the sources (`OAuthable`), the other has its login Tool.
- `agents`: three Agents (the default, its successor, one more), two providers, one
  Skill.
- `embed`: one Agent, embed, session and popup login, two requests that present the
  same grant or log out meanwhile. Idle time 1, absolute time 2, login 1, grant 2,
  clock 3: the session's end falls before, into and behind a login and its grant.
- `admin`: the system administrator and one user, two sessions, two handlers, two
  keys (the second replaces the first).
- `logins`: two sources (a login Tool that moves from one to the other), one owner,
  one session, two requests, two clients of a source; idle time 1, absolute time 2,
  token 1, clock 2.

`CHECK_DEADLOCK FALSE` in `embed`, `admin` and `logins`, because the clock, the rows
and the keys of an instance are used up in the end. Symmetry, where a run has it, is
of handlers or rows that no property names. None of these runs assumes fairness.

## 5. Proofs

For every set of handlers, every choice of kinds and every value of the time
constants that satisfies `KindsAssumption` and `TimesAssumption`:

- `ToolSessionOAuth_proofs`: `TypeCorrect` (the type invariant). `Backed`,
  `LifetimesKept` and `ExpiryErases` from `HoldingInvariant`: the three need each
  other (an answer that stores a token does so in a row, a credential and a flow at
  once), and that login data is stored with the end of the flow only (`LoginEndsFlow`).
  `ThrottleDurable`: the next poll moves to now plus the interval, which is no step
  back only because it never lies further ahead (`PollWithinInterval`).
- In its second half `ClaimsCorrect`. `OneOperationPerLease` and `StateIsSingleUse`
  are not inductive: they say nothing of how handlers relate to the flow.
  `ClaimsFollowFlow` adds that (the newest holder finds the flow as it left it unless it
  has ended; older ones have lost their lease; a pending browser flow is unclaimed). Each step has one of four shapes (`StepShape`):
  nobody goes to the issuer (`Quiet`), a claim (`Claims`), a consumed state
  (`Consumes`), the end of a claim (`Ends`). One lemma per shape proves that it
  preserves the invariant. `SingleFlight`, `SingleUse` and `EndedFlow` follow.
  So do `Implements` (every step is a step of `FencedOperation` or stutters) and
  `StaleResults`.

For every set of administrators, sources and cancel requests, every set of
planner progress values and every limit that satisfies `JobsAssumption`:

- `AgentifyJobs_proofs`: `JobsTypeCorrect` and `OneJobPerSlot`, both with deleted
  users. `TypeOK` is not inductive, because the key of a new row is one more than
  the greatest key: `TypeInv` adds that no key exceeds the number of jobs created.
  For `OneJobPerSlot` most steps activate no row (`NoneActivated`); only a creation
  and a report of a task that believes its job is queued do, and both look at the
  slot first (`create_job`, and the partial unique index that makes `emit` raise).
  `SkillsKeepSource`, with deleted users too: a task reads its source when it starts,
  and `SourceInv` adds that Skills in use belong to a task that has started and that a
  run starts once.
- From the assumption that no user is deleted (`Removed = {}`): `JobsLifeInv`, and from
  it `OutcomesHold`, `ProgressInOrder`, `EndedIsFinal` and `LogTellsStatus`. None of the
  four properties is inductive: they say nothing of the tasks. `LifeInv` adds that a
  live task works on the row with its own number, which is active and which it knows as
  it is (`TasksDrive`), that the registry and the cancel requests point at the right
  run, and that what has been created belongs to a task past its commit (`MadeByLate`).
  Each step has one of five shapes: a task goes on (`Proceeds`) or ends (`Ends`), a row
  without a task is closed (`Closes`), nothing of a job changes (`Rests`), or it is one
  of `Create`, `Crash` and `Restart`. One lemma per shape proves that it preserves the
  invariant. For `LogTellsStatus`, `LogInv` adds what the log of a running job says at
  each place of its task (closed only before the last commit, `LogsAgree`) and that a
  task between two awaits has the loop (`LoopHeld`): status and log differ only inside
  one turn of the loop. The assumption is needed: with a deleted user a surviving task
  may find another job under its key, and `ProgressMonotone` is refuted there.
- With `StreamAssumption`, about the page. `PageLeavesJobs` is the refinement: `StreamSpec`
  implies `Spec`, the page and its stream only look on, so every theorem about jobs
  holds next to an open page. `PageShowsTruth` proves `PageIsTrue`, with no user deleted:
  `PageInv` adds that the page has what its stream has sent, that the server has read no
  further than the log goes, and that it has read a terminal event only of a job that is
  over. That a page has missed nothing when it closes needs that logs only grow
  (`Carried`) and that only terminal events follow a terminal one (`TailsTerminal`), and
  a pass of the stream needs `LogTellsStatus`.

For every set of turns, channels and Skills, every choice of Skills whose Tools share a
name and any bound of calls, iterations and turns (`ChatAssumption`):

- `ChatTurn_proofs`, for turns that overlap: `ChatTypeCorrect`, `CallsCounted` and
  `AnswersFollow`. For `CallsCounted` (no more calls are executed than the model has made)
  `CountInv` counts what may still be executed: each call a turn has to handle, or the
  denied call it resumes, until it is accepted (`Claims`), and the one that the status
  offers for resumption (`StatusClaim`). Executed calls and claims together never exceed
  the calls of the model: a new call pays for its claim, a denial hands its claim to the
  status, and a resumption takes it from there. `TypeInv` adds to the types that the calls a turn has to handle were
  issued; `OverlapInv`, that whatever names a call (the pending question, the page, a
  turn) names one of a logged assistant message.
- For turns that follow each other: `AnswersStayInPlace`, `StatusKeepsItsPromise` and
  `CallsSentOnce` are proved of `Spec /\ []OneAtATime`. The hypothesis is one on the
  clients, which send the next message after the last answer; nothing in the code keeps
  turns apart, and two that overlap overwrite each other's status and question (section
  6). TLC refutes each of the three for two turns that overlap: `SentOnce` takes five
  requests, of which a resumption that is denied again says that an authorization is
  missing while another request is executing the call of a later denial, and a third
  resumes that call once more. It bounds turns in flight only:
  crashes, broken streams, Skills that stop, a page's results and requests that are
  refused at once come at any time. The invariants are layers, each proved from those
  below: `PlaceInv` (the calls of a turn are those of the last assistant message, a
  question is its only call), `StatusInv` (the calls still to handle are unanswered and
  numbered in turn, and what a turn is about to set as its outcome is already true),
  `SentInv` (a denial that can be resumed is one of a call never executed, nor is any
  call still to handle).

For every set of sources, Tools and Skills, every assignment of Tools and any set of
sources that allow OAuth (`CatalogAssumption`):

- `ToolCatalog_proofs`: `CatalogTypeCorrect`, `SkillsGoAlong`, `RunningUsable`,
  `LoginToolsReady`, `DeletedIsOff` and `SchemesAgree`. Given the types, each of the
  four invariants is inductive, so the work is in the steps, and it is shared
  (`StepShape`): a step keeps every Tool that can be called (`KeepsTools`), or takes away
  a set of them which no login configuration needs and whose Skills stop at the same
  commit (`TakesTools`). `RunningUsable` leaves out the Skills in
  `unfit`, which were bound to Tools that could not be called: it says that no later step
  brings a running Skill into that state. `SchemesAgree` proves that OAuth and a login
  Tool exclude each other on every source, and what `auth_mode` says where it is not
  `outdated`. Both sets are defined by what the commits in question do (section 3).

For every set of Agents, providers and Skills (`AgentsAssumption`):

- `Agents_proofs`: `AgentsTypeCorrect`, `OneDefault` and `ProvidersStay`.
  `OneDefaultEnabled` is inductive with the types: a default can only be moved to an
  Agent that is enabled, and cannot be disabled or deleted. `ProviderStays` is an
  action property: a provider that ends is free of kept Agents at that commit.

For every set of users, sessions, handlers and any number of keys
(`AdminAssumption`, with finitely many handlers):

- `AdminAccess_proofs`: `AdminTypeCorrect`, `SignedOut`, `SetUpIsOnce`,
  `ResetsHaveKeys`. `ShutOut` needs that a handler which has loaded a user has
  loaded an ordinary one (`LoadedOrdinary`), or the administrator's own row could be
  ended by it; then each change of a user has one of a few shapes (`UsersChange`).
  `ResetsSpendKeys` is not inductive: the invariant (`KeysCount`) counts resets,
  handlers that hold a spent key and the key in the file, and their sum never
  exceeds the keys issued.

For every set of Agents, embeds, sessions, logins and requests and every value of the
times (`EmbedAssumption`: the first three sets are not empty, as a request names one
of each):

- `EmbedAccess_proofs`: `EmbedTypeCorrect`, `OneExchange`, `DeliveredInTime`.
  `ExchangedOnce` says nothing of a grant that has not been used: `GrantInvariant`
  adds that a grant which can still be used has not been exchanged (`GrantsCount`),
  that it belongs to an embed session which was issued (`SessionsIssued`) and ends
  before that session does (`GrantsEnd`). Each step changes grants in one of few shapes;
  for a row that is revoked, a login that ends later (`FinishLogin`, `StoreToken`,
  `CreateGrant`) is one of them, and leaves it revoked.

For every set of sources, owners, sessions, requests, clients and every value of the
times (`LoginAssumption`):

- `ToolLogins_proofs`: `LoginsTypeCorrect`; `EndedForgets`, `EndedForGood` and
  `ReloginReady` from `EndsInv` (a row that has ended has no login data, no ready
  credential); `TokensAtHome`, from the configuration that a request has read before
  it asks; `CachedFits`.

Every safety property and action property that a run checks is proved, for all
constants, under the hypotheses named above, but for `FailedMadeNothing`, which a run
refutes. Only model-checked: liveness under fairness (`DeviceFlowEnds`, `HandlersEnd`,
`AllEnds`), which is out of the prover's reach, with `ENABLED` and what recursive
definitions compute.

## 6. Known gaps, and what is not modelled

The models do what the code does. Where that differs from what a document or a test
says, or from what one would expect, no property is stated about it but for
`FailedMadeNothing` (run `jobs_interrupted`). Paths of documents are under
`docs/superpowers/`, those of code under `backend/src/chat4openapi/`.

Tool Sessions:

- A fetch in flight stores its token in a session revoked meanwhile
  (tool_sessions/oauth.py:1307; plans/2026-07-21-tool-runtime-implementation.md:100).
- `resolve` expires the session for every failure of a refresh, also that of an
  operation overtaken by one that has stored a newer token (tool_sessions/service.py:588;
  `.superpowers/sdd/m7-report.md`:72), and so erases that token. It also serves a session that was revoked during its refresh once
  more, and `_expire` leaves the secret of a pending flow to the flow's own expiry.
- A re-login (`_refresh`) writes ciphertext into a row that has been revoked or has
  expired meanwhile (its status stays), and may move the idle deadline backwards. The
  replay after a 401 looks the session up again, but takes owner and mode as read before.
- A crash between consuming a browser state and storing its token leaves the flow
  pending and consumed until it expires.
- `client_credentials_auth` writes the whole configuration back with the fetched
  token, and so undoes a configuration made meanwhile.

Embeds:

- A turn reads the embed session at its beginning: a revocation reaches its Tool
  calls only after a refresh of the session's token (tool_sessions/service.py:433;
  specs/2026-07-22-agent-embed-agui-webmcp-design.md:209).
- A popup login that is refused after its login Tool has answered leaves the
  credential it has written ready, on a row that has failed (api/embed_auth.py:375).

Jobs:

- The deletion of a user deletes the user's jobs, but not their tasks: one that
  survives writes into the job that gets its key (api/admin_users.py:109;
  specs/2026-07-24-auto-agentify-one-click-live-progress-design.md:189). The safety
  properties are checked and proved without deletions, but for `OneActivePerSlot`.
- The provider is checked before the model is asked only (auto_agentify/service.py:484): a
  generated Agent may start with a provider that is disabled or deleted.
- A job that ends with a full log has no terminal event: the server closes the stream,
  the browser opens it again, and the page takes the job for active until it is
  reloaded (`EndUnlogged`). The same page stays as it is when its one request after
  the terminal event fails (`"lost"`).
- When a crash falls between a task's last event and its status, the restart adds a
  second terminal event, which a page that has seen the first does not show.

Chat:

- Calls behind a page's Tool or a denied one are dropped without an observation
  (chat/agent.py:388; specs/2026-07-21-agent-runtime-markdown-design.md:69).
- Turns that overlap overwrite each other's loaded Skills, question and status, and may so
  execute a denied call twice; what holds for them is `NoMoreThanCalled`. A resumed call
  that raises leaves the conversation running until the next turn.
- A Skill is looked at before its Tool is executed (chat/agent.py:420), and sessions, a
  login or a token are awaited before the request leaves: a Skill stopped meanwhile is
  invoked (plans/2026-07-21-skills-chat-implementation.md:16).

Catalog:

- A Skill is created and updated from reads without the write lock, so that a Tool disabled
  or deleted in between is bound, and the Skill keeps running on it until it is started anew
  (api/admin_skills.py:94; plans/2026-07-21-skills-chat-implementation.md:14).
- A job binds the Tools it was planned with unless they are deleted: also those of a source
  disabled meanwhile, and the Tool of a login configuration
  (auto_agentify/service.py:384-386, 425-434; the same line of the plan).
- `configure_source` writes from what it has read without the lock: `auth_mode` may name a
  scheme that is not enabled, or none while one is (tool_sessions/oauth.py:290;
  docs/tool-session-authentication.md:9-11).
- A refresh of a source deleted meanwhile leaves disabled Tools without a source; one
  that meets the key of a deleted Tool fails.

Administration:

- A password verified before it was changed opens a session after all sessions have
  been ended (services/admin_auth.py:74). `change_password` compares with the row read
  at authentication.
- The key file is read, checked and removed in steps: a key may be accepted while
  another is written, whose file is then removed in its place, and a key is spent
  before the new password is committed.

Not modelled:

- the planner's stages and the catalog's texts: what the model is asked and how its
  answers are scored, repaired and merged. `Plan` takes any order of its reports,
  and that the planner ends is assumed as fairness of its steps, not checked;
- the two synchronous generate endpoints, which keep no job;
- a page that starts a second job while a request about the first is on its way;
- the deletion of a conversation (its messages go with it, and a turn in flight fails
  on the foreign key), which Skills are candidates at the first turn, and how a
  transcript is matched with the stored messages; public-chat browser sessions;
- settings administration (single rows, last write wins), MCP (stateless), request
  building, document loading, the network policy, encryption, model calls: conversions
  or I/O without a protocol of their own;
- the frontend's views and its other stores, which show what they have read last.
