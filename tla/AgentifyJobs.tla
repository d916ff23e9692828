---------------------------- MODULE AgentifyJobs ----------------------------
(***************************************************************************)
(* Auto-Agentify jobs: the job rows with their event logs, the asyncio     *)
(* tasks that run them, cancellation, restarts, and the administration     *)
(* handlers whose rows a job reads and writes (auto_agentify/jobs.py,      *)
(* progress.py, service.py, api/admin_auto_agentify.py).                   *)
(*                                                                         *)
(* A task holds the event loop between two awaits, so nothing else on the  *)
(* loop (creation, cancellation, streams, other tasks) runs meanwhile.     *)
(* Handlers of the thread pool (deleting a source or a user, switching a   *)
(* provider) and a crash can fall between any two of its commits: one      *)
(* action is one commit.                                                   *)
(***************************************************************************)
EXTENDS Integers, Sequences, FiniteSetsExt, Functions

CONSTANTS
    Admins,       \* administrators
    Removed,      \* bound: the ordinary users among them that get deleted
    Sources,      \* imported API Sources
    NoSource,     \* source_id IS NULL: the job brings its own document
    Cancellers,   \* cancel requests that may be in flight together
    PlanProgress, \* the progress values the planner reports (23 to 78)
    MaxJobEvents, \* MAX_JOB_EVENTS
    MaxRuns       \* bound: jobs created

ASSUME JobsAssumption ==
    /\ NoSource \notin Sources
    /\ Removed \subseteq Admins
    /\ PlanProgress \subseteq 22..84
    /\ {MaxJobEvents, MaxRuns} \subseteq Nat \ {0}

VARIABLES
    rows,       \* auto_agentify_jobs: id -> row with its events
    runs,       \* jobs created so far; a run is the work of one of them
    task,       \* the asyncio task of each run
    registry,   \* _tasks: id -> run
    holder,     \* the run whose task holds the event loop, or 0
    canceller,  \* what each cancel request waits for
    up,         \* the process is serving
    admins,     \* admin_users
    alive,      \* sources that are not deleted
    providerOn, \* the LLM provider is enabled
    made,       \* runs whose configuration has been committed
    skillsOn    \* those of which the generated Skills still run

work == <<rows, runs, task, registry, holder, canceller, up>>
catalog == <<admins, alive, providerOn, made, skillsOn>>
vars == <<work, catalog>>

Runs == 1..MaxRuns
Active == {"queued", "running"}
Terminal == {"completed", "failed", "cancelled"}
Inputs == {"source", "url", "file"}

\* What a session's identity map knows of the job: sessions do not expire
\* objects on commit, only on rollback and under serialized_write.
Expired == [status |-> "expired", progress |-> 0]
Known(row) == [status |-> row.status, progress |-> row.progress]

Awaits == {"fetching", "building", "asking"}
Fallible == {"loading", "parsing", "cataloging", "planning", "answered",
             "validated", "persisting"}
Places == Awaits \cup Fallible
    \cup {"none", "starting", "reporting", "closing", "finishing", "failing", "failed", "ended"}

Event(kind, progress) == [kind |-> kind, progress |-> progress]
Events == [kind: {"queued", "progress"} \cup Terminal, progress: 0..100]
Rows == [run: Runs, source: Sources \cup {NoSource}, creator: Admins,
         status: Active \cup Terminal, progress: 0..100,
         result: 0..MaxRuns, log: Seq(Events)]
Tasks == [id: 0..MaxRuns, at: Places, input: Inputs, source: Sources \cup {NoSource},
          known: [status: Active \cup Terminal \cup {"expired"}, progress: 0..100],
          cancelling: BOOLEAN]
NoTask == [id |-> 0, at |-> "none", input |-> "file", source |-> NoSource,
           known |-> Expired, cancelling |-> FALSE]
Idle == [id |-> 0, run |-> 0]

\* Rows, tasks, the registry and cancel requests keep their shape.
TypeOK ==
    /\ DOMAIN rows \subseteq Runs /\ rows \in [DOMAIN rows -> Rows]
    /\ runs \in 0..MaxRuns
    /\ task \in [Runs -> Tasks]
    /\ registry \in [Runs -> 0..MaxRuns]
    /\ holder \in 0..MaxRuns
    /\ canceller \in [Cancellers -> [id: 0..MaxRuns, run: 0..MaxRuns]]
    /\ up \in BOOLEAN /\ providerOn \in BOOLEAN
    /\ admins \subseteq Admins /\ alive \subseteq Sources
    /\ skillsOn \subseteq made /\ made \subseteq Runs

-----------------------------------------------------------------------------
(* Helpers                                                                 *)

Exists(id) == id \in DOMAIN rows
IsActive(id) == Exists(id) /\ rows[id].status \in Active
Live(r) == task[r].at \notin {"none", "ended"}
LoopFree == up /\ holder = 0
Runs_at(r, place) == up /\ holder = r /\ task[r].at = place

\* The rows that one partial unique index compares.
SameSlot(source, creator, row) ==
    row.source = source /\ (source = NoSource => row.creator = creator)
\* Mutant: the partial indexes and create_job overlook queued jobs.
RunningInSlot(source, creator) ==
    {id \in DOMAIN rows : /\ Exists(id) /\ rows[id].status = "running"
                          /\ SameSlot(source, creator, rows[id])}

ActiveInSlot(source, creator) ==
    {id \in DOMAIN rows : IsActive(id) /\ SameSlot(source, creator, rows[id])}

\* The key SQLite gives a new row: one more than the largest in the table.
FreshId == Max({0} \cup DOMAIN rows) + 1

NewRow(r, source, creator) ==
    [run |-> r, source |-> source, creator |-> creator, status |-> "queued",
     progress |-> 0, result |-> 0, log |-> <<Event("queued", 0)>>]

Ended(t) == [t EXCEPT !.at = "ended", !.known = Expired, !.cancelling = FALSE]
Stop(r) == /\ task' = [task EXCEPT ![r] = Ended(@)]
           /\ holder' = 0

\* An exception in the task: _fail_job rolls back, which expires the job.
Fail(r) == /\ task' = [task EXCEPT ![r].at = "failing", ![r].known = Expired]
           /\ UNCHANGED <<rows, holder>>

MoveTo(r, place, known) ==
    /\ task' = [task EXCEPT ![r].at = place, ![r].known = known]
    /\ holder' = IF place \in Awaits THEN 0 ELSE r

-----------------------------------------------------------------------------
(* JobProgressReporter.emit                                                *)

Job(r) == LET row == rows[task[r].id] IN
          IF task[r].known = Expired THEN Known(row) ELSE task[r].known

Seen(r, progress) ==
    [status |-> IF Job(r).status = "queued" THEN "running" ELSE Job(r).status,
     progress |-> progress]

Logged(log, kind, progress) ==
    IF Len(log) < MaxJobEvents THEN Append(log, Event(kind, progress)) ELSE log

\* The flush writes the columns that differ from what the session knew.
Reported(r, kind, progress) ==
    [rows[task[r].id] EXCEPT
        !.status = IF Job(r).status = "queued" THEN "running" ELSE @,
        !.progress = IF Job(r).progress # progress THEN progress ELSE @,
        !.log = Logged(@, kind, progress)]

\* The row is gone, progress would decrease, or the job would become active
\* again next to another one of its slot.
EmitRaises(r, progress) ==
    LET id == task[r].id IN
    \/ ~Exists(id)
    \/ progress < Job(r).progress
    \/ /\ Job(r).status = "queued" /\ ~IsActive(id)
       /\ ActiveInSlot(rows[id].source, rows[id].creator) # {}

Emit(r, kind, progress, next) ==
    IF EmitRaises(r, progress) THEN Fail(r)
    ELSE /\ rows' = [rows EXCEPT ![task[r].id] = Reported(r, kind, progress)]
         /\ MoveTo(r, next, Seen(r, progress))

-----------------------------------------------------------------------------
(* Creating and running a job                                              *)

\* create_job and schedule_auto_agentify_job. The task is the next thing the
\* loop runs: no client knows the job before its creation was answered.
Create(a, input, s) ==
    /\ LoopFree /\ runs < MaxRuns
    /\ a \in admins
    /\ IF input = "source" THEN s \in alive ELSE s = NoSource
    /\ ActiveInSlot(s, a) = {}
    /\ providerOn
    /\ runs' = runs + 1
    /\ rows' = [id \in DOMAIN rows \cup {FreshId} |->
                    IF id = FreshId THEN NewRow(runs', s, a) ELSE rows[id]]
    /\ registry' = [registry EXCEPT ![FreshId] = runs']
    /\ task' = [task EXCEPT ![runs'] =
                    [NoTask EXCEPT !.id = FreshId, !.at = "starting", !.input = input]]
    /\ holder' = runs'
    /\ UNCHANGED <<canceller, up, catalog>>

\* _run_job up to its first await: the job is read, the document may have to
\* be fetched.
Start(r) ==
    /\ Runs_at(r, "starting")
    /\ IF ~Exists(task[r].id) THEN Stop(r)
       ELSE LET row == rows[task[r].id] IN
            /\ task' = [task EXCEPT ![r].known = Known(row), ![r].source = row.source,
                    ![r].at = IF task[r].input = "url" THEN "fetching" ELSE "loading"]
            /\ holder' = IF task[r].input = "url" THEN 0 ELSE r
    /\ UNCHANGED <<rows, runs, registry, canceller, up, catalog>>

\* The first report of generate, after its checks of provider and source.
Load(r) ==
    /\ Runs_at(r, "loading")
    /\ IF ~providerOn \/ (task[r].input = "source" /\ task[r].source \notin alive)
       THEN Fail(r)
       ELSE IF task[r].input = "source" THEN Emit(r, "progress", 15, "cataloging")
            ELSE Emit(r, "progress", 5, "parsing")
    /\ UNCHANGED <<runs, registry, canceller, up, catalog>>

\* The document is valid; build_candidates is awaited.
Parse(r) ==
    /\ Runs_at(r, "parsing")
    /\ Emit(r, "progress", 15, "building")
    /\ UNCHANGED <<runs, registry, canceller, up, catalog>>

\* operations_discovered, the last report before the planner.
Catalogue(r) ==
    /\ Runs_at(r, "cataloging")
    /\ Emit(r, "progress", 22, "planning")
    /\ UNCHANGED <<runs, registry, canceller, up, catalog>>

\* Mutant: the planner asks again for as long as the answer is not valid.
PlanForever(r, progress, next) ==
    /\ Runs_at(r, "planning") \/ Runs_at(r, "answered")
    /\ progress >= task[r].known.progress
    /\ next \in {"planning", "asking", "answered", "validated"}
    /\ Emit(r, "progress", progress, next)
    /\ UNCHANGED <<runs, registry, canceller, up, catalog>>

\* A report of the planner and what follows it: another one, a question to
\* the model, or, once it has answered, the plan. Reports that repeat a
\* progress value are one.
Plan(r, progress, next) ==
    /\ Runs_at(r, "planning") \/ Runs_at(r, "answered")
    /\ progress >= task[r].known.progress
    /\ \/ next = "asking" /\ task[r].at = "planning"
       \/ next = "validated" /\ task[r].at = "answered"
       \/ next \in {task[r].at, "asking"} /\ progress > task[r].known.progress
    /\ Emit(r, "progress", progress, next)
    /\ UNCHANGED <<runs, registry, canceller, up, catalog>>

\* persistence_started.
Announce(r) ==
    /\ Runs_at(r, "validated")
    /\ Emit(r, "progress", 85, "persisting")
    /\ UNCHANGED <<runs, registry, canceller, up, catalog>>

\* Mutant: _persist trusts the source that was read before the model was asked.
PersistUnchecked(r) ==
    /\ Runs_at(r, "persisting")
    /\ made' = made \cup {r}
    /\ skillsOn' = skillsOn \cup {r}
    /\ MoveTo(r, "reporting", Expired)
    /\ UNCHANGED <<rows, runs, registry, canceller, up, admins, alive, providerOn>>

\* _persist under serialized_write: the source is read again, the provider
\* is not.
Persist(r) ==
    /\ Runs_at(r, "persisting")
    /\ task[r].input = "source" => task[r].source \in alive
    /\ made' = made \cup {r}
    /\ skillsOn' = skillsOn \cup {r}
    /\ MoveTo(r, "reporting", Expired)
    /\ UNCHANGED <<rows, runs, registry, canceller, up, admins, alive, providerOn>>

\* configuration_created, then the completed event.
Report(r) ==
    /\ \/ Runs_at(r, "reporting") /\ Emit(r, "progress", 98, "closing")
       \/ Runs_at(r, "closing") /\ Emit(r, "completed", 100, "finishing")
    /\ UNCHANGED <<runs, registry, canceller, up, catalog>>

\* The end of _run_job: the result, in a commit of its own.
Finish(r) ==
    /\ Runs_at(r, "finishing")
    /\ IF ~Exists(task[r].id) THEN Fail(r)
       ELSE /\ rows' = [rows EXCEPT ![task[r].id] =
                   [@ EXCEPT !.status = "completed", !.progress = 100, !.result = r]]
            /\ Stop(r)
    /\ UNCHANGED <<runs, registry, canceller, up, catalog>>

\* Whatever else raises: a document that does not parse, a plan that does
\* not validate, a source deleted meanwhile, a conflict of the write.
Raise(r) ==
    /\ up /\ holder = r /\ task[r].at \in Fallible
    /\ Fail(r)
    /\ UNCHANGED <<runs, registry, canceller, up, catalog>>

\* _fail_job: the failed event, then the status, in two commits.
ReportFailure(r) ==
    /\ Runs_at(r, "failing")
    /\ IF ~Exists(task[r].id) THEN Stop(r) /\ UNCHANGED rows
       ELSE Emit(r, "failed", rows[task[r].id].progress, "failed")
    /\ UNCHANGED <<runs, registry, canceller, up, catalog>>

MarkFailed(r) ==
    /\ Runs_at(r, "failed")
    /\ IF ~Exists(task[r].id) THEN UNCHANGED rows
       ELSE rows' = [rows EXCEPT ![task[r].id].status = "failed"]
    /\ Stop(r)
    /\ UNCHANGED <<runs, registry, canceller, up, catalog>>

AfterAwait == [fetching |-> "loading", building |-> "cataloging", asking |-> "answered"]

\* The document, the candidates or the model's answer arrive, or an error.
Resume(r) ==
    /\ LoopFree /\ task[r].at \in Awaits /\ ~task[r].cancelling
    /\ \/ task' = [task EXCEPT ![r].at = AfterAwait[@]]
       \/ task' = [task EXCEPT ![r].at = "failing", ![r].known = Expired]
    /\ holder' = r
    /\ UNCHANGED <<rows, runs, registry, canceller, up, catalog>>

\* CancelledError at the await: not an Exception, so nothing is reported.
Unwind(r) ==
    /\ LoopFree /\ task[r].at \in Awaits /\ task[r].cancelling
    /\ Stop(r)
    /\ UNCHANGED <<rows, runs, registry, canceller, up, catalog>>

-----------------------------------------------------------------------------
(* Cancelling, stopping and starting the process                           *)

\* Mutant: a status without its event.
ClosedSilently(row, status) == [row EXCEPT !.status = status]

\* Mutant: the closing event carries the progress of an empty job.
ClosedAtZero(row, status) ==
    [row EXCEPT !.status = status, !.log = Append(@, Event(status, 0))]

Closed(row, status) ==
    [row EXCEPT !.status = status, !.log = Append(@, Event(status, row.progress))]

\* Mutant: a job that completed while its task was cancelled counts as open.
FinalizeCompleted(id) ==
    rows' = IF Exists(id) /\ rows[id].status \notin {"failed", "cancelled"}
            THEN [rows EXCEPT ![id] = Closed(@, "cancelled")] ELSE rows

\* The second half of cancel_auto_agentify_job. The limit of events is not
\* looked at.
Finalize(id) ==
    rows' = IF IsActive(id) THEN [rows EXCEPT ![id] = Closed(@, "cancelled")] ELSE rows

\* Mutant: the job is closed without waiting for its task to end.
RequestCancelAtOnce(c, id) ==
    /\ LoopFree /\ Exists(id) /\ canceller[c] = Idle
    /\ Finalize(id)
    /\ UNCHANGED <<runs, task, registry, holder, canceller, up, catalog>>

\* A live task is cancelled and awaited; otherwise the row is closed at once.
RequestCancel(c, id) ==
    /\ LoopFree /\ Exists(id) /\ canceller[c] = Idle
    /\ LET r == registry[id] IN
       IF r # 0 /\ Live(r)
       THEN /\ task' = [task EXCEPT ![r].cancelling = TRUE]
            /\ canceller' = [canceller EXCEPT ![c] = [id |-> id, run |-> r]]
            /\ UNCHANGED rows
       ELSE Finalize(id) /\ UNCHANGED <<task, canceller>>
    /\ UNCHANGED <<runs, registry, holder, up, catalog>>

\* Mutant: the request goes on only if the job is still to be closed.
FinishCancelIfActive(c) ==
    /\ LoopFree /\ canceller[c] # Idle /\ ~Live(canceller[c].run)
    /\ IsActive(canceller[c].id)
    /\ Finalize(canceller[c].id)
    /\ canceller' = [canceller EXCEPT ![c] = Idle]
    /\ UNCHANGED <<runs, task, registry, holder, up, catalog>>

FinishCancel(c) ==
    /\ LoopFree /\ canceller[c] # Idle /\ ~Live(canceller[c].run)
    /\ Finalize(canceller[c].id)
    /\ canceller' = [canceller EXCEPT ![c] = Idle]
    /\ UNCHANGED <<runs, task, registry, holder, up, catalog>>

\* The process stops, by a crash or at shutdown: what is in memory is lost.
Crash ==
    /\ up /\ up' = FALSE
    /\ task' = [r \in Runs |-> IF Live(r) THEN Ended(task[r]) ELSE task[r]]
    /\ registry' = [id \in Runs |-> 0]
    /\ holder' = 0
    /\ canceller' = [c \in Cancellers |-> Idle]
    /\ UNCHANGED <<rows, runs, catalog>>

\* The lifespan of the application: mark_interrupted_jobs, then it serves.
Restart ==
    /\ ~up /\ up' = TRUE
    /\ rows' = [id \in DOMAIN rows |->
                   IF IsActive(id) THEN Closed(rows[id], "failed") ELSE rows[id]]
    /\ UNCHANGED <<runs, task, registry, holder, canceller, catalog>>

-----------------------------------------------------------------------------
(* Handlers of the thread pool                                             *)

\* delete_source stops the Skills that use its Tools.
DeleteSource(s) ==
    /\ up /\ s \in alive
    /\ alive' = alive \ {s}
    /\ skillsOn' = {r \in skillsOn : task[r].source # s}
    /\ UNCHANGED <<work, admins, providerOn, made>>

\* delete_user: the foreign key cascades to the user's jobs and their events.
DeleteUser(a) ==
    /\ up /\ a \in Removed \cap admins
    /\ admins' = admins \ {a}
    /\ rows' = Restrict(rows, {id \in DOMAIN rows : rows[id].creator # a})
    /\ UNCHANGED <<runs, task, registry, holder, canceller, up,
                   alive, providerOn, made, skillsOn>>

\* update_provider and delete_provider: _ensure_not_agent_provider.
SwitchProvider ==
    /\ up
    /\ providerOn => made = {}
    /\ providerOn' = ~providerOn
    /\ UNCHANGED <<work, admins, alive, made, skillsOn>>

-----------------------------------------------------------------------------
Init ==
    /\ rows = [id \in {} |-> Idle]
    /\ runs = 0
    /\ task = [r \in Runs |-> NoTask]
    /\ registry = [id \in Runs |-> 0]
    /\ holder = 0
    /\ canceller = [c \in Cancellers |-> Idle]
    /\ up = TRUE
    /\ admins = Admins /\ alive = Sources
    /\ providerOn = TRUE
    /\ made = {} /\ skillsOn = {}

\* What the event loop and the outside do for a task that exists.
Step(r) ==
    \/ Start(r) \/ Load(r) \/ Parse(r) \/ Catalogue(r)
    \/ \E progress \in PlanProgress, next \in {"planning", "asking", "answered", "validated"} :
          Plan(r, progress, next)
    \/ Announce(r) \/ Persist(r) \/ Report(r) \/ Finish(r)
    \/ Raise(r) \/ ReportFailure(r) \/ MarkFailed(r)
    \/ Resume(r) \/ Unwind(r)

Next ==
    \/ \E a \in Admins, input \in Inputs, s \in Sources \cup {NoSource} : Create(a, input, s)
    \/ \E r \in Runs : Step(r)
    \/ \E c \in Cancellers, id \in Runs : RequestCancel(c, id)
    \/ \E c \in Cancellers : FinishCancel(c)
    \/ Crash \/ Restart
    \/ \E s \in Sources : DeleteSource(s)
    \/ \E a \in Admins : DeleteUser(a)
    \/ SwitchProvider

Spec == Init /\ [][Next]_vars

\* The loop runs every ready task, a cancel request resumes when its task has
\* ended, the network and the model answer or time out, the service restarts.
Fairness ==
    /\ \A r \in Runs : WF_vars(Step(r))
    /\ \A c \in Cancellers : WF_vars(FinishCancel(c))
    /\ WF_vars(Restart)

-----------------------------------------------------------------------------
(* Properties                                                              *)

\* One active job per source, or per administrator for jobs that bring their
\* own document, whatever creations, cancellations, restarts and deletions of
\* users come together (create_job and the two partial indexes).
OneActivePerSlot ==
    \A id, other \in DOMAIN rows :
        IsActive(id) /\ IsActive(other)
            /\ SameSlot(rows[id].source, rows[id].creator, rows[other]) => id = other

\* A cancelled job has created nothing: no cancellation falls between the
\* commit of the configuration and the completion of the job.
CancelledMadeNothing ==
    \A id \in DOMAIN rows : rows[id].status = "cancelled" => rows[id].run \notin made

\* A completed job carries what was generated for it, and that exists.
CompletedIsMade ==
    \A id \in DOMAIN rows : rows[id].status = "completed" =>
        rows[id].result = rows[id].run /\ rows[id].run \in made

\* What the status of an ended job says about its configuration is true,
\* wherever a cancellation meets the four commits at the end of a job.
Outcomes == CancelledMadeNothing /\ CompletedIsMade

LastKind(row) == row.log[Len(row.log)].kind

\* Whoever reads on the event loop (a stream) finds a terminal event at the end
\* of the log exactly when the status is terminal, and the same one, unless the
\* log is full: a stream that sees the status has all events to send.
StatusFollowsLog ==
    LoopFree => \A id \in DOMAIN rows : LET row == rows[id] IN
        IF LastKind(row) \in Terminal THEN row.status = LastKind(row)
        ELSE row.status \in Terminal => Len(row.log) >= MaxJobEvents

\* Progress in the log of a job never decreases, across its reports, its
\* failure, its cancellation and its interruption, and the row agrees with it.
ProgressMonotone ==
    \A id \in DOMAIN rows : LET log == rows[id].log IN
        /\ \A i, j \in 1..Len(log) : i <= j => log[i].progress <= log[j].progress
        /\ log[Len(log)].progress <= rows[id].progress

\* Skills never run on Tools of a deleted source, although a job reads its
\* source long before it writes (the second read in _persist).
SkillsHaveSource ==
    \A r \in skillsOn : task[r].input = "source" => task[r].source \in alive

SameJob(id) == Exists(id) /\ id \in DOMAIN rows' /\ rows'[id].run = rows[id].run

\* A job that has ended stays as it ended, log included: a task that is
\* cancelled does not come back after the cancellation was written.
TerminalIsFinal ==
    [][\A id \in Runs : SameJob(id) /\ rows[id].status \in Terminal
            => rows'[id] = rows[id]]_vars

\* Every job ends: by itself, by cancellation or by the restart after a crash.
JobsEnd == \A id \in Runs : IsActive(id) ~> ~IsActive(id)

\* Every cancel request is answered.
CancelsEnd == \A c \in Cancellers : canceller[c] # Idle ~> canceller[c] = Idle

-----------------------------------------------------------------------------
(* What the documents say and the code does not do                         *)

\* "Failure leaves no partial generated configuration and provides a safe
\* retry path": a failed job has created nothing.
FailedMadeNothing ==
    \A id \in DOMAIN rows : rows[id].status = "failed" => rows[id].run \notin made
=============================================================================
