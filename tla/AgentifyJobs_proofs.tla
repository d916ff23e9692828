------------------------- MODULE AgentifyJobs_proofs -------------------------
(***************************************************************************)
(* Proofs about AgentifyJobs and AgentifyStream for every set of           *)
(* administrators, sources and cancel requests, every limit of the event   *)
(* log and any number of jobs.                                             *)
(*                                                                         *)
(* Types, slots and Skills with their source hold whichever users are      *)
(* deleted. The life of a job (its row, task, cancellation, log and what   *)
(* it creates), and the page that follows one, are proved for users that   *)
(* stay: when a user is deleted a key is given twice, and ProgressMonotone *)
(* is refuted.                                                             *)
(***************************************************************************)
EXTENDS AgentifyStream, WellFoundedInduction, TLAPS

\* A set of naturals with an upper bound has a greatest element.
LEMMA GreatestOf ==
    ASSUME NEW n \in Nat, NEW S, S \subseteq 0..n, S # {}
    PROVE  /\ Max(S) \in S
           /\ \A x \in S : x <= Max(S)
<1> DEFINE Above == {m \in Nat : \A x \in S : x <= m}
           Less == OpToRel(<, Nat)
<1>1. \E m \in Above : \A k \in Above : <<k, m>> \notin Less
  <2>1. n \in Above
    OBVIOUS
  <2>2. Above \subseteq Nat /\ Above # {}
    BY <2>1
  <2>3. IsWellFoundedOn(Less, Nat)
    BY NatLessThanWellFounded
  <2> HIDE DEF Above, Less
  <2> QED BY <2>2, <2>3, WFMin
<1>2. PICK m \in Above : \A k \in Above : ~(k < m)
  BY <1>1, Zenon DEF OpToRel
<1>3. m \in S
  <2> SUFFICES ASSUME m \notin S PROVE FALSE
    OBVIOUS
  <2>0. m \in Nat /\ \A x \in S : x <= m
    OBVIOUS
  <2>1. m # 0
    <3>1. PICK x \in S : TRUE
      OBVIOUS
    <3>2. x \in Nat /\ x <= m /\ x # m
      BY <2>0, <3>1
    <3> QED BY <3>2
  <2>2. m - 1 \in Above
    <3>1. \A x \in S : x \in Nat /\ x <= m /\ x # m
      BY <2>0
    <3>2. \A x \in S : x <= m - 1
      BY <2>0, <3>1
    <3> QED BY <2>0, <2>1, <3>2
  <2> QED BY <1>2, <2>0, <2>2
<1>4. \A x \in S : m >= x
  BY <1>2
<1>5. \E x \in S : \A y \in S : x >= y
  BY <1>3, <1>4
<1> QED BY <1>5 DEF Max

-----------------------------------------------------------------------------
(* Types                                                                   *)

\* TypeOK is not inductive: a new key is typed because keys are given in turn.
TypeInv == TypeOK /\ DOMAIN rows \subseteq 1..runs

RowsOK == /\ DOMAIN rows \subseteq Runs /\ rows \in [DOMAIN rows -> Rows]
          /\ DOMAIN rows \subseteq 1..runs

\* The bounds are positive numbers.
LEMMA Bounds == /\ MaxRuns \in Nat \ {0} /\ MaxJobEvents \in Nat \ {0}
                /\ PlanProgress \subseteq 22..84
                /\ NoSource \notin Sources /\ Removed \subseteq Admins
BY JobsAssumption

\* A new row gets a key that no row has, at most one above all runs so far.
LEMMA FreshKey ==
    ASSUME NEW n \in Nat, DOMAIN rows \subseteq 1..n
    PROVE  /\ FreshId \in 1..(n + 1)
           /\ FreshId \notin DOMAIN rows
<1> DEFINE S == {0} \cup DOMAIN rows
<1>1. S \subseteq 0..n /\ S # {}
  OBVIOUS
<1>2. Max(S) \in S /\ \A x \in S : x <= Max(S)
  <2> HIDE DEF S
  <2> QED BY <1>1, GreatestOf
<1>3. Max(S) \in 0..n /\ \A x \in DOMAIN rows : x <= Max(S) /\ x \in Nat
  BY <1>1, <1>2
<1>4. FreshId = Max(S) + 1
  BY DEF FreshId
<1> HIDE DEF S
<1> QED BY <1>3, <1>4

\* A row is a row.
LEMMA RowType ==
    ASSUME TypeOK, NEW id, Exists(id)
    PROVE  /\ id \in Runs /\ rows[id] \in Rows
           /\ rows[id].progress \in 0..100 /\ rows[id].log \in Seq(Events)
BY DEF TypeOK, Exists, Rows

\* Replacing a row by a row keeps the table.
LEMMA ReplaceType ==
    ASSUME TypeInv, NEW id, Exists(id), NEW row \in Rows,
           rows' = [rows EXCEPT ![id] = row], runs' = runs
    PROVE  RowsOK'
BY DEF TypeInv, TypeOK, RowsOK, Exists, Runs

\* Leaving all rows alone keeps the table.
LEMMA SameRowsType == ASSUME TypeInv, UNCHANGED <<rows, runs>> PROVE RowsOK'
BY DEF TypeInv, TypeOK, RowsOK, Runs

TaskOK == task \in [Runs -> Tasks] /\ holder \in 0..MaxRuns

\* What a session knows of a job.
Knowledge == [status: Active \cup Terminal \cup {"expired"}, progress: 0..100]

\* A task record keeps its type when it moves and learns.
LEMMA TaskRecord ==
    ASSUME NEW t \in Tasks, NEW place \in Places, NEW known \in Knowledge
    PROVE  /\ [t EXCEPT !.at = place, !.known = known] \in Tasks
           /\ [t EXCEPT !.at = place, !.known = known, !.cancelling = FALSE] \in Tasks
BY DEF Tasks, Knowledge

\* Moving a task, ending it and letting it fail keep its type.
LEMMA MoveType ==
    ASSUME TypeOK, NEW r \in Runs, NEW place \in Places, NEW known \in Knowledge,
           MoveTo(r, place, known)
    PROVE  TaskOK'
<1>1. r \in 0..MaxRuns /\ 0 \in 0..MaxRuns
  BY Bounds DEF Runs
<1>2. [task[r] EXCEPT !.at = place, !.known = known] \in Tasks
  BY TaskRecord DEF TypeOK
<1>3. task' = [task EXCEPT ![r] = [task[r] EXCEPT !.at = place, !.known = known]]
  BY DEF MoveTo, TypeOK
<1> QED BY <1>1, <1>2, <1>3 DEF MoveTo, TaskOK, TypeOK

LEMMA ExpiredType == Expired \in Knowledge
BY DEF Expired, Knowledge

LEMMA StopType == ASSUME TypeOK, NEW r \in Runs, Stop(r) PROVE TaskOK'
<1>1. 0 \in 0..MaxRuns /\ "ended" \in Places
  BY Bounds DEF Places
<1>2. Ended(task[r]) \in Tasks
  BY <1>1, ExpiredType, TaskRecord DEF Ended, TypeOK
<1> QED BY <1>1, <1>2 DEF Stop, TaskOK, TypeOK

LEMMA FailType == ASSUME TypeInv, NEW r \in Runs, Fail(r), runs' = runs PROVE TaskOK' /\ RowsOK'
<1>1. "failing" \in Places
  BY DEF Places
<1>2. [task[r] EXCEPT !.at = "failing", !.known = Expired] \in Tasks
  BY <1>1, ExpiredType, TaskRecord DEF TypeInv, TypeOK
<1>3. task' = [task EXCEPT ![r] = [task[r] EXCEPT !.at = "failing", !.known = Expired]]
  BY DEF Fail, TypeInv, TypeOK
<1>4. TaskOK'
  BY <1>2, <1>3 DEF Fail, TaskOK, TypeInv, TypeOK
<1> QED BY <1>4, SameRowsType DEF Fail

\* A report keeps the types.
LEMMA EmitType ==
    ASSUME TypeInv, NEW r \in Runs, NEW kind \in {"progress"} \cup Terminal,
           NEW progress \in 0..100, NEW next \in Places,
           Emit(r, kind, progress, next), runs' = runs
    PROVE  TaskOK' /\ RowsOK'
<1>1. CASE EmitRaises(r, progress)
  BY <1>1, FailType DEF Emit
<1>2. CASE ~EmitRaises(r, progress)
  <2> DEFINE id == task[r].id
             row == rows[id]
  <2>1. Exists(id)
    BY <1>2 DEF EmitRaises
  <2>2. row \in Rows /\ row.log \in Seq(Events)
    BY <2>1, RowType DEF TypeInv
  <2>3. task[r].known \in Knowledge
    BY DEF TypeInv, TypeOK, Tasks, Knowledge
  <2>4. Job(r) \in Knowledge
    BY <2>2, <2>3 DEF Job, Known, Rows, Knowledge
  <2>5. Seen(r, progress) \in Knowledge
    BY <2>4 DEF Seen, Knowledge, Active
  <2>6. Event(kind, progress) \in Events
    BY DEF Event, Events
  <2>7. Logged(row.log, kind, progress) \in Seq(Events)
    BY <2>2, <2>6 DEF Logged
  <2>8. Reported(r, kind, progress) \in Rows
    <3> HIDE DEF row
    <3>1. Reported(r, kind, progress) =
            [row EXCEPT !.status = IF Job(r).status = "queued" THEN "running" ELSE @,
                        !.progress = IF Job(r).progress # progress THEN progress ELSE @,
                        !.log = Logged(row.log, kind, progress)]
      BY <2>2 DEF Reported, row, Rows
    <3> QED BY <2>2, <2>7, <3>1 DEF Rows, Active
  <2>9. /\ rows' = [rows EXCEPT ![id] = Reported(r, kind, progress)]
        /\ MoveTo(r, next, Seen(r, progress))
    BY <1>2 DEF Emit
  <2> QED BY <2>1, <2>5, <2>8, <2>9, ReplaceType, MoveType DEF TypeInv
<1> QED BY <1>1, <1>2

\* Closing a row keeps the types.
LEMMA ClosedType ==
    ASSUME NEW row \in Rows, NEW status \in Terminal
    PROVE  Closed(row, status) \in Rows
<1>1. Event(status, row.progress) \in Events
  BY DEF Event, Events, Rows
<1>2. Append(row.log, Event(status, row.progress)) \in Seq(Events)
  BY <1>1 DEF Rows
<1> QED BY <1>2 DEF Closed, Rows

LEMMA FinalizeType ==
    ASSUME TypeInv, NEW id, Finalize(id), runs' = runs
    PROVE  RowsOK'
<1>1. CASE IsActive(id)
  <2>1. Exists(id) /\ rows[id] \in Rows
    BY <1>1, RowType DEF IsActive, TypeInv
  <2>2. Closed(rows[id], "cancelled") \in Rows
    BY <2>1, ClosedType DEF Terminal
  <2>3. rows' = [rows EXCEPT ![id] = Closed(rows[id], "cancelled")]
    BY <1>1 DEF Finalize
  <2> QED BY <2>1, <2>2, <2>3, ReplaceType
<1>2. CASE ~IsActive(id)
  BY <1>2, SameRowsType DEF Finalize
<1> QED BY <1>1, <1>2

\* What every step of a task and a cancel request leaves alone.
LEMMA Together ==
    ASSUME TypeInv, RowsOK', TaskOK', UNCHANGED <<runs, up, registry, canceller, catalog>>
    PROVE  TypeInv'
BY DEF TypeInv, TypeOK, RowsOK, TaskOK, catalog

LEMMA InitTypes == Init => TypeInv
<1> SUFFICES ASSUME Init PROVE TypeInv
  OBVIOUS
<1>1. 0 \in 0..MaxRuns
  BY Bounds
<1>2. NoTask \in Tasks
  BY <1>1, ExpiredType DEF NoTask, Tasks, Knowledge, Places, Inputs
<1>3. Idle \in [id: 0..MaxRuns, run: 0..MaxRuns]
  BY <1>1 DEF Idle
<1>4. DOMAIN rows = {} /\ rows \in [DOMAIN rows -> Rows]
  BY DEF Init
<1> QED BY <1>1, <1>2, <1>3, <1>4 DEF Init, TypeInv, TypeOK

LEMMA StartType ==
    ASSUME TypeInv, NEW r \in Runs, Start(r)
    PROVE  TypeInv'
<1>1. runs' = runs /\ RowsOK'
  BY SameRowsType DEF Start
<1>2. CASE ~Exists(task[r].id)
  BY <1>1, <1>2, StopType, Together DEF Start, TypeInv
<1>3. CASE Exists(task[r].id)
  <2> DEFINE row == rows[task[r].id]
             place == IF task[r].input = "url" THEN "fetching" ELSE "loading"
             t == [task[r] EXCEPT !.known = Known(row), !.source = row.source, !.at = place]
  <2>1. row \in Rows
    BY <1>3, RowType DEF TypeInv
  <2>2. Known(row) \in Knowledge
    BY <2>1 DEF Known, Knowledge, Rows
  <2>3. t \in Tasks
    <3>1. task[r] \in Tasks /\ place \in Places /\ row.source \in Sources \cup {NoSource}
      BY <2>1 DEF TypeInv, TypeOK, Places, Awaits, Fallible, Rows
    <3> HIDE DEF row, place
    <3> QED BY <2>2, <3>1 DEF Tasks, Knowledge
  <2>4. task' = [task EXCEPT ![r] = t]
    BY <1>3 DEF Start, TypeInv, TypeOK
  <2>5. holder' \in 0..MaxRuns
    BY <1>3, Bounds DEF Start, Runs
  <2>6. TaskOK'
    <3> HIDE DEF t
    <3> QED BY <2>3, <2>4, <2>5 DEF TaskOK, TypeInv, TypeOK
  <2> QED BY <1>1, <2>6, Together DEF Start
<1> QED BY <1>2, <1>3

\* The reports of generate and of the planner.
LEMMA ReportsType ==
    ASSUME TypeInv, NEW r \in Runs,
           \/ Load(r) \/ Parse(r) \/ Catalogue(r) \/ Announce(r) \/ Report(r)
           \/ \E progress \in PlanProgress, next \in {"planning", "asking", "answered", "validated"} :
                Plan(r, progress, next)
    PROVE  TypeInv'
<1>1. /\ {"cataloging", "parsing", "building", "planning", "persisting", "closing",
          "finishing", "asking", "answered", "validated"} \subseteq Places
      /\ "completed" \in Terminal
  BY DEF Places, Awaits, Fallible, Terminal
<1>2. CASE Load(r)
  BY <1>1, <1>2, EmitType, FailType, Together DEF Load
<1>3. CASE Parse(r)
  BY <1>1, <1>3, EmitType, Together DEF Parse
<1>4. CASE Catalogue(r)
  BY <1>1, <1>4, EmitType, Together DEF Catalogue
<1>5. CASE Announce(r)
  BY <1>1, <1>5, EmitType, Together DEF Announce
<1>6. CASE Report(r)
  BY <1>1, <1>6, EmitType, Together DEF Report
<1>7. ASSUME NEW progress \in PlanProgress,
             NEW next \in {"planning", "asking", "answered", "validated"},
             Plan(r, progress, next)
      PROVE  TypeInv'
  <2>1. progress \in 0..100 /\ next \in Places
    BY <1>1, Bounds
  <2>2. Emit(r, "progress", progress, next) /\ UNCHANGED <<runs, registry, canceller, up, catalog>>
    BY <1>7 DEF Plan
  <2>3. TaskOK' /\ RowsOK'
    BY <2>1, <2>2, EmitType
  <2> QED BY <2>2, <2>3, Together
<1> QED BY <1>2, <1>3, <1>4, <1>5, <1>6, <1>7

LEMMA PersistType ==
    ASSUME TypeInv, NEW r \in Runs, Persist(r)
    PROVE  TypeInv'
<1>1. "reporting" \in Places
  BY DEF Places
<1>2. TaskOK' /\ RowsOK'
  BY <1>1, ExpiredType, MoveType, SameRowsType DEF Persist, TypeInv
<1> QED BY <1>2 DEF Persist, TypeInv, TypeOK, RowsOK, TaskOK

LEMMA FinishType ==
    ASSUME TypeInv, NEW r \in Runs, Finish(r)
    PROVE  TypeInv'
<1>1. CASE ~Exists(task[r].id)
  BY <1>1, FailType, Together DEF Finish
<1>2. CASE Exists(task[r].id)
  <2> DEFINE id == task[r].id
             done == [rows[id] EXCEPT !.status = "completed", !.progress = 100, !.result = r]
  <2>1. rows[id] \in Rows /\ r \in 0..MaxRuns
    BY <1>2, RowType, Bounds DEF TypeInv, Runs
  <2>2. done \in Rows
    <3>0. "completed" \in Active \cup Terminal /\ 100 \in 0..100
      BY DEF Terminal
    <3>1. \A row \in Rows : [row EXCEPT !.status = "completed", !.progress = 100, !.result = r] \in Rows
      BY <2>1, <3>0 DEF Rows
    <3> QED BY <2>1, <3>1
  <2>3. rows' = [rows EXCEPT ![id] = done] /\ Stop(r)
    BY <1>2 DEF Finish
  <2>4. RowsOK' /\ TaskOK'
    <3> HIDE DEF done
    <3> QED BY <1>2, <2>2, <2>3, ReplaceType, StopType DEF Finish, TypeInv
  <2> QED BY <2>4, Together DEF Finish
<1> QED BY <1>1, <1>2

LEMMA FailureType ==
    ASSUME TypeInv, NEW r \in Runs, Raise(r) \/ ReportFailure(r) \/ MarkFailed(r)
    PROVE  TypeInv'
<1>1. CASE Raise(r)
  BY <1>1, FailType, Together DEF Raise
<1>2. CASE ReportFailure(r)
  <2>1. CASE ~Exists(task[r].id)
    BY <1>2, <2>1, StopType, SameRowsType, Together DEF ReportFailure, TypeInv
  <2>2. CASE Exists(task[r].id)
    <3>1. rows[task[r].id].progress \in 0..100 /\ "failed" \in Places /\ "failed" \in Terminal
      BY <2>2, RowType DEF TypeInv, Places, Terminal
    <3>2. TaskOK' /\ RowsOK'
      BY <1>2, <2>2, <3>1, EmitType DEF ReportFailure
    <3> QED BY <1>2, <3>2, Together DEF ReportFailure
  <2> QED BY <2>1, <2>2
<1>3. CASE MarkFailed(r)
  <2>1. CASE ~Exists(task[r].id)
    BY <1>3, <2>1, StopType, SameRowsType, Together DEF MarkFailed, TypeInv
  <2>2. CASE Exists(task[r].id)
    <3> DEFINE failed == [rows[task[r].id] EXCEPT !.status = "failed"]
    <3>1. rows' = [rows EXCEPT ![task[r].id] = failed] /\ Stop(r)
      BY <1>3, <2>2 DEF MarkFailed, TypeInv, TypeOK, Exists
    <3>2. failed \in Rows
      <4>1. rows[task[r].id] \in Rows
        BY <2>2, RowType DEF TypeInv
      <4>2. \A row \in Rows : [row EXCEPT !.status = "failed"] \in Rows
        BY DEF Rows, Terminal
      <4> QED BY <4>1, <4>2
    <3>3. RowsOK' /\ TaskOK'
      <4> HIDE DEF failed
      <4> QED BY <1>3, <2>2, <3>1, <3>2, ReplaceType, StopType DEF MarkFailed, TypeInv
    <3> QED BY <1>3, <3>3, Together DEF MarkFailed
  <2> QED BY <2>1, <2>2
<1> QED BY <1>1, <1>2, <1>3

LEMMA AwaitType ==
    ASSUME TypeInv, NEW r \in Runs, Resume(r) \/ Unwind(r)
    PROVE  TypeInv'
<1>1. CASE Resume(r)
  <2>1. task[r] \in Tasks /\ "failing" \in Places
    BY DEF TypeInv, TypeOK, Places
  <2>2. AfterAwait[task[r].at] \in Places
    BY <1>1 DEF Resume, AfterAwait, Awaits, Places, Fallible
  <2>3. \A place \in Places : [task[r] EXCEPT !.at = place] \in Tasks
    BY <2>1 DEF Tasks
  <2>4. [task[r] EXCEPT !.at = "failing", !.known = Expired] \in Tasks
    BY <2>1, ExpiredType, TaskRecord
  <2>5. \/ task' = [task EXCEPT ![r] = [task[r] EXCEPT !.at = AfterAwait[task[r].at]]]
        \/ task' = [task EXCEPT ![r] = [task[r] EXCEPT !.at = "failing", !.known = Expired]]
    BY <1>1 DEF Resume, TypeInv, TypeOK
  <2>6. task' \in [Runs -> Tasks]
    BY <2>2, <2>3, <2>4, <2>5 DEF TypeInv, TypeOK
  <2>7. TaskOK'
    BY <1>1, <2>6, Bounds DEF Resume, TaskOK, Runs
  <2> QED BY <1>1, <2>7, SameRowsType, Together DEF Resume
<1>2. CASE Unwind(r)
  BY <1>2, StopType, SameRowsType, Together DEF Unwind, TypeInv
<1> QED BY <1>1, <1>2

LEMMA CreateType ==
    ASSUME TypeInv, NEW a \in Admins, NEW input \in Inputs, NEW s \in Sources \cup {NoSource},
           Create(a, input, s)
    PROVE  TypeInv'
<1>1. runs \in Nat /\ runs + 1 \in Runs /\ runs' = runs + 1 /\ runs' \in 0..MaxRuns
  BY Bounds DEF TypeInv, TypeOK, Create, Runs
<1>2. FreshId \in 1..runs' /\ FreshId \in Runs
  <2>1. FreshId \in 1..(runs + 1)
    BY <1>1, FreshKey DEF TypeInv
  <2> QED BY <1>1, <2>1, Bounds DEF Runs
<1>3. NewRow(runs', s, a) \in Rows
  <2>1. Event("queued", 0) \in Events
    BY DEF Event, Events
  <2>2. <<Event("queued", 0)>> \in Seq(Events)
    BY <2>1
  <2>3. 0 \in 0..MaxRuns /\ 0 \in 0..100
    BY Bounds
  <2> QED BY <1>1, <2>2, <2>3 DEF NewRow, Rows, Active
<1>4. RowsOK'
  <2>1. DOMAIN rows' = DOMAIN rows \cup {FreshId}
    BY DEF Create
  <2>2. \A id \in DOMAIN rows' : rows'[id] \in Rows
    BY <1>3, <2>1 DEF Create, TypeInv, TypeOK
  <2>3. rows' \in [DOMAIN rows' -> Rows]
    BY <2>2 DEF Create
  <2>4. DOMAIN rows' \subseteq 1..runs'
    BY <1>1, <1>2, <2>1 DEF TypeInv
  <2> QED BY <1>2, <2>1, <2>3, <2>4 DEF RowsOK, TypeInv, TypeOK, Runs
<1>5. [NoTask EXCEPT !.id = FreshId, !.at = "starting", !.input = input] \in Tasks
  <2>1. FreshId \in 0..MaxRuns /\ "starting" \in Places
    BY <1>2, Bounds DEF Runs, Places
  <2> QED BY <2>1, ExpiredType DEF NoTask, Tasks, Knowledge
<1>6. TaskOK'
  BY <1>1, <1>5 DEF Create, TaskOK, TypeInv, TypeOK
<1>7. registry' \in [Runs -> 0..MaxRuns]
  BY <1>1, <1>2 DEF Create, TypeInv, TypeOK
<1> QED BY <1>1, <1>4, <1>6, <1>7 DEF Create, TypeInv, TypeOK, RowsOK, TaskOK, catalog

LEMMA CancelType ==
    ASSUME TypeInv, NEW c \in Cancellers,
           FinishCancel(c) \/ \E id \in Runs : RequestCancel(c, id)
    PROVE  TypeInv'
<1>1. Idle \in [id: 0..MaxRuns, run: 0..MaxRuns]
  <2>1. 0 \in 0..MaxRuns
    BY Bounds
  <2> QED BY <2>1 DEF Idle
<1>2. CASE FinishCancel(c)
  <2>1. RowsOK'
    BY <1>2, FinalizeType DEF FinishCancel
  <2> QED BY <1>1, <1>2, <2>1 DEF FinishCancel, TypeInv, TypeOK, RowsOK, catalog
<1>3. ASSUME NEW id \in Runs, RequestCancel(c, id) PROVE TypeInv'
  <2> DEFINE r == registry[id]
  <2>1. CASE r # 0 /\ Live(r)
    <3>1. id \in 0..MaxRuns /\ r \in 0..MaxRuns /\ r \in Runs
      BY <2>1, Bounds DEF TypeInv, TypeOK, Runs
    <3>2. [id |-> id, run |-> r] \in [id: 0..MaxRuns, run: 0..MaxRuns]
      BY <3>1
    <3>3. canceller' \in [Cancellers -> [id: 0..MaxRuns, run: 0..MaxRuns]]
      BY <1>3, <2>1, <3>2 DEF RequestCancel, TypeInv, TypeOK
    <3>4. [task[r] EXCEPT !.cancelling = TRUE] \in Tasks
      <4>1. task[r] \in Tasks
        BY <3>1 DEF TypeInv, TypeOK
      <4> QED BY <4>1 DEF Tasks
    <3>5. task' = [task EXCEPT ![r] = [task[r] EXCEPT !.cancelling = TRUE]]
      BY <1>3, <2>1 DEF RequestCancel, TypeInv, TypeOK
    <3>6. RowsOK' /\ task' \in [Runs -> Tasks]
      BY <1>3, <2>1, <3>4, <3>5, SameRowsType DEF RequestCancel, TypeInv, TypeOK
    <3> QED BY <1>3, <3>3, <3>6 DEF RequestCancel, TypeInv, TypeOK, RowsOK, catalog
  <2>2. CASE ~(r # 0 /\ Live(r))
    <3>1. Finalize(id) /\ UNCHANGED <<task, canceller>>
      BY <1>3, <2>2 DEF RequestCancel
    <3>2. RowsOK'
      BY <1>3, <3>1, FinalizeType DEF RequestCancel
    <3> QED BY <1>3, <3>1, <3>2 DEF RequestCancel, TypeInv, TypeOK, RowsOK, catalog
  <2> QED BY <2>1, <2>2
<1> QED BY <1>2, <1>3

LEMMA ProcessType ==
    ASSUME TypeInv, Crash \/ Restart
    PROVE  TypeInv'
<1>1. CASE Crash
  <2>1. 0 \in 0..MaxRuns /\ "ended" \in Places
    BY Bounds DEF Places
  <2>2. \A t \in Tasks : Ended(t) \in Tasks
    BY <2>1, ExpiredType, TaskRecord DEF Ended
  <2>3. task' \in [Runs -> Tasks]
    BY <1>1, <2>2 DEF Crash, TypeInv, TypeOK
  <2>4. Idle \in [id: 0..MaxRuns, run: 0..MaxRuns]
    BY <2>1 DEF Idle
  <2> QED BY <1>1, <2>1, <2>3, <2>4, SameRowsType DEF Crash, TypeInv, TypeOK, RowsOK, catalog
<1>2. CASE Restart
  <2>1. \A row \in Rows : Closed(row, "failed") \in Rows
    BY ClosedType DEF Terminal
  <2>2. DOMAIN rows' = DOMAIN rows /\ rows' \in [DOMAIN rows -> Rows]
    BY <1>2, <2>1 DEF Restart, TypeInv, TypeOK
  <2> QED BY <1>2, <2>2 DEF Restart, TypeInv, TypeOK, catalog
<1> QED BY <1>1, <1>2

LEMMA AdministrationType ==
    ASSUME TypeInv,
           \/ \E s \in Sources : DeleteSource(s)
           \/ \E a \in Admins : DeleteUser(a)
           \/ SwitchProvider
    PROVE  TypeInv'
<1>1. ASSUME NEW s \in Sources, DeleteSource(s) PROVE TypeInv'
  BY <1>1 DEF DeleteSource, TypeInv, TypeOK, work
<1>2. ASSUME NEW a \in Admins, DeleteUser(a) PROVE TypeInv'
  <2>1. DOMAIN rows' \subseteq DOMAIN rows /\ rows' \in [DOMAIN rows' -> Rows]
    BY <1>2 DEF DeleteUser, Restrict, TypeInv, TypeOK
  <2> QED BY <1>2, <2>1 DEF DeleteUser, TypeInv, TypeOK
<1>3. CASE SwitchProvider
  BY <1>3 DEF SwitchProvider, TypeInv, TypeOK, work
<1> QED BY <1>1, <1>2, <1>3

\* Every step keeps the types.
LEMMA NextTypes == TypeInv /\ [Next]_vars => TypeInv'
<1> SUFFICES ASSUME TypeInv, [Next]_vars PROVE TypeInv'
  OBVIOUS
<1>1. ASSUME NEW r \in Runs, Step(r) PROVE TypeInv'
  BY <1>1, StartType, ReportsType, PersistType, FinishType, FailureType, AwaitType DEF Step
<1>2. ASSUME NEW a \in Admins, NEW input \in Inputs, NEW s \in Sources \cup {NoSource},
             Create(a, input, s)
      PROVE  TypeInv'
  BY <1>2, CreateType
<1>3. CASE UNCHANGED vars
  BY <1>3 DEF vars, work, catalog, TypeInv, TypeOK
<1> QED BY <1>1, <1>2, <1>3, CancelType, ProcessType, AdministrationType DEF Next

\* Every reachable state is well typed, and keys are given in turn.
THEOREM JobsTypeCorrect == Spec => []TypeOK
<1>1. TypeInv => TypeOK
  BY DEF TypeInv
<1> QED BY <1>1, InitTypes, NextTypes, PTL DEF Spec

\* The invariant the other proofs start from.
THEOREM JobsTypeInv == Spec => []TypeInv
BY InitTypes, NextTypes, PTL DEF Spec

-----------------------------------------------------------------------------
(* One active job per slot                                                 *)

\* No row becomes active and none changes its slot.
NoneActivated ==
    \A id \in DOMAIN rows' :
        /\ Exists(id)
        /\ rows'[id].source = rows[id].source /\ rows'[id].creator = rows[id].creator
        /\ rows'[id].status \in Active => rows[id].status \in Active

LEMMA SlotsKept == ASSUME OneActivePerSlot, NoneActivated PROVE OneActivePerSlot'
BY DEF OneActivePerSlot, NoneActivated, IsActive, Exists, SameSlot

LEMMA SameRowsKept == ASSUME UNCHANGED rows PROVE NoneActivated
BY DEF NoneActivated, Exists

\* Rewriting a row without activating it.
LEMMA RewriteKept ==
    ASSUME TypeInv, NEW id, Exists(id), NEW row, rows' = [rows EXCEPT ![id] = row],
           row.source = rows[id].source, row.creator = rows[id].creator,
           row.status \in Active => IsActive(id)
    PROVE  NoneActivated
BY DEF NoneActivated, Exists, IsActive, TypeInv, TypeOK

LEMMA FinalizeKept == ASSUME TypeInv, NEW id, Finalize(id) PROVE NoneActivated
<1>1. CASE IsActive(id)
  <2> DEFINE row == Closed(rows[id], "cancelled")
  <2>1. Exists(id) /\ rows[id] \in Rows
    BY <1>1, RowType DEF IsActive, TypeInv
  <2>2. /\ row.source = rows[id].source /\ row.creator = rows[id].creator
        /\ row.status = "cancelled"
    BY <2>1 DEF Closed, Rows
  <2>3. rows' = [rows EXCEPT ![id] = row]
    BY <1>1 DEF Finalize
  <2> HIDE DEF row
  <2> QED BY <1>1, <2>1, <2>2, <2>3, RewriteKept
<1>2. CASE ~IsActive(id)
  BY <1>2, SameRowsKept DEF Finalize
<1> QED BY <1>1, <1>2

\* A report activates a queued row only when nothing else is active in its slot.
LEMMA EmitKeepsSlots ==
    ASSUME TypeInv, OneActivePerSlot, NEW r \in Runs, NEW kind \in {"progress"} \cup Terminal,
           NEW progress \in 0..100, NEW next \in Places, Emit(r, kind, progress, next)
    PROVE  OneActivePerSlot'
<1>1. CASE EmitRaises(r, progress)
  BY <1>1, SameRowsKept, SlotsKept DEF Emit, Fail
<1>2. CASE ~EmitRaises(r, progress)
  <2> DEFINE id == task[r].id
             row == Reported(r, kind, progress)
  <2>1. Exists(id) /\ rows[id] \in Rows
    BY <1>2, RowType DEF EmitRaises, TypeInv
  <2>2. rows' = [rows EXCEPT ![id] = row]
    BY <1>2 DEF Emit
  <2>3. /\ row.source = rows[id].source /\ row.creator = rows[id].creator
        /\ row.status = IF Job(r).status = "queued" THEN "running" ELSE rows[id].status
    BY <2>1 DEF Reported, Rows
  <2>4. CASE Job(r).status # "queued" \/ IsActive(id)
    <3>1. row.status \in Active => IsActive(id)
      BY <2>1, <2>3, <2>4 DEF IsActive
    <3> HIDE DEF row
    <3> QED BY <2>1, <2>2, <2>3, <3>1, RewriteKept, SlotsKept
  <2>5. CASE Job(r).status = "queued" /\ ~IsActive(id)
    <3>1. ActiveInSlot(rows[id].source, rows[id].creator) = {}
      BY <1>2, <2>5 DEF EmitRaises
    <3>2. \A other \in DOMAIN rows : IsActive(other) =>
            /\ ~SameSlot(rows[id].source, rows[id].creator, rows[other])
            /\ ~SameSlot(rows[other].source, rows[other].creator, rows[id])
      BY <3>1 DEF ActiveInSlot, SameSlot
    <3>3. /\ DOMAIN rows' = DOMAIN rows /\ rows'[id] = row
          /\ \A other \in DOMAIN rows : other # id => rows'[other] = rows[other]
      <4> HIDE DEF row
      <4> QED BY <2>1, <2>2 DEF Exists, TypeInv, TypeOK
    <3> HIDE DEF row
    <3> QED BY <2>3, <3>2, <3>3 DEF OneActivePerSlot, IsActive, Exists, SameSlot
  <2> QED BY <2>4, <2>5
<1> QED BY <1>1, <1>2

LEMMA CreateKeepsSlots ==
    ASSUME TypeInv, OneActivePerSlot, NEW a, NEW input, NEW s, Create(a, input, s)
    PROVE  OneActivePerSlot'
<1>1. FreshId \notin DOMAIN rows
  BY FreshKey DEF TypeInv, TypeOK
<1>2. /\ DOMAIN rows' = DOMAIN rows \cup {FreshId}
      /\ rows'[FreshId] = NewRow(runs', s, a)
      /\ \A id \in DOMAIN rows : rows'[id] = rows[id]
  BY <1>1 DEF Create
<1>3. \A id \in DOMAIN rows : IsActive(id) =>
        ~SameSlot(s, a, rows[id]) /\ ~SameSlot(rows[id].source, rows[id].creator, NewRow(runs', s, a))
  BY DEF Create, ActiveInSlot, SameSlot, NewRow
<1>4. NewRow(runs', s, a).source = s /\ NewRow(runs', s, a).creator = a
  BY DEF NewRow
<1> QED BY <1>1, <1>2, <1>3, <1>4 DEF OneActivePerSlot, IsActive, Exists, SameSlot

LEMMA StepKeepsSlots ==
    ASSUME TypeInv, OneActivePerSlot, NEW r \in Runs, Step(r)
    PROVE  OneActivePerSlot'
<1>0. /\ {"cataloging", "parsing", "building", "planning", "persisting", "closing",
          "finishing", "asking", "answered", "validated", "failed"} \subseteq Places
      /\ {"completed", "failed"} \subseteq Terminal
  BY DEF Places, Awaits, Fallible, Terminal
<1>1. CASE UNCHANGED rows
  BY <1>1, SameRowsKept, SlotsKept
<1>2. CASE Load(r) \/ Parse(r) \/ Catalogue(r) \/ Announce(r) \/ Report(r)
  <2>1. CASE Load(r)
    <3>1. CASE UNCHANGED rows
      BY <3>1, <1>1
    <3>2. CASE Emit(r, "progress", 15, "cataloging")
      BY <1>0, <3>2, EmitKeepsSlots
    <3>3. CASE Emit(r, "progress", 5, "parsing")
      BY <1>0, <3>3, EmitKeepsSlots
    <3> QED BY <2>1, <3>1, <3>2, <3>3 DEF Load, Fail
  <2>2. CASE Parse(r)
    BY <2>2, <1>0, EmitKeepsSlots DEF Parse
  <2>3. CASE Catalogue(r)
    BY <2>3, <1>0, EmitKeepsSlots DEF Catalogue
  <2>4. CASE Announce(r)
    BY <2>4, <1>0, EmitKeepsSlots DEF Announce
  <2>5. CASE Report(r)
    BY <2>5, <1>0, EmitKeepsSlots DEF Report
  <2> QED BY <1>2, <2>1, <2>2, <2>3, <2>4, <2>5
<1>3. ASSUME NEW progress \in PlanProgress,
             NEW next \in {"planning", "asking", "answered", "validated"},
             Plan(r, progress, next)
      PROVE  OneActivePerSlot'
  <2>1. progress \in 0..100
    BY Bounds
  <2> QED BY <1>0, <1>3, <2>1, EmitKeepsSlots DEF Plan
<1>4. CASE Finish(r) \/ MarkFailed(r)
  <2> DEFINE id == task[r].id
  <2>1. CASE ~Exists(id)
    BY <1>1, <1>4, <2>1 DEF Finish, MarkFailed, Fail
  <2>2. CASE Exists(id)
    <3>1. rows[id] \in Rows
      BY <2>2, RowType DEF TypeInv
    <3>2. \/ rows' = [rows EXCEPT ![id] =
                        [rows[id] EXCEPT !.status = "completed", !.progress = 100, !.result = r]]
          \/ rows' = [rows EXCEPT ![id] = [rows[id] EXCEPT !.status = "failed"]]
      BY <1>4, <2>2 DEF Finish, MarkFailed, TypeInv, TypeOK, Exists
    <3>3. PICK row : /\ rows' = [rows EXCEPT ![id] = row]
                     /\ row.source = rows[id].source /\ row.creator = rows[id].creator
                     /\ row.status \in {"completed", "failed"}
      <4> DEFINE completed == [rows[id] EXCEPT !.status = "completed", !.progress = 100, !.result = r]
                 failed == [rows[id] EXCEPT !.status = "failed"]
      <4>1. /\ completed.source = rows[id].source /\ completed.creator = rows[id].creator
            /\ completed.status = "completed"
        BY <3>1 DEF Rows
      <4>2. /\ failed.source = rows[id].source /\ failed.creator = rows[id].creator
            /\ failed.status = "failed"
        BY <3>1 DEF Rows
      <4>3. rows' = [rows EXCEPT ![id] = completed] \/ rows' = [rows EXCEPT ![id] = failed]
        BY <3>2
      <4> HIDE DEF completed, failed
      <4> QED BY <4>1, <4>2, <4>3
    <3>4. row.status \notin Active
      BY <3>3 DEF Active
    <3> QED BY <2>2, <3>3, <3>4, RewriteKept, SlotsKept
  <2> QED BY <2>1, <2>2
<1>5. CASE ReportFailure(r)
  <2>1. CASE ~Exists(task[r].id)
    BY <1>1, <1>5, <2>1 DEF ReportFailure
  <2>2. CASE Exists(task[r].id)
    <3>1. rows[task[r].id].progress \in 0..100
      BY <2>2, RowType DEF TypeInv
    <3> QED BY <1>5, <2>2, <3>1, <1>0, EmitKeepsSlots DEF ReportFailure
  <2> QED BY <2>1, <2>2
<1>6. CASE Start(r) \/ Persist(r) \/ Raise(r) \/ Resume(r) \/ Unwind(r)
  BY <1>1, <1>6 DEF Start, Persist, Raise, Resume, Unwind, Fail
<1> QED BY <1>2, <1>3, <1>4, <1>5, <1>6 DEF Step

\* One active job per source, or per administrator for jobs that bring their own
\* document (create_job, the partial indexes and every writer of a status), for
\* every number of jobs, cancellations, crashes and deleted users.
THEOREM OneJobPerSlot == Spec => []OneActivePerSlot
<1>1. Init => OneActivePerSlot
  BY DEF Init, OneActivePerSlot
<1>2. TypeInv /\ OneActivePerSlot /\ [Next]_vars => OneActivePerSlot'
  <2> SUFFICES ASSUME TypeInv, OneActivePerSlot, [Next]_vars PROVE OneActivePerSlot'
    OBVIOUS
  <2>1. ASSUME NEW c \in Cancellers, FinishCancel(c) PROVE OneActivePerSlot'
    BY <2>1, FinalizeKept, SlotsKept DEF FinishCancel
  <2>2. ASSUME NEW c \in Cancellers, NEW id \in Runs, RequestCancel(c, id)
        PROVE  OneActivePerSlot'
    BY <2>2, FinalizeKept, SameRowsKept, SlotsKept DEF RequestCancel
  <2>3. CASE Restart
    <3>1. \A id \in DOMAIN rows : rows[id] \in Rows
      BY DEF TypeInv, TypeOK
    <3>2. \A row \in Rows : /\ Closed(row, "failed").source = row.source
                            /\ Closed(row, "failed").creator = row.creator
                            /\ Closed(row, "failed").status \notin Active
      BY DEF Closed, Rows, Active
    <3>3. \A id \in DOMAIN rows : rows'[id] = IF IsActive(id) THEN Closed(rows[id], "failed") ELSE rows[id]
      BY <2>3 DEF Restart
    <3>4. DOMAIN rows' = DOMAIN rows
      BY <2>3 DEF Restart
    <3>5. NoneActivated
      BY <3>1, <3>2, <3>3, <3>4 DEF NoneActivated, Exists, IsActive
    <3> QED BY <3>5, SlotsKept
  <2>4. ASSUME NEW a \in Admins, DeleteUser(a) PROVE OneActivePerSlot'
    <3>1. NoneActivated
      BY <2>4 DEF DeleteUser, Restrict, NoneActivated, Exists
    <3> QED BY <3>1, SlotsKept
  <2>5. CASE \/ Crash \/ SwitchProvider \/ UNCHANGED vars
             \/ \E s \in Sources : DeleteSource(s)
    BY <2>5, SameRowsKept, SlotsKept DEF Crash, SwitchProvider, DeleteSource, vars, work
  <2> QED BY <2>1, <2>2, <2>3, <2>4, <2>5, CreateKeepsSlots, StepKeepsSlots DEF Next
<1> QED BY <1>1, <1>2, JobsTypeInv, PTL DEF Spec

-----------------------------------------------------------------------------
(* Generated Skills and their source                                       *)

\* SkillsHaveSource is kept because what has Skills has read its source: a
\* source is read by a task that starts, and a run starts once.
SourceInv ==
    /\ \A r \in Runs : task[r].at # "none" => r <= runs
    /\ \A r \in skillsOn : task[r].at \notin {"none", "starting"}
    /\ SkillsHaveSource

\* Tasks keep the work they have, and none begins.
SameWork ==
    /\ runs' = runs
    /\ \A r \in Runs :
         /\ task'[r].input = task[r].input /\ task'[r].source = task[r].source
         /\ task'[r].at = "none" <=> task[r].at = "none"
         /\ task'[r].at = "starting" => task[r].at = "starting"

\* While tasks keep their work, Skills may stop but need their source.
LEMMA SameWorkKeeps ==
    ASSUME TypeInv, SourceInv, SameWork, UNCHANGED <<alive, skillsOn>>
    PROVE  SourceInv'
BY DEF TypeInv, TypeOK, SourceInv, SameWork, SkillsHaveSource

\* A task that moves on, whatever it learns, keeps its work.
LEMMA MoveIsSameWork ==
    ASSUME TypeOK, NEW r \in Runs, task[r].at # "none", NEW t,
           task' = [task EXCEPT ![r] = t], runs' = runs,
           t.input = task[r].input, t.source = task[r].source,
           t.at \notin {"none", "starting"}
    PROVE  SameWork
BY DEF TypeOK, SameWork

LEMMA MovedIsSameWork ==
    ASSUME TypeOK, NEW r \in Runs, task[r].at # "none", runs' = runs,
           NEW place \in Places \ {"none", "starting"},
           \/ \E known : MoveTo(r, place, known)
           \/ Fail(r)
           \/ Stop(r)
    PROVE  SameWork
<1>1. task[r] \in Tasks
  BY DEF TypeOK
<1>2. ASSUME NEW at \in Places \ {"none", "starting"}, NEW known,
             task' = [task EXCEPT ![r].at = at, ![r].known = known]
      PROVE  SameWork
  <2> DEFINE t == [task[r] EXCEPT !.at = at, !.known = known]
  <2>1. task' = [task EXCEPT ![r] = t]
    BY <1>2 DEF TypeOK
  <2>2. t.input = task[r].input /\ t.source = task[r].source /\ t.at = at
    BY <1>1 DEF Tasks
  <2> HIDE DEF t
  <2> QED BY <2>1, <2>2, MoveIsSameWork
<1>3. CASE \E known : MoveTo(r, place, known)
  BY <1>2, <1>3 DEF MoveTo
<1>4. CASE Fail(r)
  <2>1. "failing" \in Places \ {"none", "starting"}
    BY DEF Places
  <2> QED BY <1>2, <1>4, <2>1 DEF Fail
<1>5. CASE Stop(r)
  <2>1. /\ Ended(task[r]).input = task[r].input /\ Ended(task[r]).source = task[r].source
        /\ Ended(task[r]).at = "ended"
    BY <1>1 DEF Ended, Tasks
  <2> QED BY <1>5, <2>1, MoveIsSameWork DEF Stop
<1> QED BY <1>3, <1>4, <1>5

LEMMA EmitIsSameWork ==
    ASSUME TypeOK, NEW r \in Runs, task[r].at # "none", runs' = runs,
           NEW kind, NEW progress, NEW place \in Places \ {"none", "starting"},
           Emit(r, kind, progress, place)
    PROVE  SameWork
BY MovedIsSameWork DEF Emit

\* A task that starts reads its source; it has no Skills yet.
LEMMA StartKeepsSources ==
    ASSUME TypeInv, SourceInv, NEW r \in Runs, Start(r)
    PROVE  SourceInv'
<1>1. task[r].at = "starting" /\ task[r] \in Tasks /\ UNCHANGED <<runs, alive, skillsOn>>
  BY DEF Start, Runs_at, TypeInv, TypeOK, catalog
<1>2. r \notin skillsOn
  BY <1>1 DEF SourceInv
<1>3. \A q \in Runs : q # r => task'[q] = task[q]
  BY DEF Start, Stop, TypeInv, TypeOK
<1>4. r <= runs
  BY <1>1 DEF SourceInv
<1> QED BY <1>1, <1>2, <1>3, <1>4 DEF SourceInv, SkillsHaveSource, TypeInv, TypeOK

\* The configuration is committed while its source is there.
LEMMA PersistKeepsSources ==
    ASSUME TypeInv, SourceInv, NEW r \in Runs, Persist(r)
    PROVE  SourceInv'
<1>1. "reporting" \in Places \ {"none", "starting"}
  BY DEF Places
<1>2. task[r].at = "persisting" /\ UNCHANGED <<runs, alive>> /\ skillsOn' = skillsOn \cup {r}
  BY DEF Persist, Runs_at
<1>3. SameWork
  BY <1>1, <1>2, MovedIsSameWork DEF Persist, TypeInv
<1>4. task'[r].at = "reporting"
  BY DEF Persist, MoveTo, TypeInv, TypeOK, Tasks
<1>5. task[r].input = "source" => task[r].source \in alive
  BY DEF Persist
<1>6. skillsOn \subseteq Runs
  BY DEF TypeInv, TypeOK
<1> QED BY <1>2, <1>3, <1>4, <1>5, <1>6 DEF SourceInv, SameWork, SkillsHaveSource

\* Every other step of a task keeps its work.
LEMMA StepIsSameWork ==
    ASSUME TypeInv, NEW r \in Runs, Step(r), ~Start(r)
    PROVE  SameWork
<1> USE DEF TypeInv
<1>1. CASE Load(r) \/ Parse(r) \/ Catalogue(r) \/ Announce(r) \/ Report(r)
  <2>1. {"parsing", "cataloging", "building", "planning", "persisting", "closing", "finishing",
         "failing"} \subseteq Places \ {"none", "starting"}
    BY DEF Places, Awaits, Fallible
  <2>2. task[r].at # "none" /\ runs' = runs
    BY <1>1 DEF Load, Parse, Catalogue, Announce, Report, Runs_at
  <2>3. \/ Fail(r)
        \/ \E kind, progress, place :
             /\ place \in {"parsing", "cataloging", "building", "planning", "persisting",
                           "closing", "finishing", "failing"}
             /\ Emit(r, kind, progress, place)
    BY <1>1 DEF Load, Parse, Catalogue, Announce, Report
  <2> QED BY <2>1, <2>2, <2>3, EmitIsSameWork, MovedIsSameWork
<1>2. ASSUME NEW progress \in PlanProgress,
             NEW next \in {"planning", "asking", "answered", "validated"},
             Plan(r, progress, next)
      PROVE  SameWork
  <2>1. next \in Places \ {"none", "starting"}
    BY DEF Places, Awaits, Fallible
  <2>2. task[r].at # "none" /\ runs' = runs /\ Emit(r, "progress", progress, next)
    BY <1>2 DEF Plan, Runs_at
  <2> QED BY <2>1, <2>2, EmitIsSameWork
<1>3. CASE Persist(r)
  <2>1. "reporting" \in Places \ {"none", "starting"}
    BY DEF Places
  <2> QED BY <1>3, <2>1, MovedIsSameWork DEF Persist, Runs_at
<1>4. CASE Finish(r) \/ Raise(r) \/ MarkFailed(r) \/ Unwind(r)
  <2>1. "failing" \in Places \ {"none", "starting"}
    BY DEF Places
  <2>2. task[r].at # "none" /\ runs' = runs /\ (Stop(r) \/ Fail(r))
    BY <1>4 DEF Finish, Raise, MarkFailed, Unwind, Runs_at, Fallible, Awaits
  <2> QED BY <2>1, <2>2, MovedIsSameWork
<1>5. CASE ReportFailure(r)
  <2>1. "failed" \in Places \ {"none", "starting"}
    BY DEF Places
  <2>2. task[r].at # "none" /\ runs' = runs
    BY <1>5 DEF ReportFailure, Runs_at
  <2> QED BY <1>5, <2>1, <2>2, MovedIsSameWork, EmitIsSameWork DEF ReportFailure
<1>6. CASE Resume(r)
  <2>1. task[r] \in Tasks /\ task[r].at \in Awaits /\ runs' = runs
    BY <1>6 DEF Resume, TypeOK
  <2>2. AfterAwait[task[r].at] \notin {"none", "starting"}
    BY <2>1 DEF AfterAwait, Awaits
  <2>3. task[r].at # "none"
    BY <2>1 DEF Awaits
  <2>4. \E t : /\ task' = [task EXCEPT ![r] = t]
               /\ t.input = task[r].input /\ t.source = task[r].source
               /\ t.at \notin {"none", "starting"}
    <3>1. CASE task' = [task EXCEPT ![r].at = AfterAwait[@]]
      <4> WITNESS [task[r] EXCEPT !.at = AfterAwait[@]]
      <4> QED BY <2>1, <2>2, <3>1 DEF TypeOK, Tasks
    <3>2. CASE task' = [task EXCEPT ![r].at = "failing", ![r].known = Expired]
      <4> WITNESS [task[r] EXCEPT !.at = "failing", !.known = Expired]
      <4> QED BY <2>1, <3>2 DEF TypeOK, Tasks
    <3> QED BY <1>6, <3>1, <3>2 DEF Resume
  <2> QED BY <2>1, <2>3, <2>4, MoveIsSameWork
<1> QED BY <1>1, <1>2, <1>3, <1>4, <1>5, <1>6 DEF Step

\* A new run has no Skills; its task is the only one that is to start.
LEMMA CreateKeepsSources ==
    ASSUME TypeInv, SourceInv, NEW a, NEW input, NEW s, Create(a, input, s)
    PROVE  SourceInv'
<1>1. /\ runs' = runs + 1 /\ runs \in 0..MaxRuns /\ runs + 1 \in Runs
      /\ UNCHANGED <<alive, skillsOn>>
  BY Bounds DEF Create, TypeInv, TypeOK, catalog, Runs
<1>2. \A r \in Runs : r # runs + 1 => task'[r] = task[r]
  BY <1>1 DEF Create, TypeInv, TypeOK
<1>3. skillsOn \subseteq 1..runs
  <2>1. \A r \in skillsOn : r \in Runs /\ r <= runs
    BY DEF SourceInv, TypeInv, TypeOK
  <2> QED BY <1>1, <2>1 DEF Runs
<1>4. runs + 1 \notin skillsOn
  BY <1>1, <1>3
<1>5. \A r \in Runs : task'[r].at # "none" => r <= runs'
  BY <1>1, <1>2 DEF SourceInv, Runs
<1>6. \A r \in skillsOn : r \in Runs /\ task'[r] = task[r]
  BY <1>2, <1>4 DEF TypeInv, TypeOK
<1> QED BY <1>1, <1>5, <1>6 DEF SourceInv, SkillsHaveSource

LEMMA NextKeepsSources == TypeInv /\ SourceInv /\ [Next]_vars => SourceInv'
<1> SUFFICES ASSUME TypeInv, SourceInv, [Next]_vars PROVE SourceInv'
  OBVIOUS
<1>1. ASSUME NEW a \in Admins, NEW input \in Inputs, NEW s \in Sources \cup {NoSource},
             Create(a, input, s)
      PROVE  SourceInv'
  BY <1>1, CreateKeepsSources
<1>2. ASSUME NEW r \in Runs, Step(r) PROVE SourceInv'
  <2>1. CASE Start(r)
    BY <2>1, StartKeepsSources
  <2>2. CASE Persist(r)
    BY <2>2, PersistKeepsSources
  <2>3. CASE ~Start(r) /\ ~Persist(r)
    <3>1. UNCHANGED <<alive, skillsOn>>
      BY <1>2, <2>3 DEF Step, Load, Parse, Catalogue, Plan, Announce, Report, Finish, Raise,
         ReportFailure, MarkFailed, Resume, Unwind, catalog
    <3> QED BY <1>2, <2>3, <3>1, StepIsSameWork, SameWorkKeeps
  <2> QED BY <2>1, <2>2, <2>3
<1>3. CASE \/ \E c \in Cancellers, id \in Runs : RequestCancel(c, id)
           \/ \E c \in Cancellers : FinishCancel(c)
           \/ Crash \/ Restart \/ SwitchProvider \/ UNCHANGED vars
           \/ \E a \in Admins : DeleteUser(a)
  <2>1. UNCHANGED <<runs, alive, skillsOn>>
    BY <1>3 DEF RequestCancel, FinishCancel, Crash, Restart, SwitchProvider, DeleteUser,
       vars, work, catalog
  <2>2. CASE task' = task
    BY <2>1, <2>2, SameWorkKeeps DEF SameWork
  <2>3. ASSUME NEW q, task' = [task EXCEPT ![q].cancelling = TRUE] PROVE SameWork
    BY <2>1, <2>3 DEF SameWork, TypeInv, TypeOK, Tasks
  <2>4. ASSUME task' = [r \in Runs |-> IF Live(r) THEN Ended(task[r]) ELSE task[r]]
        PROVE  SameWork
    <3>1. \A r \in Runs : /\ Ended(task[r]).input = task[r].input
                          /\ Ended(task[r]).source = task[r].source
                          /\ Ended(task[r]).at = "ended"
      BY DEF Ended, TypeInv, TypeOK, Tasks
    <3> QED BY <2>1, <2>4, <3>1 DEF SameWork, Live
  <2>5. \/ task' = task
        \/ \E q : task' = [task EXCEPT ![q].cancelling = TRUE]
        \/ task' = [r \in Runs |-> IF Live(r) THEN Ended(task[r]) ELSE task[r]]
    BY <1>3 DEF RequestCancel, FinishCancel, Crash, Restart, SwitchProvider, DeleteUser,
       vars, work
  <2> QED BY <2>1, <2>2, <2>3, <2>4, <2>5, SameWorkKeeps
<1>4. ASSUME NEW s \in Sources, DeleteSource(s) PROVE SourceInv'
  BY <1>4 DEF DeleteSource, work, SourceInv, SkillsHaveSource, TypeInv, TypeOK
<1> QED BY <1>1, <1>2, <1>3, <1>4 DEF Next

\* Generated Skills run only while the source of their Tools is there.
THEOREM SkillsKeepSource == Spec => []SkillsHaveSource
<1>1. Init => SourceInv
  BY DEF Init, SourceInv, SkillsHaveSource, NoTask
<1>2. SourceInv => SkillsHaveSource
  BY DEF SourceInv
<1> QED BY <1>1, <1>2, NextKeepsSources, JobsTypeInv, PTL DEF Spec

-----------------------------------------------------------------------------
(* The life of a job: the invariant                                        *)

\* Where a task is after its configuration has been committed.
Completing == {"reporting", "closing", "finishing"}
After == Completing \cup {"failing", "failed"}

\* Keys are the numbers of the runs.
KeysAreRuns ==
    /\ DOMAIN rows = 1..runs
    /\ \A r \in 1..runs : rows[r].run = r /\ task[r].id = r

\* A live task works on an active row, knows it as it is, and can be found.
TasksDrive ==
    \A r \in Runs : Live(r) =>
        /\ r \in 1..runs /\ up /\ registry[r] = r /\ IsActive(r)
        /\ task[r].known \in {Expired, Known(rows[r])}

Paired == \A c \in Cancellers : canceller[c].id = canceller[c].run

Registered == \A id \in Runs : registry[id] \in {0, id}

\* What has been created belongs to a job that is about to complete or to
\* fail, unless it has ended or the process is down.
MadeByLate ==
    /\ made \subseteq 1..runs
    /\ \A r \in Runs : task[r].at \in Completing => r \in made
    /\ \A r \in made : up /\ rows[r].status \in Active => task[r].at \in After

\* A log is never empty, and its progress is in order.
Ordered(row) ==
    /\ Len(row.log) >= 1
    /\ \A i, j \in 1..Len(row.log) : i <= j => row.log[i].progress <= row.log[j].progress
    /\ row.log[Len(row.log)].progress <= row.progress

LogsOrdered == \A id \in DOMAIN rows : Ordered(rows[id])

LifeInv ==
    /\ KeysAreRuns /\ TasksDrive /\ Paired /\ Registered
    /\ MadeByLate /\ Outcomes /\ LogsOrdered

-----------------------------------------------------------------------------
(* The shapes of a step                                                    *)

\* A row that stays the same job and moves on.
Grows(old, row) ==
    /\ row.run = old.run
    /\ old.progress <= row.progress
    /\ \/ row.log = old.log
       \/ \E event \in Events :
             /\ row.log = Append(old.log, event)
             /\ old.progress <= event.progress /\ event.progress <= row.progress

StepsOn(r, row, t) ==
    /\ rows' = [rows EXCEPT ![r] = row] /\ task' = [task EXCEPT ![r] = t]
    /\ Grows(rows[r], row) /\ t.id = r
    /\ UNCHANGED <<runs, registry, up>> /\ Paired'

\* A live task goes on, or is asked to stop.
Proceeds(r) ==
    /\ Live(r) /\ made' \in {made, made \cup {r}}
    /\ \E row, t :
        /\ StepsOn(r, row, t)
        /\ row.status \in Active
        /\ t.at \notin {"none", "ended"}
        /\ t.known \in {Expired, Known(row)}
        /\ t.at \in Completing => r \in made'
        /\ r \in made' => t.at \in After

\* A task ends: its job is left to a cancel request, has failed or completed.
Ends(r) ==
    /\ Live(r) /\ made' = made
    /\ \E row, t :
        /\ StepsOn(r, row, t)
        /\ t.at = "ended"
        /\ \/ row = rows[r] /\ r \notin made
           \/ row.status = "failed"
           \/ row.status = "completed" /\ row.result = r /\ r \in made

\* A row that no task works on is closed.
Closes(id) ==
    /\ IsActive(id) /\ ~Live(id) /\ id \in Runs /\ up
    /\ UNCHANGED <<task, runs, registry, up, made>> /\ Paired'
    /\ \E row : /\ rows' = [rows EXCEPT ![id] = row]
                /\ Grows(rows[id], row) /\ row.status = "cancelled"

\* Nothing of a job changes.
Rests == UNCHANGED <<rows, task, runs, registry, up, made>> /\ Paired'

-----------------------------------------------------------------------------
(* Each shape keeps the invariant                                          *)

\* The progress of an event and of a row is a number.
LEMMA EventProgress == \A event \in Events : event.progress \in Int
BY DEF Events

LEMMA RowProgress == ASSUME NEW row \in Rows PROVE row.progress \in Int
<1>1. row.progress \in 0..100
  BY DEF Rows
<1> QED BY <1>1

\* A row that grows stays in order.
LEMMA GrowsInOrder ==
    ASSUME NEW old \in Rows, NEW row \in Rows, Ordered(old), Grows(old, row)
    PROVE  Ordered(row)
<1> DEFINE n == Len(old.log)
<1>1. old.log \in Seq(Events) /\ n \in Nat /\ n >= 1 /\ n \in 1..n
  BY DEF Rows, Ordered
<1>2. \A i \in 1..n : old.log[i] \in Events
  BY <1>1
<1>3. \A i \in 1..n : old.log[i].progress \in Int
  BY <1>2, EventProgress
<1>4. old.progress \in Int /\ row.progress \in Int /\ old.progress <= row.progress
  BY RowProgress DEF Grows
<1>5. old.log[n].progress <= old.progress
  BY DEF Ordered
<1>6. old.log[n].progress \in Int
  <2> HIDE DEF n
  <2> QED BY <1>1, <1>3
<1>7. CASE row.log = old.log
  <2>1. old.log[n].progress <= row.progress
    BY <1>4, <1>5, <1>6
  <2> QED BY <1>7, <2>1 DEF Ordered
<1>8. ASSUME NEW event \in Events, row.log = Append(old.log, event),
             old.progress <= event.progress, event.progress <= row.progress
      PROVE  Ordered(row)
  <2> DEFINE log == row.log
  <2>2. /\ Len(log) = n + 1 /\ log[n + 1] = event
        /\ \A i \in 1..n : log[i] = old.log[i]
    BY <1>1, <1>8
  <2>3. event.progress \in Int
    BY EventProgress
  <2>4. \A i \in 1..n : old.log[i].progress <= old.log[n].progress
    BY <1>1 DEF Ordered
  <2>5. \A i, j \in 1..n : i <= j => old.log[i].progress <= old.log[j].progress
    BY DEF Ordered
  <2> HIDE DEF log, n
  <2>6. \A i \in 1..n : old.log[i].progress <= event.progress
    <3> TAKE i \in 1..n
    <3>1. old.log[i].progress \in Int /\ old.log[i].progress <= old.log[n].progress
      BY <1>3, <2>4
    <3> QED BY <1>4, <1>5, <1>6, <1>8, <2>3, <3>1
  <2>7. \A i, j \in 1..(n + 1) : i <= j => log[i].progress <= log[j].progress
    <3> TAKE i, j \in 1..(n + 1)
    <3> HAVE i <= j
    <3>1. CASE i = n + 1
      <4>1. j = n + 1
        BY <1>1, <3>1
      <4>2. log[i].progress = event.progress /\ log[j].progress = event.progress
        BY <2>2, <3>1, <4>1
      <4> QED BY <2>3, <4>2
    <3>2. CASE i \in 1..n /\ j = n + 1
      <4>1. log[i].progress = old.log[i].progress /\ log[j].progress = event.progress
        BY <2>2, <3>2
      <4> QED BY <2>6, <3>2, <4>1
    <3>3. CASE i \in 1..n /\ j \in 1..n
      <4>1. log[i].progress = old.log[i].progress /\ log[j].progress = old.log[j].progress
        BY <2>2, <3>3
      <4> QED BY <2>5, <3>3, <4>1
    <3>4. i = n + 1 \/ i \in 1..n
      BY <1>1
    <3>5. j = n + 1 \/ j \in 1..n
      BY <1>1
    <3> QED BY <3>1, <3>2, <3>3, <3>4, <3>5
  <2>8. Len(log) >= 1 /\ log[Len(log)].progress <= row.progress
    <3>1. n + 1 >= 1
      BY <1>1
    <3> QED BY <1>8, <2>2, <3>1
  <2>9. \A i, j \in 1..Len(log) : i <= j => log[i].progress <= log[j].progress
    BY <2>2, <2>7
  <2> QED BY <2>8, <2>9 DEF Ordered, log
<1> HIDE DEF n
<1> QED BY <1>7, <1>8 DEF Grows

LEMMA ProceedsKeeps ==
    ASSUME TypeInv, LifeInv, TypeInv', NEW r \in Runs, Proceeds(r)
    PROVE  LifeInv'
<1> PICK row, t :
        /\ StepsOn(r, row, t)
        /\ row.status \in Active
        /\ t.at \notin {"none", "ended"}
        /\ t.known \in {Expired, Known(row)}
        /\ t.at \in Completing => r \in made'
        /\ r \in made' => t.at \in After
  BY DEF Proceeds
<1>1. /\ DOMAIN rows' = DOMAIN rows /\ rows'[r] = row /\ r \in 1..runs /\ r \in DOMAIN rows
      /\ \A id \in DOMAIN rows : id # r => rows'[id] = rows[id]
      /\ task'[r] = t /\ \A q \in Runs : q # r => task'[q] = task[q]
      /\ up /\ registry[r] = r /\ rows[r].run = r
  BY DEF Proceeds, StepsOn, LifeInv, TasksDrive, KeysAreRuns, TypeInv, TypeOK
<1>2. row.run = r /\ row \in Rows /\ rows[r] \in Rows /\ t.id = r
  BY <1>1 DEF StepsOn, Grows, TypeInv, TypeOK
<1>3. KeysAreRuns'
  <2>1. 1..runs \subseteq Runs
    BY Bounds DEF Runs, TypeInv, TypeOK
  <2> QED BY <1>1, <1>2, <2>1 DEF LifeInv, KeysAreRuns, StepsOn
<1>4. TasksDrive'
  BY <1>1 DEF LifeInv, TasksDrive, StepsOn, Live, IsActive, Exists
<1>5. Paired' /\ Registered'
  BY DEF LifeInv, Registered, StepsOn
<1>6. MadeByLate'
  <2>1. made' \subseteq 1..runs /\ runs' = runs /\ up' = up
    BY <1>1 DEF LifeInv, MadeByLate, Proceeds, StepsOn
  <2>2. \A q \in Runs : task'[q].at \in Completing => q \in made'
    BY <1>1 DEF LifeInv, MadeByLate, Proceeds
  <2>3. \A q \in made' : up' /\ rows'[q].status \in Active => task'[q].at \in After
    <3>1. 1..runs \subseteq Runs
      BY Bounds DEF Runs, TypeInv, TypeOK
    <3> QED BY <1>1, <2>1, <3>1 DEF LifeInv, MadeByLate, KeysAreRuns, Proceeds
  <2> QED BY <2>1, <2>2, <2>3 DEF MadeByLate
<1>7. Outcomes'
  <2>1. row.status \notin {"cancelled", "completed"}
    BY DEF Active
  <2>2. \A id \in DOMAIN rows : rows[id].run = id
    BY DEF LifeInv, KeysAreRuns
  <2> QED BY <1>1, <2>1, <2>2 DEF LifeInv, Outcomes, CancelledMadeNothing, CompletedIsMade, Proceeds
<1>8. LogsOrdered'
  BY <1>1, <1>2, GrowsInOrder DEF LifeInv, LogsOrdered, StepsOn
<1> QED BY <1>3, <1>4, <1>5, <1>6, <1>7, <1>8 DEF LifeInv

LEMMA EndsKeeps ==
    ASSUME TypeInv, LifeInv, TypeInv', NEW r \in Runs, Ends(r)
    PROVE  LifeInv'
<1> PICK row, t :
        /\ StepsOn(r, row, t)
        /\ t.at = "ended"
        /\ \/ row = rows[r] /\ r \notin made
           \/ row.status = "failed"
           \/ row.status = "completed" /\ row.result = r /\ r \in made
  BY DEF Ends
<1>1. /\ DOMAIN rows' = DOMAIN rows /\ rows'[r] = row /\ r \in 1..runs /\ r \in DOMAIN rows
      /\ \A id \in DOMAIN rows : id # r => rows'[id] = rows[id]
      /\ task'[r] = t /\ \A q \in Runs : q # r => task'[q] = task[q]
      /\ up /\ rows[r].run = r /\ rows[r].status \in Active
  BY DEF Ends, StepsOn, LifeInv, TasksDrive, KeysAreRuns, TypeInv, TypeOK, IsActive
<1>2. row.run = r /\ row \in Rows /\ rows[r] \in Rows /\ t.id = r
  BY <1>1 DEF StepsOn, Grows, TypeInv, TypeOK
<1>0. 1..runs \subseteq Runs
  BY Bounds DEF Runs, TypeInv, TypeOK
<1>3. KeysAreRuns'
  BY <1>0, <1>1, <1>2 DEF LifeInv, KeysAreRuns, StepsOn
<1>4. TasksDrive'
  BY <1>1 DEF LifeInv, TasksDrive, StepsOn, Live, IsActive, Exists
<1>5. Paired' /\ Registered'
  BY DEF LifeInv, Registered, StepsOn
<1>6. MadeByLate'
  <2>1. made' = made /\ runs' = runs /\ up' = up
    BY DEF Ends, StepsOn
  <2>2. \A q \in Runs : task'[q].at \in Completing => q \in made'
    BY <1>1, <2>1 DEF LifeInv, MadeByLate, Completing
  <2>3. \A q \in made' : up' /\ rows'[q].status \in Active => task'[q].at \in After
    <3>1. r \in made => row.status \notin Active
      BY DEF Active
    <3> QED BY <1>0, <1>1, <2>1, <3>1 DEF LifeInv, MadeByLate, KeysAreRuns
  <2> QED BY <2>1, <2>2, <2>3 DEF LifeInv, MadeByLate
<1>7. Outcomes'
  <2>1. row.status # "cancelled"
    BY <1>1 DEF Active
  <2>2. row.status = "completed" => row.result = r /\ r \in made
    BY <1>1 DEF Active
  <2> QED BY <1>1, <1>2, <2>1, <2>2
        DEF LifeInv, Outcomes, CancelledMadeNothing, CompletedIsMade, Ends
<1>8. LogsOrdered'
  BY <1>1, <1>2, GrowsInOrder DEF LifeInv, LogsOrdered, StepsOn
<1> QED BY <1>3, <1>4, <1>5, <1>6, <1>7, <1>8 DEF LifeInv

LEMMA ClosesKeeps ==
    ASSUME TypeInv, LifeInv, TypeInv', NEW id, Closes(id)
    PROVE  LifeInv'
<1> PICK row : /\ rows' = [rows EXCEPT ![id] = row]
               /\ Grows(rows[id], row) /\ row.status = "cancelled"
  BY DEF Closes
<1>1. /\ DOMAIN rows' = DOMAIN rows /\ rows'[id] = row /\ id \in DOMAIN rows
      /\ \A other \in DOMAIN rows : other # id => rows'[other] = rows[other]
      /\ id \in 1..runs /\ rows[id].run = id /\ row.status \notin Active
  BY DEF Closes, IsActive, Exists, LifeInv, KeysAreRuns, Active
<1>2. row.run = id /\ row \in Rows /\ rows[id] \in Rows
  BY <1>1 DEF Grows, TypeInv, TypeOK
<1>3. id \notin made
  <2>1. task[id].at \notin After
    BY DEF Closes, Live, LifeInv, After, Completing
  <2> QED BY <2>1 DEF Closes, IsActive, LifeInv, MadeByLate
<1>4. KeysAreRuns'
  BY <1>1, <1>2 DEF LifeInv, KeysAreRuns, Closes
<1>5. TasksDrive'
  BY <1>1 DEF LifeInv, TasksDrive, Closes, Live, IsActive, Exists
<1>6. Paired' /\ Registered'
  BY DEF LifeInv, Registered, Closes
<1>7. MadeByLate'
  BY <1>1, <1>3 DEF LifeInv, MadeByLate, KeysAreRuns, Closes
<1>8. Outcomes'
  BY <1>1, <1>2, <1>3 DEF LifeInv, Outcomes, CancelledMadeNothing, CompletedIsMade, Closes
<1>9. LogsOrdered'
  BY <1>1, <1>2, GrowsInOrder DEF LifeInv, LogsOrdered
<1> QED BY <1>4, <1>5, <1>6, <1>7, <1>8, <1>9 DEF LifeInv

LEMMA RestsKeeps == ASSUME LifeInv, Rests PROVE LifeInv'
BY DEF LifeInv, Rests, KeysAreRuns, TasksDrive, Registered, MadeByLate, Outcomes,
       CancelledMadeNothing, CompletedIsMade, LogsOrdered, Live, IsActive, Exists

-----------------------------------------------------------------------------
(* Every step of a task has a shape                                        *)

\* What holds of a live task.
LEMMA LiveTask ==
    ASSUME TypeInv, LifeInv, NEW r \in Runs, Live(r)
    PROVE  /\ task[r].id = r /\ r \in DOMAIN rows /\ Exists(r)
           /\ rows[r] \in Rows /\ rows[r].run = r /\ rows[r].status \in Active
           /\ task[r].known \in {Expired, Known(rows[r])} /\ up
           /\ task[r] \in Tasks
           /\ r \in made <=> (r \in made /\ task[r].at \in After)
           /\ task[r].at \in Completing => r \in made
BY RowType DEF TypeInv, TypeOK, LifeInv, TasksDrive, KeysAreRuns, MadeByLate, IsActive, Exists

\* A report of a live task, and an exception in it.
LEMMA FailProceeds ==
    ASSUME TypeInv, LifeInv, NEW r \in Runs, Live(r), Fail(r),
           UNCHANGED <<runs, registry, up, made, canceller>>
    PROVE  Proceeds(r)
<1> DEFINE t == [task[r] EXCEPT !.at = "failing", !.known = Expired]
<1>1. task' = [task EXCEPT ![r] = t] /\ rows' = [rows EXCEPT ![r] = rows[r]]
  BY DEF Fail, TypeInv, TypeOK
<1>2. t.at = "failing" /\ t.known = Expired /\ t.id = r
  BY LiveTask DEF Tasks
<1>3. Grows(rows[r], rows[r])
  <2>1. rows[r].progress \in Int
    BY LiveTask, RowProgress
  <2> QED BY <2>1 DEF Grows
<1>4. Paired'
  BY DEF LifeInv, Paired
<1>5. "failing" \in After /\ "failing" \notin Completing
  BY DEF After, Completing
<1> HIDE DEF t
<1>6. StepsOn(r, rows[r], t) /\ made' = made
  BY <1>1, <1>2, <1>3, <1>4 DEF StepsOn
<1>7. rows[r].status \in Active /\ t.at \notin {"none", "ended"}
  BY <1>2, LiveTask
<1> QED BY <1>2, <1>5, <1>6, <1>7 DEF Proceeds

LEMMA MoveProceeds ==
    ASSUME TypeInv, LifeInv, NEW r \in Runs, Live(r), NEW place, NEW known, NEW row,
           MoveTo(r, place, known), rows' = [rows EXCEPT ![r] = row], Grows(rows[r], row),
           row.status \in Active, known \in {Expired, Known(row)},
           place \notin {"none", "ended"}, made' \in {made, made \cup {r}},
           place \in Completing => r \in made', r \in made' => place \in After,
           UNCHANGED <<runs, registry, up, canceller>>
    PROVE  Proceeds(r)
<1> DEFINE t == [task[r] EXCEPT !.at = place, !.known = known]
<1>1. task' = [task EXCEPT ![r] = t]
  BY DEF MoveTo, TypeInv, TypeOK
<1>2. t.at = place /\ t.known = known /\ t.id = r
  BY LiveTask DEF Tasks
<1>3. Paired'
  BY DEF LifeInv, Paired
<1> HIDE DEF t
<1> QED BY <1>1, <1>2, <1>3 DEF Proceeds, StepsOn

LEMMA EmitProceeds ==
    ASSUME TypeInv, LifeInv, NEW r \in Runs, Live(r), NEW kind \in {"progress"} \cup Terminal,
           NEW progress \in 0..100, NEW next, Emit(r, kind, progress, next),
           next \notin {"none", "ended"}, next \in Completing => r \in made,
           r \in made => next \in After,
           UNCHANGED <<runs, registry, up, made, canceller>>
    PROVE  Proceeds(r)
<1>1. CASE EmitRaises(r, progress)
  BY <1>1, FailProceeds DEF Emit
<1>2. CASE ~EmitRaises(r, progress)
  <2> DEFINE old == rows[r]
             row == Reported(r, kind, progress)
  <2>1. old \in Rows /\ old.progress \in Int /\ old.status \in Active /\ task[r].id = r
    BY LiveTask, RowProgress
  <2>2. Job(r) = [status |-> old.status, progress |-> old.progress]
    BY LiveTask DEF Job, Known
  <2>3. old.progress <= progress
    BY <1>2, <2>1, <2>2 DEF EmitRaises
  <2>4. /\ row.run = old.run /\ row.progress = progress
        /\ row.status = (IF old.status = "queued" THEN "running" ELSE old.status)
        /\ row.log = Logged(old.log, kind, progress)
    BY <2>1, <2>2 DEF Reported, Rows
  <2>5. Event(kind, progress) \in Events /\ Event(kind, progress).progress = progress
    BY DEF Event, Events
  <2>6. row.log = old.log \/ row.log = Append(old.log, Event(kind, progress))
    BY <2>4 DEF Logged
  <2> HIDE DEF row
  <2>7. Grows(old, row)
    <3>1. old.progress <= row.progress /\ row.run = old.run
      BY <2>3, <2>4
    <3>2. \A n \in 0..100 : n <= n
      OBVIOUS
    <3>3. progress <= row.progress
      BY <2>4, <3>2
    <3> HIDE DEF old
    <3> QED BY <2>3, <2>5, <2>6, <3>1, <3>3 DEF Grows
  <2>8. row.status \in Active
    BY <2>1, <2>4 DEF Active
  <2>9. Seen(r, progress) = Known(row)
    BY <2>2, <2>4 DEF Seen, Known
  <2>10. rows' = [rows EXCEPT ![r] = row] /\ MoveTo(r, next, Seen(r, progress))
    BY <1>2, <2>1 DEF Emit, row
  <2> QED BY <2>7, <2>8, <2>9, <2>10, MoveProceeds
<1> QED BY <1>1, <1>2

\* Where a task can be when it holds the loop or waits.
LEMMA LiveAt ==
    ASSUME NEW r \in Runs, NEW place \in Places, task[r].at = place, place \notin {"none", "ended"}
    PROVE  Live(r)
BY DEF Live

LEMMA StartProceeds ==
    ASSUME TypeInv, LifeInv, NEW r \in Runs, Start(r)
    PROVE  Proceeds(r)
<1>1. Live(r)
  BY DEF Start, Runs_at, Live
<1> DEFINE place == IF task[r].input = "url" THEN "fetching" ELSE "loading"
           t == [task[r] EXCEPT !.known = Known(rows[r]), !.source = rows[r].source, !.at = place]
<1>2. task' = [task EXCEPT ![r] = t] /\ rows' = [rows EXCEPT ![r] = rows[r]]
  BY <1>1, LiveTask DEF Start, TypeInv, TypeOK
<1>3. t.at = place /\ t.known = Known(rows[r]) /\ t.id = r
  BY <1>1, LiveTask DEF Tasks
<1>4. Grows(rows[r], rows[r])
  <2>1. rows[r].progress \in Int
    BY <1>1, LiveTask, RowProgress
  <2> QED BY <2>1 DEF Grows
<1>5. Paired'
  BY DEF LifeInv, Paired, Start
<1>6. r \notin made
  <2>1. task[r].at = "starting" /\ "starting" \notin After
    BY DEF Start, Runs_at, After, Completing
  <2> QED BY <1>1, <2>1, LiveTask
<1>7. place \notin {"none", "ended"} /\ place \notin Completing
  BY DEF Completing
<1>8. UNCHANGED <<runs, registry, up, made>>
  BY DEF Start, catalog
<1> HIDE DEF t, place
<1> QED BY <1>1, <1>2, <1>3, <1>4, <1>5, <1>6, <1>7, <1>8, LiveTask DEF Proceeds, StepsOn

\* The reports of generate, of the planner and of a failure.
LEMMA ReportsProceed ==
    ASSUME TypeInv, LifeInv, NEW r \in Runs,
           \/ Load(r) \/ Parse(r) \/ Catalogue(r) \/ Announce(r) \/ Report(r)
           \/ \E progress \in PlanProgress, next \in {"planning", "asking", "answered", "validated"} :
                Plan(r, progress, next)
    PROVE  Proceeds(r)
<1> DEFINE Early == {"loading", "parsing", "cataloging", "planning", "answered", "validated"}
           Later == {"parsing", "cataloging", "building", "planning", "asking", "answered",
                     "validated", "persisting"}
<1>1. ASSUME task[r].at \in Early PROVE Live(r) /\ r \notin made
  <2>1. Live(r) /\ task[r].at \notin After
    BY <1>1 DEF Live, After, Completing
  <2> QED BY <2>1, LiveTask
<1>2. \A next \in Later : next \notin {"none", "ended"} /\ next \notin Completing
  BY DEF Completing
<1>3. ASSUME task[r].at \in Early, NEW progress \in 0..100, NEW next \in Later,
             Emit(r, "progress", progress, next), UNCHANGED <<runs, registry, canceller, up, catalog>>
      PROVE  Proceeds(r)
  <2>1. Live(r) /\ r \notin made
    BY <1>1, <1>3
  <2>2. UNCHANGED <<runs, registry, up, made, canceller>>
    BY <1>3 DEF catalog
  <2> HIDE DEF Early, Later
  <2> QED BY <1>2, <1>3, <2>1, <2>2, EmitProceeds
<1>4. CASE Load(r)
  <2>1. task[r].at \in Early /\ UNCHANGED <<runs, registry, canceller, up, catalog>>
    BY <1>4 DEF Load, Runs_at
  <2>2. CASE Fail(r)
    BY <1>1, <2>1, <2>2, FailProceeds DEF catalog
  <2>3. CASE Emit(r, "progress", 15, "cataloging") \/ Emit(r, "progress", 5, "parsing")
    <3>1. "cataloging" \in Later /\ "parsing" \in Later
      OBVIOUS
    <3> HIDE DEF Early, Later
    <3> QED BY <1>3, <2>1, <2>3, <3>1
  <2> QED BY <1>4, <2>2, <2>3 DEF Load
<1>5. CASE Parse(r)
  BY <1>3, <1>5 DEF Parse, Runs_at
<1>6. CASE Catalogue(r)
  BY <1>3, <1>6 DEF Catalogue, Runs_at
<1>7. CASE Announce(r)
  BY <1>3, <1>7 DEF Announce, Runs_at
<1>8. ASSUME NEW progress \in PlanProgress,
             NEW next \in {"planning", "asking", "answered", "validated"},
             Plan(r, progress, next)
      PROVE  Proceeds(r)
  <2>1. progress \in 0..100 /\ next \in Later
    BY Bounds
  <2>2. /\ task[r].at \in Early /\ Emit(r, "progress", progress, next)
        /\ UNCHANGED <<runs, registry, canceller, up, catalog>>
    BY <1>8 DEF Plan, Runs_at
  <2> HIDE DEF Early, Later
  <2> QED BY <1>3, <2>1, <2>2
<1>9. CASE Report(r)
  <2>1. task[r].at \in Completing /\ Live(r)
    BY <1>9 DEF Report, Runs_at, Completing, Live
  <2>2. r \in made
    BY <2>1, LiveTask
  <2>3. {"closing", "finishing"} \subseteq After
    BY DEF After, Completing
  <2>4. UNCHANGED <<runs, registry, up, made, canceller>>
    BY <1>9 DEF Report, catalog
  <2>5. CASE Emit(r, "progress", 98, "closing")
    BY <2>1, <2>2, <2>3, <2>4, <2>5, EmitProceeds
  <2>6. CASE Emit(r, "completed", 100, "finishing")
    <3>1. "completed" \in Terminal
      BY DEF Terminal
    <3> QED BY <2>1, <2>2, <2>3, <2>4, <2>6, <3>1, EmitProceeds
  <2> QED BY <1>9, <2>5, <2>6 DEF Report
<1> QED BY <1>4, <1>5, <1>6, <1>7, <1>8, <1>9

LEMMA SameGrows ==
    ASSUME TypeInv, LifeInv, NEW r \in Runs, Live(r)
    PROVE  Grows(rows[r], rows[r]) /\ [rows EXCEPT ![r] = rows[r]] = rows
<1>1. rows[r].progress \in Int /\ r \in DOMAIN rows
  BY LiveTask, RowProgress
<1> QED BY <1>1 DEF Grows, TypeInv, TypeOK

LEMMA PersistProceeds ==
    ASSUME TypeInv, LifeInv, NEW r \in Runs, Persist(r)
    PROVE  Proceeds(r)
<1>1. Live(r)
  BY DEF Persist, Runs_at, Live
<1>2. MoveTo(r, "reporting", Expired) /\ rows' = [rows EXCEPT ![r] = rows[r]]
  BY <1>1, SameGrows DEF Persist
<1>3. Grows(rows[r], rows[r]) /\ rows[r].status \in Active
  BY <1>1, SameGrows, LiveTask
<1>4. made' = made \cup {r} /\ "reporting" \in After
  BY DEF Persist, After, Completing
<1>5. UNCHANGED <<runs, registry, up, canceller>>
  BY DEF Persist
<1> QED BY <1>1, <1>2, <1>3, <1>4, <1>5, MoveProceeds

LEMMA FailureProceeds ==
    ASSUME TypeInv, LifeInv, NEW r \in Runs, Raise(r) \/ ReportFailure(r)
    PROVE  Proceeds(r)
<1>1. Live(r)
  BY DEF Raise, ReportFailure, Runs_at, Live, Fallible
<1>2. UNCHANGED <<runs, registry, up, made, canceller>>
  BY DEF Raise, ReportFailure, catalog
<1>3. CASE Raise(r)
  BY <1>1, <1>2, <1>3, FailProceeds DEF Raise
<1>4. CASE ReportFailure(r)
  <2>1. Emit(r, "failed", rows[r].progress, "failed")
    BY <1>1, <1>4, LiveTask DEF ReportFailure
  <2>2. rows[r].progress \in 0..100 /\ "failed" \in Terminal
    BY <1>1, LiveTask, RowType DEF Terminal, TypeInv
  <2>3. "failed" \in After /\ "failed" \notin Completing
    BY DEF After, Completing
  <2> QED BY <1>1, <1>2, <2>1, <2>2, <2>3, EmitProceeds
<1> QED BY <1>3, <1>4

\* A step that changes the task record alone.
LEMMA TaskProceeds ==
    ASSUME TypeInv, LifeInv, NEW r \in Runs, Live(r), NEW t, task' = [task EXCEPT ![r] = t],
           t.id = r, t.at \notin {"none", "ended"}, t.known \in {Expired, Known(rows[r])},
           t.at \in Completing => r \in made, r \in made => t.at \in After,
           Paired', UNCHANGED <<rows, runs, registry, up, made>>
    PROVE  Proceeds(r)
<1>1. StepsOn(r, rows[r], t) /\ made' = made
  BY SameGrows DEF StepsOn
<1>2. rows[r].status \in Active
  BY LiveTask
<1> QED BY <1>1, <1>2 DEF Proceeds

LEMMA ResumeProceeds ==
    ASSUME TypeInv, LifeInv, NEW r \in Runs, Resume(r)
    PROVE  Proceeds(r)
<1>1. Live(r) /\ task[r].at \notin After
  BY DEF Resume, Awaits, Live, After, Completing
<1>2. r \notin made
  BY <1>1, LiveTask
<1>3. UNCHANGED <<rows, runs, registry, up, made>> /\ Paired'
  BY DEF Resume, catalog, LifeInv, Paired
<1>4. AfterAwait[task[r].at] \in {"loading", "cataloging", "answered"}
  BY DEF Resume, AfterAwait, Awaits
<1> DEFINE resumed == [task[r] EXCEPT !.at = AfterAwait[task[r].at]]
           failing == [task[r] EXCEPT !.at = "failing", !.known = Expired]
<1>5. task' = [task EXCEPT ![r] = resumed] \/ task' = [task EXCEPT ![r] = failing]
  BY DEF Resume, TypeInv, TypeOK
<1>6. /\ resumed.id = r /\ resumed.at = AfterAwait[task[r].at]
      /\ resumed.known = task[r].known
      /\ failing.id = r /\ failing.at = "failing" /\ failing.known = Expired
  BY <1>1, LiveTask DEF Tasks
<1>7. {"loading", "cataloging", "answered", "failing"} \cap (Completing \cup {"none", "ended"}) = {}
  BY DEF Completing
<1> HIDE DEF resumed, failing
<1>8. CASE task' = [task EXCEPT ![r] = resumed]
  <2>1. resumed.at \notin Completing /\ resumed.at \notin {"none", "ended"}
    BY <1>4, <1>6, <1>7
  <2>2. resumed.known \in {Expired, Known(rows[r])}
    BY <1>1, <1>6, LiveTask
  <2> QED BY <1>1, <1>2, <1>3, <1>6, <1>8, <2>1, <2>2, TaskProceeds
<1>9. CASE task' = [task EXCEPT ![r] = failing]
  BY <1>1, <1>2, <1>3, <1>6, <1>7, <1>9, TaskProceeds
<1> QED BY <1>5, <1>8, <1>9

\* A task that stops: it was cancelled, or its job has its last status.
LEMMA StopEnds ==
    ASSUME TypeInv, LifeInv, NEW r \in Runs, Live(r), Stop(r), NEW row,
           rows' = [rows EXCEPT ![r] = row], Grows(rows[r], row),
           \/ row = rows[r] /\ r \notin made
           \/ row.status = "failed"
           \/ row.status = "completed" /\ row.result = r /\ r \in made,
           UNCHANGED <<runs, registry, up, made, canceller>>
    PROVE  Ends(r)
<1>1. task' = [task EXCEPT ![r] = Ended(task[r])]
  BY DEF Stop, TypeInv, TypeOK
<1>2. Ended(task[r]).at = "ended" /\ Ended(task[r]).id = r
  BY LiveTask DEF Ended, Tasks
<1>3. Paired'
  BY DEF LifeInv, Paired
<1>4. StepsOn(r, row, Ended(task[r])) /\ made' = made
  BY <1>1, <1>2, <1>3 DEF StepsOn
<1> QED BY <1>2, <1>4 DEF Ends

LEMMA UnwindEnds ==
    ASSUME TypeInv, LifeInv, NEW r \in Runs, Unwind(r)
    PROVE  Ends(r)
<1>1. Live(r) /\ task[r].at \notin After
  BY DEF Unwind, Awaits, Live, After, Completing
<1>2. r \notin made
  BY <1>1, LiveTask
<1>3. UNCHANGED <<runs, registry, up, made, canceller>>
  BY DEF Unwind, catalog
<1> QED BY <1>1, <1>2, <1>3, SameGrows, StopEnds DEF Unwind

LEMMA ClosingEnds ==
    ASSUME TypeInv, LifeInv, NEW r \in Runs, Finish(r) \/ MarkFailed(r)
    PROVE  Ends(r)
<1>1. Live(r)
  BY DEF Finish, MarkFailed, Runs_at, Live
<1>2. /\ UNCHANGED <<runs, registry, up, made, canceller>>
      /\ rows[r] \in Rows /\ rows[r].progress \in 0..100 /\ task[r].id = r /\ Exists(r)
  BY <1>1, LiveTask, RowType DEF Finish, MarkFailed, catalog, TypeInv
<1>3. CASE Finish(r)
  <2> DEFINE done == [rows[r] EXCEPT !.status = "completed", !.progress = 100, !.result = r]
  <2>1. rows' = [rows EXCEPT ![r] = done] /\ Stop(r)
    BY <1>2, <1>3 DEF Finish
  <2>2. /\ done.status = "completed" /\ done.result = r /\ done.progress = 100
        /\ done.run = rows[r].run /\ done.log = rows[r].log
    BY <1>2 DEF Rows
  <2>3. r \in made
    BY <1>1, <1>3, LiveTask DEF Finish, Runs_at, Completing
  <2> HIDE DEF done
  <2>4. Grows(rows[r], done)
    BY <1>2, <2>2 DEF Grows
  <2> QED BY <1>1, <1>2, <2>1, <2>2, <2>3, <2>4, StopEnds
<1>4. CASE MarkFailed(r)
  <2> DEFINE failed == [rows[r] EXCEPT !.status = "failed"]
  <2>1. rows' = [rows EXCEPT ![r] = failed] /\ Stop(r)
    BY <1>2, <1>4 DEF MarkFailed, TypeInv, TypeOK, Exists
  <2>2. /\ failed.status = "failed" /\ failed.progress = rows[r].progress
        /\ failed.run = rows[r].run /\ failed.log = rows[r].log
    BY <1>2 DEF Rows
  <2> HIDE DEF failed
  <2>3. Grows(rows[r], failed)
    BY <1>1, <2>2, SameGrows DEF Grows
  <2> QED BY <1>1, <1>2, <2>1, <2>2, <2>3, StopEnds
<1> QED BY <1>3, <1>4

LEMMA StepShape ==
    ASSUME TypeInv, LifeInv, NEW r \in Runs, Step(r)
    PROVE  Proceeds(r) \/ Ends(r)
BY StartProceeds, ReportsProceed, PersistProceeds, FailureProceeds, ResumeProceeds,
   UnwindEnds, ClosingEnds DEF Step

-----------------------------------------------------------------------------
(* Cancel requests, creation and the process                               *)

\* Closing a row lets it grow.
LEMMA ClosedGrows ==
    ASSUME NEW row \in Rows, NEW status \in Terminal
    PROVE  Grows(row, Closed(row, status)) /\ Closed(row, status).status = status
<1> DEFINE event == Event(status, row.progress)
           closed == Closed(row, status)
<1>1. row.progress \in Int
  BY RowProgress
<1>2. event \in Events /\ event.progress = row.progress
  BY DEF Event, Events, Rows
<1>3. /\ closed.status = status /\ closed.run = row.run /\ closed.progress = row.progress
      /\ closed.log = Append(row.log, event)
  BY DEF Closed, Rows
<1> HIDE DEF event, closed
<1>4. row.progress <= event.progress /\ event.progress <= closed.progress
  BY <1>1, <1>2, <1>3
<1>5. Grows(row, closed)
  BY <1>1, <1>2, <1>3, <1>4 DEF Grows
<1> QED BY <1>3, <1>5 DEF closed

LEMMA FinalizeShape ==
    ASSUME TypeInv, LifeInv, NEW id, ~Live(id) \/ id \notin Runs, Finalize(id), up,
           UNCHANGED <<task, runs, registry, up, made>>, Paired'
    PROVE  Closes(id) \/ Rests
<1>1. CASE IsActive(id)
  <2>1. id \in Runs /\ rows[id] \in Rows /\ "cancelled" \in Terminal
    BY <1>1, RowType DEF IsActive, TypeInv, Terminal
  <2>2. Grows(rows[id], Closed(rows[id], "cancelled")) /\ Closed(rows[id], "cancelled").status = "cancelled"
    BY <2>1, ClosedGrows
  <2>3. rows' = [rows EXCEPT ![id] = Closed(rows[id], "cancelled")]
    BY <1>1 DEF Finalize
  <2> QED BY <1>1, <2>1, <2>2, <2>3 DEF Closes
<1>2. CASE ~IsActive(id)
  BY <1>2 DEF Finalize, Rests
<1> QED BY <1>1, <1>2

\* A cancel request stops a live task, closes a row nobody works on, or comes
\* too late.
LEMMA RequestShape ==
    ASSUME TypeInv, LifeInv, NEW c \in Cancellers, NEW id \in Runs, RequestCancel(c, id)
    PROVE  Proceeds(id) \/ Closes(id) \/ Rests
<1> DEFINE r == registry[id]
<1>1. r \in {0, id}
  BY DEF LifeInv, Registered
<1>2. CASE r # 0 /\ Live(r)
  <2>1. r = id /\ Live(id)
    BY <1>1, <1>2
  <2> DEFINE t == [task[id] EXCEPT !.cancelling = TRUE]
  <2>2. task' = [task EXCEPT ![id] = t] /\ UNCHANGED <<rows, runs, registry, up, made>>
    BY <1>2, <2>1 DEF RequestCancel, catalog, TypeInv, TypeOK
  <2>3. t.id = id /\ t.at = task[id].at /\ t.known = task[id].known
    BY <2>1, LiveTask DEF Tasks
  <2>4. Paired'
    <3>1. canceller' = [canceller EXCEPT ![c] = [id |-> id, run |-> id]]
      BY <1>2, <2>1 DEF RequestCancel
    <3> QED BY <3>1 DEF LifeInv, Paired, TypeInv, TypeOK
  <2>5. t.at \notin {"none", "ended"}
    BY <2>1, <2>3 DEF Live
  <2> HIDE DEF t
  <2> QED BY <2>1, <2>2, <2>3, <2>4, <2>5, LiveTask, TaskProceeds
<1>3. CASE ~(r # 0 /\ Live(r))
  <2>1. ~Live(id)
    <3>1. id # 0
      BY Bounds DEF Runs
    <3> QED BY <1>1, <1>3, <3>1 DEF LifeInv, TasksDrive
  <2>2. Finalize(id) /\ up /\ UNCHANGED <<task, runs, registry, up, made>> /\ Paired'
    BY <1>3 DEF RequestCancel, LoopFree, catalog, LifeInv, Paired
  <2> QED BY <2>1, <2>2, FinalizeShape
<1> QED BY <1>2, <1>3

LEMMA FinishShape ==
    ASSUME TypeInv, LifeInv, NEW c \in Cancellers, FinishCancel(c)
    PROVE  Closes(canceller[c].id) \/ Rests
<1>1. ~Live(canceller[c].id)
  BY DEF FinishCancel, LifeInv, Paired
<1>2. Paired'
  <2>1. canceller' = [canceller EXCEPT ![c] = Idle] /\ Idle.id = Idle.run
    BY DEF FinishCancel, Idle
  <2> QED BY <2>1 DEF LifeInv, Paired, TypeInv, TypeOK
<1>3. Finalize(canceller[c].id) /\ up /\ UNCHANGED <<task, runs, registry, up, made>>
  BY DEF FinishCancel, LoopFree, catalog
<1> QED BY <1>1, <1>2, <1>3, FinalizeShape

\* A created job gets the number of its run as its key.
LEMMA CreateKeeps ==
    ASSUME TypeInv, LifeInv, TypeInv',
           NEW a \in Admins, NEW input \in Inputs, NEW s \in Sources \cup {NoSource},
           Create(a, input, s)
    PROVE  LifeInv'
<1> DEFINE n == runs + 1
           row == NewRow(n, s, a)
           t == [NoTask EXCEPT !.id = n, !.at = "starting", !.input = input]
<1>1. runs \in Nat /\ n \in Runs /\ DOMAIN rows = 1..runs /\ 1..runs \subseteq Runs
  BY Bounds DEF Create, TypeInv, TypeOK, Runs, LifeInv, KeysAreRuns
<1>2. FreshId = n
  <2>1. FreshId \in 1..n /\ FreshId \notin 1..runs
    BY <1>1, FreshKey
  <2> QED BY <1>1, <2>1
<1>3. /\ runs' = n /\ DOMAIN rows' = 1..n /\ rows'[n] = row
      /\ \A id \in 1..runs : rows'[id] = rows[id]
      /\ task' = [task EXCEPT ![n] = t] /\ registry' = [registry EXCEPT ![n] = n]
      /\ UNCHANGED <<canceller, up, made>>
  BY <1>1, <1>2 DEF Create, catalog
<1>4. /\ task'[n] = t /\ registry'[n] = n
      /\ \A r \in Runs : r # n => task'[r] = task[r] /\ registry'[r] = registry[r]
  BY <1>1, <1>3 DEF TypeInv, TypeOK
<1>5. t.id = n /\ t.at = "starting" /\ t.known = Expired
  BY DEF NoTask
<1>6. /\ row.run = n /\ row.status = "queued" /\ row.progress = 0
      /\ row.log = <<Event("queued", 0)>>
  BY DEF NewRow
<1>7. up
  BY DEF Create, LoopFree
<1> HIDE DEF t, row
<1>8. \A r \in 1..n : r = n \/ r \in 1..runs
  BY <1>1
<1>9. \A r \in 1..runs : r # n /\ r \in 1..n
  BY <1>1
<1> HIDE DEF n
<1>10. KeysAreRuns'
  <2>1. \A r \in 1..n : rows'[r].run = r /\ task'[r].id = r
    BY <1>1, <1>3, <1>4, <1>5, <1>6, <1>8, <1>9 DEF LifeInv, KeysAreRuns
  <2> QED BY <1>3, <2>1 DEF KeysAreRuns
<1>11. TasksDrive'
  <2> SUFFICES ASSUME NEW r \in Runs, Live(r)'
               PROVE  /\ r \in 1..n /\ up' /\ registry'[r] = r /\ IsActive(r)'
                      /\ task'[r].known \in {Expired, Known(rows'[r])}
    BY <1>3 DEF TasksDrive
  <2>1. CASE r = n
    <3>1. n \in 1..n
      BY <1>1 DEF n
    <3> QED BY <1>3, <1>4, <1>5, <1>6, <1>7, <2>1, <3>1 DEF IsActive, Exists, Active
  <2>2. CASE r # n
    <3>1. Live(r)
      BY <1>4, <2>2 DEF Live
    <3>2. r \in 1..runs /\ registry[r] = r /\ IsActive(r) /\ task[r].known \in {Expired, Known(rows[r])}
      BY <3>1 DEF LifeInv, TasksDrive
    <3> QED BY <1>3, <1>4, <1>7, <1>9, <2>2, <3>2 DEF IsActive, Exists
  <2> QED BY <2>1, <2>2
<1>12. Paired' /\ Registered'
  BY <1>3, <1>4 DEF LifeInv, Paired, Registered
<1>13. MadeByLate'
  <2>1. made \subseteq 1..runs /\ made' = made
    BY <1>3 DEF LifeInv, MadeByLate
  <2>2. "starting" \notin Completing
    BY DEF Completing
  <2>3. \A r \in Runs : task'[r].at \in Completing => r \in made
    BY <1>4, <1>5, <2>2 DEF LifeInv, MadeByLate
  <2>4. \A r \in made : up' /\ rows'[r].status \in Active => task'[r].at \in After
    BY <1>1, <1>3, <1>4, <1>9, <2>1 DEF LifeInv, MadeByLate
  <2> QED BY <1>3, <1>9, <2>1, <2>3, <2>4 DEF MadeByLate
<1>14. Outcomes'
  BY <1>1, <1>3, <1>6, <1>8
     DEF LifeInv, Outcomes, CancelledMadeNothing, CompletedIsMade
<1>15. LogsOrdered'
  <2>1. Ordered(row)
    <3>1. Len(row.log) = 1 /\ row.log[1].progress = 0 /\ row.progress = 0
      BY <1>6 DEF Event
    <3>2. \A i, j \in 1..1 : row.log[i].progress <= row.log[j].progress
      <4>1. \A i \in 1..1 : row.log[i].progress = 0
        BY <3>1
      <4> QED BY <4>1
    <3>3. row.log[Len(row.log)].progress = 0
      BY <3>1
    <3> QED BY <3>1, <3>2, <3>3 DEF Ordered
  <2> QED BY <1>1, <1>3, <1>8, <2>1 DEF LifeInv, LogsOrdered
<1> QED BY <1>10, <1>11, <1>12, <1>13, <1>14, <1>15 DEF LifeInv

LEMMA CrashKeeps == ASSUME TypeInv, LifeInv, Crash PROVE LifeInv'
<1>1. /\ UNCHANGED <<rows, runs, made>> /\ ~up'
      /\ \A r \in Runs : /\ task'[r].id = task[r].id
                         /\ task'[r].at \in {"none", "ended"}
                         /\ registry'[r] = 0
  BY DEF Crash, catalog, TypeInv, TypeOK, Live, Ended, Tasks
<1>2. 1..runs \subseteq Runs
  BY Bounds DEF Runs, TypeInv, TypeOK
<1>3. KeysAreRuns'
  BY <1>1, <1>2 DEF LifeInv, KeysAreRuns
<1>4. TasksDrive' /\ Registered'
  BY <1>1 DEF TasksDrive, Registered, Live
<1>5. Paired'
  BY DEF Crash, Paired, Idle
<1>6. MadeByLate'
  BY <1>1 DEF LifeInv, MadeByLate, Completing
<1> QED BY <1>1, <1>3, <1>4, <1>5, <1>6
        DEF LifeInv, Outcomes, CancelledMadeNothing, CompletedIsMade, LogsOrdered

LEMMA RestartKeeps == ASSUME TypeInv, LifeInv, TypeInv', Restart PROVE LifeInv'
<1>1. /\ DOMAIN rows' = DOMAIN rows
      /\ \A id \in DOMAIN rows :
            rows'[id] = IF IsActive(id) THEN Closed(rows[id], "failed") ELSE rows[id]
      /\ UNCHANGED <<task, runs, registry, canceller, made>>
  BY DEF Restart, catalog
<1>2. \A id \in DOMAIN rows :
        IsActive(id) => Grows(rows[id], rows'[id]) /\ rows'[id].status = "failed"
  BY <1>1, ClosedGrows DEF TypeInv, TypeOK, Terminal
<1>3. \A r \in Runs : ~Live(r)
  BY DEF Restart, LifeInv, TasksDrive
<1>4. KeysAreRuns'
  BY <1>1, <1>2 DEF LifeInv, KeysAreRuns, Grows
<1>5. TasksDrive' /\ Paired' /\ Registered'
  BY <1>1, <1>3 DEF LifeInv, TasksDrive, Paired, Registered, Live
<1>6. MadeByLate'
  <2>1. \A r \in made : rows'[r].status \notin Active
    BY <1>1, <1>2 DEF LifeInv, MadeByLate, KeysAreRuns, IsActive, Exists, Active
  <2> QED BY <1>1, <2>1 DEF LifeInv, MadeByLate
<1>7. Outcomes'
  BY <1>1, <1>2 DEF LifeInv, Outcomes, CancelledMadeNothing, CompletedIsMade
<1>8. LogsOrdered'
  <2>1. \A id \in DOMAIN rows : rows[id] \in Rows /\ rows'[id] \in Rows
    BY <1>1 DEF TypeInv, TypeOK
  <2> QED BY <1>1, <1>2, <2>1, GrowsInOrder DEF LifeInv, LogsOrdered
<1> QED BY <1>4, <1>5, <1>6, <1>7, <1>8 DEF LifeInv

LEMMA AdministrationRests ==
    ASSUME LifeInv, \/ \E s \in Sources : DeleteSource(s)
                    \/ SwitchProvider
                    \/ UNCHANGED vars
    PROVE  Rests
BY DEF DeleteSource, SwitchProvider, vars, work, catalog, Rests, LifeInv, Paired

LEMMA InitLife == Init => LifeInv
<1> SUFFICES ASSUME Init PROVE LifeInv
  OBVIOUS
<1>1. DOMAIN rows = {} /\ runs = 0 /\ 1..runs = {}
  BY DEF Init
<1>2. \A r \in Runs : task[r].at = "none"
  BY DEF Init, NoTask
<1>3. KeysAreRuns /\ LogsOrdered /\ Outcomes
  BY <1>1 DEF KeysAreRuns, LogsOrdered, Outcomes, CancelledMadeNothing, CompletedIsMade
<1>4. TasksDrive /\ Registered /\ Paired
  BY <1>2 DEF Init, TasksDrive, Registered, Paired, Live, Idle
<1>5. MadeByLate
  BY <1>1, <1>2 DEF Init, MadeByLate, Completing
<1> QED BY <1>3, <1>4, <1>5 DEF LifeInv

LEMMA NextLife ==
    ASSUME Removed = {}
    PROVE  TypeInv /\ LifeInv /\ [Next]_vars => LifeInv'
<1> SUFFICES ASSUME TypeInv, LifeInv, [Next]_vars PROVE LifeInv'
  OBVIOUS
<1>1. TypeInv'
  BY NextTypes
<1>2. ASSUME NEW r \in Runs, Step(r) PROVE LifeInv'
  BY <1>1, <1>2, StepShape, ProceedsKeeps, EndsKeeps
<1>3. ASSUME NEW c \in Cancellers, NEW id \in Runs, RequestCancel(c, id) PROVE LifeInv'
  BY <1>1, <1>3, RequestShape, ProceedsKeeps, ClosesKeeps, RestsKeeps
<1>4. ASSUME NEW c \in Cancellers, FinishCancel(c) PROVE LifeInv'
  BY <1>1, <1>4, FinishShape, ClosesKeeps, RestsKeeps
<1>5. CASE \/ \E s \in Sources : DeleteSource(s)
           \/ SwitchProvider
           \/ UNCHANGED vars
  BY <1>5, AdministrationRests, RestsKeeps
<1>6. \A a \in Admins : ~DeleteUser(a)
  BY DEF DeleteUser
<1> QED BY <1>1, <1>2, <1>3, <1>4, <1>5, <1>6, CreateKeeps, CrashKeeps, RestartKeeps DEF Next

-----------------------------------------------------------------------------
(* The theorems                                                            *)

\* Rows, tasks, cancel requests and what is created stay together while no
\* user is deleted.
THEOREM JobsLifeInv == ASSUME Removed = {} PROVE Spec => [](TypeInv /\ LifeInv)
<1>1. Init => TypeInv /\ LifeInv
  BY InitTypes, InitLife
<1>2. TypeInv /\ LifeInv /\ [Next]_vars => TypeInv' /\ LifeInv'
  BY NextTypes, NextLife
<1> QED BY <1>1, <1>2, PTL DEF Spec

\* Cancelling a job never leaves what it has created, and a completed job has
\* created what its result names: the commit of _persist, the completion and
\* the cancellation come in this order whatever stops or cancels the task.
THEOREM OutcomesHold ==
    ASSUME Removed = {} PROVE Spec => []Outcomes
<1>1. LifeInv => Outcomes
  BY DEF LifeInv
<1> QED BY <1>1, JobsLifeInv, PTL

\* The progress in the event log of a job never decreases, whoever appends:
\* the task, its failure, a cancel request or the restart.
THEOREM ProgressInOrder == ASSUME Removed = {} PROVE Spec => []ProgressMonotone
<1>1. LifeInv => ProgressMonotone
  BY DEF LifeInv, LogsOrdered, Ordered, ProgressMonotone
<1> QED BY <1>1, JobsLifeInv, PTL

\* Rows that have ended are left alone by a step.
EndedKept ==
    \A id \in DOMAIN rows : rows[id].status \notin Active
        => id \in DOMAIN rows' /\ rows'[id] = rows[id]

LEMMA ShapesKeepEnded ==
    ASSUME TypeInv, LifeInv, NEW r, Rests \/ Closes(r) \/ (r \in Runs /\ (Proceeds(r) \/ Ends(r)))
    PROVE  EndedKept
<1>1. CASE Rests
  BY <1>1 DEF Rests, EndedKept
<1>2. CASE Closes(r)
  BY <1>2 DEF Closes, EndedKept, IsActive, TypeInv, TypeOK
<1>3. CASE r \in Runs /\ (Proceeds(r) \/ Ends(r))
  <2>1. rows[r].status \in Active /\ \E row : rows' = [rows EXCEPT ![r] = row]
    BY <1>3, LiveTask DEF Proceeds, Ends, StepsOn
  <2> QED BY <2>1 DEF EndedKept, TypeInv, TypeOK
<1> QED BY <1>1, <1>2, <1>3

LEMMA NextKeepsEnded ==
    ASSUME Removed = {}, TypeInv, LifeInv, [Next]_vars
    PROVE  EndedKept
<1>1. ASSUME NEW r \in Runs, Step(r) PROVE EndedKept
  BY <1>1, StepShape, ShapesKeepEnded
<1>2. ASSUME NEW c \in Cancellers, NEW id \in Runs, RequestCancel(c, id) PROVE EndedKept
  BY <1>2, RequestShape, ShapesKeepEnded
<1>3. ASSUME NEW c \in Cancellers, FinishCancel(c) PROVE EndedKept
  BY <1>3, FinishShape, ShapesKeepEnded
<1>4. CASE \/ \E s \in Sources : DeleteSource(s)
           \/ SwitchProvider
           \/ UNCHANGED vars
  BY <1>4, AdministrationRests, ShapesKeepEnded
<1>5. ASSUME NEW a, NEW input, NEW s, Create(a, input, s) PROVE EndedKept
  <2>1. FreshId \notin DOMAIN rows
    BY FreshKey DEF TypeInv, TypeOK
  <2> QED BY <1>5, <2>1 DEF Create, EndedKept
<1>6. CASE Crash
  BY <1>6 DEF Crash, EndedKept
<1>7. CASE Restart
  BY <1>7 DEF Restart, EndedKept, IsActive
<1>8. \A a \in Admins : ~DeleteUser(a)
  BY DEF DeleteUser
<1> QED BY <1>1, <1>2, <1>3, <1>4, <1>5, <1>6, <1>7, <1>8 DEF Next

\* A job that has ended stays as it ended, its event log included: no report,
\* no cancel request and no restart comes after.
THEOREM EndedIsFinal == ASSUME Removed = {} PROVE Spec => TerminalIsFinal
<1> DEFINE Final == \A id \in Runs : SameJob(id) /\ rows[id].status \in Terminal
                                        => rows'[id] = rows[id]
<1>1. TypeInv /\ LifeInv /\ [Next]_vars => [Final]_vars
  <2> SUFFICES ASSUME TypeInv, LifeInv, [Next]_vars PROVE Final
    OBVIOUS
  <2> QED BY NextKeepsEnded DEF EndedKept, SameJob, Exists, Active, Terminal
<1> QED BY <1>1, JobsLifeInv, PTL DEF Spec, TerminalIsFinal

-----------------------------------------------------------------------------
(* What a reader of the loop finds in the log                              *)

\* The log ends with this terminal event, or was full before it.
Says(row, kind) ==
    \/ LastKind(row) = kind
    \/ LastKind(row) \notin Terminal /\ Len(row.log) >= MaxJobEvents

\* An open job has no terminal event, but for the one its task has just
\* appended and will complete with the status before it lets go of the loop.
Due(row, place) ==
    /\ place = "finishing" => Says(row, "completed")
    /\ place = "failed" => Says(row, "failed")
    /\ place \notin {"finishing", "failed"} => LastKind(row) \notin Terminal

Agrees(row, place) ==
    /\ row.status \in Terminal => Says(row, row.status)
    /\ row.status \in Active => Due(row, place)

\* While the process is down, an open job may have lost its task in between.
LogsAgree ==
    \A id \in DOMAIN rows :
        up \/ rows[id].status \in Terminal => Agrees(rows[id], task[id].at)

LoopHeld == \A r \in Runs : Live(r) /\ task[r].at \notin Awaits => holder = r

LogInv == LogsAgree /\ LoopHeld

\* One task takes its job, and itself, to the next place.
Takes(r, row, place) ==
    /\ rows' = [rows EXCEPT ![r] = row] /\ Agrees(row, place)
    /\ \E t : task' = [task EXCEPT ![r] = t] /\ t.at = place
    /\ holder \in {0, r} /\ place \notin Awaits \cup {"none", "ended"} => holder' = r
    /\ up' = up

\* It leaves the other jobs and tasks as they are.
LEMMA TakesKeeps ==
    ASSUME TypeInv, LogInv, NEW r \in DOMAIN rows, NEW row, NEW place,
           Takes(r, row, place), holder \in {0, r}
    PROVE  LogInv'
<1>1. r \in Runs /\ r # 0 /\ DOMAIN rows \subseteq Runs
  BY Bounds DEF TypeInv, TypeOK, Runs
<1>2. task'[r].at = place /\ rows'[r] = row /\ DOMAIN rows' = DOMAIN rows
  BY <1>1 DEF Takes, TypeInv, TypeOK
<1>3. \A s \in Runs : s # r => task'[s] = task[s]
  BY DEF Takes, TypeInv, TypeOK
<1>4. \A id \in DOMAIN rows : id # r => rows'[id] = rows[id]
  BY DEF Takes, TypeInv, TypeOK
<1>5. LogsAgree'
  BY <1>1, <1>2, <1>3, <1>4 DEF Takes, LogInv, LogsAgree
<1>6. LoopHeld'
  <2> SUFFICES ASSUME NEW s \in Runs, Live(s)', task'[s].at \notin Awaits
               PROVE  holder' = s
    BY DEF LoopHeld
  <2>1. CASE s = r
    BY <1>2, <2>1 DEF Takes, Live
  <2>2. CASE s # r
    <3>1. holder = s
      BY <1>3, <2>2 DEF LogInv, LoopHeld, Live
    <3>2. s # 0
      BY Bounds DEF Runs
    <3> QED BY <2>2, <3>1, <3>2
  <2> QED BY <2>1, <2>2
<1> QED BY <1>5, <1>6 DEF LogInv

\* The last event of a log that has received one.
LEMMA LastOfAppended ==
    ASSUME NEW log \in Seq(Events), NEW event \in Events
    PROVE  LET longer == Append(log, event)
           IN  longer[Len(longer)] = event /\ Len(longer) = Len(log) + 1
<1>1. Len(Append(log, event)) = Len(log) + 1 /\ Append(log, event)[Len(log) + 1] = event
  OBVIOUS
<1> QED BY <1>1

\* What an open row says after a report, and after it was closed.
LEMMA LoggedSays ==
    ASSUME NEW old \in Rows, LastKind(old) \notin Terminal, NEW row,
           NEW kind \in {"progress"} \cup Terminal, NEW progress \in 0..100,
           row.log = Logged(old.log, kind, progress)
    PROVE  /\ Says(row, kind)
           /\ kind = "progress" => LastKind(row) \notin Terminal
<1>1. old.log \in Seq(Events) /\ Event(kind, progress) \in Events
  BY DEF Rows, Event, Events
<1>2. CASE Len(old.log) < MaxJobEvents
  <2>1. row.log[Len(row.log)] = Event(kind, progress)
    BY <1>1, <1>2, LastOfAppended DEF Logged
  <2> QED BY <2>1 DEF Says, LastKind, Event, Terminal
<1>3. CASE ~(Len(old.log) < MaxJobEvents)
  <2>1. row.log = old.log
    BY <1>3 DEF Logged
  <2>2. Len(old.log) >= MaxJobEvents
    BY <1>1, <1>3, Bounds
  <2> QED BY <2>1, <2>2 DEF Says, LastKind
<1> QED BY <1>2, <1>3

LEMMA ClosedSays ==
    ASSUME NEW row \in Rows, NEW status \in Terminal, NEW place
    PROVE  Agrees(Closed(row, status), place)
<1> DEFINE closed == Closed(row, status)
<1>1. row.log \in Seq(Events) /\ Event(status, row.progress) \in Events
  BY DEF Rows, Event, Events
<1>2. closed.status = status /\ closed.log = Append(row.log, Event(status, row.progress))
  BY DEF Closed, Rows
<1>3. LastKind(closed) = status
  BY <1>1, <1>2, LastOfAppended DEF LastKind, Event
<1> HIDE DEF closed
<1>4. Agrees(closed, place)
  BY <1>2, <1>3 DEF Agrees, Says, Terminal, Active
<1> QED BY <1>4 DEF closed

\* The job of a live task is open; before its last commits its log is, too.
LEMMA OpenLog ==
    ASSUME TypeInv, LifeInv, LogInv, NEW r \in Runs, Live(r)
    PROVE  /\ Due(rows[r], task[r].at)
           /\ task[r].at \notin {"finishing", "failed"} => LastKind(rows[r]) \notin Terminal
<1>1. r \in DOMAIN rows /\ up /\ rows[r].status \in Active
  BY LiveTask
<1> QED BY <1>1 DEF LogInv, LogsAgree, Agrees, Due

\* A task that goes on, without a report, before its last commits.
LEMMA GoesOnTakes ==
    ASSUME TypeInv, LifeInv, LogInv, NEW r \in Runs, Live(r), NEW t,
           task[r].at \notin {"finishing", "failed"}, t.at \notin {"finishing", "failed"},
           rows' = rows, task' = [task EXCEPT ![r] = t], up' = up,
           t.at \notin Awaits \cup {"none", "ended"} => holder' = r
    PROVE  Takes(r, rows[r], t.at)
<1>1. rows[r].status \in Active /\ rows' = [rows EXCEPT ![r] = rows[r]]
  BY LiveTask DEF TypeInv, TypeOK
<1>2. Agrees(rows[r], t.at)
  BY <1>1, OpenLog DEF Agrees, Due, Active, Terminal
<1> QED BY <1>1, <1>2 DEF Takes

LEMMA FailTakes ==
    ASSUME TypeInv, LifeInv, LogInv, NEW r \in Runs, Live(r), Fail(r), up' = up,
           holder = r, task[r].at \notin {"finishing", "failed"}
    PROVE  Takes(r, rows[r], "failing")
<1> DEFINE t == [task[r] EXCEPT !.at = "failing", !.known = Expired]
<1>1. task' = [task EXCEPT ![r] = t]
  BY DEF Fail, TypeInv, TypeOK
<1>2. t.at = "failing"
  BY LiveTask DEF Tasks
<1>3. rows' = rows /\ holder' = r
  BY DEF Fail
<1> HIDE DEF t
<1>4. Takes(r, rows[r], t.at)
  BY <1>1, <1>2, <1>3, GoesOnTakes
<1> QED BY <1>2, <1>4

\* A report, at its place.
LEMMA EmitTakes ==
    ASSUME TypeInv, LifeInv, LogInv, NEW r \in Runs, Live(r),
           task[r].at \notin {"finishing", "failed"}, holder = r, up' = up,
           NEW kind \in {"progress"} \cup Terminal, NEW progress \in 0..100, NEW next,
           next \notin {"none", "ended"},
           \/ kind = "progress" /\ next \notin {"finishing", "failed"}
           \/ kind = "completed" /\ next = "finishing"
           \/ kind = "failed" /\ next = "failed",
           Emit(r, kind, progress, next)
    PROVE  \E row, place : Takes(r, row, place)
<1>1. CASE EmitRaises(r, progress)
  BY <1>1, FailTakes DEF Emit
<1>2. CASE ~EmitRaises(r, progress)
  <2> DEFINE row == Reported(r, kind, progress)
             t == [task[r] EXCEPT !.at = next, !.known = Seen(r, progress)]
  <2>1. rows[r] \in Rows /\ rows[r].status \in Active /\ task[r].id = r
    BY LiveTask
  <2>2. Job(r).status = rows[r].status
    BY LiveTask DEF Job, Known
  <2>3. /\ row.status \in Active /\ row.log = Logged(rows[r].log, kind, progress)
    BY <2>1, <2>2 DEF Reported, Rows, Active
  <2>4. Says(row, kind) /\ (kind = "progress" => LastKind(row) \notin Terminal)
    <3> HIDE DEF row
    <3> QED BY <2>1, <2>3, OpenLog, LoggedSays
  <2>5. /\ rows' = [rows EXCEPT ![r] = row]
        /\ task' = [task EXCEPT ![r] = t]
        /\ holder' = IF next \in Awaits THEN 0 ELSE r
    BY <1>2, <2>1 DEF Emit, MoveTo, TypeInv, TypeOK
  <2>6. t.at = next
    BY LiveTask DEF Tasks
  <2> HIDE DEF row, t
  <2>7. Agrees(row, next)
    BY <2>3, <2>4 DEF Agrees, Due, Active, Terminal
  <2>8. Takes(r, row, next)
    BY <2>5, <2>6, <2>7 DEF Takes
  <2> QED BY <2>8
<1> QED BY <1>1, <1>2

\* A task that stops has said what became of its job.
LEMMA StopTakes ==
    ASSUME TypeInv, LifeInv, NEW r \in Runs, Live(r), NEW row,
           rows' = [rows EXCEPT ![r] = row], Stop(r), up' = up, Agrees(row, "ended")
    PROVE  Takes(r, row, "ended")
<1>1. task' = [task EXCEPT ![r] = Ended(task[r])]
  BY DEF Stop, TypeInv, TypeOK
<1>2. Ended(task[r]).at = "ended"
  BY LiveTask DEF Ended, Tasks
<1> QED BY <1>1, <1>2 DEF Takes

\* Every step of a task takes its job on.
LEMMA StepTakes ==
    ASSUME TypeInv, LifeInv, LogInv, NEW r \in Runs, Step(r)
    PROVE  Live(r) /\ holder \in {0, r} /\ \E row, place : Takes(r, row, place)
<1>1. Live(r)
  BY DEF Step, Start, Load, Parse, Catalogue, Plan, Announce, Persist, Report, Finish, Raise,
     ReportFailure, MarkFailed, Resume, Unwind, Runs_at, Live, Fallible, Awaits
<1>2. up' = up /\ holder \in {0, r}
  BY DEF Step, Start, Load, Parse, Catalogue, Plan, Announce, Persist, Report, Finish, Raise,
     ReportFailure, MarkFailed, Resume, Unwind, Runs_at, LoopFree
<1>3. /\ r \in DOMAIN rows /\ rows[r] \in Rows /\ task[r] \in Tasks /\ task[r].id = r
      /\ rows[r].status \in Active /\ Exists(r)
  BY <1>1, LiveTask
<1>4. CASE Start(r)
  <2> DEFINE place == IF task[r].input = "url" THEN "fetching" ELSE "loading"
             t == [task[r] EXCEPT !.known = Known(rows[r]), !.source = rows[r].source,
                                  !.at = place]
  <2>1. task' = [task EXCEPT ![r] = t] /\ rows' = rows
    BY <1>3, <1>4 DEF Start, TypeInv, TypeOK
  <2>2. t.at = place
    BY <1>3 DEF Tasks
  <2>3. place \notin Awaits => holder' = r
    BY <1>3, <1>4 DEF Start, Runs_at, Awaits
  <2>4. place \notin {"finishing", "failed"} /\ task[r].at \notin {"finishing", "failed"}
    BY <1>4 DEF Start, Runs_at
  <2> HIDE DEF t, place
  <2>5. Takes(r, rows[r], t.at)
    BY <1>1, <1>2, <2>1, <2>2, <2>3, <2>4, GoesOnTakes
  <2> QED BY <1>1, <1>2, <2>5
<1>5. CASE Load(r) \/ Parse(r) \/ Catalogue(r) \/ Announce(r) \/ Report(r)
  <2>1. holder = r /\ task[r].at \notin {"finishing", "failed"}
    BY <1>5 DEF Load, Parse, Catalogue, Announce, Report, Runs_at
  <2>2. CASE Fail(r)
    BY <1>1, <1>2, <2>1, <2>2, FailTakes
  <2>3. CASE \E progress \in 0..100,
               next \in {"parsing", "cataloging", "building", "planning", "persisting", "closing"} :
                 Emit(r, "progress", progress, next)
    BY <1>1, <1>2, <2>1, <2>3, EmitTakes
  <2>4. CASE Emit(r, "completed", 100, "finishing")
    <3>1. "completed" \in {"progress"} \cup Terminal /\ 100 \in 0..100
      BY DEF Terminal
    <3> QED BY <1>1, <1>2, <2>1, <2>4, <3>1, EmitTakes
  <2>5. {5, 15, 22, 85, 98} \subseteq 0..100
    OBVIOUS
  <2> QED BY <1>1, <1>2, <1>5, <2>2, <2>3, <2>4, <2>5 DEF Load, Parse, Catalogue, Announce, Report
<1>6. ASSUME NEW progress \in PlanProgress,
             NEW next \in {"planning", "asking", "answered", "validated"},
             Plan(r, progress, next)
      PROVE  \E row, place : Takes(r, row, place)
  <2>1. holder = r /\ task[r].at \notin {"finishing", "failed"} /\ progress \in 0..100
    BY <1>6, Bounds DEF Plan, Runs_at
  <2> QED BY <1>1, <1>2, <1>6, <2>1, EmitTakes DEF Plan
<1>7. CASE Persist(r)
  <2> DEFINE t == [task[r] EXCEPT !.at = "reporting", !.known = Expired]
  <2>1. /\ task' = [task EXCEPT ![r] = t] /\ rows' = rows /\ holder' = r
        /\ task[r].at \notin {"finishing", "failed"}
    BY <1>7 DEF Persist, MoveTo, Runs_at, Awaits, TypeInv, TypeOK
  <2>2. t.at = "reporting"
    BY <1>3 DEF Tasks
  <2> HIDE DEF t
  <2>3. Takes(r, rows[r], t.at)
    BY <1>1, <1>2, <2>1, <2>2, GoesOnTakes
  <2> QED BY <1>1, <1>2, <2>3
<1>8. CASE Finish(r)
  <2> DEFINE done == [rows[r] EXCEPT !.status = "completed", !.progress = 100, !.result = r]
  <2>1. rows' = [rows EXCEPT ![r] = done] /\ Stop(r) /\ task[r].at = "finishing"
    BY <1>3, <1>8 DEF Finish, Runs_at
  <2>2. done.status = "completed" /\ done.log = rows[r].log
    BY <1>3 DEF Rows
  <2>3. Says(rows[r], "completed")
    BY <1>1, <2>1, OpenLog DEF Due
  <2> HIDE DEF done
  <2>4. Agrees(done, "ended")
    BY <2>2, <2>3 DEF Agrees, Says, LastKind, Active
  <2>5. Takes(r, done, "ended")
    BY <1>1, <1>2, <2>1, <2>4, StopTakes
  <2> QED BY <1>1, <1>2, <2>5
<1>9. CASE MarkFailed(r)
  <2> DEFINE failed == [rows[r] EXCEPT !.status = "failed"]
  <2>1. rows' = [rows EXCEPT ![r] = failed] /\ Stop(r) /\ task[r].at = "failed"
    BY <1>3, <1>9 DEF MarkFailed, Runs_at, TypeInv, TypeOK
  <2>2. failed.status = "failed" /\ failed.log = rows[r].log
    BY <1>3 DEF Rows
  <2>3. Says(rows[r], "failed")
    BY <1>1, <2>1, OpenLog DEF Due
  <2> HIDE DEF failed
  <2>4. Agrees(failed, "ended")
    BY <2>2, <2>3 DEF Agrees, Says, LastKind, Active
  <2>5. Takes(r, failed, "ended")
    BY <1>1, <1>2, <2>1, <2>4, StopTakes
  <2> QED BY <1>1, <1>2, <2>5
<1>10. CASE Raise(r)
  <2>1. holder = r /\ task[r].at \notin {"finishing", "failed"} /\ Fail(r)
    BY <1>10 DEF Raise, Fallible
  <2> QED BY <1>1, <1>2, <2>1, FailTakes
<1>11. CASE ReportFailure(r)
  <2>1. /\ holder = r /\ task[r].at = "failing"
        /\ Emit(r, "failed", rows[r].progress, "failed")
    BY <1>3, <1>11 DEF ReportFailure, Runs_at
  <2>2. rows[r].progress \in 0..100 /\ "failed" \in {"progress"} \cup Terminal
    BY <1>3 DEF Rows, Terminal
  <2> QED BY <1>1, <1>2, <2>1, <2>2, EmitTakes
<1>12. CASE Resume(r)
  <2>1. /\ task[r].at \in Awaits /\ rows' = rows /\ holder' = r
        /\ task[r].at \notin {"finishing", "failed"}
        /\ AfterAwait[task[r].at] \notin {"finishing", "failed"}
    BY <1>12 DEF Resume, Awaits, AfterAwait
  <2>2. CASE task' = [task EXCEPT ![r].at = AfterAwait[@]]
    <3> DEFINE t == [task[r] EXCEPT !.at = AfterAwait[task[r].at]]
    <3>1. task' = [task EXCEPT ![r] = t] /\ t.at = AfterAwait[task[r].at]
      BY <1>3, <2>2 DEF TypeInv, TypeOK, Tasks
    <3> HIDE DEF t
    <3>2. Takes(r, rows[r], t.at)
      BY <1>1, <1>2, <2>1, <3>1, GoesOnTakes
    <3> QED BY <1>1, <1>2, <3>2
  <2>3. CASE task' = [task EXCEPT ![r].at = "failing", ![r].known = Expired]
    <3> DEFINE t == [task[r] EXCEPT !.at = "failing", !.known = Expired]
    <3>1. task' = [task EXCEPT ![r] = t] /\ t.at = "failing"
      BY <1>3, <2>3 DEF TypeInv, TypeOK, Tasks
    <3> HIDE DEF t
    <3>2. Takes(r, rows[r], t.at)
      BY <1>1, <1>2, <2>1, <3>1, GoesOnTakes
    <3> QED BY <1>1, <1>2, <3>2
  <2> QED BY <1>12, <2>2, <2>3 DEF Resume
<1>13. CASE Unwind(r)
  <2>1. /\ task[r].at \notin {"finishing", "failed"} /\ Stop(r)
        /\ rows' = [rows EXCEPT ![r] = rows[r]]
    BY <1>3, <1>13 DEF Unwind, Awaits, TypeInv, TypeOK
  <2>2. Agrees(rows[r], "ended")
    BY <1>1, <1>3, <2>1, OpenLog DEF Agrees, Due, Active, Terminal
  <2>3. Takes(r, rows[r], "ended")
    BY <1>1, <1>2, <2>1, <2>2, StopTakes
  <2> QED BY <1>1, <1>2, <2>3
<1>14. \E row, place : Takes(r, row, place)
  BY <1>4, <1>5, <1>6, <1>7, <1>8, <1>9, <1>10, <1>11, <1>12, <1>13 DEF Step
<1> QED BY <1>1, <1>2, <1>14

\* Nothing that the log or the loop shows changes.
LEMMA QuietLogs ==
    ASSUME TypeInv, LogInv, UNCHANGED <<rows, up, holder>>,
           \A r \in Runs : task'[r].at = task[r].at
    PROVE  LogInv'
<1>1. DOMAIN rows \subseteq Runs
  BY DEF TypeInv, TypeOK
<1> QED BY <1>1 DEF LogInv, LogsAgree, LoopHeld, Live

\* Closing a row appends the event of its status.
LEMMA FinalizeLogs ==
    ASSUME TypeInv, LogInv, NEW id, Finalize(id), UNCHANGED <<task, up, holder>>
    PROVE  LogInv'
<1>1. CASE IsActive(id)
  <2>1. /\ rows[id] \in Rows /\ "cancelled" \in Terminal /\ id \in DOMAIN rows
        /\ rows' = [rows EXCEPT ![id] = Closed(rows[id], "cancelled")]
    BY <1>1, RowType DEF Finalize, IsActive, Exists, TypeInv, Terminal
  <2>2. Agrees(Closed(rows[id], "cancelled"), task[id].at)
    BY <2>1, ClosedSays
  <2>3. /\ rows'[id] = Closed(rows[id], "cancelled") /\ DOMAIN rows' = DOMAIN rows
        /\ \A other \in DOMAIN rows : other # id => rows'[other] = rows[other]
    BY <2>1 DEF TypeInv, TypeOK
  <2>4. LogsAgree'
    BY <2>2, <2>3 DEF LogInv, LogsAgree
  <2> QED BY <2>4 DEF LogInv, LoopHeld, Live
<1>2. CASE ~IsActive(id)
  BY <1>2, QuietLogs DEF Finalize
<1> QED BY <1>1, <1>2

\* A new job has one event, and its task holds the loop, which was free.
LEMMA CreateLogs ==
    ASSUME TypeInv, LifeInv, LogInv, NEW a, NEW input, NEW s, Create(a, input, s)
    PROVE  LogInv'
<1> DEFINE n == runs + 1
           t == [NoTask EXCEPT !.id = FreshId, !.at = "starting", !.input = input]
           row == NewRow(n, s, a)
<1>1. runs \in Nat /\ n \in Runs /\ DOMAIN rows = 1..runs /\ 1..runs \subseteq Runs
  BY Bounds DEF Create, TypeInv, TypeOK, Runs, LifeInv, KeysAreRuns
<1>2. FreshId = n
  <2>1. FreshId \in 1..n /\ FreshId \notin 1..runs
    BY <1>1, FreshKey
  <2> QED BY <1>1, <2>1
<1>3. /\ DOMAIN rows' = DOMAIN rows \cup {n} /\ rows'[n] = row
      /\ \A id \in DOMAIN rows : rows'[id] = rows[id]
      /\ task' = [task EXCEPT ![n] = t] /\ holder' = n /\ holder = 0
      /\ up' = up
  BY <1>1, <1>2 DEF Create, LoopFree
<1>4. /\ row.status = "queued" /\ LastKind(row) = "queued"
      /\ t.at = "starting"
  <2>1. row.log = <<Event("queued", 0)>> /\ row.status = "queued"
    BY DEF NewRow
  <2> HIDE DEF row
  <2>2. Len(row.log) = 1 /\ row.log[1].kind = "queued"
    BY <2>1 DEF Event
  <2> QED BY <2>1, <2>2 DEF LastKind, NoTask
<1> HIDE DEF t, row
<1>5. Agrees(row, "starting")
  BY <1>4 DEF Agrees, Due, Active, Terminal
<1>6. n \notin DOMAIN rows
  BY <1>1
<1> HIDE DEF n
<1>7. /\ task'[n].at = "starting"
      /\ \A r \in Runs : r # n => task'[r] = task[r]
  BY <1>1, <1>3, <1>4 DEF TypeInv, TypeOK
<1>8. LogsAgree'
  <2> SUFFICES ASSUME NEW id \in DOMAIN rows', up' \/ rows'[id].status \in Terminal
               PROVE  Agrees(rows'[id], task'[id].at)
    BY DEF LogsAgree
  <2>1. CASE id = n
    BY <1>3, <1>5, <1>7, <2>1
  <2>2. CASE id \in DOMAIN rows
    BY <1>1, <1>3, <1>6, <1>7, <2>2 DEF LogInv, LogsAgree
  <2> QED BY <1>3, <2>1, <2>2
<1>9. LoopHeld'
  <2>1. \A r \in Runs : r # 0
    BY Bounds DEF Runs
  <2> QED BY <1>3, <1>7, <2>1 DEF LogInv, LoopHeld, Live
<1> QED BY <1>8, <1>9 DEF LogInv

\* The end of the process leaves open jobs behind, its start closes them.
LEMMA CrashLogs == ASSUME TypeInv, LogInv, Crash PROVE LogInv'
<1>1. /\ rows' = rows /\ ~up' /\ up
      /\ \A r \in Runs : task'[r].at \in {"none", "ended"}
  BY DEF Crash, TypeInv, TypeOK, Live, Ended, Tasks
<1>2. LogsAgree'
  BY <1>1 DEF LogInv, LogsAgree, Agrees, Active, Terminal
<1>3. LoopHeld'
  BY <1>1 DEF LoopHeld, Live
<1> QED BY <1>2, <1>3 DEF LogInv

LEMMA RestartLogs == ASSUME TypeInv, LogInv, Restart PROVE LogInv'
<1>1. /\ DOMAIN rows' = DOMAIN rows /\ UNCHANGED <<task, holder>>
      /\ \A id \in DOMAIN rows :
            rows'[id] = IF IsActive(id) THEN Closed(rows[id], "failed") ELSE rows[id]
  BY DEF Restart
<1>2. ASSUME NEW id \in DOMAIN rows PROVE Agrees(rows'[id], task[id].at)
  <2>1. rows[id] \in Rows /\ "failed" \in Terminal
    BY DEF TypeInv, TypeOK, Terminal
  <2>2. CASE IsActive(id)
    BY <1>1, <2>1, <2>2, ClosedSays
  <2>3. CASE ~IsActive(id)
    <3>1. rows[id].status \in Terminal /\ rows'[id] = rows[id]
      BY <1>1, <2>1, <2>3 DEF IsActive, Exists, Rows
    <3> QED BY <3>1 DEF LogInv, LogsAgree
  <2> QED BY <2>2, <2>3
<1>3. LogsAgree'
  BY <1>1, <1>2 DEF LogsAgree
<1> QED BY <1>1, <1>3 DEF LogInv, LoopHeld, Live

LEMMA NextLogs ==
    ASSUME Removed = {}, TypeInv, LifeInv, LogInv, [Next]_vars
    PROVE  LogInv'
<1>1. ASSUME NEW r \in Runs, Step(r) PROVE LogInv'
  <2>1. r \in DOMAIN rows
    BY <1>1, StepTakes, LiveTask
  <2> QED BY <1>1, <2>1, StepTakes, TakesKeeps
<1>2. ASSUME NEW c \in Cancellers, NEW id \in Runs, RequestCancel(c, id) PROVE LogInv'
  <2>1. UNCHANGED <<up, holder>>
    BY <1>2 DEF RequestCancel
  <2>2. CASE rows' = rows /\ \E r : task' = [task EXCEPT ![r].cancelling = TRUE]
    <3>1. \A r \in Runs : task'[r].at = task[r].at
      BY <2>2 DEF TypeInv, TypeOK, Tasks
    <3> QED BY <2>1, <2>2, <3>1, QuietLogs
  <2>3. CASE Finalize(id) /\ task' = task
    BY <2>1, <2>3, FinalizeLogs
  <2> QED BY <1>2, <2>2, <2>3 DEF RequestCancel
<1>3. ASSUME NEW c \in Cancellers, FinishCancel(c) PROVE LogInv'
  BY <1>3, FinalizeLogs DEF FinishCancel
<1>4. CASE \/ \E s \in Sources : DeleteSource(s)
           \/ SwitchProvider
           \/ UNCHANGED vars
  BY <1>4, QuietLogs DEF DeleteSource, SwitchProvider, vars, work
<1>5. \A a \in Admins : ~DeleteUser(a)
  BY DEF DeleteUser
<1> QED BY <1>1, <1>2, <1>3, <1>4, <1>5, CreateLogs, CrashLogs, RestartLogs DEF Next

LEMMA JobsLogInv == ASSUME Removed = {} PROVE Spec => []LogInv
<1>1. Init => LogInv
  BY DEF Init, LogInv, LogsAgree, LoopHeld, Live, NoTask
<1>2. TypeInv /\ LifeInv /\ LogInv /\ [Next]_vars => LogInv'
  BY NextLogs
<1> QED BY <1>1, <1>2, JobsLifeInv, PTL DEF Spec

\* What the invariant says to who reads between two steps of the loop.
LEMMA LogsTell ==
    ASSUME TypeInv, LogInv
    PROVE  StatusFollowsLog
<1> SUFFICES ASSUME LoopFree, NEW id \in DOMAIN rows
             PROVE  IF LastKind(rows[id]) \in Terminal
                    THEN rows[id].status = LastKind(rows[id])
                    ELSE rows[id].status \in Terminal => Len(rows[id].log) >= MaxJobEvents
  BY DEF StatusFollowsLog
<1>1. id \in Runs /\ id # 0 /\ rows[id].status \in Active \cup Terminal
  BY Bounds DEF TypeInv, TypeOK, Rows, Runs
<1>2. Agrees(rows[id], task[id].at)
  BY DEF LogInv, LogsAgree, LoopFree
<1>3. task[id].at \notin {"finishing", "failed"}
  BY <1>1 DEF LogInv, LoopHeld, LoopFree, Live, Awaits
<1> QED BY <1>1, <1>2, <1>3 DEF Agrees, Says, Due

\* Between two steps of the loop, the status of a job and the end of its log
\* say the same, wherever a task was cancelled, failed or lost.
THEOREM LogTellsStatus == ASSUME Removed = {} PROVE Spec => []StatusFollowsLog
<1>1. TypeInv /\ LogInv => StatusFollowsLog
  BY LogsTell
<1> QED BY <1>1, JobsLifeInv, JobsLogInv, PTL

-----------------------------------------------------------------------------
(* The page that follows a job: the jobs do not notice it                  *)

LEMMA PageIsAside ==
    ASSUME TypeInv, [StreamNext]_all
    PROVE  [Next]_vars
<1>1. CASE JobStep
  BY <1>1 DEF JobStep
<1>2. CASE Pass \/ Reconnect \/ Deliver \/ Refresh \/ (\E id \in Runs : Open(id)) \/ UNCHANGED all
  BY <1>2 DEF Pass, Reconnect, Deliver, Refresh, Open, all
<1>3. ASSUME NEW c \in Cancellers, Stopped(c) PROVE Next
  <2>1. CASE FinishCancel(c)
    BY <2>1 DEF Next
  <2>2. CASE RequestCancel(c, page.id)
    <3>1. page.id \in Runs
      BY <2>2 DEF RequestCancel, Exists, TypeInv, TypeOK
    <3> QED BY <2>2, <3>1 DEF Next
  <2> QED BY <1>3, <2>1, <2>2 DEF Stopped
<1> QED BY <1>1, <1>2, <1>3 DEF StreamNext

\* With pages that follow them, jobs do what they do without: all that is
\* proved about jobs holds when their events are streamed.
THEOREM PageLeavesJobs == StreamSpec => Spec
<1>1. StreamInit => Init /\ TypeInv
  BY InitTypes DEF StreamInit
<1>2. TypeInv /\ [StreamNext]_all => TypeInv' /\ [Next]_vars
  BY PageIsAside, NextTypes
<1> QED BY <1>1, <1>2, PTL DEF Spec, StreamSpec

-----------------------------------------------------------------------------
(* How event logs grow                                                     *)

\* A log gets an event, but only a terminal one behind a terminal one (of a
\* task that was lost before it completed its job).
Carried(old, row) ==
    \/ row.log = old.log
    \/ \E event \in Events :
          /\ row.log = Append(old.log, event)
          /\ event.kind \in Terminal \/ LastKind(old) \notin Terminal

LogsCarried ==
    /\ \A id \in DOMAIN rows : id \in DOMAIN rows' /\ Carried(rows[id], rows'[id])
    /\ \A id \in DOMAIN rows' : id \in DOMAIN rows \/ rows'[id].log = <<Event("queued", 0)>>

LEMMA ClosedCarries ==
    ASSUME NEW row \in Rows, NEW status \in Terminal
    PROVE  Carried(row, Closed(row, status))
<1>1. Event(status, row.progress) \in Events /\ Event(status, row.progress).kind = status
  BY DEF Rows, Event, Events
<1>2. Closed(row, status).log = Append(row.log, Event(status, row.progress))
  BY DEF Closed, Rows
<1> QED BY <1>1, <1>2 DEF Carried

LEMMA SameCarries ==
    ASSUME rows' = rows
    PROVE  LogsCarried
BY DEF LogsCarried, Carried

LEMMA FinalizeCarries ==
    ASSUME TypeInv, NEW id, Finalize(id)
    PROVE  LogsCarried
<1>1. CASE IsActive(id)
  <2>1. /\ rows[id] \in Rows /\ "cancelled" \in Terminal /\ id \in DOMAIN rows
        /\ rows' = [rows EXCEPT ![id] = Closed(rows[id], "cancelled")]
    BY <1>1, RowType DEF Finalize, IsActive, Exists, TypeInv, Terminal
  <2>2. Carried(rows[id], Closed(rows[id], "cancelled"))
    BY <2>1, ClosedCarries
  <2>3. \A other \in DOMAIN rows : other # id => rows'[other] = rows[other]
    BY <2>1 DEF TypeInv, TypeOK
  <2> QED BY <2>1, <2>2, <2>3 DEF LogsCarried, Carried, TypeInv, TypeOK
<1>2. CASE ~IsActive(id)
  BY <1>2, SameCarries DEF Finalize
<1> QED BY <1>1, <1>2

LEMMA StepCarries ==
    ASSUME TypeInv, LifeInv, LogInv, NEW r \in Runs, Step(r)
    PROVE  LogsCarried
<1>1. Live(r)
  BY StepTakes
<1>2. r \in DOMAIN rows /\ rows[r] \in Rows /\ task[r].id = r /\ Exists(r)
  BY <1>1, LiveTask
<1>3. PICK row : rows' = [rows EXCEPT ![r] = row] /\ Grows(rows[r], row)
  BY StepShape DEF Proceeds, Ends, StepsOn
<1>4. /\ rows'[r] = row /\ DOMAIN rows' = DOMAIN rows
      /\ \A id \in DOMAIN rows : id # r => rows'[id] = rows[id]
  BY <1>2, <1>3 DEF TypeInv, TypeOK
<1>5. CASE task[r].at \notin {"finishing", "failed"}
  <2>1. LastKind(rows[r]) \notin Terminal
    BY <1>1, <1>5, OpenLog
  <2>2. Carried(rows[r], row)
    BY <1>3, <2>1 DEF Grows, Carried
  <2> QED BY <1>4, <2>2 DEF LogsCarried, Carried
<1>6. CASE task[r].at \in {"finishing", "failed"}
  <2>1. Finish(r) \/ MarkFailed(r)
    BY <1>6 DEF Step, Start, Load, Parse, Catalogue, Plan, Announce, Persist, Report, Raise,
       ReportFailure, Resume, Unwind, Runs_at, Fallible, Awaits
  <2>2. CASE Finish(r)
    <3> DEFINE done == [rows[r] EXCEPT !.status = "completed", !.progress = 100, !.result = r]
    <3>1. rows' = [rows EXCEPT ![r] = done]
      BY <1>2, <2>2 DEF Finish
    <3>2. done.log = rows[r].log
      BY <1>2 DEF Rows
    <3> HIDE DEF done
    <3>3. rows'[r] = done
      BY <1>2, <3>1 DEF TypeInv, TypeOK
    <3> QED BY <1>4, <3>2, <3>3 DEF LogsCarried, Carried
  <2>3. CASE MarkFailed(r)
    <3> DEFINE failed == [rows[r] EXCEPT !.status = "failed"]
    <3>1. rows' = [rows EXCEPT ![r] = failed]
      BY <1>2, <2>3 DEF MarkFailed
    <3>2. failed.log = rows[r].log
      BY <1>2 DEF Rows
    <3> HIDE DEF failed
    <3>3. rows'[r] = failed
      BY <1>2, <3>1 DEF TypeInv, TypeOK
    <3> QED BY <1>4, <3>2, <3>3 DEF LogsCarried, Carried
  <2> QED BY <2>1, <2>2, <2>3
<1> QED BY <1>5, <1>6

LEMMA NextCarries ==
    ASSUME Removed = {}, TypeInv, LifeInv, LogInv, [Next]_vars
    PROVE  LogsCarried
<1>1. ASSUME NEW r \in Runs, Step(r) PROVE LogsCarried
  BY <1>1, StepCarries
<1>2. ASSUME NEW c \in Cancellers, NEW id \in Runs, RequestCancel(c, id) PROVE LogsCarried
  BY <1>2, SameCarries, FinalizeCarries DEF RequestCancel
<1>3. ASSUME NEW c \in Cancellers, FinishCancel(c) PROVE LogsCarried
  BY <1>3, FinalizeCarries DEF FinishCancel
<1>4. CASE \/ \E s \in Sources : DeleteSource(s)
           \/ SwitchProvider \/ Crash
           \/ UNCHANGED vars
  BY <1>4, SameCarries DEF DeleteSource, SwitchProvider, Crash, vars, work
<1>5. ASSUME NEW a, NEW input, NEW s, Create(a, input, s) PROVE LogsCarried
  <2>1. FreshId \notin DOMAIN rows
    BY FreshKey DEF TypeInv, TypeOK
  <2>2. NewRow(runs', s, a).log = <<Event("queued", 0)>>
    BY DEF NewRow
  <2>3. /\ DOMAIN rows' = DOMAIN rows \cup {FreshId} /\ rows'[FreshId] = NewRow(runs', s, a)
        /\ \A id \in DOMAIN rows : rows'[id] = rows[id]
    BY <1>5, <2>1 DEF Create
  <2> QED BY <2>2, <2>3 DEF LogsCarried, Carried
<1>6. CASE Restart
  <2>1. /\ DOMAIN rows' = DOMAIN rows
        /\ \A id \in DOMAIN rows :
              rows'[id] = IF IsActive(id) THEN Closed(rows[id], "failed") ELSE rows[id]
    BY <1>6 DEF Restart
  <2>2. \A id \in DOMAIN rows : Carried(rows[id], Closed(rows[id], "failed"))
    BY ClosedCarries DEF TypeInv, TypeOK, Terminal
  <2> QED BY <2>1, <2>2 DEF LogsCarried, Carried
<1>7. \A a \in Admins : ~DeleteUser(a)
  BY DEF DeleteUser
<1> QED BY <1>1, <1>2, <1>3, <1>4, <1>5, <1>6, <1>7 DEF Next

\* Behind a terminal event there are only terminal ones.
TerminalTail(row) ==
    \A i, j \in 1..Len(row.log) :
        i <= j /\ row.log[i].kind \in Terminal => row.log[j].kind \in Terminal

TailsTerminal == \A id \in DOMAIN rows : TerminalTail(rows[id])

\* The events that were there stay.
LEMMA CarriedLog ==
    ASSUME NEW old \in Rows, NEW row, Carried(old, row)
    PROVE  /\ Len(old.log) \in Nat /\ Len(row.log) \in {Len(old.log), Len(old.log) + 1}
           /\ \A n \in 1..Len(old.log) : row.log[n] = old.log[n]
           /\ Len(row.log) = Len(old.log) + 1 =>
                 row.log[Len(row.log)].kind \in Terminal \/ LastKind(old) \notin Terminal
<1>1. old.log \in Seq(Events) /\ Len(old.log) \in Nat
  BY DEF Rows
<1>2. CASE row.log = old.log
  BY <1>1, <1>2
<1>3. ASSUME NEW event \in Events, row.log = Append(old.log, event),
             event.kind \in Terminal \/ LastKind(old) \notin Terminal
      PROVE  /\ Len(row.log) = Len(old.log) + 1 /\ row.log[Len(row.log)] = event
             /\ \A n \in 1..Len(old.log) : row.log[n] = old.log[n]
  BY <1>1, <1>3
<1> QED BY <1>1, <1>2, <1>3 DEF Carried

LEMMA TailCarried ==
    ASSUME NEW old \in Rows, NEW row, Carried(old, row), TerminalTail(old), Len(old.log) >= 1
    PROVE  TerminalTail(row)
<1> DEFINE n == Len(old.log)
<1>1. /\ n \in Nat /\ n >= 1 /\ Len(row.log) \in {n, n + 1}
      /\ \A k \in 1..n : row.log[k] = old.log[k]
      /\ Len(row.log) = n + 1 => row.log[n + 1].kind \in Terminal \/ LastKind(old) \notin Terminal
  BY CarriedLog
<1>2. \A i \in 1..n : old.log[i].kind \in Terminal => LastKind(old) \in Terminal
  BY <1>1 DEF TerminalTail, LastKind
<1>3. \A i, j \in 1..n : i <= j /\ old.log[i].kind \in Terminal => old.log[j].kind \in Terminal
  BY DEF TerminalTail
<1> HIDE DEF n
<1>4. ASSUME NEW i \in 1..Len(row.log), NEW j \in 1..Len(row.log), i <= j,
             row.log[i].kind \in Terminal
      PROVE  row.log[j].kind \in Terminal
  <2>1. CASE j \in 1..n
    <3>1. i \in 1..n
      BY <1>1, <1>4, <2>1
    <3> QED BY <1>1, <1>3, <1>4, <2>1, <3>1
  <2>2. CASE j = n + 1 /\ Len(row.log) = n + 1
    <3>1. CASE i = j
      BY <1>4, <3>1
    <3>2. CASE i \in 1..n
      BY <1>1, <1>2, <1>4, <2>2, <3>2
    <3>3. i = j \/ i \in 1..n
      BY <1>1, <2>2
    <3> QED BY <3>1, <3>2, <3>3
  <2>3. j \in 1..n \/ (j = n + 1 /\ Len(row.log) = n + 1)
    BY <1>1
  <2> QED BY <2>1, <2>2, <2>3
<1> QED BY <1>4 DEF TerminalTail

LEMMA NextTails ==
    ASSUME TypeInv, LifeInv, TailsTerminal, LogsCarried
    PROVE  TailsTerminal'
<1> SUFFICES ASSUME NEW id \in DOMAIN rows' PROVE TerminalTail(rows'[id])
  BY DEF TailsTerminal
<1>1. CASE id \in DOMAIN rows
  BY <1>1, TailCarried DEF LogsCarried, TailsTerminal, LifeInv, LogsOrdered, Ordered,
     TypeInv, TypeOK
<1>2. CASE rows'[id].log = <<Event("queued", 0)>>
  <2>1. Len(rows'[id].log) = 1 /\ rows'[id].log[1].kind = "queued"
    BY <1>2 DEF Event
  <2> QED BY <2>1 DEF TerminalTail, Terminal
<1> QED BY <1>1, <1>2 DEF LogsCarried

LEMMA JobsTails == ASSUME Removed = {} PROVE Spec => []TailsTerminal
<1>1. Init => TailsTerminal
  BY DEF Init, TailsTerminal
<1>2. TypeInv /\ LifeInv /\ LogInv /\ TailsTerminal /\ [Next]_vars => TailsTerminal'
  BY NextCarries, NextTails
<1> QED BY <1>1, <1>2, JobsLifeInv, JobsLogInv, PTL DEF Spec

-----------------------------------------------------------------------------
(* The page that follows a job: what it shows                              *)

StreamTyped ==
    /\ page \in [id: Nat, run: Nat, phase: Phases, shown: Seq(Nat)]
    /\ stream \in [sent: Nat, cursor: Nat, done: BOOLEAN]

Over(row) == row.status \in Terminal

\* The page p shows what its stream s has sent; the server has read no further
\* than the log goes, and has not read the end of a job that is not over.
PageSees(p, s, table) ==
    /\ p.shown = [n \in 1..s.sent |-> n] /\ s.sent <= s.cursor
    /\ p.phase # "none" =>
          /\ p.id \in DOMAIN table /\ s.cursor <= Len(table[p.id].log)
          /\ \A n \in 1..s.cursor : table[p.id].log[n].kind \in Terminal => Over(table[p.id])
          /\ p.phase \in {"refreshing", "lost", "ended"} => Over(table[p.id])
          /\ p.phase \in {"refreshing", "lost"} =>
                \A n \in s.sent..Len(table[p.id].log) : table[p.id].log[n].kind \in Terminal

PageInv == StreamTyped /\ PageSees(page, stream, rows)

LEMMA OverNotActive ==
    ASSUME TypeInv, NEW id \in DOMAIN rows
    PROVE  Over(rows[id]) <=> ~IsActive(id)
BY DEF TypeInv, TypeOK, Rows, Over, IsActive, Exists, Active, Terminal

\* The last event that the page shows.
LEMMA ShownUpTo ==
    ASSUME NEW n \in Nat, page.shown = [k \in 1..n |-> k]
    PROVE  /\ LastShown = n /\ Len(page.shown) = n
           /\ Range(page.shown) = 1..n /\ Append(page.shown, n + 1) = [k \in 1..(n + 1) |-> k]
<1> DEFINE S == {0} \cup 1..n
<1>1. Range(page.shown) = 1..n
  BY DEF Range
<1>2. Max(S) \in S /\ \A x \in S : x <= Max(S)
  <2>1. S \subseteq 0..n /\ S # {}
    OBVIOUS
  <2> HIDE DEF S
  <2> QED BY <2>1, GreatestOf
<1>3. n \in S
  OBVIOUS
<1>4. Max(S) = n
  <2>1. Max(S) \in 0..n
    BY <1>2
  <2>2. n <= Max(S)
    BY <1>2, <1>3
  <2> HIDE DEF S
  <2> QED BY <2>1, <2>2
<1>5. LastShown = n
  BY <1>1, <1>4 DEF LastShown
<1>6. Len(page.shown) = n /\ Append(page.shown, n + 1) = [k \in 1..(n + 1) |-> k]
  OBVIOUS
<1> QED BY <1>1, <1>5, <1>6

\* A stream that is opened again has read less.
LEMMA AgainSees ==
    ASSUME NEW p, NEW s, s.sent \in Nat, s.cursor \in Nat, NEW table, PageSees(p, s, table)
    PROVE  PageSees(p, From(s.sent), table)
<1>1. From(s.sent).sent = s.sent /\ From(s.sent).cursor = s.sent
  BY DEF From
<1>2. 1..s.sent \subseteq 1..s.cursor /\ s.sent <= s.cursor
  BY DEF PageSees
<1>3. p.phase # "none" => s.sent <= Len(table[p.id].log)
  BY <1>2 DEF PageSees
<1> QED BY <1>1, <1>2, <1>3 DEF PageSees

\* The jobs go on.
LEMMA JobsGoOn ==
    ASSUME TypeInv, LogsCarried, EndedKept, NEW p, NEW s, s.sent \in Nat, s.cursor \in Nat,
           PageSees(p, s, rows)
    PROVE  PageSees(p, s, rows')
<1> SUFFICES ASSUME p.phase # "none" PROVE PageSees(p, s, rows')
  BY DEF PageSees
<1> DEFINE id == p.id
           old == rows[id]
           row == rows'[id]
<1>1. id \in DOMAIN rows /\ id \in DOMAIN rows' /\ old \in Rows /\ Carried(old, row)
  BY DEF PageSees, LogsCarried, TypeInv, TypeOK
<1>2. Over(old) => row = old
  BY <1>1 DEF EndedKept, Over, Active, Terminal
<1>3. /\ s.cursor <= Len(old.log)
      /\ \A n \in 1..s.cursor : old.log[n].kind \in Terminal => Over(old)
      /\ p.phase \in {"refreshing", "lost", "ended"} => Over(old)
      /\ p.phase \in {"refreshing", "lost"} =>
            \A n \in s.sent..Len(old.log) : old.log[n].kind \in Terminal
  BY DEF PageSees
<1> HIDE DEF old, row
<1>4. /\ Len(old.log) \in Nat /\ Len(row.log) \in {Len(old.log), Len(old.log) + 1}
      /\ \A n \in 1..Len(old.log) : row.log[n] = old.log[n]
  BY <1>1, CarriedLog
<1>5. s.cursor <= Len(row.log) /\ 1..s.cursor \subseteq 1..Len(old.log)
  BY <1>3, <1>4
<1>6. \A n \in 1..s.cursor : row.log[n].kind \in Terminal => Over(row)
  BY <1>2, <1>3, <1>4, <1>5
<1>7. p.phase \in {"refreshing", "lost", "ended"} => row = old /\ Over(row)
  BY <1>2, <1>3
<1> QED BY <1>1, <1>3, <1>5, <1>6, <1>7 DEF PageSees, row

LEMMA OpenSees ==
    ASSUME TypeInv, PageInv, NEW id \in Runs, Open(id)
    PROVE  PageInv'
<1> DEFINE phase == IF IsActive(id) THEN "watching" ELSE "ended"
<1>1. /\ page' = [id |-> id, run |-> rows[id].run, shown |-> <<>>, phase |-> phase]
      /\ stream' = From(0) /\ rows' = rows /\ id \in DOMAIN rows
  BY DEF Open, Exists, vars, work
<1>2. rows[id].run \in Nat /\ id \in Nat /\ Len(rows[id].log) \in Nat
  BY <1>1 DEF TypeInv, TypeOK, Rows, Runs
<1>3. phase \in Phases /\ phase \in {"watching", "ended"} /\ (phase = "ended" => Over(rows[id]))
  BY <1>1, OverNotActive DEF Phases
<1> HIDE DEF phase
<1>4. StreamTyped'
  BY <1>1, <1>2, <1>3 DEF StreamTyped, From
<1>5. /\ page'.phase = phase /\ page'.id = id /\ page'.shown = <<>>
      /\ stream'.sent = 0 /\ stream'.cursor = 0
  BY <1>1 DEF From
<1>6. <<>> = [n \in 1..0 |-> n]
  OBVIOUS
<1>7. PageSees(page', stream', rows)
  BY <1>1, <1>2, <1>3, <1>5, <1>6 DEF PageSees
<1> QED BY <1>1, <1>4, <1>7 DEF PageInv

LEMMA PassSees ==
    ASSUME TypeInv, LogInv, TailsTerminal, PageInv, Pass
    PROVE  PageInv'
<1> DEFINE log == rows[page.id].log
           over == ~IsActive(page.id)
<1>1. /\ page' = page /\ rows' = rows /\ LoopFree /\ page.phase = "watching"
      /\ stream' = [stream EXCEPT !.cursor = Len(log), !.done = over]
      /\ stream.sent = stream.cursor
  BY DEF Pass, vars, work
<1>2. /\ page.id \in DOMAIN rows /\ log \in Seq(Events) /\ Len(log) \in Nat
      /\ stream.cursor <= Len(log) /\ page.shown = [n \in 1..stream.sent |-> n]
  BY <1>1 DEF PageInv, PageSees, TypeInv, TypeOK, Rows
<1>3. /\ stream'.sent = stream.sent /\ stream'.cursor = Len(log) /\ StreamTyped'
  BY <1>1, <1>2 DEF PageInv, StreamTyped
<1>4. ASSUME NEW n \in 1..Len(log), log[n].kind \in Terminal
      PROVE  Over(rows[page.id])
  <2>1. LastKind(rows[page.id]) \in Terminal
    BY <1>2, <1>4 DEF TailsTerminal, TerminalTail, LastKind
  <2> QED BY <1>1, <1>2, <2>1, LogsTell DEF StatusFollowsLog, Over
<1> HIDE DEF log
<1>5. PageSees(page', stream', rows)
  BY <1>1, <1>2, <1>3, <1>4 DEF PageSees, log
<1> QED BY <1>1, <1>3, <1>5 DEF PageInv

LEMMA DeliverSees ==
    ASSUME TypeInv, TailsTerminal, PageInv, Deliver
    PROVE  PageInv'
<1> DEFINE log == rows[page.id].log
           k == stream.sent
           n == stream.sent + 1
           phase == IF log[n].kind \in Terminal THEN "refreshing" ELSE "watching"
<1>1. /\ rows' = rows /\ page.phase = "watching" /\ k < stream.cursor
      /\ stream' = [stream EXCEPT !.sent = n]
      /\ page' = [page EXCEPT !.shown = IF n \in Range(page.shown) THEN page.shown
                                        ELSE Append(page.shown, n),
                              !.phase = phase]
  BY DEF Deliver, vars, work, PageInv, StreamTyped
<1>2. k \in Nat /\ stream.cursor \in Nat /\ n \in Nat
  BY DEF PageInv, StreamTyped
<1>3. /\ page.id \in DOMAIN rows /\ log \in Seq(Events) /\ Len(log) \in Nat
      /\ stream.cursor <= Len(log) /\ page.shown = [j \in 1..k |-> j]
      /\ \A j \in 1..stream.cursor : log[j].kind \in Terminal => Over(rows[page.id])
  BY <1>1 DEF PageInv, PageSees, TypeInv, TypeOK, Rows
<1>4. n \in 1..stream.cursor /\ n \in 1..Len(log) /\ n <= stream.cursor
  BY <1>1, <1>2, <1>3
<1>5. page'.shown = [j \in 1..n |-> j] /\ page'.id = page.id /\ page'.phase = phase
  <2>1. n \notin Range(page.shown) /\ Append(page.shown, n) = [j \in 1..n |-> j]
    BY <1>2, <1>3, ShownUpTo
  <2> QED BY <1>1, <2>1 DEF PageInv, StreamTyped
<1>6. stream'.sent = n /\ stream'.cursor = stream.cursor
  BY <1>1 DEF PageInv, StreamTyped
<1>7. StreamTyped'
  <2>1. [j \in 1..n |-> j] \in Seq(Nat) /\ phase \in Phases
    BY <1>2 DEF Phases
  <2>2. page' = [page EXCEPT !.shown = [j \in 1..n |-> j], !.phase = phase]
    BY <1>1, <1>5 DEF PageInv, StreamTyped
  <2> HIDE DEF phase
  <2> QED BY <1>1, <1>2, <2>1, <2>2 DEF PageInv, StreamTyped
<1>8. phase = "refreshing" => /\ Over(rows[page.id])
                              /\ \A j \in n..Len(log) : log[j].kind \in Terminal
  <2> SUFFICES ASSUME log[n].kind \in Terminal
               PROVE  Over(rows[page.id]) /\ \A j \in n..Len(log) : log[j].kind \in Terminal
    OBVIOUS
  <2>1. Over(rows[page.id])
    BY <1>3, <1>4
  <2>2. ASSUME NEW j \in n..Len(log) PROVE log[j].kind \in Terminal
    <3>1. j \in 1..Len(log) /\ n <= j
      BY <1>2, <1>3, <2>2
    <3> QED BY <1>3, <1>4, <3>1 DEF TailsTerminal, TerminalTail
  <2> QED BY <2>1, <2>2
<1>9. phase \in {"watching", "refreshing"}
  OBVIOUS
<1> HIDE DEF log, k, n, phase
<1>10. PageSees(page', stream', rows)
  BY <1>3, <1>4, <1>5, <1>6, <1>8, <1>9 DEF PageSees, log
<1> QED BY <1>1, <1>7, <1>10 DEF PageInv

LEMMA RefreshSees ==
    ASSUME TypeInv, PageInv, Refresh
    PROVE  PageInv'
<1>1. PICK phase \in {"ended", "lost"} :
         /\ page' = [page EXCEPT !.phase = phase]
         /\ phase = "ended" => ~IsActive(page.id)
  BY DEF Refresh
<1>2. rows' = rows /\ stream' = stream /\ page.phase = "refreshing"
  BY DEF Refresh, vars, work
<1>3. page'.phase = phase /\ page'.id = page.id /\ page'.shown = page.shown /\ StreamTyped'
  BY <1>1, <1>2 DEF PageInv, StreamTyped, Phases
<1>4. PageSees(page', stream, rows)
  BY <1>2, <1>3 DEF PageInv, PageSees
<1> QED BY <1>2, <1>3, <1>4 DEF PageInv

\* A request that has been answered has found, or left, the job over.
LEMMA StopCloses ==
    ASSUME TypeInv, PageInv, NEW c \in Cancellers, Stopped(c)
    PROVE  page.id \in DOMAIN rows' /\ Over(rows'[page.id])
<1> DEFINE id == page.id
<1>1. id \in DOMAIN rows
  BY DEF Stopped, PageInv, PageSees
<1>2. Finalize(id)
  <2>1. CASE canceller[c].id = id /\ FinishCancel(c)
    BY <2>1 DEF FinishCancel
  <2>2. CASE RequestCancel(c, id) /\ canceller'[c] = Idle
    <3>1. ASSUME registry[id] # 0 /\ Live(registry[id]) PROVE FALSE
      <4>1. canceller'[c].run = registry[id]
        BY <2>2, <3>1 DEF RequestCancel, TypeInv, TypeOK
      <4> QED BY <2>2, <3>1, <4>1 DEF Idle
    <3> QED BY <2>2, <3>1 DEF RequestCancel
  <2> QED BY <2>1, <2>2 DEF Stopped
<1>3. CASE IsActive(id)
  <2>1. rows' = [rows EXCEPT ![id] = Closed(rows[id], "cancelled")]
    BY <1>2, <1>3 DEF Finalize
  <2>2. Closed(rows[id], "cancelled").status = "cancelled"
    BY <1>1 DEF Closed, TypeInv, TypeOK, Rows
  <2> QED BY <1>1, <2>1, <2>2 DEF Over, Terminal, TypeInv, TypeOK
<1>4. CASE ~IsActive(id)
  BY <1>1, <1>2, <1>4, OverNotActive DEF Finalize
<1> QED BY <1>3, <1>4

LEMMA StoppedSees ==
    ASSUME TypeInv, PageInv, LogsCarried, EndedKept, NEW c \in Cancellers, Stopped(c)
    PROVE  PageInv'
<1>1. page' = [page EXCEPT !.phase = "ended"] /\ stream' = stream
  BY DEF Stopped
<1>2. /\ page'.phase = "ended" /\ page'.id = page.id /\ page'.shown = page.shown /\ StreamTyped'
      /\ page.phase # "none" /\ stream.sent \in Nat /\ stream.cursor \in Nat
  BY <1>1 DEF PageInv, StreamTyped, Phases, Stopped
<1>3. PageSees(page, stream, rows')
  BY <1>2, JobsGoOn DEF PageInv
<1>4. page.id \in DOMAIN rows' /\ Over(rows'[page.id])
  BY StopCloses
<1>5. PageSees(page', stream, rows')
  BY <1>2, <1>3, <1>4 DEF PageSees
<1> QED BY <1>1, <1>2, <1>5 DEF PageInv

LEMMA ReconnectSees ==
    ASSUME PageInv, page' = page, stream' = From(LastShown), PageSees(page, stream, rows')
    PROVE  PageInv'
<1>1. stream.sent \in Nat /\ stream.cursor \in Nat /\ LastShown = stream.sent
  BY ShownUpTo DEF PageInv, StreamTyped, PageSees
<1>2. StreamTyped'
  BY <1>1 DEF PageInv, StreamTyped, From
<1>3. PageSees(page, From(stream.sent), rows')
  BY <1>1, AgainSees
<1> QED BY <1>1, <1>2, <1>3 DEF PageInv

LEMMA NextSees ==
    ASSUME Removed = {}, TypeInv, LifeInv, LogInv, TailsTerminal, PageInv, [StreamNext]_all
    PROVE  PageInv'
<1>1. LogsCarried /\ EndedKept
  BY PageIsAside, NextCarries, NextKeepsEnded
<1>2. PageSees(page, stream, rows')
  BY <1>1, JobsGoOn DEF PageInv, StreamTyped
<1>3. CASE page' = page /\ stream' = stream
  BY <1>2, <1>3 DEF PageInv, StreamTyped
<1>4. CASE JobStep
  BY <1>2, <1>3, <1>4, ReconnectSees DEF JobStep
<1>5. CASE Reconnect
  BY <1>2, <1>5, ReconnectSees DEF Reconnect
<1>6. CASE Pass \/ Deliver \/ Refresh \/ \E id \in Runs : Open(id)
  BY <1>6, PassSees, DeliverSees, RefreshSees, OpenSees
<1>7. CASE \E c \in Cancellers : Stopped(c)
  BY <1>1, <1>7, StoppedSees
<1> QED BY <1>3, <1>4, <1>5, <1>6, <1>7 DEF StreamNext, all

\* PageIsTrue: whatever connections break, wherever the process stops and
\* whoever cancels, the page shows the events in order and without a gap,
\* takes a job for ended only when it is over, and has then missed nothing but
\* the end that a restart adds.
THEOREM PageShowsTruth == ASSUME Removed = {} PROVE StreamSpec => []PageIsTrue
<1>1. StreamInit => PageInv
  <2> SUFFICES ASSUME StreamInit PROVE PageInv
    OBVIOUS
  <2>1. /\ page = NoPage /\ page.phase = "none" /\ page.shown = <<>>
        /\ stream = From(0) /\ stream.sent = 0 /\ stream.cursor = 0
    BY DEF StreamInit, NoPage, From
  <2>2. <<>> = [n \in 1..0 |-> n] /\ <<>> \in Seq(Nat)
    OBVIOUS
  <2>3. StreamTyped
    BY <2>1, <2>2 DEF StreamTyped, NoPage, From, Phases
  <2> QED BY <2>1, <2>2, <2>3 DEF PageInv, PageSees
<1>2. TypeInv /\ LifeInv /\ LogInv /\ TailsTerminal /\ PageInv /\ [StreamNext]_all => PageInv'
  BY NextSees
<1>3. TypeInv /\ PageInv => PageIsTrue
  <2> SUFFICES ASSUME TypeInv, PageInv, page.phase # "none" PROVE PageIsTrue
    BY DEF PageIsTrue
  <2>1. /\ stream.sent \in Nat /\ page.shown = [n \in 1..stream.sent |-> n]
        /\ page.id \in DOMAIN rows
    BY DEF PageInv, StreamTyped, PageSees
  <2>2. Len(page.shown) = stream.sent
    BY <2>1, ShownUpTo
  <2> QED BY <2>1, <2>2, OverNotActive DEF PageInv, PageSees, PageIsTrue
<1> QED BY <1>1, <1>2, <1>3, PageLeavesJobs, JobsLifeInv, JobsLogInv, JobsTails, PTL
   DEF StreamSpec
=============================================================================
