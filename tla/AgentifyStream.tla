--------------------------- MODULE AgentifyStream ---------------------------
(***************************************************************************)
(* The page of one administrator that follows a job: the stream of its     *)
(* events (stream_job_events, admin_auto_agentify.py) and the composable   *)
(* that reads it (frontend useAutoAgentifyJob.ts), on top of AgentifyJobs. *)
(*                                                                         *)
(* The stream reads between two awaits of the event loop, the page's GET   *)
(* in the thread pool. The browser opens a stream that has ended again, at *)
(* the last event it has received.                                         *)
(***************************************************************************)
EXTENDS AgentifyJobs

CONSTANTS
    Viewer,    \* the administrator whose page is modelled; is not deleted
    MaxWatched \* bound: jobs created while the page is open, or before

ASSUME StreamAssumption ==
    /\ Viewer \in Admins \ Removed
    /\ MaxWatched \in 1..MaxRuns

VARIABLES
    page,   \* the composable: job, events (by sequence) and what it waits for
    stream  \* the connection: the event last sent, the cursor of the server

all == <<vars, page, stream>>

\* "lost": the stream is closed and the job could not be read afterwards.
Phases == {"none", "watching", "refreshing", "lost", "ended"}
NoPage == [id |-> 0, run |-> 0, phase |-> "none", shown |-> <<>>]
From(n) == [sent |-> n, cursor |-> n, done |-> FALSE]

\* The numbers of the events of a log are their places in it.
LastShown == Max({0} \cup Range(page.shown))

-----------------------------------------------------------------------------
(* The stream                                                              *)

\* Mutant: a stream of a job that has ended is closed at once.
PassOpen ==
    /\ LoopFree /\ page.phase = "watching"
    /\ ~stream.done /\ stream.sent = stream.cursor
    /\ LET over == ~IsActive(page.id) IN
       stream' = [stream EXCEPT !.done = over,
                      !.cursor = IF over THEN @ ELSE Len(rows[page.id].log)]
    /\ UNCHANGED <<vars, page>>

\* One turn of the loop in events(): the rows behind the cursor are sent; a
\* job that is over was read for the last time.
Pass ==
    /\ LoopFree /\ page.phase = "watching"
    /\ ~stream.done /\ stream.sent = stream.cursor
    /\ stream' = [stream EXCEPT
           !.cursor = Len(rows[page.id].log), !.done = ~IsActive(page.id)]
    /\ UNCHANGED <<vars, page>>

\* Mutant: the server goes on where it had stopped to read.
ReconnectAtCursor ==
    /\ page.phase = "watching" /\ stream # From(LastShown)
    /\ stream' = From(stream.cursor)
    /\ UNCHANGED <<vars, page>>

\* The connection breaks, or the server has ended the stream: the browser
\* opens it again with Last-Event-ID.
Reconnect ==
    /\ page.phase = "watching" /\ stream # From(LastShown)
    /\ stream' = From(LastShown)
    /\ UNCHANGED <<vars, page>>

\* applyEvent: every event once; behind a terminal one the stream is closed.
Deliver ==
    /\ page.phase = "watching" /\ stream.sent < stream.cursor
    /\ LET n == stream.sent + 1
           ends == rows[page.id].log[n].kind \in Terminal IN
       /\ stream' = [stream EXCEPT !.sent = n]
       /\ page' = [page EXCEPT
              !.shown = IF n \in Range(@) THEN @ ELSE Append(@, n),
              !.phase = IF ends THEN "refreshing" ELSE @]
    /\ UNCHANGED vars

-----------------------------------------------------------------------------
(* The page                                                                *)

\* load and start: the panel is opened, or the page reloaded, with a job of
\* the viewer.
Open(id) ==
    /\ up /\ Exists(id) /\ rows[id].creator = Viewer
    /\ runs <= MaxWatched
    /\ page' = [id |-> id, run |-> rows[id].run, shown |-> <<>>,
                phase |-> IF IsActive(id) THEN "watching" ELSE "ended"]
    /\ stream' = From(0)
    /\ UNCHANGED vars

\* refreshUntilTerminal: the job is read until it is over, five times at
\* most. A request that fails is not repeated.
Refresh ==
    /\ page.phase = "refreshing"
    /\ \/ up /\ ~IsActive(page.id) /\ page' = [page EXCEPT !.phase = "ended"]
       \/ page' = [page EXCEPT !.phase = "lost"]
    /\ UNCHANGED <<vars, stream>>

\* stop: the page's own cancel request is answered. The page offers it for as
\* long as it takes the job for active.
Stopped(c) ==
    /\ page.phase \in {"watching", "refreshing", "lost"}
    /\ \/ canceller[c].id = page.id /\ FinishCancel(c)
       \/ RequestCancel(c, page.id) /\ canceller'[c] = Idle
    /\ page' = [page EXCEPT !.phase = "ended"]
    /\ UNCHANGED stream

\* What happens to jobs; with the process its connections end.
JobStep ==
    /\ Next
    /\ page.phase # "none" => runs' <= MaxWatched
    /\ stream' = IF up' THEN stream ELSE From(LastShown)
    /\ UNCHANGED page

-----------------------------------------------------------------------------
StreamInit == Init /\ page = NoPage /\ stream = From(0)

StreamNext ==
    \/ JobStep
    \/ Pass \/ Reconnect \/ Deliver \/ Refresh
    \/ \E id \in Runs : Open(id)
    \/ \E c \in Cancellers : Stopped(c)

StreamSpec == StreamInit /\ [][StreamNext]_all

\* In addition to the jobs: the browser opens a stream again that has ended;
\* streams that are opened again and again are read and deliver something at
\* last; the page's own request is answered or fails.
FairStreamSpec ==
    /\ StreamSpec /\ Fairness
    /\ WF_all(stream.done /\ Reconnect) /\ SF_all(Pass)
    /\ SF_all(Deliver) /\ WF_all(Refresh)

-----------------------------------------------------------------------------
(* Properties                                                              *)

\* The page shows the events without a gap and in their order, whatever
\* connections break (Last-Event-ID and applyEvent); it takes a job for ended
\* only when it is over; and when a terminal event makes it close the stream,
\* it has missed nothing but the end that a restart adds to it.
PageIsTrue ==
    page.phase # "none" =>
        LET log == rows[page.id].log IN
        /\ page.shown = [n \in 1..Len(page.shown) |-> n]
        /\ page.phase \in {"refreshing", "lost", "ended"} => ~IsActive(page.id)
        /\ page.phase \in {"refreshing", "lost"} =>
               \A n \in Len(page.shown)..Len(log) : log[n].kind \in Terminal

\* A job that ended without an event for it: its log was full.
EndUnlogged ==
    /\ ~IsActive(page.id)
    /\ Len(rows[page.id].log) >= MaxJobEvents /\ LastKind(rows[page.id]) \notin Terminal

\* A page that follows a job comes to its end, across restarts and broken
\* connections, unless the log had no room for the end (the stream is closed
\* by the status, the page by an event).
PageSeesEnd == page.phase = "watching" ~> page.phase # "watching" \/ EndUnlogged

\* Whatever is under way comes to an end: jobs (by themselves, by cancellation
\* or by the restart), cancel requests, and pages that follow a job.
AllEnds == JobsEnd /\ CancelsEnd /\ PageSeesEnd
=============================================================================
