------------------------------ MODULE ChatTurn ------------------------------
(***************************************************************************)
(* The turns of one conversation: AgentRuntime.run with the Tool loop, the *)
(* calls that suspend a turn (a question to the user, an authorization, a  *)
(* Tool of the embedding page) and their resumption (chat/agent.py,        *)
(* chat/context.py, chat/api.py, agui/runtime.py).                         *)
(*                                                                         *)
(* A turn holds the event loop between two awaits: the model's answer and  *)
(* the execution of a Tool. Every turn has a database session of its own,  *)
(* which keeps what it has read of the conversation until the turn ends,   *)
(* or a Tool call refreshes a token (serialized_write expires it all).     *)
(* Stopping a Skill (thread pool) and a crash can fall between any two     *)
(* commits: one action is one commit, or the moment at which the request   *)
(* of a Tool call leaves.                                                  *)
(***************************************************************************)
EXTENDS Integers, Sequences, FiniteSets, FiniteSetsExt

CONSTANTS
    Turns,         \* requests that may be in flight together
    Channels,      \* the owners examined, among "browser", "embed" and "key"
    Skills,        \* the candidate Skills of the conversation, with a Tool each
    Clashing,      \* those of which the Tools have the same name
    MaxIterations, \* max_iterations of the Agent
    MaxBatch,      \* bound: calls in one answer of the model
    MaxCalls,      \* bound: calls of the model
    MaxStarted,    \* bound: turns
    MaxMessages,   \* bound: messages of the user, beside the first one
    Stops          \* whether the process may stop, and streams break off

ASSUME ChatAssumption ==
    /\ Channels \subseteq {"browser", "embed", "key"} /\ Channels # {}
    /\ Skills # {} /\ Clashing \subseteq Skills
    /\ {MaxIterations, MaxBatch, MaxCalls, MaxStarted, MaxMessages} \subseteq Nat \ {0}
    /\ Stops \in BOOLEAN

VARIABLES
    channel,  \* the one owner column of the conversation that is set
    log,      \* chat_messages, by sequence
    status,   \* agent_status
    pending,  \* pending_clarification: the call the user is asked about, or 0
    loaded,   \* loaded_skill_ids
    skillsOn, \* Skills that run (and Tools and sources enabled)
    turn,     \* what each request in flight does and has read
    holder,   \* the turn that holds the event loop, if any
    issued,   \* the calls of the model, by id
    handed,   \* calls handed to the embedding page and not yet answered by it
    sent,     \* the calls that APIs have accepted, one after the other
    started   \* turns begun

conversation == <<status, pending, loaded>>
vars == <<channel, log, conversation, skillsOn, turn, holder, issued, handed, sent, started>>

Calls == 1..MaxCalls
Statuses == {"running", "completed", "failed", "needs_input",
             "authorization_required", "waiting_client_tool"}
NoSkill == "no Skill"
CallType == [kind: {"tool", "load"}, skill: Skills]
            \cup [kind: {"ask", "client", "other"}, skill: {NoSkill}]
Inputs == {"message", "empty", "result"}
Awaits == {"waiting", "executing"}
Places == Awaits \cup {"none", "resuming", "opening", "clearing", "asking", "handling",
                       "observing", "closing"}

UserMessage == [role |-> "user", calls |-> <<>>, call |-> 0, denied |-> FALSE]

\* Mutant: the calls are not stored with the text.
AssistantText(calls) == [role |-> "assistant", calls |-> <<>>, call |-> 0, denied |-> FALSE]

AssistantMessage(calls) == [role |-> "assistant", calls |-> calls, call |-> 0, denied |-> FALSE]

\* Mutant: the error of a denied call is not stored.
ToolMessageMasked(call, denied) ==
    [role |-> "tool", calls |-> <<>>, call |-> call, denied |-> FALSE]

ToolMessage(call, denied) == [role |-> "tool", calls |-> <<>>, call |-> call, denied |-> denied]

Messages == [role: {"user", "assistant", "tool"}, calls: Seq(Calls), call: 0..MaxCalls,
             denied: BOOLEAN]

\* A request: what it brings, what its session knows of the conversation, the
\* Tools bound when the model was asked, the calls still to handle, the message
\* it resumes (0: none), whether the call it executes has reached the API, and
\* the status it is about to set.
Idle == [at |-> "none", input |-> "message", result |-> 0, known |-> {}, asked |-> 0,
         candidates |-> {}, bound |-> {}, todo |-> <<>>, resumes |-> 0, reached |-> FALSE,
         iteration |-> 0, outcome |-> "running"]
TurnType == [at: Places, input: Inputs, result: 0..MaxCalls, known: SUBSET Skills,
             asked: 0..MaxCalls, candidates: SUBSET Skills, bound: SUBSET Skills,
             todo: Seq(Calls), resumes: Nat, reached: BOOLEAN,
             iteration: 0..MaxIterations, outcome: Statuses]
NoTurn == "no turn"

\* The conversation, its messages and the requests keep their shape.
TypeOK ==
    /\ channel \in Channels /\ status \in Statuses /\ pending \in 0..MaxCalls
    /\ log \in Seq(Messages)
    /\ loaded \subseteq Skills /\ skillsOn \subseteq Skills
    /\ turn \in [Turns -> TurnType] /\ holder \in Turns \cup {NoTurn}
    /\ issued \in Seq(CallType) /\ Len(issued) <= MaxCalls
    /\ handed \subseteq Calls /\ sent \in Seq(Calls)
    /\ started \in 0..MaxStarted

-----------------------------------------------------------------------------
(* Helpers                                                                 *)

LoopFree == holder = NoTurn
At(t, place) == holder = t /\ turn[t].at = place
Returns(t, place) == LoopFree /\ turn[t].at = place
InFlight(t) == turn[t].at # "none"

Goes(t, place) ==
    /\ turn' = [turn EXCEPT ![t].at = place]
    /\ holder' = IF place \in Awaits THEN NoTurn ELSE t

Ends(t) ==
    /\ turn' = [turn EXCEPT ![t] = Idle]
    /\ holder' = NoTurn

\* _fail: the turn ends, its conversation has failed.
Fails(t) == Ends(t) /\ status' = "failed" /\ UNCHANGED <<pending, loaded>>

\* _bound_tools raises agent.tool_name_conflict.
Conflict(skills) == Cardinality(skills \cap skillsOn \cap Clashing) > 1

\* The Tool a call finds among the bound ones: it is found by its name. At most
\* one, as Tools of the same name are not bound together.
ToolNamed(call, bound) ==
    LET skill == issued[call].skill IN
    {s \in bound : s = skill \/ {s, skill} \subseteq Clashing}

\* _tool_is_authorized, with the Skills this session knows to be loaded.
Authorized(t, tool) == tool \subseteq turn[t].known \cap skillsOn

LastTool == Max({0} \cup {i \in 1..Len(log) : log[i].role = "tool"})
AssistantBefore(i) == Max({0} \cup {j \in 1..(i - 1) : log[j].role = "assistant"})
CallsOf(i) == IF i = 0 THEN {} ELSE {log[i].calls[k] : k \in 1..Len(log[i].calls)}

\* _pending_authorization_call: the last Tool message, if it reports a missing
\* authorization for a call of the assistant message before it.
PendingAuthorization ==
    IF LastTool # 0 /\ log[LastTool].denied
        /\ log[LastTool].call \in CallsOf(AssistantBefore(LastTool))
    THEN LastTool ELSE 0

-----------------------------------------------------------------------------
(* A turn                                                                  *)

UserMessages == {i \in 1..Len(log) : log[i].role = "user"}

\* What a client may send now: a browser asks for a resumption only when one is
\* due, a page returns the result of a call that was handed to it.
MaySend(input, result) ==
    \/ input = "message" /\ result = 0 /\ Cardinality(UserMessages) <= MaxMessages
    \/ /\ input = "empty" /\ result = 0
       /\ channel = "embed" \/ (channel = "browser" /\ status = "authorization_required")
    \/ input = "result" /\ channel = "embed" /\ result \in handed

\* Mutant: a request without a message resumes whatever the status is.
ResumesAny(input) == input # "message"

\* resuming_authorization
Resumes(input) == input # "message" /\ status = "authorization_required"

StillLoaded == loaded \cap skillsOn

\* run up to the commit of the running status (the Skills that stopped are
\* dropped in a commit of their own, nothing happens between the two): the Agent and its provider may be
\* unavailable.
Begin(t, input, result, available) ==
    /\ LoopFree /\ ~InFlight(t) /\ started < MaxStarted
    /\ MaySend(input, result)
    /\ started' = started + 1
    /\ handed' = handed \ {result}
    /\ IF ~available \/ skillsOn = {}
       THEN status' = "failed" /\ UNCHANGED <<pending, loaded, turn, holder>>
       ELSE /\ status' = "running" /\ loaded' = StillLoaded
            /\ turn' = [turn EXCEPT ![t] = [Idle EXCEPT
                   !.at = IF Resumes(input) THEN "resuming" ELSE "opening",
                   !.input = input, !.result = result, !.candidates = skillsOn,
                   !.known = loaded', !.asked = pending]]
            /\ holder' = t
            /\ UNCHANGED pending
    /\ UNCHANGED <<channel, log, skillsOn, issued, sent>>

\* The execution of a Tool begins; the message of an earlier denial is resumed.
Execute(t, resumes) ==
    /\ turn' = [turn EXCEPT ![t].at = "executing", ![t].resumes = resumes,
                             ![t].reached = FALSE]
    /\ holder' = NoTurn

\* _resume_authorized_tool up to the execution. A conflict raises outside of the
\* handlers of run.
Resume(t) ==
    LET call == log[PendingAuthorization].call
        tool == ToolNamed(call, turn[t].known \cap skillsOn)
    IN
    /\ At(t, "resuming")
    /\ IF PendingAuthorization = 0 THEN Goes(t, "opening")
       ELSE IF Conflict(turn[t].known) THEN Ends(t)
       ELSE IF tool = {} \/ ~Authorized(t, tool) THEN Goes(t, "opening")
       ELSE Execute(t, PendingAuthorization)
    /\ UNCHANGED <<channel, log, conversation, skillsOn, issued, handed, sent, started>>

NextCall(t) == Head(turn[t].todo)

\* The call a Tool is executed for: a resumed one, or the next one to handle.
CurrentCall(t) == IF turn[t].resumes = 0 THEN NextCall(t) ELSE log[turn[t].resumes].call

\* The API accepts the call, after whatever sessions and tokens were awaited. A
\* request that is answered 401 is not accepted, and is sent anew; the Skill is
\* not looked at again.
Send(t) ==
    /\ Returns(t, "executing") /\ ~turn[t].reached
    /\ sent' = Append(sent, CurrentCall(t))
    /\ turn' = [turn EXCEPT ![t].reached = TRUE]
    /\ UNCHANGED <<channel, log, conversation, skillsOn, holder, issued, handed, started>>

\* What the session knows after a Tool call, which may have made it forget.
Reread(t, expired) ==
    IF expired THEN [turn[t] EXCEPT !.known = loaded, !.asked = pending] ELSE turn[t]

\* The end of a resumed execution: still unauthorized, or the observation (of a
\* failure also) replaces the old one.
Resumed(t, denied, expired) ==
    /\ Returns(t, "executing") /\ turn[t].resumes # 0
    /\ denied => ~turn[t].reached
    /\ IF denied
       THEN Ends(t) /\ status' = "authorization_required" /\ UNCHANGED log
       ELSE /\ log' = [log EXCEPT ![turn[t].resumes].denied = FALSE]
            /\ turn' = [turn EXCEPT ![t] =
                   [Reread(t, expired) EXCEPT !.at = "opening", !.resumes = 0,
                                              !.reached = FALSE]]
            /\ holder' = t
            /\ UNCHANGED status
    /\ UNCHANGED <<channel, pending, loaded, skillsOn, issued, handed, sent, started>>

\* What the request brings is written: the answer to a pending question, the
\* result of a page's Tool, or a message. A transcript that brings nothing new
\* is not written again.
Open(t) ==
    /\ At(t, "opening")
    /\ IF turn[t].asked # 0
       THEN log' = Append(log, ToolMessage(turn[t].asked, FALSE)) /\ Goes(t, "clearing")
       ELSE /\ \/ turn[t].input = "message" /\ log' = Append(log, UserMessage)
               \/ turn[t].input = "result" /\ log' = Append(log, ToolMessage(turn[t].result, FALSE))
               \/ (turn[t].input = "empty" \/ channel = "key") /\ UNCHANGED log
            /\ Goes(t, "asking")
    /\ UNCHANGED <<channel, conversation, skillsOn, issued, handed, sent, started>>

\* Mutant: the answered question stays pending.
ClearLater(t) ==
    /\ At(t, "clearing")
    /\ turn' = [turn EXCEPT ![t].at = "asking", ![t].asked = 0]
    /\ holder' = t
    /\ UNCHANGED <<channel, log, conversation, skillsOn, issued, handed, sent, started>>

\* The question is no longer pending.
Clear(t) ==
    /\ At(t, "clearing")
    /\ pending' = 0
    /\ turn' = [turn EXCEPT ![t].at = "asking", ![t].asked = 0]
    /\ holder' = t
    /\ UNCHANGED <<channel, log, status, loaded, skillsOn, issued, handed, sent, started>>

\* Mutant: one iteration too many.
ExhaustedLate(t) == turn[t].iteration > MaxIterations

Exhausted(t) == turn[t].iteration = MaxIterations

\* The head of the loop: the Tools are bound, the model is asked.
Ask(t) ==
    /\ At(t, "asking")
    /\ IF Exhausted(t) \/ Conflict(turn[t].known) THEN Fails(t)
       ELSE /\ turn' = [turn EXCEPT ![t].at = "waiting", ![t].iteration = @ + 1,
                                    ![t].bound = turn[t].known \cap skillsOn]
            /\ holder' = NoTurn
            /\ UNCHANGED conversation
    /\ UNCHANGED <<channel, log, skillsOn, issued, handed, sent, started>>

\* The model answers with a text.
Reply(t) ==
    /\ Returns(t, "waiting")
    /\ log' = Append(log, AssistantMessage(<<>>))
    /\ turn' = [turn EXCEPT ![t].at = "closing", ![t].outcome = "completed"]
    /\ holder' = t
    /\ UNCHANGED <<channel, conversation, skillsOn, issued, handed, sent, started>>

\* The calls a channel offers: a question in browser Chat, a page's Tool in an
\* embedding. Whatever else the model invents is a call of kind "other".
Offered(call) ==
    /\ call.kind = "ask" => channel = "browser"
    /\ call.kind = "client" => channel = "embed"

\* The model answers with calls. A question drops the others.
Call(t, calls) ==
    LET first == Len(issued) + 1
        asks == {k \in 1..Len(calls) : calls[k].kind = "ask"}
        kept == IF asks = {} THEN calls ELSE <<calls[Min(asks)]>>
        ids == [k \in 1..Len(kept) |-> first + k - 1]
    IN
    /\ Returns(t, "waiting")
    /\ Len(issued) + Len(kept) <= MaxCalls
    /\ \A k \in 1..Len(calls) : Offered(calls[k])
    /\ issued' = issued \o kept
    /\ log' = Append(log, AssistantMessage(ids))
    /\ IF asks = {}
       THEN turn' = [turn EXCEPT ![t].at = "handling", ![t].todo = ids]
       ELSE turn' = [turn EXCEPT ![t].at = "closing", ![t].outcome = "needs_input",
                                 ![t].asked = first]
    /\ holder' = t
    /\ UNCHANGED <<channel, conversation, skillsOn, handed, sent, started>>

\* The provider fails, or anything else raises. What a resumed call raises is
\* not handled.
Break(t) ==
    /\ Returns(t, "waiting") \/ Returns(t, "executing")
    /\ IF turn[t].resumes = 0 THEN Fails(t) ELSE Ends(t) /\ UNCHANGED conversation
    /\ UNCHANGED <<channel, log, skillsOn, issued, handed, sent, started>>

-----------------------------------------------------------------------------
(* _handle_response: one call after the other                              *)

Handles(t, kind) ==
    At(t, "handling") /\ issued[NextCall(t)].kind = kind

BoundTool(t) == ToolNamed(NextCall(t), turn[t].bound)

\* The Tool message of the call that is handled. A denial ends the turn, an
\* observation of the last call is followed by another iteration.
Observe(t, denied, expired) ==
    LET left == Tail(turn[t].todo) IN
    /\ log' = Append(log, ToolMessage(NextCall(t), denied))
    /\ turn' = [turn EXCEPT ![t] = [Reread(t, expired) EXCEPT
           !.at = IF denied THEN "closing" ELSE IF left = <<>> THEN "asking" ELSE "handling",
           !.todo = left, !.reached = FALSE,
           !.bound = IF left = <<>> THEN {} ELSE @,
           !.outcome = IF denied THEN "authorization_required" ELSE @]]
    /\ holder' = t

\* A page's Tool: the turn ends, the call is the page's.
HandOver(t) ==
    /\ Handles(t, "client")
    /\ status' = "waiting_client_tool"
    /\ handed' = handed \cup {NextCall(t)}
    /\ Ends(t)
    /\ UNCHANGED <<channel, log, pending, loaded, skillsOn, issued, sent, started>>

\* load_skills, for a Skill that ran when the turn began. (A call may name
\* several Skills: that is a batch of calls here.)
Load(t) ==
    LET skill == issued[NextCall(t)].skill IN
    /\ Handles(t, "load") /\ skill \in turn[t].candidates
    /\ turn' = [turn EXCEPT ![t].known = @ \cup {skill}, ![t].at = "observing"]
    /\ loaded' = IF skill \in turn[t].known THEN loaded ELSE turn[t].known \cup {skill}
    /\ UNCHANGED <<channel, log, status, pending, skillsOn, holder, issued, handed, sent, started>>

\* Everything that is answered at once: a Skill that was loaded, a call that is
\* not valid, a Tool that is not bound or has stopped since the model was asked.
AnswerCall(t) ==
    /\ \/ At(t, "observing")
       \/ Handles(t, "other")
       \/ Handles(t, "load") /\ issued[NextCall(t)].skill \notin turn[t].candidates
       \/ Handles(t, "tool") /\ (BoundTool(t) = {} \/ ~Authorized(t, BoundTool(t)))
    /\ Observe(t, FALSE, FALSE)
    /\ UNCHANGED <<channel, conversation, skillsOn, issued, handed, sent, started>>

\* A bound Tool of which the Skill still runs is executed.
CallTool(t) ==
    /\ Handles(t, "tool") /\ BoundTool(t) # {} /\ Authorized(t, BoundTool(t))
    /\ Execute(t, 0)
    /\ UNCHANGED <<channel, log, conversation, skillsOn, issued, handed, sent, started>>

\* Its observation. Without authorization a person is asked to authorize, if
\* there is one.
Observed(t, denied, expired) ==
    /\ Returns(t, "executing") /\ turn[t].resumes = 0
    /\ denied => ~turn[t].reached
    /\ Observe(t, denied /\ channel # "key", expired)
    /\ UNCHANGED <<channel, conversation, skillsOn, issued, handed, sent, started>>

\* The last commit of a turn.
Close(t) ==
    /\ At(t, "closing")
    /\ status' = turn[t].outcome
    /\ pending' = IF turn[t].outcome = "needs_input" THEN turn[t].asked ELSE pending
    /\ Ends(t)
    /\ UNCHANGED <<channel, log, loaded, skillsOn, issued, handed, sent, started>>

-----------------------------------------------------------------------------
(* The surroundings                                                        *)

\* The stream of an embedding breaks off: CancelledError at the await.
Abort(t) ==
    /\ Stops /\ channel = "embed" /\ LoopFree /\ turn[t].at \in Awaits
    /\ Ends(t)
    /\ UNCHANGED <<channel, log, conversation, skillsOn, issued, handed, sent, started>>

\* The process stops and is started again.
Crash ==
    /\ Stops /\ \E t \in Turns : InFlight(t)
    /\ turn' = [t \in Turns |-> Idle] /\ holder' = NoTurn
    /\ UNCHANGED <<channel, log, conversation, skillsOn, issued, handed, sent, started>>

\* An administrator stops or starts a Skill.
SwitchSkill(s) ==
    /\ skillsOn' = IF s \in skillsOn THEN skillsOn \ {s} ELSE skillsOn \cup {s}
    /\ UNCHANGED <<channel, log, conversation, turn, holder, issued, handed, sent, started>>

\* A conversation of which the first turn has been answered: its client knows it.
Init ==
    /\ channel \in Channels /\ loaded \in SUBSET Skills
    /\ log = <<UserMessage, AssistantMessage(<<>>)>>
    /\ status = "completed" /\ pending = 0
    /\ skillsOn = Skills
    /\ turn = [t \in Turns |-> Idle] /\ holder = NoTurn
    /\ issued = <<>> /\ handed = {} /\ sent = <<>> /\ started = 0

Batches == UNION {[1..n -> CallType] : n \in 1..MaxBatch}

Step(t) ==
    \/ Resume(t) \/ CallTool(t) \/ Send(t)
    \/ \E denied, expired \in BOOLEAN :
          Resumed(t, denied, expired) \/ Observed(t, denied, expired)
    \/ Open(t) \/ Clear(t) \/ Ask(t)
    \/ Reply(t) \/ Break(t) \/ \E calls \in Batches : Call(t, calls)
    \/ HandOver(t) \/ Load(t) \/ AnswerCall(t)
    \/ Close(t)

Next ==
    \/ \E t \in Turns, input \in Inputs, result \in 0..MaxCalls, available \in BOOLEAN :
          Begin(t, input, result, available)
    \/ \E t \in Turns : Step(t) \/ Abort(t)
    \/ Crash
    \/ \E s \in Skills : SwitchSkill(s)

Spec == Init /\ [][Next]_vars

-----------------------------------------------------------------------------
(* Properties of turns that follow each other                              *)

Answered(call) == \E i \in 1..Len(log) : log[i].role = "tool" /\ log[i].call = call
LastAssistant == AssistantBefore(Len(log) + 1)

\* A conversation that waits has kept what it waits for: the question is the
\* last message, the denied call can be found again, the page has a call that
\* no message answers. What resumes it (agent.py:219-261) reads nothing else.
StatusMatchesLog ==
    /\ status = "needs_input" =>
          pending # 0 /\ log[Len(log)] = AssistantMessage(<<pending>>)
    /\ status = "authorization_required" => PendingAuthorization # 0
    /\ status = "waiting_client_tool" =>
          \E call \in CallsOf(LastAssistant) \cap handed : ~Answered(call)

\* A call is executed once: neither a turn that is resumed, nor one that follows
\* a crash or a broken stream executes it again.
SentOnce == \A i, j \in 1..Len(sent) : sent[i] = sent[j] => i = j

\* Every observation, and the answer to a question, stands after the assistant
\* message with its call and before the next one. (The result of a page's Tool
\* comes whenever the page sends it.)
AnswersInPlace ==
    \A i \in 1..Len(log) :
        log[i].role = "tool" /\ issued[log[i].call].kind # "client"
            => log[i].call \in CallsOf(AssistantBefore(i))

-----------------------------------------------------------------------------
(* Properties of turns that overlap                                        *)

\* Turns that overlap may execute one call twice: while it is executed for one
\* request, the resumption of another call is denied once more, and the status
\* asks again for the call behind it.  But they never execute more calls than
\* the model has made: whatever executes one uses up a call that was not, or the
\* denial of one.
NoMoreThanCalled == Len(sent) <= Len(issued)

\* Every Tool message follows an assistant message with its call.
AnswersFollowCalls ==
    \A i \in 1..Len(log) : log[i].role = "tool" =>
        \E j \in 1..(i - 1) : log[i].call \in CallsOf(j)
=============================================================================
