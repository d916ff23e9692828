--------------------------- MODULE ChatTurn_proofs ---------------------------
(***************************************************************************)
(* Proofs about ChatTurn.  For any number of turns that overlap: types,    *)
(* that answers follow their calls, and that no more calls are executed    *)
(* than the model has made.  As long as turns follow each other            *)
(* (OneAtATime): that answers stand where their calls are, that a          *)
(* conversation has what its status says it waits for, and that a call is  *)
(* executed once.                                                          *)
(*                                                                         *)
(* Nothing in the code keeps turns of a conversation apart, so OneAtATime  *)
(* is a hypothesis on the behaviour: two turns that overlap overwrite each *)
(* other's status and pending question.  Requests that are refused at once *)
(* (no Agent, no Skill) may come at any time: they set the status only.    *)
(***************************************************************************)
EXTENDS ChatTurn, FiniteSetTheorems, SequenceTheorems, WellFoundedInduction, TLAPS

-----------------------------------------------------------------------------
(* The invariants of turns that overlap                                    *)

\* A turn has calls to handle: the first of them is the one it is at.
HasCalls(r) ==
    \/ r.at \in {"handling", "observing"}
    \/ r.at = "executing" /\ r.resumes = 0

Handling(t) == HasCalls(turn[t])

\* The turn executes the call of an earlier denial.
Resuming(t) == turn[t].at = "executing" /\ turn[t].resumes # 0

Issued(call) == call \in 1..Len(issued)

\* The calls to handle are there and have been issued.
TodoIssued ==
    \A t \in Turns :
        /\ Handling(t) => turn[t].todo # <<>>
        /\ \A k \in 1..Len(turn[t].todo) : Issued(turn[t].todo[k])

TypeInv == TypeOK /\ TodoIssued

\* The calls that messages of the model have.
LoggedCalls == {c \in Calls : \E j \in 1..Len(log) : c \in CallsOf(j)}

\* Whatever names a call names one of them.
CallsLogged ==
    /\ pending # 0 => pending \in LoggedCalls
    /\ handed \subseteq LoggedCalls
    /\ \A t \in Turns :
          /\ turn[t].asked # 0 => turn[t].asked \in LoggedCalls
          /\ turn[t].input = "result" => turn[t].result \in LoggedCalls
          /\ \A k \in 1..Len(turn[t].todo) : turn[t].todo[k] \in LoggedCalls

OverlapInv == AnswersFollowCalls /\ CallsLogged

-----------------------------------------------------------------------------
(* The invariants of turns that follow each other                          *)

\* One turn is in flight at most. (What is refused at once may come meanwhile.)
OneAtATime == \A t, u \in Turns : InFlight(t) /\ InFlight(u) => t = u

\* Whatever names a call names one that was issued; what the page was given,
\* and what it returns, are calls of its own Tools.
IssuedCalls == 1..Len(issued)
ClientCalls == {c \in IssuedCalls : issued[c].kind = "client"}

NamesIssued ==
    /\ \A i \in 1..Len(log) :
          /\ log[i].role = "tool" => log[i].call \in IssuedCalls
          /\ \A k \in 1..Len(log[i].calls) : log[i].calls[k] \in IssuedCalls
    /\ handed \subseteq ClientCalls
    /\ \A t \in Turns : turn[t].input = "result" => turn[t].result \in ClientCalls
    /\ \A i \in 1..Len(sent) : sent[i] \in IssuedCalls

\* A turn in flight has its status in the conversation, unless a request that
\* was refused has replaced it. What it is asked is what is pending until it has
\* been answered; from then on nothing is pending.
PendingFollowsTurn ==
    \A t \in Turns :
        /\ InFlight(t) => status \in {"running", "failed"}
        /\ turn[t].at \in {"resuming", "opening", "clearing"} \/ Resuming(t)
              => turn[t].asked = pending
        /\ turn[t].at \in {"asking", "waiting", "closing"} \/ Handling(t) => pending = 0

\* The calls to handle, and the question that is pending, are those of the last
\* assistant message.
LastCalls == CallsOf(LastAssistant)

AtLastAssistant ==
    /\ pending # 0 => pending \in LastCalls
    /\ \A t \in Turns : Handling(t) =>
          \A k \in 1..Len(turn[t].todo) : turn[t].todo[k] \in LastCalls

\* A turn about to ask has asked with its last message.
QuestionAsked ==
    /\ Len(log) # 0
    /\ \A t \in Turns : turn[t].at = "closing" /\ turn[t].outcome = "needs_input" =>
          turn[t].asked # 0 /\ log[Len(log)] = AssistantMessage(<<turn[t].asked>>)

PlaceInv ==
    NamesIssued /\ PendingFollowsTurn /\ AtLastAssistant /\ QuestionAsked /\ AnswersInPlace

\* The calls to handle are numbered in turn and have not been answered.
AnsweredCalls == {c \in Calls : Answered(c)}

TodoUnanswered ==
    \A t \in Turns : Handling(t) =>
        \A k \in 1..Len(turn[t].todo) :
            turn[t].todo[k] = turn[t].todo[1] + k - 1 /\ turn[t].todo[k] \notin AnsweredCalls

\* What a turn is about to set as the status.
OutcomeDue ==
    \A t \in Turns :
        /\ turn[t].at = "closing" =>
              /\ turn[t].outcome # "waiting_client_tool"
              /\ turn[t].outcome = "authorization_required" => PendingAuthorization # 0
        /\ Resuming(t) => turn[t].resumes = PendingAuthorization

StatusInv == TodoUnanswered /\ OutcomeDue /\ StatusMatchesLog

\* A denial that may be resumed is one of a call that was never executed.
SentCalls == {c \in Calls : \E i \in 1..Len(sent) : sent[i] = c}
DenialUnsent == PendingAuthorization # 0 => log[PendingAuthorization].call \notin SentCalls

SentInv ==
    /\ SentOnce
    /\ status = "authorization_required" => DenialUnsent
    /\ \A t \in Turns :
          /\ turn[t].at = "resuming" \/ (Resuming(t) /\ ~turn[t].reached) => DenialUnsent
          /\ turn[t].at = "closing" /\ turn[t].outcome = "authorization_required" => DenialUnsent
          /\ Handling(t) => \A k \in 2..Len(turn[t].todo) : turn[t].todo[k] \notin SentCalls
          /\ Handling(t) /\ (turn[t].at = "executing" => ~turn[t].reached)
                => turn[t].todo[1] \notin SentCalls

-----------------------------------------------------------------------------
(* Greatest and least numbers                                              *)

\* A set of naturals with an upper bound has a greatest element.
LEMMA GreatestOf ==
    ASSUME NEW n \in Nat, NEW S, S \subseteq 0..n, S # {}
    PROVE  /\ Max(S) \in S
           /\ \A x \in S : x <= Max(S)
<1> DEFINE Above == {m \in Nat : \A x \in S : x <= m}
           Less == OpToRel(<, Nat)
<1>1. \E m \in Above : \A k \in Above : <<k, m>> \notin Less
  <2>1. n \in Above
    OBVIOUS
  <2>2. Above \subseteq Nat /\ Above # {}
    BY <2>1
  <2>3. IsWellFoundedOn(Less, Nat)
    BY NatLessThanWellFounded
  <2> HIDE DEF Above, Less
  <2> QED BY <2>2, <2>3, WFMin
<1>2. PICK m \in Above : \A k \in Above : ~(k < m)
  BY <1>1, Zenon DEF OpToRel
<1>3. m \in S
  <2> SUFFICES ASSUME m \notin S PROVE FALSE
    OBVIOUS
  <2>0. m \in Nat /\ \A x \in S : x <= m
    OBVIOUS
  <2>1. m # 0
    <3>1. PICK x \in S : TRUE
      OBVIOUS
    <3>2. x \in Nat /\ x <= m /\ x # m
      BY <2>0, <3>1
    <3> QED BY <3>2
  <2>2. m - 1 \in Above
    <3>1. \A x \in S : x \in Nat /\ x <= m /\ x # m
      BY <2>0
    <3>2. \A x \in S : x <= m - 1
      BY <2>0, <3>1
    <3> QED BY <2>0, <2>1, <3>2
  <2> QED BY <1>2, <2>0, <2>2
<1>4. \A x \in S : m >= x
  BY <1>2
<1>5. \E x \in S : \A y \in S : x >= y
  BY <1>3, <1>4
<1> QED BY <1>5 DEF Max

\* It is the only one.
LEMMA GreatestIs ==
    ASSUME NEW n \in Nat, NEW S, S \subseteq 0..n, NEW m \in S, \A x \in S : x <= m
    PROVE  Max(S) = m
<1>1. Max(S) \in S /\ m <= Max(S) /\ Max(S) <= m
  BY GreatestOf
<1>2. \A x \in S : x \in Nat
  OBVIOUS
<1>3. m \in Nat
  BY <1>2
<1>4. \A x \in Nat : m <= x /\ x <= m => x = m
  BY <1>3
<1> HIDE DEF Max
<1> QED BY <1>1, <1>2, <1>4

\* A set of naturals has a least element.
LEMMA LeastOf ==
    ASSUME NEW S, S \subseteq Nat, S # {}
    PROVE  Min(S) \in S
<1> DEFINE Less == OpToRel(<, Nat)
<1>1. \E m \in S : \A k \in S : <<k, m>> \notin Less
  <2>1. IsWellFoundedOn(Less, Nat)
    BY NatLessThanWellFounded
  <2> HIDE DEF Less
  <2> QED BY <2>1, WFMin
<1>2. PICK m \in S : \A k \in S : ~(k < m)
  BY <1>1, Zenon DEF OpToRel
<1>3. \A k \in S : m <= k
  BY <1>2
<1> QED BY <1>3 DEF Min

-----------------------------------------------------------------------------
(* Messages of the log                                                     *)

\* The bounds are positive numbers.
LEMMA Bounds ==
    /\ MaxIterations \in Nat \ {0} /\ MaxBatch \in Nat \ {0} /\ MaxCalls \in Nat \ {0}
    /\ MaxStarted \in Nat \ {0}
BY ChatAssumption

\* The messages that the turns write.
LEMMA MessageTypes ==
    /\ UserMessage \in Messages /\ UserMessage.role = "user" /\ UserMessage.calls = <<>>
    /\ \A calls \in Seq(Calls) :
          /\ AssistantMessage(calls) \in Messages /\ AssistantMessage(calls).role = "assistant"
          /\ AssistantMessage(calls).calls = calls
    /\ \A call \in 0..MaxCalls, denied \in BOOLEAN :
          /\ ToolMessage(call, denied) \in Messages /\ ToolMessage(call, denied).role = "tool"
          /\ ToolMessage(call, denied).calls = <<>> /\ ToolMessage(call, denied).call = call
          /\ ToolMessage(call, denied).denied = denied
<1>1. <<>> \in Seq(Calls) /\ 0 \in 0..MaxCalls
  BY Bounds, EmptySeq
<1> QED BY <1>1 DEF UserMessage, AssistantMessage, ToolMessage, Messages

\* The last message before a place, and the last answer, are in the log.
LEMMA BeforeBounds ==
    ASSUME log \in Seq(Messages), NEW i \in 1..(Len(log) + 1)
    PROVE  AssistantBefore(i) \in 0..(i - 1)
<1> DEFINE S == {0} \cup {j \in 1..(i - 1) : log[j].role = "assistant"}
<1>1. S \subseteq 0..(i - 1) /\ S # {} /\ i - 1 \in Nat
  BY LenProperties
<1> HIDE DEF S
<1>2. Max(S) \in S
  BY <1>1, GreatestOf
<1> QED BY <1>1, <1>2 DEF AssistantBefore, S

LEMMA ToolBounds ==
    ASSUME log \in Seq(Messages)
    PROVE  /\ LastTool \in 0..Len(log)
           /\ LastTool # 0 => log[LastTool].role = "tool"
<1> DEFINE S == {0} \cup {i \in 1..Len(log) : log[i].role = "tool"}
<1>1. S \subseteq 0..Len(log) /\ S # {} /\ Len(log) \in Nat
  BY LenProperties
<1>2. Max(S) \in S
  <2> HIDE DEF S
  <2> QED BY <1>1, GreatestOf
<1> QED BY <1>1, <1>2 DEF LastTool

\* The calls of a message are calls.
LEMMA CallsOfType ==
    ASSUME log \in Seq(Messages), NEW i \in 0..Len(log)
    PROVE  CallsOf(i) \subseteq Calls
<1>1. CASE i # 0
  <2>1. i \in 1..Len(log)
    BY <1>1, LenProperties
  <2>2. log[i] \in Messages
    BY <2>1, ElementOfSeq
  <2>3. log[i].calls \in Seq(Calls)
    BY <2>2 DEF Messages
  <2>4. \A k \in 1..Len(log[i].calls) : log[i].calls[k] \in Calls
    BY <2>3, ElementOfSeq
  <2> QED BY <1>1, <2>4 DEF CallsOf
<1> QED BY <1>1 DEF CallsOf

\* The call that a resumption finds.
LEMMA PendingBounds ==
    ASSUME log \in Seq(Messages)
    PROVE  /\ PendingAuthorization \in 0..Len(log)
           /\ PendingAuthorization # 0 =>
                 /\ log[PendingAuthorization].role = "tool"
                 /\ log[PendingAuthorization].call \in Calls
<1>1. LastTool \in 0..Len(log) /\ (LastTool # 0 => log[LastTool].role = "tool")
  BY ToolBounds
<1>2. CASE PendingAuthorization # 0
  <2>1. /\ PendingAuthorization = LastTool /\ LastTool # 0
        /\ log[LastTool].call \in CallsOf(AssistantBefore(LastTool))
    BY <1>2 DEF PendingAuthorization
  <2>2. LastTool \in 1..(Len(log) + 1) /\ Len(log) \in Nat
    BY <1>1, <2>1, LenProperties
  <2>3. AssistantBefore(LastTool) \in 0..Len(log)
    BY <1>1, <2>2, BeforeBounds
  <2> QED BY <1>1, <2>1, <2>3, CallsOfType
<1>3. CASE PendingAuthorization = 0
  BY <1>3, LenProperties
<1> QED BY <1>2, <1>3

\* The log goes on: what a message is of, and the calls in it, stay.
LogKept ==
    /\ log \in Seq(Messages) /\ log' \in Seq(Messages)
    /\ Len(log') >= Len(log)
    /\ \A i \in 1..Len(log) : /\ log'[i].role = log[i].role /\ log'[i].calls = log[i].calls
                               /\ log'[i].call = log[i].call

LEMMA KeptBefore ==
    ASSUME LogKept, NEW i \in 1..(Len(log) + 1)
    PROVE  AssistantBefore(i)' = AssistantBefore(i)
<1>1. \A j \in 1..(i - 1) : log'[j].role = log[j].role
  BY LenProperties DEF LogKept
<1>2. {j \in 1..(i - 1) : log'[j].role = "assistant"} = {j \in 1..(i - 1) : log[j].role = "assistant"}
  BY <1>1
<1> QED BY <1>2 DEF AssistantBefore

LEMMA KeptCalls ==
    ASSUME LogKept, NEW i \in 0..Len(log)
    PROVE  CallsOf(i)' = CallsOf(i)
<1>1. CASE i # 0
  <2>1. i \in 1..Len(log)
    BY <1>1, LenProperties DEF LogKept
  <2>2. log'[i].calls = log[i].calls
    BY <2>1 DEF LogKept
  <2> QED BY <1>1, <2>2 DEF CallsOf
<1>2. CASE i = 0
  BY <1>2 DEF CallsOf
<1> QED BY <1>1, <1>2

LEMMA KeptLogged ==
    ASSUME LogKept
    PROVE  LoggedCalls \subseteq LoggedCalls'
<1> SUFFICES ASSUME NEW c \in LoggedCalls PROVE c \in LoggedCalls'
  OBVIOUS
<1>1. PICK j \in 1..Len(log) : c \in CallsOf(j)
  BY DEF LoggedCalls
<1>2. j \in 1..Len(log') /\ j \in 0..Len(log)
  BY LenProperties DEF LogKept
<1>3. c \in CallsOf(j)'
  BY <1>1, <1>2, KeptCalls
<1> QED BY <1>2, <1>3 DEF LoggedCalls, Calls

\* A log without a new message.
LEMMA SameLog ==
    ASSUME LogKept, Len(log') = Len(log)
    PROVE  /\ LastAssistant' = LastAssistant /\ CallsOf(LastAssistant)' = CallsOf(LastAssistant)
           /\ LastTool' = LastTool
           /\ \A c : Answered(c)' <=> Answered(c)
<1>1. Len(log) + 1 \in 1..(Len(log) + 1) /\ Len(log) \in Nat
  BY LenProperties DEF LogKept
<1>2. LastAssistant' = LastAssistant
  BY <1>1, KeptBefore DEF LastAssistant
<1>3. LastAssistant \in 0..Len(log)
  BY <1>1, BeforeBounds DEF LastAssistant, LogKept
<1>4. CallsOf(LastAssistant)' = CallsOf(LastAssistant)
  BY <1>2, <1>3, KeptCalls
<1>5. {i \in 1..Len(log') : log'[i].role = "tool"} = {i \in 1..Len(log) : log[i].role = "tool"}
  BY DEF LogKept
<1>6. LastTool' = LastTool
  BY <1>5 DEF LastTool
<1>7. \A c : Answered(c)' <=> Answered(c)
  BY DEF LogKept, Answered
<1> QED BY <1>2, <1>4, <1>6, <1>7

\* A log with a new message.
LEMMA Appended ==
    ASSUME log \in Seq(Messages), NEW m \in Messages, log' = Append(log, m)
    PROVE  /\ Len(log) \in Nat /\ Len(log') = Len(log) + 1
           /\ log'[Len(log) + 1] = m
           /\ \A i \in 1..Len(log) : log'[i] = log[i]
           /\ LogKept
BY AppendProperties, LenProperties DEF LogKept

LEMMA NewCalls ==
    ASSUME log \in Seq(Messages), NEW m \in Messages, log' = Append(log, m), NEW n, n = Len(log) + 1
    PROVE  CallsOf(n)' = {m.calls[k] : k \in 1..Len(m.calls)}
<1>1. n # 0 /\ log'[n] = m
  BY Appended
<1> QED BY <1>1 DEF CallsOf

\* The last assistant message, and the one before the new message.
LEMMA NewAssistant ==
    ASSUME log \in Seq(Messages), NEW m \in Messages, log' = Append(log, m), NEW n, n = Len(log) + 1
    PROVE  /\ AssistantBefore(n)' = LastAssistant
           /\ m.role = "assistant" => LastAssistant' = n
           /\ m.role # "assistant" => LastAssistant' = LastAssistant
<1> DEFINE S == {0} \cup {j \in 1..Len(log) : log[j].role = "assistant"}
           T == {0} \cup {j \in 1..Len(log') : log'[j].role = "assistant"}
<1>1. n \in Nat /\ n \in 1..(Len(log) + 1) /\ Len(log) \in Nat /\ LogKept /\ n = Len(log')
  BY Appended
<1>2. AssistantBefore(n)' = AssistantBefore(n)
  BY <1>1, KeptBefore
<1>3. LastAssistant = AssistantBefore(n)
  BY DEF LastAssistant
<1>4. LastAssistant = Max(S) /\ LastAssistant' = Max(T)
  <2>1. 1..Len(log) = 1..(n - 1) /\ 1..(Len(log') + 1 - 1) = 1..Len(log')
    BY <1>1
  <2> QED BY <2>1 DEF LastAssistant, AssistantBefore
<1>5. \A j \in 1..Len(log') : j = n \/ (j \in 1..Len(log) /\ log'[j] = log[j])
  BY <1>1, Appended
<1>6. 1..Len(log) \subseteq 1..Len(log') /\ n \in 1..Len(log') /\ n \notin 1..Len(log)
  BY <1>1
<1>7. log'[n] = m /\ \A j \in 1..Len(log) : log'[j] = log[j]
  BY Appended
<1>8. CASE m.role = "assistant"
  <2>1. T \subseteq 0..n /\ n \in T /\ \A x \in T : x <= n
    BY <1>1, <1>6, <1>7, <1>8
  <2> HIDE DEF T
  <2>2. Max(T) = n
    BY <1>1, <2>1, GreatestIs
  <2> QED BY <1>2, <1>3, <1>4, <1>8, <2>2
<1>9. CASE m.role # "assistant"
  <2>1. T = S
    BY <1>5, <1>6, <1>7, <1>9
  <2> QED BY <1>2, <1>3, <1>4, <1>9, <2>1
<1> QED BY <1>8, <1>9

\* The last answer.
LEMMA NewTool ==
    ASSUME log \in Seq(Messages), NEW m \in Messages, log' = Append(log, m), NEW n, n = Len(log) + 1
    PROVE  /\ m.role = "tool" => LastTool' = n
           /\ m.role # "tool" => LastTool' = LastTool
           /\ \A c : Answered(c)' <=> Answered(c) \/ (m.role = "tool" /\ m.call = c)
<1> DEFINE S == {0} \cup {j \in 1..Len(log) : log[j].role = "tool"}
           T == {0} \cup {j \in 1..Len(log') : log'[j].role = "tool"}
<1>1. n \in Nat /\ Len(log) \in Nat /\ n = Len(log')
  BY Appended
<1>4. LastTool = Max(S) /\ LastTool' = Max(T)
  BY DEF LastTool
<1>5. \A j \in 1..Len(log') : j = n \/ (j \in 1..Len(log) /\ log'[j] = log[j])
  BY <1>1, Appended
<1>6. 1..Len(log) \subseteq 1..Len(log') /\ n \in 1..Len(log') /\ n \notin 1..Len(log)
  BY <1>1
<1>7. log'[n] = m /\ \A j \in 1..Len(log) : log'[j] = log[j]
  BY Appended
<1>8. m.role = "tool" => Max(T) = n
  <2> HAVE m.role = "tool"
  <2>1. T \subseteq 0..n /\ n \in T /\ \A x \in T : x <= n
    BY <1>1, <1>6, <1>7
  <2> HIDE DEF T
  <2> QED BY <1>1, <2>1, GreatestIs
<1>9. m.role # "tool" => T = S
  BY <1>5, <1>6, <1>7
<1>10. \A c : Answered(c)' <=> Answered(c) \/ (m.role = "tool" /\ m.call = c)
  BY <1>5, <1>6, <1>7 DEF Answered
<1> QED BY <1>4, <1>8, <1>9, <1>10

-----------------------------------------------------------------------------
(* The types                                                               *)

\* A turn becomes r, the others stay.
Puts(t, r) == r \in TurnType /\ turn' = [turn EXCEPT ![t] = r]

\* Issued calls keep their number.
IssuedKept ==
    /\ issued \in Seq(CallType) /\ issued' \in Seq(CallType)
    /\ Len(issued') >= Len(issued) /\ Len(issued') <= MaxCalls
    /\ \A c \in 1..Len(issued) : issued'[c] = issued[c]

\* A turn that is not in flight.
LEMMA IdleType ==
    /\ Idle \in TurnType /\ Idle.at = "none" /\ Idle.todo = <<>> /\ Idle.asked = 0
    /\ Idle.input = "message" /\ Idle.resumes = 0 /\ Idle.reached = FALSE
<1>1. <<>> \in Seq(Calls) /\ 0 \in 0..MaxCalls /\ 0 \in 0..MaxIterations
  BY Bounds, EmptySeq
<1> QED BY <1>1 DEF Idle, TurnType, Places, Awaits, Inputs, Statuses

\* What the calls of the rest of a turn keep of the others.
LEMMA PutsTurn ==
    ASSUME TypeInv, NEW t \in Turns, NEW r, Puts(t, r), IssuedKept,
           HasCalls(r) => r.todo # <<>>,
           \A k \in 1..Len(r.todo) : r.todo[k] \in 1..Len(issued')
    PROVE  turn' \in [Turns -> TurnType] /\ TodoIssued' /\ turn'[t] = r
<1>1. turn' \in [Turns -> TurnType] /\ turn'[t] = r
  BY DEF Puts, TypeInv, TypeOK
<1>2. ASSUME NEW u \in Turns
      PROVE  /\ HasCalls(turn'[u]) => turn'[u].todo # <<>>
             /\ \A k \in 1..Len(turn'[u].todo) : turn'[u].todo[k] \in 1..Len(issued')
  <2>1. CASE u = t
    BY <1>1, <2>1
  <2>2. CASE u # t
    <3>1. turn'[u] = turn[u]
      BY <2>2 DEF Puts, TypeInv, TypeOK
    <3>2. HasCalls(turn[u]) => turn[u].todo # <<>>
      BY DEF TypeInv, TodoIssued, Handling
    <3>3. \A k \in 1..Len(turn[u].todo) : turn[u].todo[k] \in 1..Len(issued)
      BY DEF TypeInv, TodoIssued, Issued
    <3>4. \A c : c \in 1..Len(issued) => c \in 1..Len(issued')
      BY LenProperties DEF IssuedKept
    <3> QED BY <3>1, <3>2, <3>3, <3>4
  <2> QED BY <2>1, <2>2
<1> QED BY <1>1, <1>2 DEF TodoIssued, Handling, Issued

\* The fields of a turn, and the calls it has to handle.
LEMMA TurnFields ==
    ASSUME TypeInv, NEW t \in Turns
    PROVE  /\ turn[t] \in TurnType /\ turn[t].todo \in Seq(Calls)
           /\ turn[t].known \subseteq Skills /\ turn[t].bound \subseteq Skills
           /\ turn[t].asked \in 0..MaxCalls /\ turn[t].result \in 0..MaxCalls
           /\ turn[t].iteration \in 0..MaxIterations /\ turn[t].resumes \in Nat
           /\ turn[t].outcome \in Statuses /\ turn[t].input \in Inputs
           /\ turn[t].reached \in BOOLEAN
           /\ \A k \in 1..Len(turn[t].todo) : Issued(turn[t].todo[k])
           /\ Handling(t) =>
                 /\ turn[t].todo # <<>> /\ NextCall(t) = turn[t].todo[1] /\ 1 \in 1..Len(turn[t].todo)
                 /\ NextCall(t) \in Calls /\ Issued(NextCall(t))
                 /\ Tail(turn[t].todo) \in Seq(Calls) /\ Len(Tail(turn[t].todo)) = Len(turn[t].todo) - 1
                 /\ Len(turn[t].todo) \in Nat
                 /\ \A k \in 1..(Len(turn[t].todo) - 1) : Tail(turn[t].todo)[k] = turn[t].todo[k + 1]
<1>1. turn[t] \in TurnType
  BY DEF TypeInv, TypeOK
<1>2. turn[t].todo \in Seq(Calls) /\ \A k \in 1..Len(turn[t].todo) : Issued(turn[t].todo[k])
  BY <1>1 DEF TurnType, TypeInv, TodoIssued
<1>3. ASSUME Handling(t)
      PROVE  /\ turn[t].todo # <<>> /\ NextCall(t) = turn[t].todo[1] /\ 1 \in 1..Len(turn[t].todo)
             /\ Tail(turn[t].todo) \in Seq(Calls) /\ Len(Tail(turn[t].todo)) = Len(turn[t].todo) - 1
             /\ Len(turn[t].todo) \in Nat
             /\ \A k \in 1..(Len(turn[t].todo) - 1) : Tail(turn[t].todo)[k] = turn[t].todo[k + 1]
  <2>1. turn[t].todo # <<>>
    BY <1>3 DEF TypeInv, TodoIssued
  <2>2. Len(turn[t].todo) \in Nat \ {0}
    BY <1>2, <2>1, EmptySeq, LenProperties
  <2>3. /\ Tail(turn[t].todo) \in Seq(Calls) /\ Len(Tail(turn[t].todo)) = Len(turn[t].todo) - 1
        /\ \A k \in 1..(Len(turn[t].todo) - 1) : Tail(turn[t].todo)[k] = turn[t].todo[k + 1]
    BY <1>2, <2>1, HeadTailProperties
  <2> QED BY <1>2, <2>1, <2>2, <2>3, HeadTailProperties DEF NextCall
<1>4. Handling(t) => NextCall(t) \in Calls /\ Issued(NextCall(t))
  BY <1>2, <1>3, ElementOfSeq
<1> QED BY <1>1, <1>2, <1>3, <1>4 DEF TurnType

\* The Tools a call may find are bound.
LEMMA ToolNamedType ==
    ASSUME NEW call, NEW bound
    PROVE  ToolNamed(call, bound) \subseteq bound
BY DEF ToolNamed

\* A step of a turn that keeps the other types keeps the type invariant.
LEMMA PutsType ==
    ASSUME TypeInv, NEW t \in Turns, NEW r, Puts(t, r), IssuedKept,
           HasCalls(r) => r.todo # <<>>,
           \A k \in 1..Len(r.todo) : r.todo[k] \in 1..Len(issued'),
           channel' \in Channels, status' \in Statuses, pending' \in 0..MaxCalls,
           log' \in Seq(Messages), loaded' \subseteq Skills, skillsOn' \subseteq Skills,
           holder' \in {t, NoTurn}, handed' \subseteq Calls, sent' \in Seq(Calls),
           started' \in 0..MaxStarted
    PROVE  TypeInv' /\ turn'[t] = r
<1>1. turn' \in [Turns -> TurnType] /\ TodoIssued' /\ turn'[t] = r
  BY PutsTurn
<1>2. TypeOK'
  BY <1>1 DEF TypeOK, IssuedKept
<1> QED BY <1>1, <1>2 DEF TypeInv

LEMMA IssuedSame ==
    ASSUME TypeInv, issued' = issued
    PROVE  IssuedKept
BY LenProperties DEF TypeInv, TypeOK, IssuedKept

\* The same for a step that changes neither what there is to handle nor what is
\* issued.
LEMMA MovesType ==
    ASSUME TypeInv, NEW t \in Turns, NEW r, Puts(t, r), r.todo = turn[t].todo,
           HasCalls(r) => Handling(t),
           UNCHANGED <<channel, skillsOn, issued, started>>,
           status' \in Statuses, pending' \in 0..MaxCalls,
           log' \in Seq(Messages), loaded' \subseteq Skills,
           holder' \in {t, NoTurn}, handed' \subseteq Calls, sent' \in Seq(Calls)
    PROVE  TypeInv' /\ turn'[t] = r
<1>1. \A k \in 1..Len(r.todo) : r.todo[k] \in 1..Len(issued')
  BY TurnFields DEF Issued
<1>2. HasCalls(r) => r.todo # <<>>
  BY TurnFields
<1>3. /\ channel' \in Channels /\ skillsOn' \subseteq Skills /\ started' \in 0..MaxStarted
  BY DEF TypeInv, TypeOK
<1> QED BY <1>1, <1>2, <1>3, IssuedSame, PutsType

\* A turn ends.
LEMMA EndsType ==
    ASSUME TypeInv, NEW t \in Turns, Ends(t),
           UNCHANGED <<channel, log, loaded, skillsOn, issued, sent, started>>,
           status' \in Statuses, pending' \in 0..MaxCalls, handed' \subseteq Calls
    PROVE  TypeInv' /\ turn'[t] = Idle
<1>1. Puts(t, Idle)
  BY IdleType DEF Ends, Puts
<1>2. ~HasCalls(Idle) /\ Len(Idle.todo) = 0
  BY IdleType, EmptySeq DEF HasCalls
<1>3. holder' = NoTurn /\ UNCHANGED <<channel, log, loaded, skillsOn, issued, sent, started>>
  BY DEF Ends
<1>4. /\ channel' \in Channels /\ log' \in Seq(Messages) /\ loaded' \subseteq Skills
      /\ skillsOn' \subseteq Skills /\ sent' \in Seq(Calls) /\ started' \in 0..MaxStarted
  BY <1>3 DEF TypeInv, TypeOK
<1>5. IssuedKept
  BY <1>3, IssuedSame
<1>6. \A k \in 1..Len(Idle.todo) : Idle.todo[k] \in 1..Len(issued')
  BY <1>2
<1> QED BY <1>1, <1>2, <1>3, <1>4, <1>5, <1>6, PutsType

LEMMA ConversationType ==
    ASSUME TypeInv
    PROVE  /\ channel \in Channels /\ status \in Statuses /\ pending \in 0..MaxCalls
           /\ log \in Seq(Messages) /\ loaded \subseteq Skills /\ skillsOn \subseteq Skills
           /\ turn \in [Turns -> TurnType] /\ issued \in Seq(CallType) /\ Len(issued) <= MaxCalls
           /\ Len(issued) \in Nat
           /\ handed \subseteq Calls /\ sent \in Seq(Calls) /\ started \in 0..MaxStarted
BY LenProperties DEF TypeInv, TypeOK

-----------------------------------------------------------------------------
(* What the steps do                                                       *)

\* A turn stops: nothing is kept of it.
Stopped(t) ==
    /\ InFlight(t) /\ turn' = [turn EXCEPT ![t] = Idle] /\ turn'[t] = Idle
    /\ status' \in {status, "failed"}
    /\ UNCHANGED <<log, pending, issued, handed, sent>>

LEMMA AskStops ==
    ASSUME TypeInv, NEW t \in Turns, Ask(t), Exhausted(t) \/ Conflict(turn[t].known)
    PROVE  TypeInv' /\ Stopped(t)
<1>1. Fails(t) /\ UNCHANGED <<channel, log, skillsOn, issued, handed, sent, started>>
  BY DEF Ask
<1>2. TypeInv' /\ turn'[t] = Idle
  BY <1>1, ConversationType, EndsType DEF Fails, Statuses
<1> QED BY <1>1, <1>2 DEF Ask, Fails, Ends, Stopped, At, InFlight

LEMMA ResumeStops ==
    ASSUME TypeInv, NEW t \in Turns, Resume(t),
           PendingAuthorization # 0, Conflict(turn[t].known)
    PROVE  TypeInv' /\ Stopped(t)
<1>1. Ends(t) /\ UNCHANGED <<channel, log, conversation, skillsOn, issued, handed, sent, started>>
  BY DEF Resume
<1>2. TypeInv' /\ turn'[t] = Idle
  BY <1>1, ConversationType, EndsType DEF conversation
<1> QED BY <1>1, <1>2 DEF Resume, Ends, Stopped, At, InFlight, conversation

LEMMA BreakStops ==
    ASSUME TypeInv, NEW t \in Turns, Break(t)
    PROVE  TypeInv' /\ Stopped(t)
<1>1. /\ Ends(t) /\ status' \in {status, "failed"} /\ UNCHANGED <<pending, loaded>>
      /\ UNCHANGED <<channel, log, skillsOn, issued, handed, sent, started>>
  BY DEF Break, Fails, conversation
<1>2. TypeInv' /\ turn'[t] = Idle
  BY <1>1, ConversationType, EndsType DEF Statuses
<1> QED BY <1>1, <1>2 DEF Break, Ends, Stopped, Returns, InFlight

LEMMA AbortStops ==
    ASSUME TypeInv, NEW t \in Turns, Abort(t)
    PROVE  TypeInv' /\ Stopped(t)
<1>1. Ends(t) /\ UNCHANGED <<channel, log, conversation, skillsOn, issued, handed, sent, started>>
  BY DEF Abort
<1>2. TypeInv' /\ turn'[t] = Idle
  BY <1>1, ConversationType, EndsType DEF conversation
<1> QED BY <1>1, <1>2 DEF Abort, Ends, Stopped, InFlight, Awaits, conversation

\* A turn ends with a status that its conversation is to have.
LEMMA HandOverStep ==
    ASSUME TypeInv, NEW t \in Turns, HandOver(t)
    PROVE  /\ TypeInv' /\ turn'[t] = Idle /\ status' = "waiting_client_tool"
           /\ Handling(t) /\ handed' = handed \cup {NextCall(t)}
           /\ issued[NextCall(t)].kind = "client" /\ NextCall(t) \in Calls
           /\ UNCHANGED <<log, pending, issued, sent>>
<1>1. Handling(t)
  BY DEF HandOver, Handles, At, Handling, HasCalls
<1>2. NextCall(t) \in Calls
  BY <1>1, TurnFields
<1>3. handed' \subseteq Calls /\ status' \in Statuses /\ pending' \in 0..MaxCalls
  BY <1>2, ConversationType DEF HandOver, Statuses
<1>4. Ends(t) /\ UNCHANGED <<channel, log, loaded, skillsOn, issued, sent, started>>
  BY DEF HandOver
<1>5. TypeInv' /\ turn'[t] = Idle
  BY <1>3, <1>4, EndsType
<1> QED BY <1>1, <1>2, <1>5 DEF HandOver, Handles

LEMMA CloseStep ==
    ASSUME TypeInv, NEW t \in Turns, Close(t)
    PROVE  /\ TypeInv' /\ turn'[t] = Idle /\ status' = turn[t].outcome
           /\ turn[t].at = "closing"
           /\ pending' = IF turn[t].outcome = "needs_input" THEN turn[t].asked ELSE pending
           /\ UNCHANGED <<log, issued, handed, sent>>
<1>1. status' \in Statuses /\ pending' \in 0..MaxCalls /\ handed' \subseteq Calls
  BY TurnFields, ConversationType DEF Close
<1>2. Ends(t) /\ UNCHANGED <<channel, log, loaded, skillsOn, issued, sent, started>>
  BY DEF Close
<1>3. TypeInv' /\ turn'[t] = Idle
  BY <1>1, <1>2, EndsType
<1> QED BY <1>3 DEF Close, At

LEMMA DeniedAgainStep ==
    ASSUME TypeInv, NEW t \in Turns, NEW expired \in BOOLEAN, Resumed(t, TRUE, expired)
    PROVE  /\ TypeInv' /\ turn'[t] = Idle /\ status' = "authorization_required"
           /\ Resuming(t) /\ ~turn[t].reached /\ UNCHANGED <<log, pending, issued, handed, sent>>
<1>1. /\ Ends(t) /\ status' = "authorization_required"
      /\ UNCHANGED <<channel, log, pending, loaded, skillsOn, issued, handed, sent, started>>
  BY DEF Resumed
<1>2. TypeInv' /\ turn'[t] = Idle
  BY <1>1, ConversationType, EndsType DEF Statuses
<1> QED BY <1>1, <1>2 DEF Resumed, Resuming, Returns

\* A turn begins, with what is pending, or its Agent is unavailable.
Begun(t, input, result) ==
    /\ turn'[t].at \in {"resuming", "opening"} /\ turn'[t].todo = <<>>
    /\ turn'[t].at = "resuming" => status = "authorization_required"
    /\ turn'[t].input = input /\ turn'[t].result = result
    /\ turn'[t].asked = pending
    /\ status' = "running"

LEMMA BeginStep ==
    ASSUME TypeInv, NEW t \in Turns, NEW input \in Inputs, NEW result \in 0..MaxCalls,
           NEW available \in BOOLEAN, Begin(t, input, result, available)
    PROVE  /\ TypeInv' /\ ~InFlight(t)
           /\ input = "result" => result \in handed
           /\ \/ status' = "failed" /\ turn' = turn
              \/ Puts(t, turn'[t]) /\ Begun(t, input, result)
           /\ handed' \subseteq handed
           /\ handed' = handed \ {result}
           /\ UNCHANGED <<log, pending, issued, sent>>
<1>1. /\ handed' = handed \ {result} /\ UNCHANGED <<channel, log, skillsOn, issued, sent>>
      /\ started' = started + 1 /\ started < MaxStarted /\ ~InFlight(t)
      /\ MaySend(input, result) /\ pending' = pending
  BY DEF Begin
<1>2. started' \in 0..MaxStarted
  BY <1>1, Bounds, ConversationType
<1>3. CASE ~available \/ skillsOn = {}
  <2>1. status' = "failed" /\ UNCHANGED <<pending, loaded, turn, holder>>
    BY <1>3 DEF Begin
  <2>2. TypeOK'
    BY <1>1, <1>2, <2>1 DEF TypeInv, TypeOK, Statuses
  <2>3. TodoIssued'
    BY <1>1, <2>1 DEF TypeInv, TodoIssued, Handling, Issued
  <2> QED BY <1>1, <2>1, <2>2, <2>3 DEF TypeInv, MaySend
<1>4. CASE ~(~available \/ skillsOn = {})
  <2> DEFINE r == [Idle EXCEPT
                   !.at = IF Resumes(input) THEN "resuming" ELSE "opening",
                   !.input = input, !.result = result, !.candidates = skillsOn,
                   !.known = StillLoaded, !.asked = pending]
  <2>1. status' = "running" /\ loaded' = StillLoaded /\ turn' = [turn EXCEPT ![t] = r] /\ holder' = t
    BY <1>4 DEF Begin
  <2>2. StillLoaded \subseteq Skills
    BY ConversationType DEF StillLoaded
  <2>3. r \in TurnType
    BY <2>2, IdleType, ConversationType DEF TurnType, Places
  <2>4. r.todo = <<>> /\ r.at \in {"resuming", "opening"} /\ ~HasCalls(r)
    BY IdleType DEF HasCalls, TurnType
  <2>5. /\ r.at = "resuming" => status = "authorization_required"
        /\ r.input = input /\ r.result = result /\ r.asked = pending
    BY IdleType DEF Resumes, TurnType
  <2>6. \A k \in 1..Len(r.todo) : r.todo[k] \in 1..Len(issued')
    BY <2>4, EmptySeq
  <2>7. /\ channel' \in Channels /\ status' \in Statuses /\ pending' \in 0..MaxCalls
        /\ log' \in Seq(Messages) /\ loaded' \subseteq Skills /\ skillsOn' \subseteq Skills
        /\ handed' \subseteq Calls /\ sent' \in Seq(Calls)
    BY <1>1, <2>1, <2>2, ConversationType DEF Statuses
  <2>8. Puts(t, r) /\ IssuedKept
    BY <1>1, <2>1, <2>3, IssuedSame DEF Puts
  <2> HIDE DEF r
  <2>9. TypeInv' /\ turn'[t] = r
    BY <1>2, <2>1, <2>4, <2>6, <2>7, <2>8, PutsType
  <2> QED BY <1>1, <2>1, <2>4, <2>5, <2>8, <2>9 DEF Begun, MaySend
<1> QED BY <1>3, <1>4

\* A step within a turn, of what the conversation holds.
Within(t) == turn' = [turn EXCEPT ![t] = turn'[t]] /\ UNCHANGED <<status, handed, issued>>

\* There is nothing to resume.
LEMMA PassStep ==
    ASSUME TypeInv, NEW t \in Turns, At(t, "resuming"), Goes(t, "opening"),
           UNCHANGED <<channel, log, conversation, skillsOn, issued, handed, sent, started>>
    PROVE  /\ TypeInv' /\ Within(t) /\ turn'[t] = [turn[t] EXCEPT !.at = "opening"]
           /\ turn[t].at = "resuming" /\ UNCHANGED <<log, pending, sent>>
<1> DEFINE r == [turn[t] EXCEPT !.at = "opening"]
<1>1. turn' = [turn EXCEPT ![t] = r] /\ holder' = t
  BY ConversationType DEF Goes, Awaits
<1>2. r \in TurnType /\ r.todo = turn[t].todo /\ ~HasCalls(r)
  BY TurnFields DEF TurnType, Places, HasCalls
<1>3. Puts(t, r)
  BY <1>1, <1>2 DEF Puts
<1>4. UNCHANGED <<status, pending, loaded>>
  BY DEF conversation
<1> HIDE DEF r
<1>5. TypeInv' /\ turn'[t] = r
  BY <1>1, <1>2, <1>3, <1>4, ConversationType, MovesType
<1> QED BY <1>1, <1>4, <1>5 DEF Within, At, r

\* The execution of a Tool begins.
LEMMA ExecuteType ==
    ASSUME TypeInv, NEW t \in Turns, NEW resumes \in Nat, Execute(t, resumes),
           resumes = 0 => Handling(t),
           UNCHANGED <<channel, log, conversation, skillsOn, issued, handed, sent, started>>
    PROVE  /\ TypeInv' /\ Within(t)
           /\ turn'[t] = [turn[t] EXCEPT !.at = "executing", !.resumes = resumes, !.reached = FALSE]
           /\ UNCHANGED <<log, pending, sent>>
<1> DEFINE r == [turn[t] EXCEPT !.at = "executing", !.resumes = resumes, !.reached = FALSE]
<1>1. turn' = [turn EXCEPT ![t] = r] /\ holder' = NoTurn
  BY ConversationType DEF Execute
<1>2. r \in TurnType /\ r.todo = turn[t].todo /\ (HasCalls(r) => Handling(t))
  BY TurnFields DEF TurnType, Places, Awaits, HasCalls
<1>3. Puts(t, r)
  BY <1>1, <1>2 DEF Puts
<1>4. UNCHANGED <<status, pending, loaded>>
  BY DEF conversation
<1> HIDE DEF r
<1>5. TypeInv' /\ turn'[t] = r
  BY <1>1, <1>2, <1>3, <1>4, ConversationType, MovesType
<1> QED BY <1>1, <1>4, <1>5 DEF Within, r

LEMMA CallToolStep ==
    ASSUME TypeInv, NEW t \in Turns, CallTool(t)
    PROVE  /\ TypeInv' /\ Within(t) /\ turn[t].at = "handling"
           /\ turn'[t] = [turn[t] EXCEPT !.at = "executing", !.resumes = 0, !.reached = FALSE]
           /\ UNCHANGED <<log, pending, sent>>
<1>1. turn[t].at = "handling" /\ Handling(t)
  BY DEF CallTool, Handles, At, Handling, HasCalls
<1>2. /\ Execute(t, 0)
      /\ UNCHANGED <<channel, log, conversation, skillsOn, issued, handed, sent, started>>
  BY DEF CallTool
<1> QED BY <1>1, <1>2, ExecuteType

\* What a turn resumes is in the log.
ResumesLogged ==
    \A t \in Turns :
        /\ turn[t].resumes \in 0..Len(log)
        /\ turn[t].resumes # 0 =>
              log[turn[t].resumes].role = "tool" /\ log[turn[t].resumes].call \in Calls

\* The API accepts the call.
LEMMA SendStep ==
    ASSUME TypeInv, ResumesLogged, NEW t \in Turns, Send(t)
    PROVE  /\ TypeInv' /\ Within(t) /\ turn[t].at = "executing" /\ ~turn[t].reached
           /\ turn'[t] = [turn[t] EXCEPT !.reached = TRUE]
           /\ CurrentCall(t) \in Calls /\ sent' = Append(sent, CurrentCall(t))
           /\ UNCHANGED <<log, pending>>
<1> DEFINE r == [turn[t] EXCEPT !.reached = TRUE]
<1>1. /\ turn' = [turn EXCEPT ![t] = r] /\ UNCHANGED holder /\ holder = NoTurn
      /\ turn[t].at = "executing" /\ ~turn[t].reached
      /\ sent' = Append(sent, CurrentCall(t))
      /\ UNCHANGED <<channel, log, status, pending, loaded, skillsOn, issued, handed, started>>
  BY ConversationType DEF Send, Returns, LoopFree, conversation
<1>2. r \in TurnType /\ r.todo = turn[t].todo /\ (HasCalls(r) => Handling(t))
  BY <1>1, TurnFields DEF TurnType, HasCalls, Handling
<1>3. Puts(t, r)
  BY <1>1, <1>2 DEF Puts
<1>4. CurrentCall(t) \in Calls
  <2>1. CASE turn[t].resumes = 0
    <3>1. Handling(t)
      BY <1>1, <2>1 DEF Handling, HasCalls
    <3> QED BY <2>1, <3>1, TurnFields DEF CurrentCall
  <2>2. CASE turn[t].resumes # 0
    BY <2>2 DEF CurrentCall, ResumesLogged
  <2> QED BY <2>1, <2>2
<1>5. sent' \in Seq(Calls)
  BY <1>1, <1>4, ConversationType, AppendProperties
<1> HIDE DEF r
<1>6. TypeInv' /\ turn'[t] = r
  BY <1>1, <1>2, <1>3, <1>5, ConversationType, MovesType
<1> QED BY <1>1, <1>4, <1>6 DEF Within, r

LEMMA ResumeStep ==
    ASSUME TypeInv, NEW t \in Turns, Resume(t)
    PROVE  \/ TypeInv' /\ Stopped(t)
           \/ /\ TypeInv' /\ Within(t) /\ turn'[t] = [turn[t] EXCEPT !.at = "opening"]
              /\ turn[t].at = "resuming" /\ UNCHANGED <<log, pending, sent>>
           \/ /\ TypeInv' /\ Within(t) /\ turn[t].at = "resuming"
              /\ PendingAuthorization # 0
              /\ turn'[t] = [turn[t] EXCEPT !.at = "executing", !.resumes = PendingAuthorization,
                                            !.reached = FALSE]
              /\ UNCHANGED <<log, pending, sent>>
<1> DEFINE call == log[PendingAuthorization].call
           tool == ToolNamed(call, turn[t].known \cap skillsOn)
<1>1. /\ At(t, "resuming")
      /\ UNCHANGED <<channel, log, conversation, skillsOn, issued, handed, sent, started>>
  BY DEF Resume
<1>2. CASE PendingAuthorization = 0
  <2>1. Goes(t, "opening")
    BY <1>2 DEF Resume
  <2> QED BY <1>1, <2>1, PassStep
<1>3. CASE PendingAuthorization # 0 /\ Conflict(turn[t].known)
  BY <1>3, ResumeStops
<1>4. CASE PendingAuthorization # 0 /\ ~Conflict(turn[t].known) /\ (tool = {} \/ ~Authorized(t, tool))
  <2>1. Goes(t, "opening")
    BY <1>4 DEF Resume
  <2> QED BY <1>1, <2>1, PassStep
<1>5. CASE PendingAuthorization # 0 /\ ~Conflict(turn[t].known) /\ tool # {} /\ Authorized(t, tool)
  <2>1. Execute(t, PendingAuthorization)
    BY <1>5 DEF Resume
  <2>2. PendingAuthorization \in Nat
    BY <1>5, PendingBounds, ConversationType
  <2> HIDE DEF call, tool
  <2> QED BY <1>1, <1>5, <2>1, <2>2, ExecuteType DEF At
<1> QED BY <1>2, <1>3, <1>4, <1>5

\* The denial is taken back.
LEMMA RejoinStep ==
    ASSUME TypeInv, NEW t \in Turns, NEW expired \in BOOLEAN, Resumed(t, FALSE, expired)
    PROVE  /\ TypeInv' /\ Within(t) /\ Resuming(t)
           /\ LogKept /\ Len(log') = Len(log)
           /\ turn'[t].at = "opening" /\ turn'[t].resumes = 0
           /\ turn'[t].asked \in {turn[t].asked, pending}
           /\ turn'[t].input = turn[t].input /\ turn'[t].result = turn[t].result
           /\ turn'[t].todo = turn[t].todo
           /\ UNCHANGED <<pending, sent>>
<1> DEFINE r == [Reread(t, expired) EXCEPT !.at = "opening", !.resumes = 0, !.reached = FALSE]
<1>1. /\ log' = [log EXCEPT ![turn[t].resumes].denied = FALSE] /\ status' = status
      /\ turn' = [turn EXCEPT ![t] = r] /\ holder' = t /\ Resuming(t)
      /\ UNCHANGED <<channel, pending, loaded, skillsOn, issued, handed, sent, started>>
  BY DEF Resumed, Resuming, Returns
<1>2. LogKept /\ Len(log') = Len(log)
  <2>1. log \in [1..Len(log) -> Messages] /\ Len(log) \in Nat
    BY ConversationType, LenProperties
  <2>2. \A m \in Messages : [m EXCEPT !.denied = FALSE] \in Messages
    BY DEF Messages
  <2>3. log' \in [1..Len(log) -> Messages]
    BY <1>1, <2>1, <2>2
  <2>4. log' \in Seq(Messages)
    BY <2>1, <2>3, SeqDef
  <2>5. Len(log') = Len(log)
    BY <2>1, <2>3, <2>4, LenProperties
  <2>6. \A i \in 1..Len(log) : /\ log'[i].role = log[i].role /\ log'[i].calls = log[i].calls
                               /\ log'[i].call = log[i].call
    BY <1>1, <2>1 DEF Messages
  <2> QED BY <2>1, <2>4, <2>5, <2>6, ConversationType DEF LogKept
<1>3. /\ Reread(t, expired) \in TurnType
      /\ Reread(t, expired).asked \in {turn[t].asked, pending}
      /\ Reread(t, expired).input = turn[t].input /\ Reread(t, expired).result = turn[t].result
      /\ Reread(t, expired).todo = turn[t].todo
  BY TurnFields, ConversationType DEF Reread, TurnType
<1>4. /\ r \in TurnType /\ r.at = "opening" /\ r.resumes = 0
      /\ r.asked = Reread(t, expired).asked /\ r.input = Reread(t, expired).input
      /\ r.result = Reread(t, expired).result /\ r.todo = Reread(t, expired).todo
  BY <1>3 DEF TurnType, Places
<1> HIDE DEF r
<1>5. Puts(t, r) /\ r.todo = turn[t].todo /\ ~HasCalls(r)
  BY <1>1, <1>3, <1>4 DEF Puts, HasCalls
<1>6. TypeInv' /\ turn'[t] = r
  BY <1>1, <1>2, <1>5, ConversationType, MovesType DEF LogKept
<1> QED BY <1>1, <1>2, <1>3, <1>4, <1>6 DEF Within

\* The answer to a question is written.
LEMMA AnswerQuestionStep ==
    ASSUME TypeInv, NEW t \in Turns, Open(t), turn[t].asked # 0
    PROVE  /\ TypeInv' /\ Within(t) /\ turn'[t] = [turn[t] EXCEPT !.at = "clearing"]
           /\ turn[t].at = "opening" /\ UNCHANGED <<pending, sent>>
           /\ log' = Append(log, ToolMessage(turn[t].asked, FALSE))
           /\ ToolMessage(turn[t].asked, FALSE) \in Messages
<1> DEFINE r == [turn[t] EXCEPT !.at = "clearing"]
           m == ToolMessage(turn[t].asked, FALSE)
<1>1. /\ At(t, "opening") /\ log' = Append(log, m) /\ Goes(t, "clearing")
      /\ UNCHANGED <<channel, status, pending, loaded, skillsOn, issued, handed, sent, started>>
  BY DEF Open, conversation
<1>2. turn' = [turn EXCEPT ![t] = r] /\ holder' = t
  BY <1>1, ConversationType DEF Goes, Awaits
<1>3. r \in TurnType /\ r.todo = turn[t].todo /\ ~HasCalls(r)
  BY TurnFields DEF TurnType, Places, HasCalls
<1>4. m \in Messages
  BY MessageTypes, TurnFields
<1> HIDE DEF r, m
<1>5. Puts(t, r) /\ log' \in Seq(Messages)
  BY <1>1, <1>2, <1>3, <1>4, ConversationType, AppendProperties DEF Puts
<1>6. TypeInv' /\ turn'[t] = r
  BY <1>1, <1>2, <1>3, <1>5, ConversationType, MovesType
<1> QED BY <1>1, <1>2, <1>4, <1>6 DEF Within, At, r, m

\* What else a request brings is written.
LEMMA OpenStep ==
    ASSUME TypeInv, NEW t \in Turns, Open(t), turn[t].asked = 0
    PROVE  /\ TypeInv' /\ Within(t) /\ turn'[t] = [turn[t] EXCEPT !.at = "asking"]
           /\ turn[t].at = "opening" /\ UNCHANGED <<pending, sent>>
           /\ \/ log' = log
              \/ log' = Append(log, UserMessage) /\ UserMessage \in Messages
              \/ /\ turn[t].input = "result"
                 /\ log' = Append(log, ToolMessage(turn[t].result, FALSE))
                 /\ ToolMessage(turn[t].result, FALSE) \in Messages
<1> DEFINE r == [turn[t] EXCEPT !.at = "asking"]
<1>1. /\ At(t, "opening") /\ Goes(t, "asking")
      /\ \/ log' = Append(log, UserMessage)
         \/ turn[t].input = "result" /\ log' = Append(log, ToolMessage(turn[t].result, FALSE))
         \/ log' = log
      /\ UNCHANGED <<channel, status, pending, loaded, skillsOn, issued, handed, sent, started>>
  BY DEF Open, conversation
<1>2. turn' = [turn EXCEPT ![t] = r] /\ holder' = t
  BY <1>1, ConversationType DEF Goes, Awaits
<1>3. r \in TurnType /\ r.todo = turn[t].todo /\ ~HasCalls(r)
  BY TurnFields DEF TurnType, Places, HasCalls
<1>4. ToolMessage(turn[t].result, FALSE) \in Messages /\ UserMessage \in Messages
  BY MessageTypes, TurnFields
<1> HIDE DEF r
<1>5. Puts(t, r) /\ log' \in Seq(Messages)
  <2>1. \A m \in Messages : Append(log, m) \in Seq(Messages)
    BY ConversationType, AppendProperties
  <2> QED BY <1>1, <1>2, <1>3, <1>4, <2>1, ConversationType DEF Puts
<1>6. TypeInv' /\ turn'[t] = r
  BY <1>1, <1>2, <1>3, <1>5, ConversationType, MovesType
<1> QED BY <1>1, <1>2, <1>4, <1>6 DEF Within, At, r

\* The question is no longer pending.
LEMMA ClearStep ==
    ASSUME TypeInv, NEW t \in Turns, Clear(t)
    PROVE  /\ TypeInv' /\ Within(t)
           /\ turn'[t] = [turn[t] EXCEPT !.at = "asking", !.asked = 0]
           /\ turn[t].at = "clearing" /\ pending' = 0 /\ UNCHANGED <<log, sent>>
<1> DEFINE r == [turn[t] EXCEPT !.at = "asking", !.asked = 0]
<1>1. /\ At(t, "clearing") /\ pending' = 0 /\ turn' = [turn EXCEPT ![t] = r] /\ holder' = t
      /\ UNCHANGED <<channel, log, status, loaded, skillsOn, issued, handed, sent, started>>
  BY ConversationType DEF Clear
<1>2. r \in TurnType /\ r.todo = turn[t].todo /\ ~HasCalls(r)
  <2>1. 0 \in 0..MaxCalls
    BY Bounds
  <2>2. r \in TurnType
    <3>1. "asking" \in Places /\ turn[t] \in TurnType
      BY TurnFields DEF Places
    <3>2. \A q \in TurnType, p \in Places, a \in 0..MaxCalls :
             [q EXCEPT !.at = p, !.asked = a] \in TurnType
      BY DEF TurnType
    <3> QED BY <2>1, <3>1, <3>2
  <2>3. r.todo = turn[t].todo /\ r.at = "asking"
    BY TurnFields DEF TurnType
  <2> HIDE DEF r
  <2> QED BY <2>2, <2>3 DEF HasCalls
<1> HIDE DEF r
<1>3. Puts(t, r) /\ pending' \in 0..MaxCalls
  BY <1>1, <1>2, Bounds DEF Puts
<1>4. TypeInv' /\ turn'[t] = r
  BY <1>1, <1>2, <1>3, ConversationType, MovesType
<1> QED BY <1>1, <1>4 DEF Within, At, r

\* The model is asked.
LEMMA AskStep ==
    ASSUME TypeInv, NEW t \in Turns, Ask(t), ~(Exhausted(t) \/ Conflict(turn[t].known))
    PROVE  /\ TypeInv' /\ Within(t) /\ turn[t].at = "asking"
           /\ turn'[t].at = "waiting" /\ turn'[t].asked = turn[t].asked
           /\ turn'[t].input = turn[t].input /\ turn'[t].result = turn[t].result
           /\ turn'[t].todo = turn[t].todo
           /\ UNCHANGED <<log, pending, sent>>
<1> DEFINE r == [turn[t] EXCEPT !.at = "waiting", !.iteration = @ + 1,
                                !.bound = turn[t].known \cap skillsOn]
<1>1. /\ At(t, "asking") /\ turn' = [turn EXCEPT ![t] = r] /\ holder' = NoTurn
      /\ UNCHANGED <<channel, log, status, pending, loaded, skillsOn, issued, handed, sent, started>>
  BY ConversationType DEF Ask, conversation
<1>2. turn[t].iteration + 1 \in 0..MaxIterations
  BY TurnFields, Bounds DEF Exhausted
<1>3. r \in TurnType /\ r.todo = turn[t].todo /\ ~HasCalls(r) /\ r.at = "waiting"
  BY <1>2, TurnFields DEF TurnType, Places, Awaits, HasCalls
<1>4. r.asked = turn[t].asked /\ r.input = turn[t].input /\ r.result = turn[t].result
  BY TurnFields DEF TurnType
<1> HIDE DEF r
<1>5. Puts(t, r)
  BY <1>1, <1>3 DEF Puts
<1>6. TypeInv' /\ turn'[t] = r
  BY <1>1, <1>3, <1>5, ConversationType, MovesType
<1> QED BY <1>1, <1>3, <1>4, <1>6 DEF Within, At

\* The model has answered with a text.
LEMMA ReplyStep ==
    ASSUME TypeInv, NEW t \in Turns, Reply(t)
    PROVE  /\ TypeInv' /\ Within(t)
           /\ turn'[t] = [turn[t] EXCEPT !.at = "closing", !.outcome = "completed"]
           /\ turn[t].at = "waiting" /\ log' = Append(log, AssistantMessage(<<>>))
           /\ AssistantMessage(<<>>) \in Messages
           /\ UNCHANGED <<pending, sent>>
<1> DEFINE r == [turn[t] EXCEPT !.at = "closing", !.outcome = "completed"]
           m == AssistantMessage(<<>>)
<1>1. /\ turn[t].at = "waiting" /\ turn' = [turn EXCEPT ![t] = r] /\ holder' = t
      /\ log' = Append(log, m)
      /\ UNCHANGED <<channel, status, pending, loaded, skillsOn, issued, handed, sent, started>>
  BY ConversationType DEF Reply, Returns, conversation
<1>2. r \in TurnType /\ r.todo = turn[t].todo /\ ~HasCalls(r)
  BY TurnFields DEF TurnType, Places, HasCalls, Statuses
<1>3. m \in Messages
  BY MessageTypes, EmptySeq
<1> HIDE DEF r, m
<1>4. Puts(t, r) /\ log' \in Seq(Messages)
  BY <1>1, <1>2, <1>3, ConversationType, AppendProperties DEF Puts
<1>5. TypeInv' /\ turn'[t] = r
  BY <1>1, <1>2, <1>4, ConversationType, MovesType
<1> QED BY <1>1, <1>3, <1>5 DEF Within, r, m

\* A Skill is loaded.
LEMMA LoadStep ==
    ASSUME TypeInv, NEW t \in Turns, Load(t)
    PROVE  /\ TypeInv' /\ Within(t) /\ turn[t].at = "handling"
           /\ turn'[t].at = "observing" /\ turn'[t].asked = turn[t].asked
           /\ turn'[t].input = turn[t].input /\ turn'[t].result = turn[t].result
           /\ turn'[t].todo = turn[t].todo
           /\ UNCHANGED <<log, pending, sent>>
<1> DEFINE skill == issued[NextCall(t)].skill
           r == [turn[t] EXCEPT !.known = @ \cup {skill}, !.at = "observing"]
<1>1. /\ turn[t].at = "handling" /\ turn' = [turn EXCEPT ![t] = r] /\ holder' = holder
      /\ holder = t /\ issued[NextCall(t)].kind = "load"
      /\ loaded' = IF skill \in turn[t].known THEN loaded ELSE turn[t].known \cup {skill}
      /\ UNCHANGED <<channel, log, status, pending, skillsOn, issued, handed, sent, started>>
  BY ConversationType DEF Load, Handles, At
<1>2. Handling(t)
  BY <1>1 DEF Handling, HasCalls
<1>3. skill \in Skills
  <2>1. issued[NextCall(t)] \in CallType
    BY <1>2, TurnFields, ConversationType, ElementOfSeq DEF Issued
  <2> QED BY <1>1, <2>1 DEF CallType
<1>4. r \in TurnType /\ r.todo = turn[t].todo /\ r.at = "observing"
  BY <1>3, TurnFields DEF TurnType, Places
<1>5. r.asked = turn[t].asked /\ r.input = turn[t].input /\ r.result = turn[t].result
  BY TurnFields DEF TurnType
<1>6. loaded' \subseteq Skills
  BY <1>1, <1>3, TurnFields, ConversationType
<1> HIDE DEF r, skill
<1>7. Puts(t, r)
  BY <1>1, <1>4 DEF Puts
<1>8. TypeInv' /\ turn'[t] = r
  BY <1>1, <1>2, <1>4, <1>6, <1>7, ConversationType, MovesType
<1> QED BY <1>1, <1>4, <1>5, <1>8 DEF Within

\* The call at the head is answered.
ObservedAs(t, denied) ==
    /\ log' = Append(log, ToolMessage(NextCall(t), denied))
    /\ ToolMessage(NextCall(t), denied) \in Messages
    /\ turn'[t].todo = Tail(turn[t].todo)
    /\ turn'[t].asked \in {turn[t].asked, pending}
    /\ turn'[t].input = turn[t].input /\ turn'[t].result = turn[t].result
    /\ denied => turn'[t].at = "closing" /\ turn'[t].outcome = "authorization_required"
    /\ ~denied => \/ turn'[t].at = "asking" /\ turn'[t].todo = <<>>
                  \/ turn'[t].at = "handling" /\ turn'[t].todo # <<>>

LEMMA ObserveType ==
    ASSUME TypeInv, NEW t \in Turns, NEW denied \in BOOLEAN, NEW expired \in BOOLEAN,
           Handling(t), Observe(t, denied, expired),
           UNCHANGED <<channel, conversation, skillsOn, issued, handed, sent, started>>
    PROVE  TypeInv' /\ Within(t) /\ ObservedAs(t, denied) /\ UNCHANGED <<pending, sent>>
<1> DEFINE left == Tail(turn[t].todo)
           base == Reread(t, expired)
           place == IF denied THEN "closing" ELSE IF left = <<>> THEN "asking" ELSE "handling"
           due == IF denied THEN "authorization_required" ELSE base.outcome
           tools == IF left = <<>> THEN {} ELSE base.bound
           r == [base EXCEPT !.at = place, !.todo = left, !.reached = FALSE,
                             !.bound = tools, !.outcome = due]
           m == ToolMessage(NextCall(t), denied)
<1>1. /\ log' = Append(log, m) /\ turn' = [turn EXCEPT ![t] = r] /\ holder' = t
      /\ UNCHANGED <<channel, status, pending, loaded, skillsOn, issued, handed, sent, started>>
  BY DEF Observe, conversation
<1>2. /\ base \in TurnType /\ base.asked \in {turn[t].asked, pending}
      /\ base.input = turn[t].input /\ base.result = turn[t].result
  BY TurnFields, ConversationType DEF Reread, TurnType
<1>3. m \in Messages
  <2>1. NextCall(t) \in 0..MaxCalls
    BY TurnFields, Bounds DEF Calls
  <2> QED BY <2>1, MessageTypes
<1>4. /\ left \in Seq(Calls) /\ Len(left) = Len(turn[t].todo) - 1 /\ Len(turn[t].todo) \in Nat
      /\ \A k \in 1..(Len(turn[t].todo) - 1) : left[k] = turn[t].todo[k + 1]
      /\ \A k \in 1..Len(turn[t].todo) : turn[t].todo[k] \in 1..Len(issued)
  BY TurnFields DEF Issued
<1>5. place \in Places /\ due \in Statuses /\ tools \subseteq Skills
  BY <1>2 DEF Places, Statuses, TurnType
<1> HIDE DEF left, base, place, due, tools, m
<1>6. /\ r \in TurnType /\ r.at = place /\ r.todo = left
      /\ r.asked = base.asked /\ r.input = base.input /\ r.result = base.result
      /\ r.outcome = due
  <2>1. \A q \in TurnType, p \in Places, l \in Seq(Calls), b \in SUBSET Skills, o \in Statuses :
           [q EXCEPT !.at = p, !.todo = l, !.reached = FALSE, !.bound = b, !.outcome = o] \in TurnType
    BY DEF TurnType
  <2>2. r \in TurnType
    BY <1>2, <1>4, <1>5, <2>1
  <2> QED BY <1>2, <2>2 DEF TurnType
<1> HIDE DEF r
<1>7. Puts(t, r) /\ log' \in Seq(Messages)
  BY <1>1, <1>3, <1>6, ConversationType, AppendProperties DEF Puts
<1>8. \A k \in 1..Len(r.todo) : r.todo[k] \in 1..Len(issued')
  <2>1. ASSUME NEW k \in 1..Len(left)
        PROVE  left[k] \in 1..Len(issued)
    <3>1. left[k] = turn[t].todo[k + 1] /\ k + 1 \in 1..Len(turn[t].todo)
      BY <1>4
    <3> QED BY <1>4, <3>1
  <2> QED BY <1>1, <1>6, <2>1
<1>9. HasCalls(r) => r.todo # <<>>
  <2>1. place \in {"closing", "asking"} \/ (place = "handling" /\ left # <<>>)
    BY DEF place
  <2> QED BY <1>6, <2>1 DEF HasCalls
<1>10. IssuedKept
  BY <1>1, IssuedSame
<1>11. /\ channel' \in Channels /\ status' \in Statuses /\ pending' \in 0..MaxCalls
       /\ loaded' \subseteq Skills /\ skillsOn' \subseteq Skills
       /\ handed' \subseteq Calls /\ sent' \in Seq(Calls) /\ started' \in 0..MaxStarted
  BY <1>1, ConversationType
<1>12. TypeInv' /\ turn'[t] = r
  BY <1>1, <1>7, <1>8, <1>9, <1>10, <1>11, PutsType
<1>13. Within(t)
  BY <1>1, <1>12 DEF Within
<1>14. ObservedAs(t, denied)
  BY <1>1, <1>2, <1>3, <1>6, <1>12 DEF ObservedAs, left, place, due, m
<1> QED BY <1>1, <1>12, <1>13, <1>14

LEMMA AnswerCallStep ==
    ASSUME TypeInv, NEW t \in Turns, AnswerCall(t)
    PROVE  /\ TypeInv' /\ Within(t) /\ ObservedAs(t, FALSE)
           /\ turn[t].at \in {"handling", "observing"} /\ UNCHANGED <<pending, sent>>
<1>1. turn[t].at \in {"handling", "observing"}
  BY DEF AnswerCall, Handles, At
<1>2. Handling(t)
  BY <1>1 DEF Handling, HasCalls
<1>3. /\ Observe(t, FALSE, FALSE)
      /\ UNCHANGED <<channel, conversation, skillsOn, issued, handed, sent, started>>
  BY DEF AnswerCall
<1> QED BY <1>1, <1>2, <1>3, ObserveType

LEMMA ObservedStep ==
    ASSUME TypeInv, NEW t \in Turns, NEW denied \in BOOLEAN, NEW expired \in BOOLEAN,
           Observed(t, denied, expired)
    PROVE  /\ TypeInv' /\ Within(t) /\ turn[t].at = "executing" /\ turn[t].resumes = 0
           /\ \E d \in BOOLEAN : ObservedAs(t, d) /\ (d => ~turn[t].reached)
           /\ UNCHANGED <<pending, sent>>
<1> DEFINE d == denied /\ channel # "key"
<1>1. turn[t].at = "executing" /\ turn[t].resumes = 0
  BY DEF Observed, Returns
<1>2. Handling(t)
  BY <1>1 DEF Handling, HasCalls
<1>3. /\ Observe(t, d, expired)
      /\ UNCHANGED <<channel, conversation, skillsOn, issued, handed, sent, started>>
  BY DEF Observed
<1>4. d \in BOOLEAN /\ (d => ~turn[t].reached)
  BY DEF Observed
<1> HIDE DEF d
<1>5. TypeInv' /\ Within(t) /\ ObservedAs(t, d) /\ UNCHANGED <<pending, sent>>
  BY <1>2, <1>3, <1>4, ObserveType
<1> QED BY <1>1, <1>4, <1>5

\* The model has answered with calls, numbered from the next one on.
CallsMade(t, ids) ==
    /\ ids \in Seq(Calls) /\ Len(ids) \in Nat \ {0}
    /\ \A k \in 1..Len(ids) : ids[k] = Len(issued) + k
    /\ Len(issued') = Len(issued) + Len(ids) /\ IssuedKept
    /\ log' = Append(log, AssistantMessage(ids)) /\ AssistantMessage(ids) \in Messages
    /\ \/ /\ turn'[t].at = "handling" /\ turn'[t].todo = ids
          /\ turn'[t].asked = turn[t].asked
       \/ /\ ids = <<Len(issued) + 1>>
          /\ turn'[t].at = "closing" /\ turn'[t].outcome = "needs_input"
          /\ turn'[t].asked = Len(issued) + 1
          /\ turn'[t].todo = turn[t].todo
    /\ turn'[t].input = turn[t].input /\ turn'[t].result = turn[t].result

LEMMA CallStep ==
    ASSUME TypeInv, NEW t \in Turns, NEW calls \in Batches, Call(t, calls)
    PROVE  /\ TypeInv' /\ turn[t].at = "waiting"
           /\ turn' = [turn EXCEPT ![t] = turn'[t]]
           /\ \E ids : CallsMade(t, ids)
           /\ UNCHANGED <<status, pending, handed, sent>>
<1> DEFINE first == Len(issued) + 1
           asks == {k \in 1..Len(calls) : calls[k].kind = "ask"}
           kept == IF asks = {} THEN calls ELSE <<calls[Min(asks)]>>
           ids == [k \in 1..Len(kept) |-> first + k - 1]
           m == AssistantMessage(ids)
           r == IF asks = {} THEN [turn[t] EXCEPT !.at = "handling", !.todo = ids]
                ELSE [turn[t] EXCEPT !.at = "closing", !.outcome = "needs_input", !.asked = first]
<1>1. /\ turn[t].at = "waiting" /\ Len(issued) + Len(kept) <= MaxCalls
      /\ issued' = issued \o kept /\ log' = Append(log, m)
      /\ IF asks = {}
         THEN turn' = [turn EXCEPT ![t].at = "handling", ![t].todo = ids]
         ELSE turn' = [turn EXCEPT ![t].at = "closing", ![t].outcome = "needs_input",
                                   ![t].asked = first]
      /\ holder' = t
      /\ UNCHANGED <<channel, status, pending, loaded, skillsOn, handed, sent, started>>
  BY DEF Call, Returns, conversation
<1>2. turn' = [turn EXCEPT ![t] = r]
  <2>1. turn \in [Turns -> TurnType]
    BY ConversationType
  <2> HIDE DEF asks, ids, first
  <2> QED BY <1>1, <2>1
<1>3. PICK n \in 1..MaxBatch : calls \in [1..n -> CallType]
  BY DEF Batches
<1>4. calls \in Seq(CallType) /\ Len(calls) = n /\ n \in Nat \ {0}
  <2>1. n \in Nat \ {0}
    BY <1>3, Bounds
  <2>2. calls \in Seq(CallType)
    BY <1>3, <2>1, SeqDef
  <2>3. 1..Len(calls) = 1..n /\ Len(calls) \in Nat
    BY <1>3, <2>2, LenProperties
  <2> QED BY <2>1, <2>2, <2>3
<1>5. kept \in Seq(CallType) /\ Len(kept) \in Nat \ {0} /\ (asks # {} => Len(kept) = 1)
  <2>1. CASE asks = {}
    BY <1>4, <2>1
  <2>2. CASE asks # {}
    <3>1. asks \subseteq Nat
      BY <1>4
    <3>2. Min(asks) \in asks
      <4> HIDE DEF asks
      <4> QED BY <3>1, <2>2, LeastOf
    <3>3. calls[Min(asks)] \in CallType
      BY <1>4, <3>2, ElementOfSeq
    <3>4. kept = <<calls[Min(asks)]>>
      BY <2>2
    <3> HIDE DEF asks, kept
    <3> QED BY <3>3, <3>4
  <2> QED BY <2>1, <2>2
<1> HIDE DEF kept, asks
<1>6. /\ ids \in Seq(Calls) /\ Len(ids) = Len(kept) /\ \A k \in 1..Len(ids) : ids[k] = Len(issued) + k
  <2>1. Len(issued) \in Nat /\ MaxCalls \in Nat
    BY ConversationType, Bounds
  <2>2. ids \in [1..Len(kept) -> Calls]
    BY <1>1, <1>5, <2>1 DEF Calls
  <2>3. ids \in Seq(Calls)
    BY <1>5, <2>2, SeqDef
  <2>4. 1..Len(ids) = 1..Len(kept) /\ Len(ids) \in Nat
    BY <2>2, <2>3, LenProperties
  <2>5. Len(ids) = Len(kept)
    BY <1>5, <2>4
  <2>6. \A k \in 1..Len(kept) : ids[k] = Len(issued) + k
    BY <1>5, <2>1
  <2> QED BY <2>3, <2>5, <2>6
<1>7. /\ issued' \in Seq(CallType) /\ Len(issued') = Len(issued) + Len(kept)
      /\ \A c \in 1..Len(issued) : issued'[c] = issued[c]
  BY <1>1, <1>5, ConversationType, ConcatProperties
<1>8. IssuedKept
  BY <1>1, <1>5, <1>7, ConversationType DEF IssuedKept
<1> HIDE DEF ids
<1>9. m \in Messages /\ log' \in Seq(Messages)
  BY <1>1, <1>6, MessageTypes, ConversationType, AppendProperties
<1>10. first \in Calls /\ first \in 0..MaxCalls
  BY <1>1, <1>5, Bounds, ConversationType DEF Calls
<1>11. r \in TurnType
  <2>1. \A q \in TurnType, p \in Places, l \in Seq(Calls) : [q EXCEPT !.at = p, !.todo = l] \in TurnType
    BY DEF TurnType
  <2>2. \A q \in TurnType, p \in Places, o \in Statuses, a \in 0..MaxCalls :
           [q EXCEPT !.at = p, !.outcome = o, !.asked = a] \in TurnType
    BY DEF TurnType
  <2>3. "handling" \in Places /\ "closing" \in Places /\ "needs_input" \in Statuses
    BY DEF Places, Statuses
  <2> HIDE DEF first
  <2> QED BY <1>6, <1>10, <2>1, <2>2, <2>3, TurnFields
<1>12. /\ \/ /\ asks = {} /\ r.at = "handling" /\ r.todo = ids /\ r.asked = turn[t].asked
          \/ /\ asks # {} /\ r.at = "closing" /\ r.outcome = "needs_input" /\ r.asked = first
             /\ r.todo = turn[t].todo
       /\ r.input = turn[t].input /\ r.result = turn[t].result
  <2> HIDE DEF first, m
  <2> QED BY TurnFields DEF TurnType
<1>13. HasCalls(r) => r.todo # <<>>
  BY <1>5, <1>6, <1>12, EmptySeq DEF HasCalls
<1>14. \A k \in 1..Len(r.todo) : r.todo[k] \in 1..Len(issued')
  <2>1. \A k \in 1..Len(ids) : ids[k] \in 1..Len(issued')
    BY <1>5, <1>6, <1>7, ConversationType
  <2>2. \A k \in 1..Len(turn[t].todo) : turn[t].todo[k] \in 1..Len(issued')
    BY <1>8, TurnFields, LenProperties DEF Issued, IssuedKept
  <2> HIDE DEF r
  <2> QED BY <1>12, <2>1, <2>2
<1> HIDE DEF r, m, first
<1>15. /\ channel' \in Channels /\ status' \in Statuses /\ pending' \in 0..MaxCalls
       /\ loaded' \subseteq Skills /\ skillsOn' \subseteq Skills
       /\ handed' \subseteq Calls /\ sent' \in Seq(Calls) /\ started' \in 0..MaxStarted
  BY <1>1, ConversationType
<1>16. Puts(t, r)
  BY <1>2, <1>11 DEF Puts
<1>17. TypeInv' /\ turn'[t] = r
  BY <1>1, <1>8, <1>9, <1>13, <1>14, <1>15, <1>16, PutsType
<1>18. asks # {} => ids = <<Len(issued) + 1>>
  <2> HAVE asks # {}
  <2>1. Len(ids) = 1 /\ ids[1] = Len(issued) + 1
    BY <1>5, <1>6
  <2>2. ids \in Seq(Calls) /\ <<Len(issued) + 1>> \in Seq(Calls)
    BY <1>6, <1>10 DEF first
  <2> QED BY <2>1, <2>2, SeqEqual
<1>19. CallsMade(t, ids)
  BY <1>1, <1>5, <1>6, <1>7, <1>8, <1>9, <1>12, <1>17, <1>18 DEF CallsMade, m, first
<1> QED BY <1>1, <1>2, <1>17, <1>19

LEMMA CrashStep ==
    ASSUME TypeInv, Crash
    PROVE  /\ TypeInv' /\ turn' = [t \in Turns |-> Idle]
           /\ UNCHANGED <<log, status, pending, issued, handed, sent>>
<1>1. /\ turn' = [t \in Turns |-> Idle] /\ holder' = NoTurn
      /\ UNCHANGED <<channel, log, status, pending, loaded, skillsOn, issued, handed, sent, started>>
  BY DEF Crash, conversation
<1>2. TypeOK'
  BY <1>1, IdleType DEF TypeInv, TypeOK
<1>3. ~HasCalls(Idle) /\ \A k \in 1..Len(Idle.todo) : Idle.todo[k] \in 1..Len(issued')
  BY IdleType, EmptySeq DEF HasCalls
<1>4. TodoIssued'
  <2>1. \A t \in Turns : turn'[t] = Idle
    BY <1>1
  <2> QED BY <1>3, <2>1 DEF TodoIssued, Handling, Issued
<1> QED BY <1>1, <1>2, <1>4 DEF TypeInv

LEMMA SwitchStep ==
    ASSUME TypeInv, NEW s \in Skills, SwitchSkill(s)
    PROVE  TypeInv' /\ UNCHANGED <<log, status, pending, issued, handed, sent, turn>>
<1>1. /\ UNCHANGED <<channel, log, status, pending, loaded, turn, holder, issued, handed, sent, started>>
      /\ skillsOn' \subseteq Skills
  BY ConversationType DEF SwitchSkill, conversation
<1>2. TypeOK'
  BY <1>1 DEF TypeInv, TypeOK
<1>3. TodoIssued'
  BY <1>1 DEF TypeInv, TodoIssued, Handling, Issued
<1> QED BY <1>1, <1>2, <1>3 DEF TypeInv

LEMMA StutterStep ==
    ASSUME TypeInv, UNCHANGED vars
    PROVE  TypeInv' /\ UNCHANGED <<log, status, pending, issued, handed, sent, turn>>
<1>1. UNCHANGED <<channel, log, status, pending, loaded, skillsOn, turn, holder, issued, handed,
                  sent, started>>
  BY DEF vars, conversation
<1>2. TypeOK'
  BY <1>1 DEF TypeInv, TypeOK
<1>3. TodoIssued'
  BY <1>1 DEF TypeInv, TodoIssued, Handling, Issued
<1> QED BY <1>1, <1>2, <1>3 DEF TypeInv

\* What the conversation holds as the first turn begins.
LEMMA InitLog ==
    ASSUME Init
    PROVE  /\ log \in Seq(Messages) /\ Len(log) = 2
           /\ log[1].role = "user" /\ log[2].role = "assistant"
           /\ log[1].calls = <<>> /\ log[2].calls = <<>>
<1>1. <<>> \in Seq(Calls)
  BY EmptySeq
<1>2. UserMessage \in Messages /\ AssistantMessage(<<>>) \in Messages
  BY <1>1, MessageTypes
<1>3. log = <<UserMessage, AssistantMessage(<<>>)>>
  BY DEF Init
<1>4. log \in Seq(Messages) /\ Len(log) = 2 /\ log[1] = UserMessage /\ log[2] = AssistantMessage(<<>>)
  BY <1>2, <1>3
<1>5. /\ UserMessage.role = "user" /\ UserMessage.calls = <<>>
      /\ AssistantMessage(<<>>).role = "assistant" /\ AssistantMessage(<<>>).calls = <<>>
  BY <1>1, MessageTypes
<1> QED BY <1>4, <1>5

LEMMA InitType ==
    ASSUME Init
    PROVE  TypeInv
<1>1. log \in Seq(Messages)
  BY InitLog
<1>2. /\ issued \in Seq(CallType) /\ Len(issued) = 0 /\ sent \in Seq(Calls)
      /\ Len(issued) <= MaxCalls
  <2>1. issued = <<>> /\ sent = <<>> /\ MaxCalls \in Nat
    BY Bounds DEF Init
  <2> QED BY <2>1, EmptySeq
<1>3. TypeOK
  <2>1. /\ channel \in Channels /\ status \in Statuses /\ pending \in 0..MaxCalls
        /\ loaded \subseteq Skills /\ skillsOn \subseteq Skills /\ holder \in Turns \cup {NoTurn}
        /\ handed \subseteq Calls /\ started \in 0..MaxStarted
    BY Bounds DEF Init, Statuses
  <2>2. turn \in [Turns -> TurnType]
    BY IdleType DEF Init
  <2> QED BY <1>1, <1>2, <2>1, <2>2 DEF TypeOK
<1>4. TodoIssued
  <2>1. \A t \in Turns : turn[t] = Idle
    BY DEF Init
  <2>2. ~HasCalls(Idle) /\ \A k \in 1..Len(Idle.todo) : Issued(Idle.todo[k])
    BY IdleType, EmptySeq DEF HasCalls
  <2> QED BY <2>1, <2>2 DEF TodoIssued, Handling
<1> QED BY <1>3, <1>4 DEF TypeInv

\* The step of one turn leaves the others alone.
LEMMA OthersStay ==
    ASSUME TypeInv, NEW t \in Turns, Step(t) \/ Abort(t)
    PROVE  \A u \in Turns : u # t => turn'[u] = turn[u]
<1>1. CASE Resume(t) \/ CallTool(t) \/ Send(t)
  BY <1>1, ConversationType DEF Resume, CallTool, Send, Execute, Goes, Ends
<1>2. CASE \E denied, expired \in BOOLEAN :
              Resumed(t, denied, expired) \/ Observed(t, denied, expired)
  BY <1>2, ConversationType DEF Resumed, Observed, Observe, Ends
<1>3. CASE Open(t) \/ Clear(t) \/ Ask(t) \/ Reply(t)
  BY <1>3, ConversationType DEF Open, Clear, Ask, Reply, Goes, Fails, Ends
<1>4. CASE Break(t) \/ Abort(t) \/ HandOver(t) \/ Close(t)
  BY <1>4, ConversationType DEF Break, Abort, HandOver, Close, Fails, Ends
<1>5. CASE Load(t) \/ AnswerCall(t)
  BY <1>5, ConversationType DEF Load, AnswerCall, Observe
<1>6. CASE \E calls \in Batches : Call(t, calls)
  BY <1>6, CallStep, ConversationType
<1> QED BY <1>1, <1>2, <1>3, <1>4, <1>5, <1>6 DEF Step

\* What a turn resumes is what it has resumed, or the denial that is pending.
LEMMA ResumesMoved ==
    ASSUME TypeInv, NEW t \in Turns, Step(t) \/ Abort(t)
    PROVE  turn'[t].resumes \in {0, turn[t].resumes, PendingAuthorization}
<1>1. turn \in [Turns -> TurnType] /\ turn[t] \in TurnType /\ Idle.resumes = 0
  BY ConversationType, TurnFields, IdleType
<1>2. CASE Resume(t) \/ CallTool(t) \/ Send(t)
  <2>1. CASE Resume(t)
    <3>1. \/ turn'[t] = Idle
          \/ turn'[t] = [turn[t] EXCEPT !.at = "opening"]
          \/ turn'[t] = [turn[t] EXCEPT !.at = "executing", !.resumes = PendingAuthorization,
                                        !.reached = FALSE]
      BY <2>1, ResumeStep DEF Stopped
    <3> QED BY <1>1, <3>1 DEF TurnType
  <2>2. CASE CallTool(t)
    <3>1. turn'[t] = [turn[t] EXCEPT !.at = "executing", !.resumes = 0, !.reached = FALSE]
      BY <2>2, CallToolStep
    <3> QED BY <1>1, <3>1 DEF TurnType
  <2>3. CASE Send(t)
    BY <1>1, <2>3 DEF Send, TurnType
  <2> QED BY <1>2, <2>1, <2>2, <2>3
<1>3. ASSUME NEW expired \in BOOLEAN
      PROVE  Reread(t, expired) \in TurnType /\ Reread(t, expired).resumes = turn[t].resumes
  BY <1>1, ConversationType DEF Reread, TurnType
<1>4. ASSUME NEW denied \in BOOLEAN, NEW expired \in BOOLEAN, Resumed(t, denied, expired)
      PROVE  turn'[t].resumes = 0
  BY <1>1, <1>4, DeniedAgainStep, RejoinStep
<1>5. ASSUME NEW denied \in BOOLEAN, NEW expired \in BOOLEAN, Observe(t, denied, expired)
      PROVE  turn'[t].resumes = turn[t].resumes
  <2> DEFINE q == Reread(t, expired)
  <2>1. q \in TurnType /\ q.resumes = turn[t].resumes
    BY <1>3
  <2>2. turn' = [turn EXCEPT ![t] = [q EXCEPT
           !.at = IF denied THEN "closing" ELSE IF Tail(turn[t].todo) = <<>> THEN "asking" ELSE "handling",
           !.todo = Tail(turn[t].todo), !.reached = FALSE,
           !.bound = IF Tail(turn[t].todo) = <<>> THEN {} ELSE @,
           !.outcome = IF denied THEN "authorization_required" ELSE @]]
    BY <1>5 DEF Observe
  <2> HIDE DEF q
  <2> QED BY <1>1, <2>1, <2>2 DEF TurnType
<1>6. CASE Open(t)
  BY <1>1, <1>6 DEF Open, Goes, TurnType
<1>7. CASE Reply(t) \/ Clear(t) \/ Load(t)
  BY <1>1, <1>7 DEF Reply, Clear, Load, TurnType
<1>8. CASE Ask(t) \/ Break(t) \/ HandOver(t) \/ Close(t) \/ Abort(t)
  BY <1>1, <1>8 DEF Ask, Break, HandOver, Close, Abort, Fails, Ends, TurnType
<1>9. ASSUME NEW calls \in Batches, Call(t, calls)
      PROVE  turn'[t].resumes = turn[t].resumes
  BY <1>1, <1>9 DEF Call, TurnType
<1>10. AnswerCall(t) => Observe(t, FALSE, FALSE)
  BY DEF AnswerCall
<1>11. \A denied, expired \in BOOLEAN :
          Observed(t, denied, expired) => Observe(t, denied /\ channel # "key", expired)
  BY DEF Observed
<1> QED
  BY <1>2, <1>4, <1>5, <1>6, <1>7, <1>8, <1>9, <1>10, <1>11 DEF Step

\* What is resumed stays in the log.
LEMMA LogStays ==
    ASSUME TypeInv, [Next]_vars
    PROVE  /\ Len(log') \in Nat /\ Len(log') >= Len(log)
           /\ \A i \in 1..Len(log) : log'[i].role = log[i].role /\ log'[i].call = log[i].call
<1> DEFINE Kept ==
       /\ Len(log') \in Nat /\ Len(log') >= Len(log)
       /\ \A i \in 1..Len(log) : log'[i].role = log[i].role /\ log'[i].call = log[i].call
<1>1. ASSUME log' = log PROVE Kept
  BY <1>1, ConversationType, LenProperties
<1>2. ASSUME NEW m, log' = Append(log, m) PROVE Kept
  BY <1>2, ConversationType, LenProperties
<1> SUFFICES Kept
  OBVIOUS
<1> HIDE DEF Kept
<1>3. ASSUME NEW t \in Turns, NEW denied \in BOOLEAN, NEW expired \in BOOLEAN,
             Resumed(t, denied, expired)
      PROVE  Kept
  <2>1. CASE denied
    BY <1>1, <1>3, <2>1, DeniedAgainStep
  <2>2. CASE ~denied
    BY <1>3, <2>2, RejoinStep, LenProperties DEF LogKept, Kept
  <2> QED BY <2>1, <2>2
<1>4. ASSUME NEW t \in Turns, Step(t) \/ Abort(t)
      PROVE  Kept
  <2>1. CASE Resume(t) \/ CallTool(t) \/ Send(t)
    BY <1>1, <2>1 DEF Resume, CallTool, Send
  <2>2. CASE \E denied, expired \in BOOLEAN : Observed(t, denied, expired)
    BY <1>2, <2>2 DEF Observed, Observe
  <2>3. CASE Open(t) \/ Reply(t) \/ AnswerCall(t)
    BY <1>1, <1>2, <2>3 DEF Open, Reply, AnswerCall, Observe
  <2>4. CASE \E calls \in Batches : Call(t, calls)
    BY <1>2, <2>4 DEF Call
  <2>5. CASE Clear(t) \/ Ask(t) \/ Break(t) \/ HandOver(t) \/ Load(t) \/ Close(t) \/ Abort(t)
    BY <1>1, <2>5 DEF Clear, Ask, Break, HandOver, Load, Close, Abort
  <2> QED BY <1>3, <1>4, <2>1, <2>2, <2>3, <2>4, <2>5 DEF Step
<1>5. CASE Crash \/ (\E s \in Skills : SwitchSkill(s)) \/ UNCHANGED vars
  BY <1>1, <1>5 DEF Crash, SwitchSkill, vars
<1>6. ASSUME NEW t \in Turns, NEW input \in Inputs, NEW result \in 0..MaxCalls,
             NEW available \in BOOLEAN, Begin(t, input, result, available)
      PROVE  Kept
  BY <1>1, <1>6, BeginStep
<1> QED BY <1>4, <1>5, <1>6 DEF Next

LEMMA StepResumes ==
    ASSUME TypeInv, ResumesLogged, [Next]_vars
    PROVE  ResumesLogged'
<1>1. ASSUME NEW u \in Turns
      PROVE  turn'[u].resumes \in {0, turn[u].resumes, PendingAuthorization}
  <2>1. ASSUME NEW t \in Turns, Step(t) \/ Abort(t)
        PROVE  turn'[u].resumes \in {0, turn[u].resumes, PendingAuthorization}
    BY <2>1, OthersStay, ResumesMoved
  <2>2. ASSUME NEW t \in Turns, NEW input \in Inputs, NEW result \in 0..MaxCalls,
               NEW available \in BOOLEAN, Begin(t, input, result, available)
        PROVE  turn'[u].resumes \in {0, turn[u].resumes}
    <3>1. CASE turn' = turn
      BY <3>1
    <3>2. CASE ~(~available \/ skillsOn = {})
      <4>1. turn' = [turn EXCEPT ![t] = [Idle EXCEPT
                   !.at = IF Resumes(input) THEN "resuming" ELSE "opening",
                   !.input = input, !.result = result, !.candidates = skillsOn,
                   !.known = loaded', !.asked = pending]]
        BY <2>2, <3>2 DEF Begin
      <4>2. Idle.resumes = 0 /\ Idle \in TurnType
        BY IdleType
      <4> QED BY <4>1, <4>2, ConversationType DEF TurnType
    <3> QED BY <2>2, <3>1, <3>2 DEF Begin
  <2>3. CASE Crash
    BY <2>3, IdleType DEF Crash
  <2>4. CASE (\E s \in Skills : SwitchSkill(s)) \/ UNCHANGED vars
    BY <2>4 DEF SwitchSkill, vars
  <2> QED BY <2>1, <2>2, <2>3, <2>4 DEF Next
<1>2. PendingAuthorization # 0 =>
         /\ PendingAuthorization \in 1..Len(log) /\ log[PendingAuthorization].role = "tool"
         /\ log[PendingAuthorization].call \in Calls
  BY PendingBounds, ConversationType
<1>3. ASSUME NEW t \in Turns
      PROVE  /\ turn'[t].resumes \in 0..Len(log')
             /\ turn'[t].resumes # 0 =>
                   log'[turn'[t].resumes].role = "tool" /\ log'[turn'[t].resumes].call \in Calls
  <2>1. /\ turn'[t].resumes \in 0..Len(log) /\ Len(log) \in Nat
        /\ turn'[t].resumes # 0 =>
              log[turn'[t].resumes].role = "tool" /\ log[turn'[t].resumes].call \in Calls
    BY <1>1, <1>2, ConversationType, LenProperties DEF ResumesLogged
  <2> QED BY <2>1, LogStays
<1> QED BY <1>3 DEF ResumesLogged

\* Every step keeps the types.
LEMMA StepType ==
    ASSUME TypeInv, ResumesLogged, [Next]_vars
    PROVE  TypeInv'
<1>1. ASSUME NEW t \in Turns, NEW input \in Inputs, NEW result \in 0..MaxCalls,
             NEW available \in BOOLEAN, Begin(t, input, result, available)
      PROVE  TypeInv'
  BY <1>1, BeginStep
<1>2. ASSUME NEW t \in Turns, Resume(t)
      PROVE  TypeInv'
  BY <1>2, ResumeStep
<1>3. ASSUME NEW t \in Turns, CallTool(t) \/ Send(t)
      PROVE  TypeInv'
  BY <1>3, CallToolStep, SendStep
<1>4. ASSUME NEW t \in Turns, NEW denied \in BOOLEAN, NEW expired \in BOOLEAN,
             Resumed(t, denied, expired)
      PROVE  TypeInv'
  BY <1>4, DeniedAgainStep, RejoinStep
<1>5. ASSUME NEW t \in Turns, NEW denied \in BOOLEAN, NEW expired \in BOOLEAN,
             Observed(t, denied, expired)
      PROVE  TypeInv'
  BY <1>5, ObservedStep
<1>6. ASSUME NEW t \in Turns, Open(t)
      PROVE  TypeInv'
  BY <1>6, AnswerQuestionStep, OpenStep
<1>7. ASSUME NEW t \in Turns, Clear(t)
      PROVE  TypeInv'
  BY <1>7, ClearStep
<1>8. ASSUME NEW t \in Turns, Ask(t)
      PROVE  TypeInv'
  BY <1>8, AskStops, AskStep
<1>9. ASSUME NEW t \in Turns, Reply(t)
      PROVE  TypeInv'
  BY <1>9, ReplyStep
<1>10. ASSUME NEW t \in Turns, Break(t)
       PROVE  TypeInv'
  BY <1>10, BreakStops
<1>11. ASSUME NEW t \in Turns, NEW calls \in Batches, Call(t, calls)
       PROVE  TypeInv'
  BY <1>11, CallStep
<1>12. ASSUME NEW t \in Turns, HandOver(t)
       PROVE  TypeInv'
  BY <1>12, HandOverStep
<1>13. ASSUME NEW t \in Turns, Load(t)
       PROVE  TypeInv'
  BY <1>13, LoadStep
<1>14. ASSUME NEW t \in Turns, AnswerCall(t)
       PROVE  TypeInv'
  BY <1>14, AnswerCallStep
<1>15. ASSUME NEW t \in Turns, Close(t)
       PROVE  TypeInv'
  BY <1>15, CloseStep
<1>16. ASSUME NEW t \in Turns, Abort(t)
       PROVE  TypeInv'
  BY <1>16, AbortStops
<1>17. CASE Crash
  BY <1>17, CrashStep
<1>18. ASSUME NEW s \in Skills, SwitchSkill(s)
       PROVE  TypeInv'
  BY <1>18, SwitchStep
<1>19. CASE UNCHANGED vars
  BY <1>19, StutterStep
<1> QED
  BY <1>1, <1>2, <1>3, <1>4, <1>5, <1>6, <1>7, <1>8, <1>9, <1>10, <1>11, <1>12, <1>13, <1>14,
     <1>15, <1>16, <1>17, <1>18, <1>19 DEF Next, Step

LEMMA AlwaysTyped == Spec => [](TypeInv /\ ResumesLogged)
<1>1. Init => TypeInv /\ ResumesLogged
  <2> SUFFICES ASSUME Init PROVE ResumesLogged
    BY InitType
  <2>1. \A t \in Turns : turn[t].resumes = 0
    BY IdleType DEF Init
  <2> QED BY <2>1, InitLog DEF ResumesLogged
<1>2. TypeInv /\ ResumesLogged /\ [Next]_vars => (TypeInv /\ ResumesLogged)'
  BY StepType, StepResumes
<1> QED BY <1>1, <1>2, PTL DEF Spec

\* The conversation, its messages and its turns keep their shape: TypeOK of
\* every state, however many turns overlap.
THEOREM ChatTypeCorrect == Spec => []TypeOK
<1>1. TypeInv => TypeOK
  BY DEF TypeInv
<1> QED BY <1>1, AlwaysTyped, PTL

-----------------------------------------------------------------------------
(* Answers follow their calls                                              *)

\* Nothing was answered, or it was and its call is there.
LEMMA FollowSame ==
    ASSUME AnswersFollowCalls, LogKept, Len(log') = Len(log)
    PROVE  AnswersFollowCalls' /\ LoggedCalls \subseteq LoggedCalls'
<1>1. ASSUME NEW i \in 1..Len(log'), log'[i].role = "tool"
      PROVE  \E j \in 1..(i - 1) : log'[i].call \in CallsOf(j)'
  <2>1. i \in 1..Len(log) /\ log[i].role = "tool" /\ log'[i].call = log[i].call
    BY <1>1 DEF LogKept
  <2>2. PICK j \in 1..(i - 1) : log[i].call \in CallsOf(j)
    BY <2>1 DEF AnswersFollowCalls
  <2>3. j \in 0..Len(log)
    BY <2>1, <2>2, LenProperties DEF LogKept
  <2>4. CallsOf(j)' = CallsOf(j)
    BY <2>3, KeptCalls
  <2> QED BY <2>1, <2>2, <2>4
<1> QED BY <1>1, KeptLogged DEF AnswersFollowCalls

LEMMA FollowNew ==
    ASSUME TypeInv, AnswersFollowCalls, NEW m \in Messages, log' = Append(log, m),
           m.role = "tool" => m.call \in LoggedCalls
    PROVE  AnswersFollowCalls' /\ LoggedCalls \subseteq LoggedCalls'
<1>1. /\ LogKept /\ Len(log') = Len(log) + 1 /\ Len(log) \in Nat /\ log'[Len(log) + 1] = m
      /\ \A i \in 1..Len(log) : log'[i] = log[i]
  BY ConversationType, Appended
<1>2. ASSUME NEW i \in 1..Len(log'), log'[i].role = "tool"
      PROVE  \E j \in 1..(i - 1) : log'[i].call \in CallsOf(j)'
  <2>1. PICK j \in 1..(i - 1) : log'[i].call \in CallsOf(j)
    <3>1. CASE i \in 1..Len(log)
      BY <1>1, <1>2, <3>1 DEF AnswersFollowCalls
    <3>2. CASE i \notin 1..Len(log)
      <4>1. i = Len(log) + 1 /\ log'[i] = m
        BY <1>1, <3>2
      <4>2. PICK j \in 1..Len(log) : m.call \in CallsOf(j)
        BY <1>2, <4>1 DEF LoggedCalls
      <4>3. j \in 1..(i - 1)
        BY <1>1, <4>1
      <4> QED BY <4>1, <4>2, <4>3
    <3> QED BY <3>1, <3>2
  <2>2. j \in 0..Len(log)
    BY <1>1
  <2>3. CallsOf(j)' = CallsOf(j)
    BY <1>1, <2>2, KeptCalls
  <2> QED BY <2>1, <2>3
<1> QED BY <1>1, <1>2, KeptLogged DEF AnswersFollowCalls

\* The calls of a message that was written.
LEMMA CallsNew ==
    ASSUME TypeInv, NEW ids \in Seq(Calls), log' = Append(log, AssistantMessage(ids)),
           AssistantMessage(ids) \in Messages
    PROVE  \A k \in 1..Len(ids) : ids[k] \in LoggedCalls'
<1> SUFFICES ASSUME NEW n, n = Len(log) + 1
             PROVE  \A k \in 1..Len(ids) : ids[k] \in LoggedCalls'
  OBVIOUS
<1> DEFINE m == AssistantMessage(ids)
<1>1. Len(log') = n /\ n \in 1..n
  BY ConversationType, Appended
<1>2. m.calls = ids
  BY MessageTypes
<1> HIDE DEF m
<1>3. CallsOf(n)' = {m.calls[k] : k \in 1..Len(m.calls)}
  BY ConversationType, NewCalls DEF m
<1>4. \A k \in 1..Len(ids) : ids[k] \in Calls
  BY ElementOfSeq
<1> QED BY <1>1, <1>2, <1>3, <1>4 DEF LoggedCalls, Calls

\* A step that names no call of its own.
LEMMA SameNames ==
    ASSUME TypeInv, CallsLogged, NEW t \in Turns, turn' = [turn EXCEPT ![t] = turn'[t]],
           LoggedCalls \subseteq LoggedCalls',
           turn'[t].asked \in {0, turn[t].asked, pending},
           turn'[t].input = "result" =>
              \/ turn[t].input = "result" /\ turn'[t].result = turn[t].result
              \/ turn'[t].result \in handed,
           \A k \in 1..Len(turn'[t].todo) : turn'[t].todo[k] \in LoggedCalls,
           pending' \in {0, pending, turn[t].asked}, handed' \subseteq LoggedCalls
    PROVE  CallsLogged'
<1> DEFINE Named(r) ==
              /\ r.asked # 0 => r.asked \in LoggedCalls'
              /\ r.input = "result" => r.result \in LoggedCalls'
              /\ \A k \in 1..Len(r.todo) : r.todo[k] \in LoggedCalls'
<1>1. \A u \in Turns : u # t => turn'[u] = turn[u]
  BY ConversationType
<1>2. \A u \in Turns : Named(turn[u])
  BY DEF CallsLogged
<1>3. Named(turn'[t])
  <2>1. turn'[t].asked # 0 => turn'[t].asked \in LoggedCalls'
    BY DEF CallsLogged
  <2>2. turn'[t].input = "result" => turn'[t].result \in LoggedCalls'
    BY DEF CallsLogged
  <2>3. \A k \in 1..Len(turn'[t].todo) : turn'[t].todo[k] \in LoggedCalls'
    OBVIOUS
  <2> QED BY <2>1, <2>2, <2>3
<1>4. \A u \in Turns : Named(turn'[u])
  <2> HIDE DEF Named
  <2> QED BY <1>1, <1>2, <1>3
<1>5. (pending' # 0 => pending' \in LoggedCalls') /\ handed' \subseteq LoggedCalls'
  BY DEF CallsLogged
<1> QED BY <1>4, <1>5 DEF CallsLogged

LEMMA TodoLogged ==
    ASSUME TypeInv, CallsLogged, NEW t \in Turns
    PROVE  /\ \A k \in 1..Len(turn[t].todo) : turn[t].todo[k] \in LoggedCalls
           /\ handed \subseteq LoggedCalls
           /\ turn[t].asked # 0 => turn[t].asked \in LoggedCalls
           /\ turn[t].input = "result" => turn[t].result \in LoggedCalls
           /\ Handling(t) =>
                 /\ NextCall(t) \in LoggedCalls
                 /\ \A k \in 1..Len(Tail(turn[t].todo)) : Tail(turn[t].todo)[k] \in LoggedCalls
<1>1. \A k \in 1..Len(turn[t].todo) : turn[t].todo[k] \in LoggedCalls
  BY DEF CallsLogged
<1>2. ASSUME Handling(t)
      PROVE  /\ NextCall(t) \in LoggedCalls
             /\ \A k \in 1..Len(Tail(turn[t].todo)) : Tail(turn[t].todo)[k] \in LoggedCalls
  <2>1. /\ NextCall(t) = turn[t].todo[1] /\ 1 \in 1..Len(turn[t].todo)
        /\ Len(Tail(turn[t].todo)) = Len(turn[t].todo) - 1 /\ Len(turn[t].todo) \in Nat
        /\ \A k \in 1..(Len(turn[t].todo) - 1) : Tail(turn[t].todo)[k] = turn[t].todo[k + 1]
    BY <1>2, TurnFields
  <2>2. \A k \in 1..(Len(turn[t].todo) - 1) : k + 1 \in 1..Len(turn[t].todo)
    BY <2>1
  <2> QED BY <1>1, <2>1, <2>2
<1> QED BY <1>1, <1>2 DEF CallsLogged

LEMMA LogSame ==
    ASSUME TypeInv, log' = log
    PROVE  LogKept /\ Len(log') = Len(log)
BY ConversationType, LenProperties DEF LogKept

\* Steps that stop a turn.
LEMMA StopOverlap ==
    ASSUME TypeInv, OverlapInv, NEW t \in Turns, Stopped(t)
    PROVE  OverlapInv'
<1>1. /\ log' = log /\ pending' = pending /\ handed' = handed /\ turn'[t] = Idle
      /\ turn' = [turn EXCEPT ![t] = turn'[t]]
  BY DEF Stopped
<1>2. AnswersFollowCalls' /\ LoggedCalls \subseteq LoggedCalls'
  BY <1>1, LogSame, FollowSame DEF OverlapInv
<1>3. CallsLogged'
  BY <1>1, <1>2, IdleType, EmptySeq, TodoLogged, SameNames DEF OverlapInv
<1> QED BY <1>2, <1>3 DEF OverlapInv

LEMMA EndsTurn ==
    ASSUME TypeInv, NEW t \in Turns, Ends(t)
    PROVE  turn' = [turn EXCEPT ![t] = turn'[t]] /\ turn'[t] = Idle
BY ConversationType DEF Ends

\* A step that leaves the log as it was and hands over nothing.
LEMMA QuietOverlap ==
    ASSUME TypeInv, OverlapInv, NEW t \in Turns, turn' = [turn EXCEPT ![t] = turn'[t]],
           LogKept, Len(log') = Len(log),
           turn'[t].asked \in {0, turn[t].asked, pending},
           turn'[t].input = "result" =>
              \/ turn[t].input = "result" /\ turn'[t].result = turn[t].result
              \/ turn'[t].result \in handed,
           turn'[t].todo \in {<<>>, turn[t].todo},
           pending' \in {0, pending, turn[t].asked}, handed' \subseteq LoggedCalls
    PROVE  OverlapInv'
<1>1. AnswersFollowCalls' /\ LoggedCalls \subseteq LoggedCalls'
  BY FollowSame DEF OverlapInv
<1>2. handed' \subseteq LoggedCalls
  OBVIOUS
<1>3. \A k \in 1..Len(turn'[t].todo) : turn'[t].todo[k] \in LoggedCalls
  BY EmptySeq, TodoLogged DEF OverlapInv
<1>4. CallsLogged'
  BY <1>1, <1>2, <1>3, SameNames DEF OverlapInv
<1> QED BY <1>1, <1>4 DEF OverlapInv

\* A step that writes a message without calls.
LEMMA WriteOverlap ==
    ASSUME TypeInv, OverlapInv, NEW t \in Turns, turn' = [turn EXCEPT ![t] = turn'[t]],
           NEW m \in Messages, log' = Append(log, m),
           m.role = "tool" => m.call \in LoggedCalls,
           turn'[t].asked \in {0, turn[t].asked, pending},
           turn'[t].input = turn[t].input, turn'[t].result = turn[t].result,
           \A k \in 1..Len(turn'[t].todo) : turn'[t].todo[k] \in LoggedCalls,
           UNCHANGED <<pending, handed>>
    PROVE  OverlapInv'
<1>1. AnswersFollowCalls' /\ LoggedCalls \subseteq LoggedCalls'
  BY FollowNew DEF OverlapInv
<1>2. CallsLogged'
  BY <1>1, TodoLogged, SameNames DEF OverlapInv
<1> QED BY <1>1, <1>2 DEF OverlapInv

LEMMA CallOverlap ==
    ASSUME TypeInv, OverlapInv, NEW t \in Turns, NEW calls \in Batches, Call(t, calls)
    PROVE  OverlapInv'
<1>1. /\ turn' = [turn EXCEPT ![t] = turn'[t]] /\ UNCHANGED <<status, pending, handed, sent>>
      /\ \E ids : CallsMade(t, ids)
  BY CallStep
<1>2. PICK ids : CallsMade(t, ids)
  BY <1>1
<1>3. /\ ids \in Seq(Calls) /\ AssistantMessage(ids) \in Messages
      /\ log' = Append(log, AssistantMessage(ids)) /\ AssistantMessage(ids).role = "assistant"
  BY <1>2, MessageTypes DEF CallsMade
<1>4. AnswersFollowCalls' /\ LoggedCalls \subseteq LoggedCalls'
  BY <1>3, FollowNew DEF OverlapInv
<1>5. \A k \in 1..Len(ids) : ids[k] \in LoggedCalls'
  BY <1>3, CallsNew
<1>6. turn'[t].asked # 0 => turn'[t].asked \in LoggedCalls'
  <2>1. CASE turn'[t].asked = turn[t].asked
    BY <1>4, <2>1, TodoLogged DEF OverlapInv
  <2>2. CASE ids = <<Len(issued) + 1>> /\ turn'[t].asked = Len(issued) + 1
    BY <1>5, <2>2
  <2> QED BY <1>2, <2>1, <2>2 DEF CallsMade
<1>7. turn'[t].input = "result" => turn'[t].result \in LoggedCalls'
  BY <1>2, <1>4, TodoLogged DEF OverlapInv, CallsMade
<1>8. \A k \in 1..Len(turn'[t].todo) : turn'[t].todo[k] \in LoggedCalls'
  BY <1>2, <1>4, <1>5, TodoLogged DEF OverlapInv, CallsMade
<1>9. ASSUME NEW u \in Turns
      PROVE  /\ turn'[u].asked # 0 => turn'[u].asked \in LoggedCalls'
             /\ turn'[u].input = "result" => turn'[u].result \in LoggedCalls'
             /\ \A k \in 1..Len(turn'[u].todo) : turn'[u].todo[k] \in LoggedCalls'
  <2>1. CASE u = t
    BY <1>6, <1>7, <1>8, <2>1
  <2>2. CASE u # t
    <3>1. turn'[u] = turn[u]
      BY <1>1, <2>2, ConversationType
    <3> QED BY <1>4, <3>1, TodoLogged DEF OverlapInv
  <2> QED BY <2>1, <2>2
<1>10. (pending' # 0 => pending' \in LoggedCalls') /\ handed' \subseteq LoggedCalls'
  BY <1>1, <1>4 DEF OverlapInv, CallsLogged
<1>11. CallsLogged'
  BY <1>9, <1>10 DEF CallsLogged
<1> QED BY <1>4, <1>11 DEF OverlapInv

LEMMA RestOverlap ==
    ASSUME TypeInv, OverlapInv, LogKept, Len(log') = Len(log), pending' = pending,
           handed' \subseteq handed, turn' = turn \/ turn' = [u \in Turns |-> Idle]
    PROVE  OverlapInv'
<1>1. AnswersFollowCalls' /\ LoggedCalls \subseteq LoggedCalls'
  BY FollowSame DEF OverlapInv
<1>2. (pending' # 0 => pending' \in LoggedCalls') /\ handed' \subseteq LoggedCalls'
  BY <1>1 DEF OverlapInv, CallsLogged
<1>3. ASSUME NEW u \in Turns
      PROVE  /\ turn'[u].asked # 0 => turn'[u].asked \in LoggedCalls'
             /\ turn'[u].input = "result" => turn'[u].result \in LoggedCalls'
             /\ \A k \in 1..Len(turn'[u].todo) : turn'[u].todo[k] \in LoggedCalls'
  <2>1. CASE turn'[u] = turn[u]
    BY <1>1, <2>1, TodoLogged DEF OverlapInv
  <2>2. CASE turn'[u] = Idle
    BY <2>2, IdleType, EmptySeq
  <2> QED BY <2>1, <2>2
<1> QED BY <1>1, <1>2, <1>3 DEF OverlapInv, CallsLogged

\* Every step keeps them.
LEMMA StepOverlap ==
    ASSUME TypeInv, ResumesLogged, OverlapInv, [Next]_vars
    PROVE  OverlapInv'
<1> USE DEF Within
<1>1. ASSUME NEW t \in Turns, NEW input \in Inputs, NEW result \in 0..MaxCalls,
             NEW available \in BOOLEAN, Begin(t, input, result, available)
      PROVE  OverlapInv'
  <2>1. /\ input = "result" => result \in handed
        /\ \/ turn' = turn
           \/ Puts(t, turn'[t]) /\ Begun(t, input, result)
        /\ handed' \subseteq handed /\ log' = log /\ pending' = pending
    BY <1>1, BeginStep
  <2>2. LogKept /\ Len(log') = Len(log)
    BY <2>1, LogSame
  <2>3. CASE turn' = turn
    BY <2>1, <2>2, <2>3, RestOverlap
  <2>4. CASE Puts(t, turn'[t]) /\ Begun(t, input, result)
    <3>1. handed' \subseteq LoggedCalls
      BY <2>1, TodoLogged DEF OverlapInv
    <3> QED BY <2>1, <2>2, <2>4, <3>1, QuietOverlap DEF Puts, Begun
  <2> QED BY <2>1, <2>3, <2>4
<1>2. ASSUME NEW t \in Turns, Resume(t)
      PROVE  OverlapInv'
  <2>1. CASE Stopped(t)
    BY <2>1, StopOverlap
  <2>2. CASE /\ Within(t) /\ UNCHANGED <<log, pending>>
             /\ \/ turn'[t] = [turn[t] EXCEPT !.at = "opening"]
                \/ turn'[t] = [turn[t] EXCEPT !.at = "executing",
                                              !.resumes = PendingAuthorization, !.reached = FALSE]
    <3>1. /\ turn'[t].asked = turn[t].asked /\ turn'[t].input = turn[t].input
          /\ turn'[t].result = turn[t].result /\ turn'[t].todo = turn[t].todo
      BY <2>2, TurnFields DEF TurnType
    <3>2. handed' \subseteq LoggedCalls /\ LogKept /\ Len(log') = Len(log)
      BY <2>2, LogSame, TodoLogged DEF OverlapInv
    <3> QED BY <2>2, <3>1, <3>2, QuietOverlap
  <2> QED BY <1>2, <2>1, <2>2, ResumeStep
<1>3. ASSUME NEW t \in Turns, CallTool(t) \/ Send(t)
      PROVE  OverlapInv'
  <2>1. /\ Within(t) /\ UNCHANGED <<log, pending>>
        /\ \/ turn'[t] = [turn[t] EXCEPT !.at = "executing", !.resumes = 0, !.reached = FALSE]
           \/ turn'[t] = [turn[t] EXCEPT !.reached = TRUE]
    BY <1>3, CallToolStep, SendStep
  <2>2. /\ turn'[t].asked = turn[t].asked /\ turn'[t].input = turn[t].input
        /\ turn'[t].result = turn[t].result /\ turn'[t].todo = turn[t].todo
    BY <2>1, TurnFields DEF TurnType
  <2>3. handed' \subseteq LoggedCalls /\ LogKept /\ Len(log') = Len(log)
    BY <2>1, LogSame, TodoLogged DEF OverlapInv
  <2> QED BY <2>1, <2>2, <2>3, QuietOverlap
<1>4. ASSUME NEW t \in Turns, NEW denied \in BOOLEAN, NEW expired \in BOOLEAN,
             Resumed(t, denied, expired)
      PROVE  OverlapInv'
  <2>1. CASE denied
    <3>1. /\ Ends(t) /\ UNCHANGED <<log, pending, handed>>
      BY <1>4, <2>1 DEF Resumed
    <3>2. handed' \subseteq LoggedCalls /\ LogKept /\ Len(log') = Len(log)
      BY <3>1, LogSame, TodoLogged DEF OverlapInv
    <3> QED BY <3>1, <3>2, EndsTurn, IdleType, QuietOverlap
  <2>2. CASE ~denied
    <3>1. /\ Within(t) /\ LogKept /\ Len(log') = Len(log)
          /\ turn'[t].asked \in {turn[t].asked, pending}
          /\ turn'[t].input = turn[t].input /\ turn'[t].result = turn[t].result
          /\ turn'[t].todo = turn[t].todo /\ pending' = pending
      BY <1>4, <2>2, RejoinStep
    <3>2. handed' \subseteq LoggedCalls
      BY <3>1, TodoLogged DEF OverlapInv
    <3> QED BY <3>1, <3>2, QuietOverlap
  <2> QED BY <2>1, <2>2
<1>5. ASSUME NEW t \in Turns, NEW denied \in BOOLEAN,
             Handling(t), Within(t), ObservedAs(t, denied), UNCHANGED pending
      PROVE  OverlapInv'
  <2>1. NextCall(t) \in LoggedCalls /\ NextCall(t) \in 0..MaxCalls
    BY <1>5, TodoLogged, TurnFields, Bounds DEF OverlapInv, Calls
  <2>2. ToolMessage(NextCall(t), denied).call = NextCall(t)
    BY <2>1, MessageTypes
  <2>3. \A k \in 1..Len(turn'[t].todo) : turn'[t].todo[k] \in LoggedCalls
    BY <1>5, TodoLogged DEF OverlapInv, ObservedAs
  <2> QED BY <1>5, <2>1, <2>2, <2>3, WriteOverlap DEF ObservedAs
<1>6. ASSUME NEW t \in Turns, Open(t)
      PROVE  OverlapInv'
  <2>1. CASE turn[t].asked # 0
    <3>1. /\ Within(t) /\ turn'[t] = [turn[t] EXCEPT !.at = "clearing"] /\ pending' = pending
          /\ log' = Append(log, ToolMessage(turn[t].asked, FALSE))
          /\ ToolMessage(turn[t].asked, FALSE) \in Messages
      BY <1>6, <2>1, AnswerQuestionStep
    <3>2. /\ turn'[t].asked = turn[t].asked /\ turn'[t].input = turn[t].input
          /\ turn'[t].result = turn[t].result /\ turn'[t].todo = turn[t].todo
      BY <3>1, TurnFields DEF TurnType
    <3>3. turn[t].asked \in LoggedCalls /\ ToolMessage(turn[t].asked, FALSE).call = turn[t].asked
      BY <2>1, TodoLogged, TurnFields, MessageTypes DEF OverlapInv
    <3>4. \A k \in 1..Len(turn'[t].todo) : turn'[t].todo[k] \in LoggedCalls
      BY <3>2, TodoLogged DEF OverlapInv
    <3> QED BY <3>1, <3>2, <3>3, <3>4, WriteOverlap
  <2>2. CASE turn[t].asked = 0
    <3>1. /\ Within(t) /\ turn'[t] = [turn[t] EXCEPT !.at = "asking"] /\ pending' = pending
          /\ \/ log' = log
             \/ log' = Append(log, UserMessage) /\ UserMessage \in Messages
             \/ /\ turn[t].input = "result"
                /\ log' = Append(log, ToolMessage(turn[t].result, FALSE))
                /\ ToolMessage(turn[t].result, FALSE) \in Messages
      BY <1>6, <2>2, OpenStep
    <3>2. /\ turn'[t].asked = turn[t].asked /\ turn'[t].input = turn[t].input
          /\ turn'[t].result = turn[t].result /\ turn'[t].todo = turn[t].todo
      BY <3>1, TurnFields DEF TurnType
    <3>3. \A k \in 1..Len(turn'[t].todo) : turn'[t].todo[k] \in LoggedCalls
      BY <3>2, TodoLogged DEF OverlapInv
    <3>4. CASE log' = log
      <4>1. handed' \subseteq LoggedCalls /\ LogKept /\ Len(log') = Len(log)
        BY <3>1, <3>4, LogSame, TodoLogged DEF OverlapInv
      <4> QED BY <3>1, <3>2, <4>1, QuietOverlap
    <3>5. CASE log' = Append(log, UserMessage) /\ UserMessage \in Messages
      BY <3>1, <3>2, <3>3, <3>5, MessageTypes, WriteOverlap
    <3>6. CASE /\ turn[t].input = "result"
               /\ log' = Append(log, ToolMessage(turn[t].result, FALSE))
               /\ ToolMessage(turn[t].result, FALSE) \in Messages
      <4>1. turn[t].result \in LoggedCalls /\ ToolMessage(turn[t].result, FALSE).call = turn[t].result
        BY <3>6, TodoLogged, TurnFields, MessageTypes DEF OverlapInv
      <4> QED BY <3>1, <3>2, <3>3, <3>6, <4>1, WriteOverlap
    <3> QED BY <3>1, <3>4, <3>5, <3>6
  <2> QED BY <2>1, <2>2
<1>7. ASSUME NEW t \in Turns, Clear(t)
      PROVE  OverlapInv'
  <2>1. /\ Within(t) /\ turn'[t] = [turn[t] EXCEPT !.at = "asking", !.asked = 0]
        /\ pending' = 0 /\ log' = log
    BY <1>7, ClearStep
  <2>2. /\ turn'[t].asked = 0 /\ turn'[t].input = turn[t].input
        /\ turn'[t].result = turn[t].result /\ turn'[t].todo = turn[t].todo
    BY <2>1, TurnFields DEF TurnType
  <2>3. handed' \subseteq LoggedCalls /\ LogKept /\ Len(log') = Len(log)
    BY <2>1, LogSame, TodoLogged DEF OverlapInv
  <2> QED BY <2>1, <2>2, <2>3, QuietOverlap
<1>8. ASSUME NEW t \in Turns, Within(t), UNCHANGED <<log, pending>>,
             turn'[t].asked = turn[t].asked, turn'[t].input = turn[t].input,
             turn'[t].result = turn[t].result, turn'[t].todo = turn[t].todo
      PROVE  OverlapInv'
  <2>1. handed' \subseteq LoggedCalls /\ LogKept /\ Len(log') = Len(log)
    BY <1>8, LogSame, TodoLogged DEF OverlapInv
  <2> QED BY <1>8, <2>1, QuietOverlap
<1>9. ASSUME NEW t \in Turns, Ask(t)
      PROVE  OverlapInv'
  <2>1. CASE Exhausted(t) \/ Conflict(turn[t].known)
    <3>1. Ends(t)
      BY <1>9, <2>1 DEF Ask, Fails
    <3> QED BY <1>9, <2>1, <3>1, EndsTurn, AskStops, StopOverlap
  <2>2. CASE ~(Exhausted(t) \/ Conflict(turn[t].known))
    BY <1>8, <1>9, <2>2, AskStep
  <2> QED BY <2>1, <2>2
<1>10. ASSUME NEW t \in Turns, Reply(t)
       PROVE  OverlapInv'
  <2>1. /\ Within(t) /\ turn'[t] = [turn[t] EXCEPT !.at = "closing", !.outcome = "completed"]
        /\ log' = Append(log, AssistantMessage(<<>>)) /\ AssistantMessage(<<>>) \in Messages
        /\ pending' = pending
    BY <1>10, ReplyStep
  <2>2. /\ turn'[t].asked = turn[t].asked /\ turn'[t].input = turn[t].input
        /\ turn'[t].result = turn[t].result /\ turn'[t].todo = turn[t].todo
    BY <2>1, TurnFields DEF TurnType
  <2>3. AssistantMessage(<<>>).role = "assistant"
    BY MessageTypes, EmptySeq
  <2>4. \A k \in 1..Len(turn'[t].todo) : turn'[t].todo[k] \in LoggedCalls
    BY <2>2, TodoLogged DEF OverlapInv
  <2> QED BY <2>1, <2>2, <2>3, <2>4, WriteOverlap
<1>11. ASSUME NEW t \in Turns, Break(t) \/ Abort(t)
       PROVE  OverlapInv'
  <2>1. Ends(t) /\ Stopped(t)
    BY <1>11, BreakStops, AbortStops DEF Break, Abort, Fails
  <2> QED BY <2>1, EndsTurn, StopOverlap
<1>12. ASSUME NEW t \in Turns, HandOver(t)
       PROVE  OverlapInv'
  <2>1. Ends(t) /\ Handling(t) /\ UNCHANGED <<log, pending>> /\ handed' = handed \cup {NextCall(t)}
    BY <1>12, HandOverStep DEF HandOver
  <2>2. handed' \subseteq LoggedCalls /\ LogKept /\ Len(log') = Len(log)
    BY <2>1, LogSame, TodoLogged DEF OverlapInv
  <2> QED BY <2>1, <2>2, EndsTurn, IdleType, QuietOverlap
<1>13. ASSUME NEW t \in Turns, Load(t)
       PROVE  OverlapInv'
  BY <1>8, <1>13, LoadStep
<1>14. ASSUME NEW t \in Turns, AnswerCall(t)
       PROVE  OverlapInv'
  BY <1>5, <1>14, AnswerCallStep DEF Handling, HasCalls
<1>15. ASSUME NEW t \in Turns, NEW denied \in BOOLEAN, NEW expired \in BOOLEAN,
              Observed(t, denied, expired)
       PROVE  OverlapInv'
  BY <1>5, <1>15, ObservedStep DEF Handling, HasCalls
<1>16. ASSUME NEW t \in Turns, Close(t)
       PROVE  OverlapInv'
  <2>1. /\ Ends(t) /\ log' = log /\ handed' = handed
        /\ pending' \in {pending, turn[t].asked}
    BY <1>16 DEF Close
  <2>2. handed' \subseteq LoggedCalls /\ LogKept /\ Len(log') = Len(log)
    BY <2>1, LogSame, TodoLogged DEF OverlapInv
  <2> QED BY <2>1, <2>2, EndsTurn, IdleType, QuietOverlap
<1>17. ASSUME NEW t \in Turns, NEW calls \in Batches, Call(t, calls)
       PROVE  OverlapInv'
  BY <1>17, CallOverlap
<1>18. CASE Crash
  BY <1>18, CrashStep, LogSame, RestOverlap
<1>19. CASE (\E s \in Skills : SwitchSkill(s)) \/ UNCHANGED vars
  BY <1>19, SwitchStep, StutterStep, LogSame, RestOverlap
<1> QED
  BY <1>1, <1>2, <1>3, <1>4, <1>6, <1>7, <1>9, <1>10, <1>11, <1>12, <1>13, <1>14,
     <1>15, <1>16, <1>17, <1>18, <1>19 DEF Next, Step

LEMMA InitOverlap ==
    ASSUME Init
    PROVE  OverlapInv
<1>1. \A i \in 1..Len(log) : log[i].role # "tool"
  <2>1. Len(log) = 2 /\ log[1].role = "user" /\ log[2].role = "assistant"
    BY InitLog
  <2>2. \A i \in 1..Len(log) : i = 1 \/ i = 2
    BY <2>1
  <2> QED BY <2>1, <2>2
<1>2. AnswersFollowCalls
  BY <1>1 DEF AnswersFollowCalls
<1>3. CallsLogged
  BY IdleType, EmptySeq DEF Init, CallsLogged
<1> QED BY <1>2, <1>3 DEF OverlapInv

LEMMA AlwaysLogged == Spec => []OverlapInv
<1>1. Init => OverlapInv
  BY InitOverlap
<1>2. TypeInv /\ ResumesLogged /\ OverlapInv /\ [Next]_vars => OverlapInv'
  BY StepOverlap
<1> QED BY <1>1, <1>2, AlwaysTyped, PTL DEF Spec

\* AnswersFollowCalls: turns that overlap read and overwrite each other's
\* columns, yet a provider never gets the result of a call before an assistant
\* message that has it.
THEOREM AnswersFollow == Spec => []AnswersFollowCalls
<1>1. OverlapInv => AnswersFollowCalls
  BY DEF OverlapInv
<1> QED BY <1>1, AlwaysLogged, PTL

-----------------------------------------------------------------------------
(* Turns that follow each other: where the answers stand                   *)

LEMMA IssuedGrow ==
    ASSUME TypeInv, IssuedKept
    PROVE  /\ IssuedCalls \subseteq IssuedCalls' /\ ClientCalls \subseteq ClientCalls'
           /\ \A c \in IssuedCalls : issued'[c] = issued[c]
BY LenProperties DEF IssuedKept, IssuedCalls, ClientCalls

\* The calls of the last assistant message have been issued.
LEMMA LastIssued ==
    ASSUME TypeInv, NamesIssued
    PROVE  LastCalls \subseteq IssuedCalls
<1>1. LastAssistant \in 0..Len(log) /\ Len(log) \in Nat
  BY ConversationType, LenProperties, BeforeBounds DEF LastAssistant
<1>2. CASE LastAssistant = 0
  BY <1>2 DEF LastCalls, CallsOf
<1>3. CASE LastAssistant # 0
  <2>1. LastAssistant \in 1..Len(log)
    BY <1>1, <1>3
  <2>2. \A k \in 1..Len(log[LastAssistant].calls) : log[LastAssistant].calls[k] \in IssuedCalls
    BY <2>1 DEF NamesIssued
  <2> QED BY <1>3, <2>2 DEF LastCalls, CallsOf
<1> QED BY <1>2, <1>3

\* The log part of the invariant.
NamesLog ==
    \A i \in 1..Len(log) :
        /\ log[i].role = "tool" => log[i].call \in IssuedCalls
        /\ \A k \in 1..Len(log[i].calls) : log[i].calls[k] \in IssuedCalls

\* Nothing was written.
LEMMA PlaceSame ==
    ASSUME TypeInv, PlaceInv, LogKept, Len(log') = Len(log), issued' = issued
    PROVE  AnswersInPlace' /\ LastCalls' = LastCalls /\ NamesLog' /\ Len(log') # 0
<1>1. LastCalls' = LastCalls
  BY SameLog DEF LastCalls
<1>2. ASSUME NEW i \in 1..Len(log'), log'[i].role = "tool", issued[log'[i].call].kind # "client"
      PROVE  log'[i].call \in CallsOf(AssistantBefore(i))'
  <2>1. /\ i \in 1..Len(log) /\ log[i].role = "tool" /\ log'[i].call = log[i].call
        /\ i \in 1..(Len(log) + 1)
    BY <1>2, LenProperties DEF LogKept
  <2>2. log[i].call \in CallsOf(AssistantBefore(i))
    BY <1>2, <2>1 DEF PlaceInv, AnswersInPlace
  <2>3. AssistantBefore(i)' = AssistantBefore(i) /\ AssistantBefore(i) \in 0..Len(log)
    BY <2>1, KeptBefore, BeforeBounds, LenProperties DEF LogKept
  <2>4. CallsOf(AssistantBefore(i))' = CallsOf(AssistantBefore(i))
    BY <2>3, KeptCalls
  <2> QED BY <2>1, <2>2, <2>4
<1>3. AnswersInPlace'
  BY <1>2 DEF AnswersInPlace
<1>4. NamesLog'
  BY DEF PlaceInv, NamesIssued, NamesLog, LogKept, IssuedCalls
<1> QED BY <1>1, <1>3, <1>4 DEF PlaceInv, QuestionAsked

\* A message was written: an answer stands where its call is.
LEMMA PlaceNew ==
    ASSUME TypeInv, PlaceInv, IssuedKept, NEW m \in Messages, log' = Append(log, m),
           m.role = "tool" => m.call \in IssuedCalls /\ (m.call \in ClientCalls \/ m.call \in LastCalls),
           \A k \in 1..Len(m.calls) : m.calls[k] \in IssuedCalls'
    PROVE  /\ AnswersInPlace' /\ NamesLog' /\ Len(log') # 0
           /\ m.role # "assistant" => LastCalls' = LastCalls
           /\ m.role = "assistant" => LastCalls' = {m.calls[k] : k \in 1..Len(m.calls)}
<1> SUFFICES ASSUME NEW n, n = Len(log) + 1
             PROVE  /\ AnswersInPlace' /\ NamesLog' /\ Len(log') # 0
                    /\ m.role # "assistant" => LastCalls' = LastCalls
                    /\ m.role = "assistant" => LastCalls' = {m.calls[k] : k \in 1..Len(m.calls)}
  OBVIOUS
<1>1. /\ LogKept /\ Len(log') = n /\ Len(log) \in Nat /\ log'[n] = m
      /\ \A i \in 1..Len(log) : log'[i] = log[i]
      /\ \A i \in 1..Len(log') : i \in 1..Len(log) \/ i = n
  BY ConversationType, Appended
<1>2. /\ AssistantBefore(n)' = LastAssistant
      /\ m.role = "assistant" => LastAssistant' = n
      /\ m.role # "assistant" => LastAssistant' = LastAssistant
  BY ConversationType, NewAssistant
<1>3. LastAssistant \in 0..Len(log)
  BY <1>1, ConversationType, BeforeBounds DEF LastAssistant
<1>4. \A i \in 0..Len(log) : CallsOf(i)' = CallsOf(i)
  BY <1>1, KeptCalls
<1>5. CallsOf(n)' = {m.calls[k] : k \in 1..Len(m.calls)}
  BY ConversationType, NewCalls
<1> DEFINE CallsIn(lg, i) == IF i = 0 THEN {} ELSE {lg[i].calls[k] : k \in 1..Len(lg[i].calls)}
<1>6. /\ LastCalls = CallsIn(log, LastAssistant) /\ LastCalls' = CallsIn(log', LastAssistant')
      /\ \A i : CallsOf(i) = CallsIn(log, i) /\ CallsOf(i)' = CallsIn(log', i)
      /\ \A i : CallsOf(AssistantBefore(i))' = CallsIn(log', AssistantBefore(i)')
  BY DEF LastCalls, CallsOf
<1> HIDE DEF CallsIn
<1>7. m.role # "assistant" => LastCalls' = LastCalls
  BY <1>2, <1>3, <1>4, <1>6
<1>8. m.role = "assistant" => LastCalls' = {m.calls[k] : k \in 1..Len(m.calls)}
  <2> HAVE m.role = "assistant"
  <2>1. LastAssistant' = n
    BY <1>2
  <2> QED BY <1>5, <2>1 DEF LastCalls, CallsOf
<1>9. \A c \in IssuedCalls : issued'[c] = issued[c]
  BY IssuedGrow
<1>10. ASSUME NEW i \in 1..Len(log'), log'[i].role = "tool", issued'[log'[i].call].kind # "client"
      PROVE  log'[i].call \in CallsOf(AssistantBefore(i))'
  <2>1. CASE i \in 1..Len(log)
    <3>1. /\ log[i].role = "tool" /\ log'[i].call = log[i].call /\ i \in 1..(Len(log) + 1)
          /\ log[i].call \in IssuedCalls
      BY <1>1, <1>10, <2>1 DEF PlaceInv, NamesIssued
    <3>2. log[i].call \in CallsOf(AssistantBefore(i))
      BY <1>9, <1>10, <2>1, <3>1 DEF PlaceInv, AnswersInPlace
    <3>3. AssistantBefore(i)' = AssistantBefore(i) /\ AssistantBefore(i) \in 0..Len(log)
      BY <1>1, <2>1, <3>1, KeptBefore, BeforeBounds, ConversationType
    <3>4. CallsOf(AssistantBefore(i))' = CallsOf(AssistantBefore(i))
      BY <1>1, <3>3, KeptCalls
    <3> QED BY <3>1, <3>2, <3>4
  <2>2. CASE i = n
    <3>1. log'[i].call = m.call /\ m.call \in IssuedCalls /\ m.call \notin ClientCalls
      BY <1>1, <1>9, <1>10, <2>2 DEF ClientCalls
    <3>2. m.call \in CallsOf(LastAssistant)
      BY <1>1, <1>10, <2>2, <3>1 DEF LastCalls
    <3>3. AssistantBefore(i)' = LastAssistant
      BY <1>2, <2>2
    <3> QED BY <1>3, <1>4, <1>6, <3>1, <3>2, <3>3
  <2> QED BY <1>1, <2>1, <2>2
<1>11. AnswersInPlace'
  BY <1>10 DEF AnswersInPlace
<1>12. NamesLog'
  <2>1. IssuedCalls \subseteq IssuedCalls'
    BY IssuedGrow
  <2>2. ASSUME NEW i \in 1..Len(log')
        PROVE  /\ log'[i].role = "tool" => log'[i].call \in IssuedCalls'
               /\ \A k \in 1..Len(log'[i].calls) : log'[i].calls[k] \in IssuedCalls'
    <3>1. CASE i \in 1..Len(log)
      BY <1>1, <2>1, <3>1 DEF PlaceInv, NamesIssued
    <3>2. CASE i = n
      BY <1>1, <2>1, <3>2
    <3> QED BY <1>1, <3>1, <3>2
  <2> QED BY <2>2 DEF NamesLog
<1> QED BY <1>1, <1>7, <1>8, <1>11, <1>12

\* Only t is in flight, and only t takes the step.
OthersIdle(t) == \A u \in Turns : u # t => turn[u].at = "none" /\ turn'[u] = turn[u]

\* A call was sent.
SentAs(call) == sent' = Append(sent, call)

LEMMA SentAppend ==
    ASSUME TypeInv, NEW call \in Calls, SentAs(call)
    PROVE  /\ Len(sent') = Len(sent) + 1 /\ Len(sent) \in Nat
           /\ sent'[Len(sent) + 1] = call
           /\ \A i \in 1..Len(sent) : sent'[i] = sent[i]
           /\ SentCalls' = SentCalls \cup {call}
<1>3. /\ Len(sent') = Len(sent) + 1 /\ Len(sent) \in Nat /\ sent'[Len(sent) + 1] = call
      /\ \A i \in 1..Len(sent) : sent'[i] = sent[i]
  BY ConversationType, AppendProperties, LenProperties DEF SentAs
<1>4. /\ \A i \in 1..Len(sent') : i \in 1..Len(sent) \/ i = Len(sent) + 1
      /\ 1..Len(sent) \subseteq 1..Len(sent') /\ Len(sent) + 1 \in 1..Len(sent')
  BY <1>3
<1>5. SentCalls' = SentCalls \cup {call}
  BY <1>3, <1>4 DEF SentCalls, Calls
<1> QED BY <1>3, <1>5

LEMMA NamesStep ==
    ASSUME TypeInv, NamesIssued, NEW t \in Turns, OthersIdle(t), IssuedKept, NamesLog',
           handed' \subseteq ClientCalls,
           turn'[t].input = "result" => turn'[t].result \in ClientCalls,
           sent' = sent \/ \E call \in IssuedCalls : SentAs(call)
    PROVE  NamesIssued'
<1>1. IssuedCalls \subseteq IssuedCalls' /\ ClientCalls \subseteq ClientCalls'
  BY IssuedGrow
<1>2. handed' \subseteq ClientCalls'
  BY <1>1
<1>3. \A u \in Turns : turn'[u].input = "result" => turn'[u].result \in ClientCalls'
  BY <1>1 DEF OthersIdle, NamesIssued
<1>4. \A i \in 1..Len(sent') : sent'[i] \in IssuedCalls'
  <2>1. CASE sent' = sent
    BY <1>1, <2>1 DEF NamesIssued
  <2>2. CASE \E call \in IssuedCalls : SentAs(call)
    <3>1. PICK call \in IssuedCalls : SentAs(call)
      BY <2>2
    <3>2. call \in Calls
      BY Bounds, ConversationType DEF IssuedCalls, Calls
    <3>3. /\ Len(sent') = Len(sent) + 1 /\ Len(sent) \in Nat
          /\ sent'[Len(sent) + 1] = call
          /\ \A i \in 1..Len(sent) : sent'[i] = sent[i]
      BY <3>1, <3>2, SentAppend
    <3>4. \A i \in 1..Len(sent') : i \in 1..Len(sent) \/ i = Len(sent) + 1
      BY <3>3
    <3> QED BY <1>1, <3>3, <3>4 DEF NamesIssued
  <2> QED BY <2>1, <2>2
<1> QED BY <1>2, <1>3, <1>4 DEF NamesIssued, NamesLog

\* The parts of the invariant that are about the turn in flight.
TurnPlaced(r, s, p) ==
    /\ r.at # "none" => s \in {"running", "failed"}
    /\ r.at \in {"resuming", "opening", "clearing"} \/ (r.at = "executing" /\ r.resumes # 0)
          => r.asked = p
    /\ r.at \in {"asking", "waiting", "closing"} \/ HasCalls(r) => p = 0

LEMMA TurnIsPlaced ==
    ASSUME TypeInv, PlaceInv, NEW t \in Turns
    PROVE  /\ TurnPlaced(turn[t], status, pending)
           /\ pending # 0 => pending \in LastCalls
           /\ handed \subseteq ClientCalls
           /\ turn[t].input = "result" => turn[t].result \in ClientCalls
           /\ Handling(t) => \A k \in 1..Len(turn[t].todo) : turn[t].todo[k] \in LastCalls
           /\ turn[t].at = "closing" /\ turn[t].outcome = "needs_input" =>
                 turn[t].asked # 0 /\ log[Len(log)] = AssistantMessage(<<turn[t].asked>>)
           /\ NamesIssued /\ Len(log) # 0
BY DEF PlaceInv, NamesIssued, PendingFollowsTurn, TurnPlaced, AtLastAssistant, QuestionAsked,
       InFlight, Handling, Resuming

LEMMA PlaceParts ==
    ASSUME NEW t \in Turns, OthersIdle(t), NamesIssued', AnswersInPlace', Len(log') # 0,
           TurnPlaced(turn'[t], status', pending'),
           pending' # 0 => pending' \in LastCalls',
           HasCalls(turn'[t]) => \A k \in 1..Len(turn'[t].todo) : turn'[t].todo[k] \in LastCalls',
           turn'[t].at = "closing" /\ turn'[t].outcome = "needs_input" =>
              turn'[t].asked # 0 /\ log'[Len(log')] = AssistantMessage(<<turn'[t].asked>>)
    PROVE  PlaceInv'
<1>1. \A u \in Turns : u = t \/ (turn'[u].at = "none" /\ ~HasCalls(turn'[u]))
  BY DEF OthersIdle, HasCalls
<1>2. PendingFollowsTurn'
  BY <1>1 DEF PendingFollowsTurn, TurnPlaced, InFlight, Handling, Resuming
<1>3. AtLastAssistant'
  BY <1>1 DEF AtLastAssistant, Handling
<1>4. QuestionAsked'
  BY <1>1 DEF QuestionAsked, AssistantMessage
<1> QED BY <1>2, <1>3, <1>4 DEF PlaceInv

\* A step that writes nothing.
LEMMA PlaceQuiet ==
    ASSUME TypeInv, PlaceInv, NEW t \in Turns, OthersIdle(t), LogKept, Len(log') = Len(log), issued' = issued,
           handed' \subseteq ClientCalls,
           turn'[t].input = "result" => turn'[t].result \in ClientCalls,
           sent' = sent \/ \E call \in IssuedCalls : SentAs(call),
           TurnPlaced(turn'[t], status', pending'),
           pending' # 0 => pending' \in LastCalls,
           HasCalls(turn'[t]) => Handling(t) /\ turn'[t].todo = turn[t].todo,
           turn'[t].at = "closing" =>
              turn[t].at = "closing" /\ turn'[t] = turn[t] /\ log' = log
    PROVE  PlaceInv'
<1>1. AnswersInPlace' /\ LastCalls' = LastCalls /\ NamesLog' /\ Len(log') # 0
  BY PlaceSame
<1>2. IssuedKept
  BY IssuedSame
<1>3. NamesIssued'
  BY <1>1, <1>2, NamesStep DEF PlaceInv
<1>4. HasCalls(turn'[t]) => \A k \in 1..Len(turn'[t].todo) : turn'[t].todo[k] \in LastCalls'
  BY <1>1, TurnIsPlaced
<1>5. turn'[t].at = "closing" /\ turn'[t].outcome = "needs_input" =>
         turn'[t].asked # 0 /\ log'[Len(log')] = AssistantMessage(<<turn'[t].asked>>)
  BY TurnIsPlaced
<1> QED BY <1>1, <1>3, <1>4, <1>5, PlaceParts

\* A step that writes a message without calls.
LEMMA PlaceWrite ==
    ASSUME TypeInv, PlaceInv, NEW t \in Turns, OthersIdle(t), NEW m \in Messages, log' = Append(log, m),
           m.role # "assistant", m.calls = <<>>,
           m.role = "tool" => m.call \in IssuedCalls /\ (m.call \in ClientCalls \/ m.call \in LastCalls),
           UNCHANGED <<issued, handed, sent>>,
           turn'[t].input = turn[t].input, turn'[t].result = turn[t].result,
           TurnPlaced(turn'[t], status', pending'),
           pending' # 0 => pending' \in LastCalls,
           HasCalls(turn'[t]) => \A k \in 1..Len(turn'[t].todo) : turn'[t].todo[k] \in LastCalls,
           turn'[t].at = "closing" => turn'[t].outcome # "needs_input"
    PROVE  PlaceInv'
<1>1. IssuedKept
  BY IssuedSame
<1>2. AnswersInPlace' /\ LastCalls' = LastCalls /\ NamesLog' /\ Len(log') # 0
  BY <1>1, PlaceNew
<1>3. NamesIssued'
  BY <1>1, <1>2, TurnIsPlaced, NamesStep
<1> QED BY <1>2, <1>3, PlaceParts

LEMMA PlaceWait ==
    ASSUME TypeInv, PlaceInv, NEW t \in Turns, OthersIdle(t),
           turn'[t] = Idle \/ turn'[t] = turn[t], turn'[t].at = "none",
           log' = log, issued' = issued, sent' = sent, handed' \subseteq ClientCalls,
           pending' # 0 => pending' \in LastCalls
    PROVE  PlaceInv'
<1>1. turn'[t].input = "result" => turn'[t].result \in ClientCalls
  BY IdleType, TurnIsPlaced
<1>2. ~HasCalls(turn'[t]) /\ TurnPlaced(turn'[t], status', pending')
  BY DEF HasCalls, TurnPlaced
<1> QED BY <1>1, <1>2, LogSame, PlaceQuiet

\* The last message is the last assistant message.
LEMMA LastIsLast ==
    ASSUME TypeInv, Len(log) # 0, NEW calls \in Seq(Calls), log[Len(log)] = AssistantMessage(calls)
    PROVE  LastCalls = {calls[k] : k \in 1..Len(calls)}
<1> DEFINE S == {0} \cup {j \in 1..Len(log) : log[j].role = "assistant"}
<1>1. Len(log) \in Nat /\ Len(log) \in 1..Len(log)
  BY ConversationType, LenProperties
<1>2. log[Len(log)].role = "assistant" /\ log[Len(log)].calls = calls
  BY MessageTypes
<1>3. LastAssistant = Max(S)
  <2>1. 1..(Len(log) + 1 - 1) = 1..Len(log)
    BY <1>1
  <2> QED BY <2>1 DEF LastAssistant, AssistantBefore
<1>4. S \subseteq 0..Len(log) /\ Len(log) \in S /\ \A x \in S : x <= Len(log)
  BY <1>1, <1>2
<1> HIDE DEF S
<1>5. LastAssistant = Len(log)
  BY <1>1, <1>3, <1>4, GreatestIs
<1> QED BY <1>2, <1>5 DEF LastCalls, CallsOf

LEMMA BeginPlace ==
    ASSUME TypeInv, PlaceInv, NEW t \in Turns, OthersIdle(t), NEW input \in Inputs,
           NEW result \in 0..MaxCalls, NEW available \in BOOLEAN,
           Begin(t, input, result, available), status' # "failed"
    PROVE  PlaceInv'
<1>1. /\ input = "result" => result \in handed
      /\ Puts(t, turn'[t]) /\ Begun(t, input, result)
      /\ handed' \subseteq handed /\ UNCHANGED <<log, pending, issued, sent>>
  BY BeginStep
<1>2. handed' \subseteq ClientCalls /\ (pending' # 0 => pending' \in LastCalls)
  BY <1>1, TurnIsPlaced
<1>3. ~HasCalls(turn'[t]) /\ TurnPlaced(turn'[t], status', pending') /\ turn'[t].at # "closing"
  BY <1>1 DEF HasCalls, TurnPlaced, Begun
<1>4. turn'[t].input = "result" => turn'[t].result \in ClientCalls
  BY <1>1, TurnIsPlaced DEF Begun
<1> QED BY <1>1, <1>2, <1>3, <1>4, LogSame, PlaceQuiet

LEMMA StopPlace ==
    ASSUME TypeInv, PlaceInv, NEW t \in Turns, OthersIdle(t), Stopped(t)
    PROVE  PlaceInv'
<1>1. turn'[t] = Idle /\ UNCHANGED <<log, pending, issued, handed, sent>>
  BY DEF Stopped
<1>2. handed' \subseteq ClientCalls /\ (pending' # 0 => pending' \in LastCalls)
  BY <1>1, TurnIsPlaced
<1> QED BY <1>1, <1>2, IdleType, PlaceWait

LEMMA ResumePlace ==
    ASSUME TypeInv, PlaceInv, NEW t \in Turns, OthersIdle(t), Resume(t)
    PROVE  PlaceInv'
<1>1. CASE Stopped(t)
  BY <1>1, StopPlace
<1>2. CASE /\ Within(t) /\ turn'[t] = [turn[t] EXCEPT !.at = "opening"]
           /\ turn[t].at = "resuming" /\ UNCHANGED <<log, pending, sent>>
  <2>1. /\ turn'[t].at = "opening" /\ turn'[t].asked = turn[t].asked
        /\ turn'[t].input = turn[t].input /\ turn'[t].result = turn[t].result
    BY <1>2, TurnFields DEF TurnType
  <2>2. ~HasCalls(turn'[t]) /\ TurnPlaced(turn'[t], status', pending')
    BY <1>2, <2>1, TurnIsPlaced DEF HasCalls, TurnPlaced, Within
  <2> QED BY <1>2, <2>1, <2>2, LogSame, TurnIsPlaced, PlaceQuiet DEF Within
<1>3. CASE /\ Within(t) /\ turn[t].at = "resuming" /\ PendingAuthorization # 0
           /\ turn'[t] = [turn[t] EXCEPT !.at = "executing", !.resumes = PendingAuthorization,
                                         !.reached = FALSE]
           /\ UNCHANGED <<log, pending, sent>>
  <2>1. /\ turn'[t].at = "executing" /\ turn'[t].asked = turn[t].asked
        /\ turn'[t].input = turn[t].input /\ turn'[t].result = turn[t].result
        /\ turn'[t].resumes = PendingAuthorization
    BY <1>3, TurnFields DEF TurnType
  <2>2. ~HasCalls(turn'[t]) /\ TurnPlaced(turn'[t], status', pending')
    BY <1>3, <2>1, TurnIsPlaced DEF HasCalls, TurnPlaced, Within
  <2> QED BY <1>3, <2>1, <2>2, LogSame, TurnIsPlaced, PlaceQuiet DEF Within
<1> QED BY <1>1, <1>2, <1>3, ResumeStep

LEMMA CallToolPlace ==
    ASSUME TypeInv, PlaceInv, NEW t \in Turns, OthersIdle(t), CallTool(t)
    PROVE  PlaceInv'
<1>1. /\ Within(t) /\ turn[t].at = "handling" /\ UNCHANGED <<log, pending, sent>>
      /\ turn'[t] = [turn[t] EXCEPT !.at = "executing", !.resumes = 0, !.reached = FALSE]
  BY CallToolStep
<1>2. /\ turn'[t].at = "executing" /\ turn'[t].resumes = 0 /\ turn'[t].todo = turn[t].todo
      /\ turn'[t].input = turn[t].input /\ turn'[t].result = turn[t].result
  BY <1>1, TurnFields DEF TurnType
<1>3. Handling(t)
  BY <1>1 DEF Handling, HasCalls
<1>4. TurnPlaced(turn'[t], status', pending')
  BY <1>1, <1>2, TurnIsPlaced DEF HasCalls, TurnPlaced, Within
<1> QED BY <1>1, <1>2, <1>3, <1>4, LogSame, TurnIsPlaced, PlaceQuiet DEF Within

\* The API accepts a call that was issued.
LEMMA SendPlace ==
    ASSUME TypeInv, ResumesLogged, PlaceInv, NEW t \in Turns, OthersIdle(t), Send(t)
    PROVE  PlaceInv'
<1>1. /\ Within(t) /\ turn[t].at = "executing" /\ UNCHANGED <<log, pending>>
      /\ turn'[t] = [turn[t] EXCEPT !.reached = TRUE]
      /\ sent' = Append(sent, CurrentCall(t))
  BY SendStep
<1>2. /\ turn'[t].at = "executing" /\ turn'[t].resumes = turn[t].resumes
      /\ turn'[t].todo = turn[t].todo /\ turn'[t].asked = turn[t].asked
      /\ turn'[t].input = turn[t].input /\ turn'[t].result = turn[t].result
  BY <1>1, TurnFields DEF TurnType
<1>3. HasCalls(turn'[t]) <=> Handling(t)
  BY <1>1, <1>2 DEF Handling, HasCalls
<1>4. TurnPlaced(turn'[t], status', pending')
  BY <1>1, <1>2, TurnIsPlaced DEF HasCalls, TurnPlaced, Within
<1>5. CurrentCall(t) \in IssuedCalls
  <2>1. CASE turn[t].resumes = 0
    <3>1. Handling(t)
      BY <1>1, <2>1 DEF Handling, HasCalls
    <3> QED BY <2>1, <3>1, TurnFields DEF CurrentCall, Issued, IssuedCalls
  <2>2. CASE turn[t].resumes # 0
    <3>1. turn[t].resumes \in 1..Len(log) /\ log[turn[t].resumes].role = "tool"
      BY <2>2, ConversationType, LenProperties DEF ResumesLogged
    <3> QED BY <2>2, <3>1, TurnIsPlaced DEF NamesIssued, CurrentCall
  <2> QED BY <2>1, <2>2
<1>6. \E call \in IssuedCalls : SentAs(call)
  BY <1>1, <1>5 DEF SentAs
<1> QED BY <1>1, <1>2, <1>3, <1>4, <1>6, LogSame, TurnIsPlaced, PlaceQuiet DEF Within

LEMMA ResumedPlace ==
    ASSUME TypeInv, PlaceInv, NEW t \in Turns, OthersIdle(t), NEW denied \in BOOLEAN,
           NEW expired \in BOOLEAN, Resumed(t, denied, expired)
    PROVE  PlaceInv'
<1>1. CASE denied
  <2>1. turn'[t] = Idle /\ UNCHANGED <<log, pending, issued, handed, sent>>
    BY <1>1, DeniedAgainStep
  <2>2. handed' \subseteq ClientCalls /\ (pending' # 0 => pending' \in LastCalls)
    BY <2>1, TurnIsPlaced
  <2> QED BY <2>1, <2>2, IdleType, PlaceWait
<1>2. CASE ~denied
  <2>1. /\ Within(t) /\ Resuming(t) /\ LogKept /\ Len(log') = Len(log)
        /\ turn'[t].at = "opening" /\ turn'[t].asked \in {turn[t].asked, pending}
        /\ turn'[t].input = turn[t].input /\ turn'[t].result = turn[t].result
        /\ UNCHANGED <<pending, sent>>
    BY <1>2, RejoinStep
  <2>2. ~HasCalls(turn'[t]) /\ TurnPlaced(turn'[t], status', pending')
    BY <2>1, TurnIsPlaced DEF HasCalls, TurnPlaced, Within, Resuming
  <2> QED BY <2>1, <2>2, TurnIsPlaced, PlaceQuiet DEF Within
<1> QED BY <1>1, <1>2

LEMMA OpenPlace ==
    ASSUME TypeInv, PlaceInv, NEW t \in Turns, OthersIdle(t), Open(t)
    PROVE  PlaceInv'
<1>1. CASE turn[t].asked # 0
  <2>1. /\ Within(t) /\ turn'[t] = [turn[t] EXCEPT !.at = "clearing"] /\ turn[t].at = "opening"
        /\ UNCHANGED <<pending, sent>>
        /\ log' = Append(log, ToolMessage(turn[t].asked, FALSE))
        /\ ToolMessage(turn[t].asked, FALSE) \in Messages
    BY <1>1, AnswerQuestionStep
  <2>2. /\ turn'[t].at = "clearing" /\ turn'[t].asked = turn[t].asked
        /\ turn'[t].input = turn[t].input /\ turn'[t].result = turn[t].result
    BY <2>1, TurnFields DEF TurnType
  <2>3. ~HasCalls(turn'[t]) /\ TurnPlaced(turn'[t], status', pending')
    BY <2>1, <2>2, TurnIsPlaced DEF HasCalls, TurnPlaced, Within
  <2>4. turn[t].asked = pending
    BY <2>1, TurnIsPlaced DEF TurnPlaced
  <2>5. turn[t].asked \in LastCalls /\ turn[t].asked \in IssuedCalls
    BY <1>1, <2>4, TurnIsPlaced, LastIssued
  <2>6. /\ ToolMessage(turn[t].asked, FALSE).role = "tool"
        /\ ToolMessage(turn[t].asked, FALSE).calls = <<>>
        /\ ToolMessage(turn[t].asked, FALSE).call = turn[t].asked
    BY TurnFields, MessageTypes
  <2> QED BY <2>1, <2>2, <2>3, <2>5, <2>6, TurnIsPlaced, PlaceWrite DEF Within
<1>2. CASE turn[t].asked = 0
  <2>1. /\ Within(t) /\ turn'[t] = [turn[t] EXCEPT !.at = "asking"] /\ turn[t].at = "opening"
        /\ UNCHANGED <<pending, sent>>
        /\ \/ log' = log
           \/ log' = Append(log, UserMessage) /\ UserMessage \in Messages
           \/ /\ turn[t].input = "result"
              /\ log' = Append(log, ToolMessage(turn[t].result, FALSE))
              /\ ToolMessage(turn[t].result, FALSE) \in Messages
    BY <1>2, OpenStep
  <2>2. /\ turn'[t].at = "asking" /\ turn'[t].asked = turn[t].asked
        /\ turn'[t].input = turn[t].input /\ turn'[t].result = turn[t].result
    BY <2>1, TurnFields DEF TurnType
  <2>3. ~HasCalls(turn'[t]) /\ TurnPlaced(turn'[t], status', pending')
    BY <1>2, <2>1, <2>2, TurnIsPlaced DEF HasCalls, TurnPlaced, Within
  <2>4. CASE log' = log
    BY <2>1, <2>2, <2>3, <2>4, LogSame, TurnIsPlaced, PlaceQuiet DEF Within
  <2>5. CASE log' = Append(log, UserMessage) /\ UserMessage \in Messages
    <3>1. UserMessage.role = "user" /\ UserMessage.calls = <<>>
      BY MessageTypes
    <3> QED BY <2>1, <2>2, <2>3, <2>5, <3>1, TurnIsPlaced, PlaceWrite DEF Within
  <2>6. CASE /\ turn[t].input = "result"
             /\ log' = Append(log, ToolMessage(turn[t].result, FALSE))
             /\ ToolMessage(turn[t].result, FALSE) \in Messages
    <3>1. turn[t].result \in ClientCalls /\ turn[t].result \in IssuedCalls
      BY <2>6, TurnIsPlaced DEF ClientCalls
    <3>2. /\ ToolMessage(turn[t].result, FALSE).role = "tool"
          /\ ToolMessage(turn[t].result, FALSE).calls = <<>>
          /\ ToolMessage(turn[t].result, FALSE).call = turn[t].result
      BY TurnFields, MessageTypes
    <3> QED BY <2>1, <2>2, <2>3, <2>6, <3>1, <3>2, TurnIsPlaced, PlaceWrite DEF Within
  <2> QED BY <2>1, <2>4, <2>5, <2>6
<1> QED BY <1>1, <1>2

LEMMA ClearPlace ==
    ASSUME TypeInv, PlaceInv, NEW t \in Turns, OthersIdle(t), Clear(t)
    PROVE  PlaceInv'
<1>1. /\ Within(t) /\ turn'[t] = [turn[t] EXCEPT !.at = "asking", !.asked = 0]
      /\ turn[t].at = "clearing" /\ pending' = 0 /\ UNCHANGED <<log, sent>>
  BY ClearStep
<1>2. /\ turn'[t].at = "asking" /\ turn'[t].input = turn[t].input
      /\ turn'[t].result = turn[t].result
  BY <1>1, TurnFields DEF TurnType
<1>3. ~HasCalls(turn'[t]) /\ TurnPlaced(turn'[t], status', pending')
  BY <1>1, <1>2, TurnIsPlaced DEF HasCalls, TurnPlaced, Within
<1> QED BY <1>1, <1>2, <1>3, LogSame, TurnIsPlaced, PlaceQuiet DEF Within

LEMMA AskPlace ==
    ASSUME TypeInv, PlaceInv, NEW t \in Turns, OthersIdle(t), Ask(t)
    PROVE  PlaceInv'
<1>1. CASE Exhausted(t) \/ Conflict(turn[t].known)
  BY <1>1, AskStops, StopPlace
<1>2. CASE ~(Exhausted(t) \/ Conflict(turn[t].known))
  <2>1. /\ Within(t) /\ turn[t].at = "asking" /\ turn'[t].at = "waiting"
        /\ turn'[t].input = turn[t].input /\ turn'[t].result = turn[t].result
        /\ UNCHANGED <<log, pending, sent>>
    BY <1>2, AskStep
  <2>2. ~HasCalls(turn'[t]) /\ TurnPlaced(turn'[t], status', pending')
    BY <2>1, TurnIsPlaced DEF HasCalls, TurnPlaced, Within
  <2> QED BY <2>1, <2>2, LogSame, TurnIsPlaced, PlaceQuiet DEF Within
<1> QED BY <1>1, <1>2

LEMMA ReplyPlace ==
    ASSUME TypeInv, PlaceInv, NEW t \in Turns, OthersIdle(t), Reply(t)
    PROVE  PlaceInv'
<1>1. /\ Within(t) /\ turn'[t] = [turn[t] EXCEPT !.at = "closing", !.outcome = "completed"]
      /\ turn[t].at = "waiting" /\ log' = Append(log, AssistantMessage(<<>>))
      /\ AssistantMessage(<<>>) \in Messages /\ UNCHANGED <<pending, sent>>
  BY ReplyStep
<1>2. /\ turn'[t].at = "closing" /\ turn'[t].outcome = "completed"
      /\ turn'[t].input = turn[t].input /\ turn'[t].result = turn[t].result
  BY <1>1, TurnFields DEF TurnType
<1>3. ~HasCalls(turn'[t]) /\ TurnPlaced(turn'[t], status', pending') /\ pending' = 0
  BY <1>1, <1>2, TurnIsPlaced DEF HasCalls, TurnPlaced, Within
<1>4. AssistantMessage(<<>>).role = "assistant" /\ AssistantMessage(<<>>).calls = <<>>
  BY MessageTypes, EmptySeq
<1>5. IssuedKept
  BY <1>1, IssuedSame DEF Within
<1>6. AnswersInPlace' /\ NamesLog' /\ Len(log') # 0
  <2>1. \A k \in 1..Len(AssistantMessage(<<>>).calls) :
           AssistantMessage(<<>>).calls[k] \in IssuedCalls'
    BY <1>4, EmptySeq
  <2> QED BY <1>1, <1>4, <1>5, <2>1, PlaceNew
<1>7. NamesIssued'
  BY <1>1, <1>2, <1>5, <1>6, TurnIsPlaced, NamesStep DEF Within
<1> QED BY <1>2, <1>3, <1>6, <1>7, PlaceParts

LEMMA CallPlace ==
    ASSUME TypeInv, PlaceInv, NEW t \in Turns, OthersIdle(t), NEW calls \in Batches, Call(t, calls)
    PROVE  PlaceInv'
<1>1. /\ turn[t].at = "waiting" /\ UNCHANGED <<status, pending, handed, sent>>
      /\ \E ids : CallsMade(t, ids)
  BY CallStep
<1>2. PICK ids : CallsMade(t, ids)
  BY <1>1
<1> DEFINE m == AssistantMessage(ids)
<1>3. /\ ids \in Seq(Calls) /\ Len(ids) \in Nat \ {0} /\ IssuedKept
      /\ \A k \in 1..Len(ids) : ids[k] = Len(issued) + k
      /\ Len(issued') = Len(issued) + Len(ids)
      /\ m \in Messages /\ log' = Append(log, m)
      /\ turn'[t].input = turn[t].input /\ turn'[t].result = turn[t].result
  BY <1>2 DEF CallsMade
<1>4. m.role = "assistant" /\ m.calls = ids
  BY <1>3, MessageTypes
<1>5. \A k \in 1..Len(ids) : ids[k] \in IssuedCalls'
  BY <1>3, ConversationType DEF IssuedCalls
<1>6. /\ AnswersInPlace' /\ NamesLog' /\ Len(log') # 0
      /\ LastCalls' = {ids[k] : k \in 1..Len(ids)}
  <2> HIDE DEF m
  <2> QED BY <1>3, <1>4, <1>5, PlaceNew
<1>7. NamesIssued'
  BY <1>1, <1>3, <1>6, TurnIsPlaced, NamesStep
<1>8. pending' = 0
  BY <1>1, TurnIsPlaced DEF TurnPlaced
<1>9. /\ turn'[t].at \in {"handling", "closing"}
      /\ turn'[t].at = "handling" => turn'[t].todo = ids
      /\ turn'[t].at = "closing" =>
            /\ ids = <<Len(issued) + 1>> /\ turn'[t].asked = Len(issued) + 1
  BY <1>2 DEF CallsMade
<1>10. TurnPlaced(turn'[t], status', pending')
  BY <1>1, <1>8, <1>9, TurnIsPlaced DEF TurnPlaced, HasCalls
<1>11. HasCalls(turn'[t]) => \A k \in 1..Len(turn'[t].todo) : turn'[t].todo[k] \in LastCalls'
  BY <1>6, <1>9 DEF HasCalls
<1>12. turn'[t].at = "closing" =>
          turn'[t].asked # 0 /\ log'[Len(log')] = AssistantMessage(<<turn'[t].asked>>)
  <2> HAVE turn'[t].at = "closing"
  <2>1. Len(issued) + 1 # 0
    BY ConversationType
  <2>2. log'[Len(log')] = m
    <3> HIDE DEF m
    <3> QED BY <1>3, ConversationType, Appended
  <2> QED BY <1>9, <2>1, <2>2
<1> HIDE DEF m
<1> QED BY <1>6, <1>7, <1>8, <1>10, <1>11, <1>12, PlaceParts

LEMMA ObservePlace ==
    ASSUME TypeInv, PlaceInv, NEW t \in Turns, OthersIdle(t), NEW denied \in BOOLEAN, Handling(t), Within(t),
           ObservedAs(t, denied), UNCHANGED <<pending, sent>>
    PROVE  PlaceInv'
<1> DEFINE m == ToolMessage(NextCall(t), denied)
<1>1. /\ log' = Append(log, m) /\ m \in Messages
      /\ turn'[t].todo = Tail(turn[t].todo)
      /\ turn'[t].input = turn[t].input /\ turn'[t].result = turn[t].result
      /\ turn'[t].at \in {"closing", "asking", "handling"}
      /\ turn'[t].at = "closing" => turn'[t].outcome = "authorization_required"
  BY DEF ObservedAs
<1>2. NextCall(t) \in Calls /\ NextCall(t) \in 0..MaxCalls
  BY TurnFields, Bounds DEF Calls
<1>3. m.role = "tool" /\ m.calls = <<>> /\ m.call = NextCall(t)
  BY <1>2, MessageTypes
<1>4. \A k \in 1..Len(turn[t].todo) : turn[t].todo[k] \in LastCalls
  BY TurnIsPlaced
<1>5. NextCall(t) \in LastCalls /\ NextCall(t) \in IssuedCalls
  BY <1>4, TurnFields, TurnIsPlaced, LastIssued
<1>6. \A k \in 1..Len(turn'[t].todo) : turn'[t].todo[k] \in LastCalls
  <2>1. /\ Len(Tail(turn[t].todo)) = Len(turn[t].todo) - 1 /\ Len(turn[t].todo) \in Nat
        /\ \A k \in 1..(Len(turn[t].todo) - 1) : Tail(turn[t].todo)[k] = turn[t].todo[k + 1]
    BY TurnFields
  <2>2. \A k \in 1..(Len(turn[t].todo) - 1) : k + 1 \in 1..Len(turn[t].todo)
    BY <2>1
  <2> QED BY <1>1, <1>4, <2>1, <2>2
<1>7. pending = 0 /\ status \in {"running", "failed"}
  <2>1. turn[t].at # "none"
    BY DEF Handling, HasCalls
  <2> QED BY <2>1, TurnIsPlaced DEF TurnPlaced, Handling
<1>8. TurnPlaced(turn'[t], status', pending')
  BY <1>1, <1>7 DEF TurnPlaced, Within
<1> HIDE DEF m
<1> QED BY <1>1, <1>3, <1>5, <1>6, <1>7, <1>8, PlaceWrite DEF Within

LEMMA LoadPlace ==
    ASSUME TypeInv, PlaceInv, NEW t \in Turns, OthersIdle(t), Load(t)
    PROVE  PlaceInv'
<1>1. /\ Within(t) /\ turn[t].at = "handling" /\ turn'[t].at = "observing"
      /\ turn'[t].input = turn[t].input /\ turn'[t].result = turn[t].result
      /\ turn'[t].todo = turn[t].todo /\ UNCHANGED <<log, pending, sent>>
  BY LoadStep
<1>2. Handling(t) /\ TurnPlaced(turn'[t], status', pending')
  BY <1>1, TurnIsPlaced DEF Handling, HasCalls, TurnPlaced, Within
<1> QED BY <1>1, <1>2, LogSame, TurnIsPlaced, PlaceQuiet DEF Within

LEMMA HandOverPlace ==
    ASSUME TypeInv, PlaceInv, NEW t \in Turns, OthersIdle(t), HandOver(t)
    PROVE  PlaceInv'
<1>1. /\ turn'[t] = Idle /\ Handling(t) /\ handed' = handed \cup {NextCall(t)}
      /\ issued[NextCall(t)].kind = "client" /\ UNCHANGED <<log, pending, issued, sent>>
  BY HandOverStep
<1>2. NextCall(t) \in ClientCalls
  BY <1>1, TurnFields DEF ClientCalls, IssuedCalls, Issued
<1>3. handed' \subseteq ClientCalls /\ (pending' # 0 => pending' \in LastCalls)
  BY <1>1, <1>2, TurnIsPlaced
<1> QED BY <1>1, <1>3, IdleType, PlaceWait

LEMMA ClosePlace ==
    ASSUME TypeInv, PlaceInv, NEW t \in Turns, OthersIdle(t), Close(t)
    PROVE  PlaceInv'
<1>1. /\ turn'[t] = Idle /\ turn[t].at = "closing"
      /\ pending' = IF turn[t].outcome = "needs_input" THEN turn[t].asked ELSE pending
      /\ UNCHANGED <<log, issued, handed, sent>>
  BY CloseStep
<1>2. pending' # 0 => pending' \in LastCalls
  <2>1. CASE turn[t].outcome = "needs_input"
    <3>1. turn[t].asked # 0 /\ log[Len(log)] = AssistantMessage(<<turn[t].asked>>) /\ Len(log) # 0
      BY <1>1, <2>1, TurnIsPlaced
    <3>2. <<turn[t].asked>> \in Seq(Calls)
      BY <3>1, TurnFields DEF Calls
    <3>3. LastCalls = {<<turn[t].asked>>[k] : k \in 1..Len(<<turn[t].asked>>)}
      BY <3>1, <3>2, LastIsLast
    <3> QED BY <1>1, <2>1, <3>3
  <2>2. CASE turn[t].outcome # "needs_input"
    BY <1>1, <2>2, TurnIsPlaced
  <2> QED BY <2>1, <2>2
<1> QED BY <1>1, <1>2, IdleType, TurnIsPlaced, PlaceWait

\* No turn takes a step, or none is left; a request may have been refused.
LEMMA RestPlace ==
    ASSUME TypeInv, PlaceInv, UNCHANGED <<log, pending, issued, sent>>, handed' \subseteq handed,
           status' \in {status, "failed"}, turn' = turn \/ turn' = [u \in Turns |-> Idle]
    PROVE  PlaceInv'
<1>1. AnswersInPlace' /\ LastCalls' = LastCalls /\ NamesLog' /\ Len(log') # 0
  BY LogSame, PlaceSame
<1>2. ClientCalls' = ClientCalls /\ IssuedCalls' = IssuedCalls
  BY DEF ClientCalls, IssuedCalls
<1>3. CASE turn' = turn
  <2>1. NamesIssued'
    BY <1>1, <1>2, <1>3 DEF PlaceInv, NamesIssued, NamesLog
  <2>2. PendingFollowsTurn'
    BY <1>3 DEF PlaceInv, PendingFollowsTurn, InFlight, Handling, Resuming
  <2>3. AtLastAssistant' /\ QuestionAsked'
    BY <1>1, <1>3 DEF PlaceInv, AtLastAssistant, QuestionAsked, Handling, AssistantMessage
  <2> QED BY <1>1, <2>1, <2>2, <2>3 DEF PlaceInv
<1>4. CASE turn' = [u \in Turns |-> Idle]
  <2>1. \A u \in Turns : turn'[u].at = "none" /\ turn'[u].input = "message" /\ ~HasCalls(turn'[u])
    BY <1>4, IdleType DEF HasCalls
  <2>2. NamesIssued'
    BY <1>1, <1>2, <2>1 DEF PlaceInv, NamesIssued, NamesLog
  <2>3. PendingFollowsTurn'
    BY <2>1 DEF PendingFollowsTurn, InFlight, Handling, Resuming
  <2>4. AtLastAssistant' /\ QuestionAsked'
    BY <1>1, <2>1 DEF PlaceInv, AtLastAssistant, QuestionAsked, Handling
  <2> QED BY <1>1, <2>2, <2>3, <2>4 DEF PlaceInv
<1> QED BY <1>3, <1>4

\* A turn that takes a step, while no other one is in flight.
LEMMA FlightAlone ==
    ASSUME TypeInv, OneAtATime, NEW t \in Turns, Step(t) \/ Abort(t)
    PROVE  OthersIdle(t)
<1>1. InFlight(t)
  BY DEF Step, Abort, Resume, CallTool, Send, Resumed, Observed, Open, Clear, Ask, Reply, Break, Call,
         HandOver, Load, AnswerCall, Close, At, Returns, Handles, Awaits, InFlight
<1>2. \A u \in Turns : u # t => turn'[u] = turn[u]
  BY OthersStay
<1> QED BY <1>1, <1>2 DEF OneAtATime, InFlight, OthersIdle

LEMMA BeginAlone ==
    ASSUME TypeInv, OneAtATime', NEW t \in Turns, NEW input \in Inputs, NEW result \in 0..MaxCalls,
           NEW available \in BOOLEAN, Begin(t, input, result, available)
    PROVE  \/ /\ status' = "failed" /\ turn' = turn /\ handed' \subseteq handed
              /\ UNCHANGED <<log, pending, issued, sent>>
           \/ status' # "failed" /\ OthersIdle(t)
<1>1. /\ handed' \subseteq handed /\ UNCHANGED <<log, pending, issued, sent>>
      /\ \/ status' = "failed" /\ turn' = turn
         \/ Puts(t, turn'[t]) /\ Begun(t, input, result)
  BY BeginStep
<1>2. CASE Puts(t, turn'[t]) /\ Begun(t, input, result)
  <2>1. InFlight(t)' /\ \A u \in Turns : u # t => turn'[u] = turn[u]
    BY <1>2, ConversationType DEF Puts, Begun, InFlight
  <2>2. \A u \in Turns : u # t => turn'[u].at = "none"
    BY <2>1 DEF OneAtATime, InFlight
  <2> QED BY <1>2, <2>1, <2>2 DEF OthersIdle, Begun
<1> QED BY <1>1, <1>2

LEMMA StepPlace ==
    ASSUME OneAtATime, OneAtATime', TypeInv, ResumesLogged, PlaceInv, [Next]_vars
    PROVE  PlaceInv'
<1>1. ASSUME NEW t \in Turns, Step(t) \/ Abort(t)
      PROVE  PlaceInv'
  <2>1. OthersIdle(t)
    BY <1>1, FlightAlone
  <2>2. CASE Reply(t) \/ HandOver(t) \/ Load(t) \/ Close(t) \/ Open(t) \/ Clear(t) \/ Ask(t)
    BY <2>1, <2>2, ReplyPlace, HandOverPlace, LoadPlace, ClosePlace, OpenPlace, ClearPlace, AskPlace
  <2>3. CASE Break(t) \/ Abort(t)
    BY <2>1, <2>3, BreakStops, AbortStops, StopPlace
  <2>4. CASE AnswerCall(t)
    BY <2>1, <2>4, AnswerCallStep, ObservePlace DEF Handling, HasCalls
  <2>5. CASE \E denied, expired \in BOOLEAN : Observed(t, denied, expired)
    BY <2>1, <2>5, ObservedStep, ObservePlace DEF Handling, HasCalls
  <2>6. CASE \E denied, expired \in BOOLEAN : Resumed(t, denied, expired)
    BY <2>1, <2>6, ResumedPlace
  <2>7. CASE Resume(t) \/ CallTool(t) \/ Send(t)
    BY <2>1, <2>7, ResumePlace, CallToolPlace, SendPlace
  <2>8. CASE \E calls \in Batches : Call(t, calls)
    BY <2>1, <2>8, CallPlace
  <2> QED BY <1>1, <2>2, <2>3, <2>4, <2>5, <2>6, <2>7, <2>8 DEF Step
<1>2. ASSUME NEW t \in Turns, NEW input \in Inputs, NEW result \in 0..MaxCalls,
             NEW available \in BOOLEAN, Begin(t, input, result, available)
      PROVE  PlaceInv'
  BY <1>2, BeginAlone, BeginPlace, RestPlace
<1>3. CASE Crash
  BY <1>3, CrashStep, RestPlace
<1>4. CASE (\E s \in Skills : SwitchSkill(s)) \/ UNCHANGED vars
  BY <1>4, SwitchStep, StutterStep, RestPlace
<1> QED BY <1>1, <1>2, <1>3, <1>4 DEF Next

LEMMA InitPlace ==
    ASSUME Init
    PROVE  PlaceInv
<1>1. /\ Len(log) = 2 /\ log[1].role = "user" /\ log[2].role = "assistant"
      /\ log[1].calls = <<>> /\ log[2].calls = <<>>
  BY InitLog
<1>2. \A i \in 1..Len(log) : log[i].role # "tool" /\ log[i].calls = <<>>
  <2>1. \A i \in 1..Len(log) : i = 1 \/ i = 2
    BY <1>1
  <2> QED BY <1>1, <2>1
<1>3. \A t \in Turns : turn[t] = Idle
  BY DEF Init
<1>4. pending = 0 /\ handed = {} /\ sent = <<>>
  BY DEF Init
<1>5. NamesIssued
  BY <1>2, <1>3, <1>4, IdleType, EmptySeq DEF NamesIssued
<1>6. PendingFollowsTurn /\ AtLastAssistant /\ QuestionAsked
  BY <1>1, <1>3, <1>4, IdleType
     DEF PendingFollowsTurn, AtLastAssistant, QuestionAsked, InFlight, Resuming, Handling, HasCalls
<1>7. AnswersInPlace
  BY <1>2 DEF AnswersInPlace
<1> QED BY <1>5, <1>6, <1>7 DEF PlaceInv

LEMMA AlwaysPlaced == Spec /\ []OneAtATime => []PlaceInv
<1>1. Init => PlaceInv
  BY InitPlace
<1>2. OneAtATime /\ OneAtATime' /\ TypeInv /\ ResumesLogged /\ PlaceInv /\ [Next]_vars => PlaceInv'
  BY StepPlace
<1> QED BY <1>1, <1>2, AlwaysTyped, PTL DEF Spec

\* AnswersInPlace: when turns follow each other, every answer stands after the
\* assistant message with its call and before the next one, through questions,
\* denials, resumptions, failures and crashes.
THEOREM AnswersStayInPlace == Spec /\ []OneAtATime => []AnswersInPlace
<1>1. PlaceInv => AnswersInPlace
  BY DEF PlaceInv
<1> QED BY <1>1, AlwaysPlaced, PTL

-----------------------------------------------------------------------------
(* Turns that follow each other: what the status promises                  *)

\* A log that stays has the same last denial and the same answers.
LEMMA PendingSame ==
    ASSUME log' = log
    PROVE  /\ PendingAuthorization' = PendingAuthorization
           /\ AnsweredCalls' = AnsweredCalls /\ LastCalls' = LastCalls
BY DEF PendingAuthorization, LastTool, AssistantBefore, CallsOf, AnsweredCalls, Answered,
       LastCalls, LastAssistant

\* A status that promises nothing.
LEMMA BusyMatches ==
    ASSUME status' \in {"running", "failed"}
    PROVE  StatusMatchesLog'
BY DEF StatusMatchesLog

LEMMA InFlightBusy ==
    ASSUME TypeInv, PlaceInv, NEW t \in Turns, InFlight(t)
    PROVE  status \in {"running", "failed"}
BY TurnIsPlaced DEF TurnPlaced, InFlight

\* The parts of the invariant that are about the turn in flight.
TodoFresh(r, answered) ==
    HasCalls(r) =>
        \A k \in 1..Len(r.todo) : r.todo[k] = r.todo[1] + k - 1 /\ r.todo[k] \notin answered

LEMMA TurnIsDue ==
    ASSUME StatusInv, NEW t \in Turns
    PROVE  /\ TodoFresh(turn[t], AnsweredCalls)
           /\ turn[t].at = "closing" =>
                 /\ turn[t].outcome # "waiting_client_tool"
                 /\ turn[t].outcome = "authorization_required" => PendingAuthorization # 0
           /\ Resuming(t) => turn[t].resumes = PendingAuthorization
BY DEF StatusInv, TodoUnanswered, OutcomeDue, TodoFresh, Handling

LEMMA StatusParts ==
    ASSUME NEW t \in Turns, OthersIdle(t), StatusMatchesLog',
           TodoFresh(turn'[t], AnsweredCalls'),
           turn'[t].at = "closing" =>
              /\ turn'[t].outcome # "waiting_client_tool"
              /\ turn'[t].outcome = "authorization_required" => PendingAuthorization' # 0,
           turn'[t].at = "executing" /\ turn'[t].resumes # 0
              => turn'[t].resumes = PendingAuthorization'
    PROVE  StatusInv'
<1>1. \A u \in Turns : u = t \/ (turn'[u].at = "none" /\ ~HasCalls(turn'[u]))
  BY DEF OthersIdle, HasCalls
<1>2. TodoUnanswered'
  BY <1>1 DEF TodoUnanswered, Handling, TodoFresh
<1>3. OutcomeDue'
  BY <1>1 DEF OutcomeDue, Resuming
<1> QED BY <1>2, <1>3 DEF StatusInv

\* A step that writes nothing and is not about to end the turn.
LEMMA StatusQuiet ==
    ASSUME TypeInv, PlaceInv, StatusInv, NEW t \in Turns, OthersIdle(t), log' = log,
           StatusMatchesLog', turn'[t].at # "closing",
           HasCalls(turn'[t]) => Handling(t) /\ turn'[t].todo = turn[t].todo,
           turn'[t].at = "executing" /\ turn'[t].resumes # 0
              => turn'[t].resumes = PendingAuthorization
    PROVE  StatusInv'
<1>1. PendingAuthorization' = PendingAuthorization /\ AnsweredCalls' = AnsweredCalls
  BY PendingSame
<1>2. TodoFresh(turn'[t], AnsweredCalls')
  BY <1>1, TurnIsDue DEF TodoFresh, Handling
<1> QED BY <1>1, <1>2, StatusParts

\* A step that writes and leaves no call to handle, nor a denial.
LEMMA StatusWrite ==
    ASSUME TypeInv, PlaceInv, StatusInv, NEW t \in Turns, OthersIdle(t),
           InFlight(t), status' = status, ~HasCalls(turn'[t]), turn'[t].at # "executing",
           turn'[t].at = "closing" => turn'[t].outcome \in {"completed", "needs_input"}
    PROVE  StatusInv'
<1>1. StatusMatchesLog'
  BY InFlightBusy, BusyMatches
<1>2. TodoFresh(turn'[t], AnsweredCalls')
  BY DEF TodoFresh
<1> QED BY <1>1, <1>2, StatusParts

LEMMA StopStatus ==
    ASSUME TypeInv, PlaceInv, StatusInv, NEW t \in Turns, OthersIdle(t), Stopped(t)
    PROVE  StatusInv'
<1>1. turn'[t] = Idle /\ log' = log /\ status' \in {status, "failed"} /\ InFlight(t)
  BY DEF Stopped
<1>2. StatusMatchesLog'
  BY <1>1, InFlightBusy, BusyMatches
<1> QED BY <1>1, <1>2, IdleType, StatusQuiet DEF HasCalls

LEMMA ResumeStatus ==
    ASSUME TypeInv, PlaceInv, StatusInv, NEW t \in Turns, OthersIdle(t), Resume(t)
    PROVE  StatusInv'
<1>1. CASE Stopped(t)
  BY <1>1, StopStatus
<1>2. CASE /\ Within(t) /\ turn[t].at = "resuming" /\ log' = log
           /\ \/ turn'[t] = [turn[t] EXCEPT !.at = "opening"]
              \/ /\ PendingAuthorization # 0
                 /\ turn'[t] = [turn[t] EXCEPT !.at = "executing", !.resumes = PendingAuthorization,
                                               !.reached = FALSE]
  <2>1. \/ turn'[t].at = "opening"
        \/ turn'[t].at = "executing" /\ turn'[t].resumes = PendingAuthorization
           /\ PendingAuthorization # 0
    BY <1>2, TurnFields DEF TurnType
  <2>2. ~HasCalls(turn'[t]) /\ StatusMatchesLog'
    BY <1>2, <2>1, InFlightBusy, BusyMatches DEF HasCalls, InFlight, Within
  <2> QED BY <1>2, <2>1, <2>2, StatusQuiet
<1> QED BY <1>1, <1>2, ResumeStep

LEMMA CallToolStatus ==
    ASSUME TypeInv, PlaceInv, StatusInv, NEW t \in Turns, OthersIdle(t), CallTool(t)
    PROVE  StatusInv'
<1>1. /\ Within(t) /\ turn[t].at = "handling" /\ log' = log
      /\ turn'[t] = [turn[t] EXCEPT !.at = "executing", !.resumes = 0, !.reached = FALSE]
  BY CallToolStep
<1>2. turn'[t].at = "executing" /\ turn'[t].resumes = 0 /\ turn'[t].todo = turn[t].todo
  BY <1>1, TurnFields DEF TurnType
<1>3. Handling(t) /\ StatusMatchesLog'
  BY <1>1, InFlightBusy, BusyMatches DEF Handling, HasCalls, InFlight, Within
<1> QED BY <1>1, <1>2, <1>3, StatusQuiet

LEMMA SendStatus ==
    ASSUME TypeInv, ResumesLogged, PlaceInv, StatusInv, NEW t \in Turns, OthersIdle(t), Send(t)
    PROVE  StatusInv'
<1>1. /\ Within(t) /\ turn[t].at = "executing" /\ log' = log
      /\ turn'[t] = [turn[t] EXCEPT !.reached = TRUE]
  BY SendStep
<1>2. /\ turn'[t].at = "executing" /\ turn'[t].resumes = turn[t].resumes
      /\ turn'[t].todo = turn[t].todo
  BY <1>1, TurnFields DEF TurnType
<1>3. HasCalls(turn'[t]) => Handling(t)
  BY <1>1, <1>2 DEF Handling, HasCalls
<1>4. turn'[t].resumes # 0 => turn'[t].resumes = PendingAuthorization
  BY <1>1, <1>2, TurnIsDue DEF Resuming
<1>5. StatusMatchesLog'
  BY <1>1, InFlightBusy, BusyMatches DEF InFlight, Within
<1> QED BY <1>1, <1>2, <1>3, <1>4, <1>5, StatusQuiet

LEMMA LoadStatus ==
    ASSUME TypeInv, PlaceInv, StatusInv, NEW t \in Turns, OthersIdle(t), Load(t)
    PROVE  StatusInv'
<1>1. /\ Within(t) /\ turn[t].at = "handling" /\ turn'[t].at = "observing"
      /\ turn'[t].todo = turn[t].todo /\ log' = log
  BY LoadStep
<1>2. Handling(t) /\ StatusMatchesLog'
  BY <1>1, InFlightBusy, BusyMatches DEF Handling, HasCalls, InFlight, Within
<1> QED BY <1>1, <1>2, StatusQuiet

LEMMA ResumedStatus ==
    ASSUME TypeInv, PlaceInv, StatusInv, NEW t \in Turns, OthersIdle(t), NEW denied \in BOOLEAN,
           NEW expired \in BOOLEAN, Resumed(t, denied, expired)
    PROVE  StatusInv'
<1>1. CASE denied
  <2>1. /\ turn'[t] = Idle /\ status' = "authorization_required" /\ Resuming(t) /\ log' = log
    BY <1>1, DeniedAgainStep
  <2>2. PendingAuthorization # 0
    BY <2>1, TurnIsDue DEF Resuming
  <2>3. StatusMatchesLog'
    BY <2>1, <2>2, PendingSame DEF StatusMatchesLog
  <2> QED BY <2>1, <2>3, IdleType, StatusQuiet DEF HasCalls
<1>2. CASE ~denied
  <2>1. Within(t) /\ Resuming(t) /\ turn'[t].at = "opening"
    BY <1>2, RejoinStep
  <2>2. ~HasCalls(turn'[t]) /\ InFlight(t) /\ status' = status
    BY <2>1 DEF HasCalls, Resuming, InFlight, Within
  <2> QED BY <2>1, <2>2, StatusWrite
<1> QED BY <1>1, <1>2

LEMMA WriteStatus ==
    ASSUME TypeInv, PlaceInv, StatusInv, NEW t \in Turns, OthersIdle(t),
           Open(t) \/ Clear(t) \/ Reply(t)
    PROVE  StatusInv'
<1>1. CASE Open(t)
  <2>1. /\ Within(t) /\ turn[t].at = "opening"
        /\ \/ turn'[t] = [turn[t] EXCEPT !.at = "clearing"]
           \/ turn'[t] = [turn[t] EXCEPT !.at = "asking"]
    BY <1>1, AnswerQuestionStep, OpenStep
  <2>2. turn'[t].at \in {"clearing", "asking"}
    BY <2>1, TurnFields DEF TurnType
  <2> QED BY <2>1, <2>2, StatusWrite DEF HasCalls, InFlight, Within
<1>2. CASE Clear(t)
  <2>1. /\ Within(t) /\ turn[t].at = "clearing"
        /\ turn'[t] = [turn[t] EXCEPT !.at = "asking", !.asked = 0]
    BY <1>2, ClearStep
  <2>2. turn'[t].at = "asking"
    BY <2>1, TurnFields DEF TurnType
  <2> QED BY <2>1, <2>2, StatusWrite DEF HasCalls, InFlight, Within
<1>3. CASE Reply(t)
  <2>1. /\ Within(t) /\ turn[t].at = "waiting"
        /\ turn'[t] = [turn[t] EXCEPT !.at = "closing", !.outcome = "completed"]
    BY <1>3, ReplyStep
  <2>2. turn'[t].at = "closing" /\ turn'[t].outcome = "completed"
    BY <2>1, TurnFields DEF TurnType
  <2> QED BY <2>1, <2>2, StatusWrite DEF HasCalls, InFlight, Within
<1> QED BY <1>1, <1>2, <1>3

LEMMA AskStatus ==
    ASSUME TypeInv, PlaceInv, StatusInv, NEW t \in Turns, OthersIdle(t), Ask(t)
    PROVE  StatusInv'
<1>1. CASE Exhausted(t) \/ Conflict(turn[t].known)
  BY <1>1, AskStops, StopStatus
<1>2. CASE ~(Exhausted(t) \/ Conflict(turn[t].known))
  <2>1. Within(t) /\ turn[t].at = "asking" /\ turn'[t].at = "waiting"
    BY <1>2, AskStep
  <2> QED BY <2>1, StatusWrite DEF HasCalls, InFlight, Within
<1> QED BY <1>1, <1>2

LEMMA HandOverStatus ==
    ASSUME TypeInv, PlaceInv, StatusInv, NEW t \in Turns, OthersIdle(t), HandOver(t)
    PROVE  StatusInv'
<1>1. /\ turn'[t] = Idle /\ status' = "waiting_client_tool" /\ Handling(t)
      /\ handed' = handed \cup {NextCall(t)} /\ log' = log
  BY HandOverStep
<1>2. NextCall(t) = turn[t].todo[1] /\ 1 \in 1..Len(turn[t].todo) /\ NextCall(t) \in Calls
  BY <1>1, TurnFields
<1>3. NextCall(t) \in LastCalls /\ NextCall(t) \notin AnsweredCalls
  BY <1>1, <1>2, TurnIsPlaced, TurnIsDue DEF TodoFresh, Handling
<1>4. LastCalls' = LastCalls /\ AnsweredCalls' = AnsweredCalls
  BY <1>1, PendingSame
<1>5. StatusMatchesLog'
  <2> SUFFICES ASSUME NEW c, c = NextCall(t) PROVE StatusMatchesLog'
    OBVIOUS
  <2>1. c \in (CallsOf(LastAssistant) \cap handed)' /\ ~Answered(c)'
    BY <1>1, <1>2, <1>3, <1>4 DEF LastCalls, AnsweredCalls, Calls
  <2> QED BY <1>1, <2>1 DEF StatusMatchesLog
<1> QED BY <1>1, <1>5, IdleType, StatusQuiet DEF HasCalls

LEMMA CloseStatus ==
    ASSUME TypeInv, PlaceInv, StatusInv, NEW t \in Turns, OthersIdle(t), Close(t)
    PROVE  StatusInv'
<1>1. /\ turn'[t] = Idle /\ turn[t].at = "closing" /\ status' = turn[t].outcome
      /\ pending' = IF turn[t].outcome = "needs_input" THEN turn[t].asked ELSE pending
      /\ log' = log
  BY CloseStep
<1>2. /\ turn[t].outcome # "waiting_client_tool"
      /\ turn[t].outcome = "authorization_required" => PendingAuthorization # 0
  BY <1>1, TurnIsDue
<1>3. turn[t].outcome = "needs_input" =>
         turn[t].asked # 0 /\ log[Len(log)] = AssistantMessage(<<turn[t].asked>>)
  BY <1>1, TurnIsPlaced
<1>4. PendingAuthorization' = PendingAuthorization
  BY <1>1, PendingSame
<1>5. StatusMatchesLog'
  BY <1>1, <1>2, <1>3, <1>4 DEF StatusMatchesLog, AssistantMessage
<1> QED BY <1>1, <1>5, IdleType, StatusQuiet DEF HasCalls

\* What was answered had been asked.
LEMMA AnsweredIssued ==
    ASSUME TypeInv, PlaceInv
    PROVE  AnsweredCalls \subseteq IssuedCalls
BY TurnIsPlaced DEF PlaceInv, NamesIssued, AnsweredCalls, Answered

\* What a new message answers.
LEMMA NewAnswered ==
    ASSUME TypeInv, NEW m \in Messages, log' = Append(log, m)
    PROVE  /\ m.role # "tool" => AnsweredCalls' = AnsweredCalls
           /\ m.role = "tool" => AnsweredCalls' \subseteq AnsweredCalls \cup {m.call}
<1> SUFFICES ASSUME NEW n, n = Len(log) + 1
             PROVE  /\ m.role # "tool" => AnsweredCalls' = AnsweredCalls
                    /\ m.role = "tool" => AnsweredCalls' \subseteq AnsweredCalls \cup {m.call}
  OBVIOUS
<1>1. \A c : Answered(c)' <=> Answered(c) \/ (m.role = "tool" /\ m.call = c)
  BY ConversationType, NewTool
<1> QED BY <1>1 DEF AnsweredCalls, Calls

LEMMA CallStatus ==
    ASSUME TypeInv, PlaceInv, StatusInv, NEW t \in Turns, OthersIdle(t), NEW calls \in Batches,
           Call(t, calls)
    PROVE  StatusInv'
<1>1. turn[t].at = "waiting" /\ status' = status /\ \E ids : CallsMade(t, ids)
  BY CallStep
<1>2. PICK ids : CallsMade(t, ids)
  BY <1>1
<1>3. /\ ids \in Seq(Calls) /\ Len(ids) \in Nat \ {0}
      /\ \A k \in 1..Len(ids) : ids[k] = Len(issued) + k
      /\ AssistantMessage(ids) \in Messages /\ log' = Append(log, AssistantMessage(ids))
      /\ AssistantMessage(ids).role = "assistant"
  BY <1>2, MessageTypes DEF CallsMade
<1>4. AnsweredCalls' = AnsweredCalls
  BY <1>3, NewAnswered
<1>5. \A k \in 1..Len(ids) : ids[k] = ids[1] + k - 1 /\ ids[k] \notin AnsweredCalls
  <2>1. Len(issued) \in Nat /\ 1 \in 1..Len(ids) /\ ids[1] = Len(issued) + 1
    BY <1>3, ConversationType
  <2>2. \A k \in 1..Len(ids) : Len(issued) + k \notin IssuedCalls
    BY <1>3, <2>1 DEF IssuedCalls
  <2>3. \A k \in 1..Len(ids) : ids[k] = ids[1] + k - 1
    BY <1>3, <2>1
  <2> QED BY <1>3, <2>2, <2>3, AnsweredIssued
<1>6. \/ turn'[t].at = "handling" /\ turn'[t].todo = ids
      \/ turn'[t].at = "closing" /\ turn'[t].outcome = "needs_input"
  BY <1>2 DEF CallsMade
<1>7. TodoFresh(turn'[t], AnsweredCalls')
  BY <1>4, <1>5, <1>6 DEF TodoFresh, HasCalls
<1>8. StatusMatchesLog'
  BY <1>1, InFlightBusy, BusyMatches DEF InFlight
<1> QED BY <1>6, <1>7, <1>8, StatusParts

\* A denial that was written is the pending one.
LEMMA NewDenial ==
    ASSUME TypeInv, NEW m \in Messages, log' = Append(log, m), m.role = "tool"
    PROVE  /\ PendingAuthorization' \in {0, Len(log) + 1}
           /\ log'[Len(log) + 1] = m /\ Len(log) \in Nat
           /\ m.denied /\ m.call \in LastCalls => PendingAuthorization' # 0
<1> SUFFICES ASSUME NEW n, n = Len(log) + 1
             PROVE  /\ PendingAuthorization' \in {0, n} /\ log'[n] = m /\ Len(log) \in Nat
                    /\ m.denied /\ m.call \in LastCalls => PendingAuthorization' # 0
  OBVIOUS
<1>1. /\ LogKept /\ Len(log') = n /\ Len(log) \in Nat /\ log'[n] = m /\ n # 0
  BY ConversationType, Appended
<1>2. LastTool' = n
  BY ConversationType, NewTool
<1>3. AssistantBefore(n)' = LastAssistant
  BY ConversationType, NewAssistant
<1>4. LastAssistant \in 0..Len(log)
  BY <1>1, ConversationType, BeforeBounds DEF LastAssistant
<1> DEFINE CallsIn(lg, i) == IF i = 0 THEN {} ELSE {lg[i].calls[k] : k \in 1..Len(lg[i].calls)}
           Before(lg, i) == Max({0} \cup {j \in 1..(i - 1) : lg[j].role = "assistant"})
           Found(lg, l) == l # 0 /\ lg[l].denied /\ lg[l].call \in CallsIn(lg, Before(lg, l))
<1>5. /\ PendingAuthorization' = IF Found(log', LastTool') THEN LastTool' ELSE 0
      /\ LastCalls = CallsIn(log, LastAssistant) /\ Before(log', n) = AssistantBefore(n)'
      /\ \A i : CallsOf(i) = CallsIn(log, i) /\ CallsOf(i)' = CallsIn(log', i)
  BY DEF PendingAuthorization, CallsOf, AssistantBefore, LastCalls
<1>6. \A i \in 0..Len(log) : CallsOf(i)' = CallsOf(i)
  BY <1>1, KeptCalls
<1> HIDE DEF CallsIn, Before
<1>7. CallsIn(log', Before(log', n)) = LastCalls
  BY <1>3, <1>4, <1>5, <1>6
<1> QED BY <1>1, <1>2, <1>5, <1>7

LEMMA ObserveStatus ==
    ASSUME TypeInv, PlaceInv, StatusInv, NEW t \in Turns, OthersIdle(t), NEW denied \in BOOLEAN,
           Handling(t), Within(t), ObservedAs(t, denied)
    PROVE  StatusInv'
<1> DEFINE m == ToolMessage(NextCall(t), denied)
           todo == turn[t].todo
<1>1. /\ log' = Append(log, m) /\ m \in Messages /\ turn'[t].todo = Tail(todo)
      /\ denied => turn'[t].at = "closing" /\ turn'[t].outcome = "authorization_required"
      /\ ~denied => turn'[t].at \in {"asking", "handling"}
  BY DEF ObservedAs
<1>2. NextCall(t) \in Calls /\ NextCall(t) \in 0..MaxCalls
  BY TurnFields, Bounds DEF Calls
<1>3. m.role = "tool" /\ m.call = NextCall(t) /\ m.denied = denied
  BY <1>2, MessageTypes
<1>4. /\ Len(todo) \in Nat /\ Len(Tail(todo)) = Len(todo) - 1 /\ 1 \in 1..Len(todo)
      /\ NextCall(t) = todo[1] /\ NextCall(t) \in Calls
      /\ \A k \in 1..(Len(todo) - 1) : Tail(todo)[k] = todo[k + 1]
  BY TurnFields
<1>5. \A k \in 1..Len(todo) : todo[k] = todo[1] + k - 1 /\ todo[k] \notin AnsweredCalls
  BY TurnIsDue DEF TodoFresh, Handling
<1>6. NextCall(t) \in LastCalls
  BY <1>4, TurnIsPlaced
<1> HIDE DEF m, todo
<1>7. AnsweredCalls' \subseteq AnsweredCalls \cup {NextCall(t)}
  BY <1>1, <1>3, NewAnswered
<1>8. ASSUME NEW k \in 1..Len(Tail(todo))
      PROVE  Tail(todo)[k] = Tail(todo)[1] + k - 1 /\ Tail(todo)[k] \notin AnsweredCalls'
  <2>1. /\ Tail(todo)[k] = todo[k + 1] /\ k + 1 \in 1..Len(todo) /\ k \in Nat \ {0}
        /\ Tail(todo)[1] = todo[2] /\ 2 \in 1..Len(todo) /\ 1 \in 1..Len(Tail(todo))
    BY <1>4
  <2>2. todo[k + 1] = todo[1] + k /\ todo[2] = todo[1] + 1 /\ todo[1] \in Nat
    <3>1. todo[k + 1] = todo[1] + (k + 1) - 1 /\ todo[2] = todo[1] + 2 - 1
      BY <1>5, <2>1
    <3>2. todo[1] \in Nat
      BY <1>2, <1>4
    <3> QED BY <2>1, <3>1, <3>2
  <2>3. todo[k + 1] # todo[1]
    BY <2>1, <2>2
  <2> QED BY <1>4, <1>5, <1>7, <2>1, <2>2, <2>3
<1>9. TodoFresh(turn'[t], AnsweredCalls')
  BY <1>1, <1>8 DEF TodoFresh
<1>10. denied => PendingAuthorization' # 0
  BY <1>1, <1>3, <1>6, NewDenial
<1>11. StatusMatchesLog'
  <2>1. InFlight(t)
    BY DEF Handling, HasCalls, InFlight
  <2> QED BY <2>1, InFlightBusy, BusyMatches DEF Within
<1> QED BY <1>1, <1>9, <1>10, <1>11, StatusParts

\* No turn takes a step, or none is left; a request may have been refused.
LEMMA RestStatus ==
    ASSUME TypeInv, PlaceInv, StatusInv, UNCHANGED <<log, pending>>,
           turn' = turn \/ turn' = [u \in Turns |-> Idle],
           status' = "failed" \/ (status' = status /\ handed' = handed)
    PROVE  StatusInv'
<1>1. /\ PendingAuthorization' = PendingAuthorization /\ AnsweredCalls' = AnsweredCalls
      /\ LastCalls' = LastCalls
  BY PendingSame
<1>2. StatusMatchesLog'
  <2>1. CASE status' = "failed"
    BY <2>1, BusyMatches
  <2>2. CASE status' = status /\ handed' = handed
    BY <1>1, <2>2
       DEF StatusInv, StatusMatchesLog, LastCalls, Answered, AssistantMessage, CallsOf, LastAssistant,
           AssistantBefore
  <2> QED BY <2>1, <2>2
<1>3. CASE turn' = turn
  <2>1. TodoUnanswered' /\ OutcomeDue'
    BY <1>1, <1>3 DEF StatusInv, TodoUnanswered, OutcomeDue, Handling, Resuming
  <2> QED BY <1>2, <2>1 DEF StatusInv
<1>4. CASE turn' = [u \in Turns |-> Idle]
  <2>1. \A u \in Turns : turn'[u].at = "none" /\ ~HasCalls(turn'[u])
    BY <1>4, IdleType DEF HasCalls
  <2>2. TodoUnanswered' /\ OutcomeDue'
    BY <2>1 DEF TodoUnanswered, OutcomeDue, Handling, Resuming
  <2> QED BY <1>2, <2>2 DEF StatusInv
<1> QED BY <1>3, <1>4

LEMMA BeginStatus ==
    ASSUME TypeInv, PlaceInv, StatusInv, NEW t \in Turns, OthersIdle(t), NEW input \in Inputs,
           NEW result \in 0..MaxCalls, NEW available \in BOOLEAN,
           Begin(t, input, result, available), status' # "failed"
    PROVE  StatusInv'
<1>1. Begun(t, input, result) /\ log' = log
  BY BeginStep
<1>2. StatusMatchesLog'
  BY <1>1, BusyMatches DEF Begun
<1> QED BY <1>1, <1>2, StatusQuiet DEF Begun, HasCalls

LEMMA StepStatus ==
    ASSUME OneAtATime, OneAtATime', TypeInv, ResumesLogged, PlaceInv, StatusInv, [Next]_vars
    PROVE  StatusInv'
<1>1. ASSUME NEW t \in Turns, Step(t) \/ Abort(t)
      PROVE  StatusInv'
  <2>1. OthersIdle(t)
    BY <1>1, FlightAlone
  <2>2. CASE HandOver(t) \/ Load(t) \/ Close(t) \/ Open(t) \/ Clear(t) \/ Reply(t) \/ Ask(t)
    BY <2>1, <2>2, HandOverStatus, LoadStatus, CloseStatus, WriteStatus, AskStatus
  <2>3. CASE Break(t) \/ Abort(t)
    BY <2>1, <2>3, BreakStops, AbortStops, StopStatus
  <2>4. CASE AnswerCall(t)
    BY <2>1, <2>4, AnswerCallStep, ObserveStatus DEF Handling, HasCalls
  <2>5. CASE \E denied, expired \in BOOLEAN : Observed(t, denied, expired)
    BY <2>1, <2>5, ObservedStep, ObserveStatus DEF Handling, HasCalls
  <2>6. CASE \E denied, expired \in BOOLEAN : Resumed(t, denied, expired)
    BY <2>1, <2>6, ResumedStatus
  <2>7. CASE Resume(t) \/ CallTool(t) \/ Send(t)
    BY <2>1, <2>7, ResumeStatus, CallToolStatus, SendStatus
  <2>8. CASE \E calls \in Batches : Call(t, calls)
    BY <2>1, <2>8, CallStatus
  <2> QED BY <1>1, <2>2, <2>3, <2>4, <2>5, <2>6, <2>7, <2>8 DEF Step
<1>2. ASSUME NEW t \in Turns, NEW input \in Inputs, NEW result \in 0..MaxCalls,
             NEW available \in BOOLEAN, Begin(t, input, result, available)
      PROVE  StatusInv'
  BY <1>2, BeginAlone, BeginStatus, RestStatus
<1>3. CASE Crash
  BY <1>3, CrashStep, RestStatus
<1>4. CASE (\E s \in Skills : SwitchSkill(s)) \/ UNCHANGED vars
  BY <1>4, SwitchStep, StutterStep, RestStatus
<1> QED BY <1>1, <1>2, <1>3, <1>4 DEF Next

LEMMA InitStatus ==
    ASSUME Init
    PROVE  StatusInv
<1>1. \A t \in Turns : turn[t].at = "none" /\ ~HasCalls(turn[t])
  BY IdleType DEF Init, HasCalls
<1>2. TodoUnanswered /\ OutcomeDue
  BY <1>1 DEF TodoUnanswered, OutcomeDue, Handling, Resuming
<1>3. StatusMatchesLog
  BY DEF Init, StatusMatchesLog
<1> QED BY <1>2, <1>3 DEF StatusInv

LEMMA AlwaysDue == Spec /\ []OneAtATime => []StatusInv
<1>1. Init => StatusInv
  BY InitStatus
<1>2. OneAtATime /\ OneAtATime' /\ TypeInv /\ ResumesLogged /\ PlaceInv /\ StatusInv /\ [Next]_vars => StatusInv'
  BY StepStatus
<1> QED BY <1>1, <1>2, AlwaysTyped, AlwaysPlaced, PTL DEF Spec

\* StatusMatchesLog: when turns follow each other, a conversation that waits for
\* an answer, an authorization or a page has what its next turn resumes from.
THEOREM StatusKeepsItsPromise == Spec /\ []OneAtATime => []StatusMatchesLog
<1>1. StatusInv => StatusMatchesLog
  BY DEF StatusInv
<1> QED BY <1>1, AlwaysDue, PTL

-----------------------------------------------------------------------------
(* Turns that follow each other: a call is executed once                   *)

\* The parts of the invariant that are about the turn in flight.
TodoUnsent(r, calls) ==
    HasCalls(r) =>
        /\ \A k \in 2..Len(r.todo) : r.todo[k] \notin calls
        /\ (r.at = "executing" => ~r.reached) => r.todo[1] \notin calls

\* Its denial is to be resumed, or is being resumed and nothing was sent so far.
DenialCounts(r) ==
    \/ r.at = "resuming"
    \/ r.at = "executing" /\ r.resumes # 0 /\ ~r.reached
    \/ r.at = "closing" /\ r.outcome = "authorization_required"

LEMMA TurnUnsent ==
    ASSUME SentInv, NEW t \in Turns
    PROVE  /\ TodoUnsent(turn[t], SentCalls)
           /\ status = "authorization_required" \/ DenialCounts(turn[t]) => DenialUnsent
           /\ SentOnce
BY DEF SentInv, TodoUnsent, DenialCounts, Handling, Resuming

LEMMA SentParts ==
    ASSUME NEW t \in Turns, OthersIdle(t), SentOnce',
           status' = "authorization_required" \/ DenialCounts(turn'[t]) => DenialUnsent',
           TodoUnsent(turn'[t], SentCalls')
    PROVE  SentInv'
<1>1. \A u \in Turns : u = t \/ (turn'[u].at = "none" /\ ~HasCalls(turn'[u]))
  BY DEF OthersIdle, HasCalls
<1>2. ASSUME NEW u \in Turns
      PROVE  /\ turn'[u].at = "resuming" \/ (Resuming(u)' /\ ~turn'[u].reached) => DenialUnsent'
             /\ turn'[u].at = "closing" /\ turn'[u].outcome = "authorization_required"
                   => DenialUnsent'
             /\ Handling(u)' => \A k \in 2..Len(turn'[u].todo) : turn'[u].todo[k] \notin SentCalls'
             /\ Handling(u)' /\ (turn'[u].at = "executing" => ~turn'[u].reached)
                   => turn'[u].todo[1] \notin SentCalls'
  BY <1>1 DEF TodoUnsent, DenialCounts, Handling, Resuming
<1> QED BY <1>2 DEF SentInv

LEMMA SentSame ==
    ASSUME sent' = sent
    PROVE  SentCalls' = SentCalls /\ (SentOnce => SentOnce')
BY DEF SentCalls, SentOnce

LEMMA DenialSame ==
    ASSUME sent' = sent, log' = log, DenialUnsent
    PROVE  DenialUnsent'
BY SentSame, PendingSame DEF DenialUnsent

\* A step that neither writes nor executes.
LEMMA SentQuiet ==
    ASSUME SentInv, NEW t \in Turns, OthersIdle(t), log' = log, sent' = sent,
           status' = "authorization_required" \/ DenialCounts(turn'[t])
              => status = "authorization_required" \/ DenialCounts(turn[t]),
           HasCalls(turn'[t]) =>
              /\ Handling(t) /\ turn'[t].todo = turn[t].todo
              /\ (turn'[t].at = "executing" => ~turn'[t].reached)
                    => (turn[t].at = "executing" => ~turn[t].reached)
    PROVE  SentInv'
<1>1. SentOnce' /\ SentCalls' = SentCalls
  BY TurnUnsent, SentSame
<1>2. status' = "authorization_required" \/ DenialCounts(turn'[t]) => DenialUnsent'
  BY TurnUnsent, DenialSame
<1>3. TodoUnsent(turn'[t], SentCalls')
  BY <1>1, TurnUnsent DEF TodoUnsent, Handling
<1> QED BY <1>1, <1>2, <1>3, SentParts

\* A step that executes nothing and leaves no call to handle, nor a denial.
LEMMA SentWrite ==
    ASSUME TypeInv, PlaceInv, SentInv, NEW t \in Turns, OthersIdle(t), InFlight(t), sent' = sent,
           status' = status, ~HasCalls(turn'[t]), ~DenialCounts(turn'[t])
    PROVE  SentInv'
<1>1. SentOnce' /\ SentCalls' = SentCalls
  BY TurnUnsent, SentSame
<1>2. status' # "authorization_required"
  BY InFlightBusy
<1>3. TodoUnsent(turn'[t], SentCalls')
  BY DEF TodoUnsent
<1> QED BY <1>1, <1>2, <1>3, SentParts

\* A call that was never executed is.
LEMMA SentNew ==
    ASSUME TypeInv, SentInv, NEW call \in Calls, SentAs(call), call \notin SentCalls
    PROVE  SentOnce' /\ SentCalls' = SentCalls \cup {call}
<1>1. /\ Len(sent') = Len(sent) + 1 /\ Len(sent) \in Nat
      /\ sent'[Len(sent) + 1] = call
      /\ \A i \in 1..Len(sent) : sent'[i] = sent[i]
      /\ SentCalls' = SentCalls \cup {call}
  BY SentAppend
<1>2. \A i \in 1..Len(sent) : sent[i] # call
  BY DEF SentCalls
<1>3. \A i, j \in 1..Len(sent) : sent[i] = sent[j] => i = j
  BY DEF SentInv, SentOnce
<1>4. \A i \in 1..Len(sent') : i \in 1..Len(sent) \/ i = Len(sent) + 1
  BY <1>1
<1>5. SentOnce'
  BY <1>1, <1>2, <1>3, <1>4 DEF SentOnce
<1> QED BY <1>1, <1>5

LEMMA StopSent ==
    ASSUME TypeInv, PlaceInv, SentInv, NEW t \in Turns, OthersIdle(t), Stopped(t)
    PROVE  SentInv'
<1>1. /\ turn'[t] = Idle /\ log' = log /\ sent' = sent /\ status' \in {status, "failed"}
  BY DEF Stopped
<1> QED BY <1>1, IdleType, SentQuiet DEF HasCalls, DenialCounts

LEMMA ResumeSent ==
    ASSUME TypeInv, PlaceInv, SentInv, NEW t \in Turns, OthersIdle(t), Resume(t)
    PROVE  SentInv'
<1>1. CASE Stopped(t)
  BY <1>1, StopSent
<1>2. CASE /\ Within(t) /\ turn[t].at = "resuming" /\ log' = log /\ sent' = sent
           /\ turn'[t] = [turn[t] EXCEPT !.at = "opening"]
  <2>1. turn'[t].at = "opening"
    BY <1>2, TurnFields DEF TurnType
  <2> QED BY <1>2, <2>1, SentWrite DEF HasCalls, DenialCounts, InFlight, Within
<1>3. CASE /\ Within(t) /\ turn[t].at = "resuming" /\ PendingAuthorization # 0
           /\ log' = log /\ sent' = sent
           /\ turn'[t] = [turn[t] EXCEPT !.at = "executing", !.resumes = PendingAuthorization,
                                         !.reached = FALSE]
  <2>1. turn'[t].at = "executing" /\ turn'[t].resumes = PendingAuthorization
    BY <1>3, TurnFields DEF TurnType
  <2>2. ~HasCalls(turn'[t]) /\ DenialCounts(turn[t])
    BY <1>3, <2>1 DEF HasCalls, DenialCounts
  <2> QED BY <1>3, <2>2, SentQuiet
<1> QED BY <1>1, <1>2, <1>3, ResumeStep

LEMMA CallToolSent ==
    ASSUME TypeInv, PlaceInv, SentInv, NEW t \in Turns, OthersIdle(t), CallTool(t)
    PROVE  SentInv'
<1>1. /\ Within(t) /\ turn[t].at = "handling" /\ log' = log /\ sent' = sent
      /\ turn'[t] = [turn[t] EXCEPT !.at = "executing", !.resumes = 0, !.reached = FALSE]
  BY CallToolStep
<1>2. turn'[t].at = "executing" /\ turn'[t].resumes = 0 /\ turn'[t].todo = turn[t].todo
  BY <1>1, TurnFields DEF TurnType
<1>3. Handling(t) /\ ~DenialCounts(turn'[t])
  BY <1>1, <1>2 DEF Handling, HasCalls, DenialCounts
<1>4. status' # "authorization_required"
  BY <1>1, InFlightBusy DEF InFlight, Within
<1> QED BY <1>1, <1>2, <1>3, <1>4, SentQuiet

\* The API accepts a call that it has not accepted before: a resumed one is that
\* of a denial, another one is the first of those to handle.
LEMMA SendSent ==
    ASSUME TypeInv, ResumesLogged, PlaceInv, StatusInv, SentInv, NEW t \in Turns, OthersIdle(t),
           Send(t)
    PROVE  SentInv'
<1> DEFINE call == CurrentCall(t)
<1>1. /\ Within(t) /\ turn[t].at = "executing" /\ ~turn[t].reached /\ log' = log
      /\ turn'[t] = [turn[t] EXCEPT !.reached = TRUE]
      /\ call \in Calls /\ SentAs(call)
  BY SendStep DEF SentAs
<1>2. /\ turn'[t].at = "executing" /\ turn'[t].resumes = turn[t].resumes
      /\ turn'[t].todo = turn[t].todo /\ turn'[t].reached = TRUE
  BY <1>1, TurnFields DEF TurnType
<1>3. status' # "authorization_required" /\ ~DenialCounts(turn'[t])
  BY <1>1, <1>2, InFlightBusy DEF InFlight, Within, DenialCounts
<1>4. CASE turn[t].resumes # 0
  <2>1. DenialCounts(turn[t]) /\ turn[t].resumes = PendingAuthorization
    BY <1>1, <1>4, TurnIsDue DEF DenialCounts, Resuming
  <2>2. call \notin SentCalls
    BY <1>4, <2>1, TurnUnsent DEF DenialUnsent, CurrentCall
  <2>3. ~HasCalls(turn'[t])
    BY <1>2, <1>4 DEF HasCalls
  <2> HIDE DEF call
  <2>4. SentOnce'
    BY <1>1, <2>2, SentNew
  <2> QED BY <1>3, <2>3, <2>4, SentParts DEF TodoUnsent
<1>5. CASE turn[t].resumes = 0
  <2>1. Handling(t)
    BY <1>1, <1>5 DEF Handling, HasCalls
  <2>2. call = turn[t].todo[1] /\ Len(turn[t].todo) \in Nat
    BY <1>5, <2>1, TurnFields DEF CurrentCall
  <2>3. call \notin SentCalls /\ \A k \in 2..Len(turn[t].todo) : turn[t].todo[k] \notin SentCalls
    BY <1>1, <2>1, <2>2, TurnUnsent DEF TodoUnsent, Handling
  <2>4. \A k \in 2..Len(turn[t].todo) : turn[t].todo[k] # call
    <3>1. call \in Nat
      BY <1>1 DEF Calls
    <3>2. \A k \in 2..Len(turn[t].todo) : turn[t].todo[k] = call + k - 1
      BY <2>1, <2>2, TurnIsDue DEF TodoFresh, Handling
    <3> QED BY <2>2, <3>1, <3>2
  <2> HIDE DEF call
  <2>5. SentOnce' /\ SentCalls' = SentCalls \cup {call}
    BY <1>1, <2>3, SentNew
  <2>6. TodoUnsent(turn'[t], SentCalls')
    BY <1>2, <2>3, <2>4, <2>5 DEF TodoUnsent
  <2> QED BY <1>3, <2>5, <2>6, SentParts
<1> QED BY <1>4, <1>5

LEMMA ObserveSent ==
    ASSUME TypeInv, PlaceInv, StatusInv, SentInv, NEW t \in Turns, OthersIdle(t),
           NEW denied \in BOOLEAN, Handling(t), Within(t), ObservedAs(t, denied), sent' = sent,
           denied => turn[t].at = "executing" /\ ~turn[t].reached
    PROVE  SentInv'
<1> DEFINE m == ToolMessage(NextCall(t), denied)
           todo == turn[t].todo
<1>1. /\ log' = Append(log, m) /\ m \in Messages /\ turn'[t].todo = Tail(todo)
      /\ denied => turn'[t].at = "closing" /\ turn'[t].outcome = "authorization_required"
      /\ ~denied => turn'[t].at \in {"asking", "handling"}
  BY DEF ObservedAs
<1>2. NextCall(t) \in Calls /\ NextCall(t) \in 0..MaxCalls
  BY TurnFields, Bounds DEF Calls
<1>3. m.role = "tool" /\ m.call = NextCall(t)
  BY <1>2, MessageTypes
<1>4. /\ Len(todo) \in Nat /\ Len(Tail(todo)) = Len(todo) - 1 /\ NextCall(t) = todo[1]
      /\ \A k \in 1..(Len(todo) - 1) : Tail(todo)[k] = todo[k + 1]
  BY TurnFields
<1>5. /\ \A k \in 2..Len(todo) : todo[k] \notin SentCalls
      /\ denied => todo[1] \notin SentCalls
  BY TurnUnsent DEF TodoUnsent, Handling
<1>6. Tail(todo) # <<>> => 1 \in 1..Len(Tail(todo))
  BY <1>4, TurnFields, EmptySeq
<1>7. turn'[t].at = "handling" => turn'[t].todo # <<>>
  BY DEF ObservedAs
<1>8. SentOnce' /\ SentCalls' = SentCalls
  BY TurnUnsent, SentSame
<1>9. status' # "authorization_required"
  <2>1. InFlight(t)
    BY DEF Handling, HasCalls, InFlight
  <2> QED BY <2>1, InFlightBusy DEF Within
<1> HIDE DEF m, todo
<1>10. \A k \in 1..Len(Tail(todo)) : Tail(todo)[k] \notin SentCalls
  <2>1. ASSUME NEW k \in 1..Len(Tail(todo)) PROVE Tail(todo)[k] \notin SentCalls
    <3>1. Tail(todo)[k] = todo[k + 1] /\ k + 1 \in 2..Len(todo)
      BY <1>4
    <3> QED BY <1>5, <3>1
  <2> QED BY <2>1
<1>11. TodoUnsent(turn'[t], SentCalls')
  <2> SUFFICES ASSUME HasCalls(turn'[t])
               PROVE  TodoUnsent(turn'[t], SentCalls')
    BY DEF TodoUnsent
  <2>1. turn'[t].at = "handling"
    BY <1>1 DEF HasCalls
  <2>2. 1 \in 1..Len(Tail(todo)) /\ Len(Tail(todo)) \in Nat
    BY <1>1, <1>4, <1>6, <1>7, <2>1
  <2>3. 2..Len(Tail(todo)) \subseteq 1..Len(Tail(todo))
    BY <2>2
  <2> QED BY <1>1, <1>8, <1>10, <2>2, <2>3 DEF TodoUnsent
<1>12. DenialCounts(turn'[t]) => DenialUnsent'
  <2> HAVE DenialCounts(turn'[t])
  <2>1. denied
    BY <1>1 DEF DenialCounts
  <2>2. /\ PendingAuthorization' \in {0, Len(log) + 1} /\ log'[Len(log) + 1] = m
    BY <1>1, <1>3, NewDenial
  <2>3. m.call \notin SentCalls'
    BY <1>3, <1>4, <1>5, <1>8, <2>1
  <2> QED BY <2>2, <2>3 DEF DenialUnsent
<1> QED BY <1>8, <1>9, <1>11, <1>12, SentParts

LEMMA CallSent ==
    ASSUME TypeInv, PlaceInv, SentInv, NEW t \in Turns, OthersIdle(t), NEW calls \in Batches,
           Call(t, calls)
    PROVE  SentInv'
<1>1. /\ turn[t].at = "waiting" /\ status' = status /\ sent' = sent /\ \E ids : CallsMade(t, ids)
  BY CallStep
<1>2. PICK ids : CallsMade(t, ids)
  BY <1>1
<1>3. /\ Len(ids) \in Nat \ {0} /\ \A k \in 1..Len(ids) : ids[k] = Len(issued) + k
      /\ \/ turn'[t].at = "handling" /\ turn'[t].todo = ids
         \/ turn'[t].at = "closing" /\ turn'[t].outcome = "needs_input"
  BY <1>2 DEF CallsMade
<1>4. SentCalls \subseteq IssuedCalls
  BY TurnIsPlaced DEF NamesIssued, SentCalls
<1>5. \A k \in 1..Len(ids) : ids[k] \notin SentCalls
  BY <1>3, <1>4, ConversationType DEF IssuedCalls
<1>6. SentOnce' /\ SentCalls' = SentCalls /\ ~DenialCounts(turn'[t])
  BY <1>1, <1>3, TurnUnsent, SentSame DEF DenialCounts
<1>7. 1 \in 1..Len(ids) /\ 2..Len(ids) \subseteq 1..Len(ids)
  BY <1>3
<1>8. TodoUnsent(turn'[t], SentCalls')
  BY <1>3, <1>5, <1>6, <1>7 DEF TodoUnsent, HasCalls
<1>9. status' # "authorization_required"
  BY <1>1, InFlightBusy DEF InFlight
<1> QED BY <1>6, <1>8, <1>9, SentParts

LEMMA LoadSent ==
    ASSUME TypeInv, PlaceInv, SentInv, NEW t \in Turns, OthersIdle(t), Load(t)
    PROVE  SentInv'
<1>1. /\ Within(t) /\ turn[t].at = "handling" /\ turn'[t].at = "observing"
      /\ turn'[t].todo = turn[t].todo /\ log' = log /\ sent' = sent
  BY LoadStep
<1>2. Handling(t) /\ ~DenialCounts(turn'[t]) /\ status' = status
  BY <1>1 DEF Handling, HasCalls, DenialCounts, Within
<1> QED BY <1>1, <1>2, SentQuiet

LEMMA ResumedSent ==
    ASSUME TypeInv, PlaceInv, SentInv, NEW t \in Turns, OthersIdle(t), NEW denied \in BOOLEAN,
           NEW expired \in BOOLEAN, Resumed(t, denied, expired)
    PROVE  SentInv'
<1>1. CASE denied
  <2>1. turn'[t] = Idle /\ Resuming(t) /\ ~turn[t].reached /\ log' = log /\ sent' = sent
    BY <1>1, DeniedAgainStep
  <2>2. DenialCounts(turn[t])
    BY <1>1, <2>1 DEF Resuming, DenialCounts
  <2> QED BY <2>1, <2>2, IdleType, SentQuiet DEF HasCalls
<1>2. CASE ~denied
  <2>1. Within(t) /\ Resuming(t) /\ turn'[t].at = "opening" /\ sent' = sent
    BY <1>2, RejoinStep
  <2> QED BY <2>1, SentWrite DEF HasCalls, DenialCounts, Resuming, InFlight, Within
<1> QED BY <1>1, <1>2

LEMMA WriteSent ==
    ASSUME TypeInv, PlaceInv, SentInv, NEW t \in Turns, OthersIdle(t),
           Open(t) \/ Clear(t) \/ Reply(t)
    PROVE  SentInv'
<1>1. CASE Open(t)
  <2>1. /\ Within(t) /\ turn[t].at = "opening" /\ sent' = sent
        /\ \/ turn'[t] = [turn[t] EXCEPT !.at = "clearing"]
           \/ turn'[t] = [turn[t] EXCEPT !.at = "asking"]
    BY <1>1, AnswerQuestionStep, OpenStep
  <2>2. turn'[t].at \in {"clearing", "asking"}
    BY <2>1, TurnFields DEF TurnType
  <2> QED BY <2>1, <2>2, SentWrite DEF HasCalls, DenialCounts, InFlight, Within
<1>2. CASE Clear(t)
  <2>1. /\ Within(t) /\ turn[t].at = "clearing" /\ sent' = sent
        /\ turn'[t] = [turn[t] EXCEPT !.at = "asking", !.asked = 0]
    BY <1>2, ClearStep
  <2>2. turn'[t].at = "asking"
    BY <2>1, TurnFields DEF TurnType
  <2> QED BY <2>1, <2>2, SentWrite DEF HasCalls, DenialCounts, InFlight, Within
<1>3. CASE Reply(t)
  <2>1. /\ Within(t) /\ turn[t].at = "waiting" /\ sent' = sent
        /\ turn'[t] = [turn[t] EXCEPT !.at = "closing", !.outcome = "completed"]
    BY <1>3, ReplyStep
  <2>2. turn'[t].at = "closing" /\ turn'[t].outcome = "completed"
    BY <2>1, TurnFields DEF TurnType
  <2> QED BY <2>1, <2>2, SentWrite DEF HasCalls, DenialCounts, InFlight, Within
<1> QED BY <1>1, <1>2, <1>3

LEMMA AskSent ==
    ASSUME TypeInv, PlaceInv, SentInv, NEW t \in Turns, OthersIdle(t), Ask(t)
    PROVE  SentInv'
<1>1. CASE Exhausted(t) \/ Conflict(turn[t].known)
  BY <1>1, AskStops, StopSent
<1>2. CASE ~(Exhausted(t) \/ Conflict(turn[t].known))
  <2>1. Within(t) /\ turn[t].at = "asking" /\ turn'[t].at = "waiting" /\ sent' = sent
    BY <1>2, AskStep
  <2> QED BY <2>1, SentWrite DEF HasCalls, DenialCounts, InFlight, Within
<1> QED BY <1>1, <1>2

LEMMA EndSent ==
    ASSUME TypeInv, PlaceInv, SentInv, NEW t \in Turns, OthersIdle(t), HandOver(t) \/ Close(t)
    PROVE  SentInv'
<1>1. CASE HandOver(t)
  <2>1. turn'[t] = Idle /\ status' = "waiting_client_tool" /\ log' = log /\ sent' = sent
    BY <1>1, HandOverStep
  <2> QED BY <2>1, IdleType, SentQuiet DEF HasCalls, DenialCounts
<1>2. CASE Close(t)
  <2>1. /\ turn'[t] = Idle /\ turn[t].at = "closing" /\ status' = turn[t].outcome
        /\ log' = log /\ sent' = sent
    BY <1>2, CloseStep
  <2> QED BY <2>1, IdleType, SentQuiet DEF HasCalls, DenialCounts
<1> QED BY <1>1, <1>2

LEMMA BeginSent ==
    ASSUME TypeInv, PlaceInv, SentInv, NEW t \in Turns, OthersIdle(t), NEW input \in Inputs,
           NEW result \in 0..MaxCalls, NEW available \in BOOLEAN,
           Begin(t, input, result, available), status' # "failed"
    PROVE  SentInv'
<1>1. Begun(t, input, result) /\ log' = log /\ sent' = sent
  BY BeginStep
<1>2. ~HasCalls(turn'[t]) /\ status' = "running"
  BY <1>1 DEF Begun, HasCalls
<1>3. DenialCounts(turn'[t]) => status = "authorization_required"
  BY <1>1 DEF Begun, DenialCounts
<1> QED BY <1>1, <1>2, <1>3, SentQuiet

\* No turn takes a step, or none is left; a request may have been refused.
LEMMA RestSent ==
    ASSUME SentInv, UNCHANGED <<log, sent>>, turn' = turn \/ turn' = [u \in Turns |-> Idle],
           status' \in {status, "failed"}
    PROVE  SentInv'
<1>1. SentOnce' /\ SentCalls' = SentCalls /\ (DenialUnsent => DenialUnsent')
  BY SentSame, DenialSame DEF SentInv
<1>2. status' = "authorization_required" => DenialUnsent'
  BY <1>1 DEF SentInv
<1>3. CASE turn' = turn
  BY <1>1, <1>2, <1>3 DEF SentInv, Handling, Resuming
<1>4. CASE turn' = [u \in Turns |-> Idle]
  <2>1. \A u \in Turns : turn'[u].at = "none" /\ ~HasCalls(turn'[u])
    BY <1>4, IdleType DEF HasCalls
  <2> QED BY <1>1, <1>2, <2>1 DEF SentInv, Handling, Resuming
<1> QED BY <1>3, <1>4

LEMMA StepOnce ==
    ASSUME OneAtATime, OneAtATime', TypeInv, ResumesLogged, PlaceInv, StatusInv, SentInv, [Next]_vars
    PROVE  SentInv'
<1>1. ASSUME NEW t \in Turns, Step(t) \/ Abort(t)
      PROVE  SentInv'
  <2>1. OthersIdle(t)
    BY <1>1, FlightAlone
  <2>2. CASE HandOver(t) \/ Load(t) \/ Close(t) \/ Open(t) \/ Clear(t) \/ Reply(t) \/ Ask(t)
    BY <2>1, <2>2, EndSent, LoadSent, WriteSent, AskSent
  <2>3. CASE Break(t) \/ Abort(t)
    BY <2>1, <2>3, BreakStops, AbortStops, StopSent
  <2>4. CASE AnswerCall(t)
    BY <2>1, <2>4, AnswerCallStep, ObserveSent DEF Handling, HasCalls
  <2>5. CASE \E denied, expired \in BOOLEAN : Observed(t, denied, expired)
    BY <2>1, <2>5, ObservedStep, ObserveSent DEF Handling, HasCalls
  <2>6. CASE \E denied, expired \in BOOLEAN : Resumed(t, denied, expired)
    BY <2>1, <2>6, ResumedSent
  <2>7. CASE Resume(t) \/ CallTool(t) \/ Send(t)
    BY <2>1, <2>7, ResumeSent, CallToolSent, SendSent
  <2>8. CASE \E calls \in Batches : Call(t, calls)
    BY <2>1, <2>8, CallSent
  <2> QED BY <1>1, <2>2, <2>3, <2>4, <2>5, <2>6, <2>7, <2>8 DEF Step
<1>2. ASSUME NEW t \in Turns, NEW input \in Inputs, NEW result \in 0..MaxCalls,
             NEW available \in BOOLEAN, Begin(t, input, result, available)
      PROVE  SentInv'
  BY <1>2, BeginAlone, BeginSent, RestSent
<1>3. CASE Crash
  BY <1>3, CrashStep, RestSent
<1>4. CASE (\E s \in Skills : SwitchSkill(s)) \/ UNCHANGED vars
  BY <1>4, SwitchStep, StutterStep, RestSent
<1> QED BY <1>1, <1>2, <1>3, <1>4 DEF Next

LEMMA InitSent ==
    ASSUME Init
    PROVE  SentInv
<1>1. \A t \in Turns : turn[t].at = "none" /\ ~HasCalls(turn[t])
  BY IdleType DEF Init, HasCalls
<1>2. Len(sent) = 0 /\ status = "completed"
  BY EmptySeq DEF Init
<1>3. SentOnce
  BY <1>2 DEF SentOnce
<1> QED BY <1>1, <1>2, <1>3 DEF SentInv, Handling, Resuming

LEMMA AlwaysUnsent == Spec /\ []OneAtATime => []SentInv
<1>1. Init => SentInv
  BY InitSent
<1>2. OneAtATime /\ OneAtATime' /\ TypeInv /\ ResumesLogged /\ PlaceInv /\ StatusInv /\ SentInv /\ [Next]_vars
         => SentInv'
  BY StepOnce
<1> QED BY <1>1, <1>2, AlwaysTyped, AlwaysPlaced, AlwaysDue, PTL DEF Spec

\* SentOnce: when turns follow each other, no call is executed twice: a denial
\* is resumed only while its call was never executed, and no later turn, after
\* a failure, a broken stream or a crash, comes back to a call.
THEOREM CallsSentOnce == Spec /\ []OneAtATime => []SentOnce
<1>1. SentInv => SentOnce
  BY DEF SentInv
<1> QED BY <1>1, AlwaysUnsent, PTL

-----------------------------------------------------------------------------
(* Turns that overlap: no more executions than calls                       *)

\* What a turn may still have executed: the calls it has to handle, but for one
\* that has reached the API; or the call of a denial that is to be resumed.
Weight(r) ==
    IF HasCalls(r) THEN Len(r.todo) - (IF r.at = "executing" /\ r.reached THEN 1 ELSE 0)
    ELSE IF DenialCounts(r) THEN 1 ELSE 0

\* One claim for each of them, and one for the status that asks for it.
Claims == {p \in Turns \X Nat : p[2] \in 1..Weight(turn[p[1]])}
StatusClaim == IF status = "authorization_required" THEN 1 ELSE 0

\* Every execution, and every claim to one, has a call of the model of its own.
CountInv ==
    /\ IsFiniteSet(Claims)
    /\ Cardinality(Claims) + StatusClaim + Len(sent) <= Len(issued)

LEMMA WeightType ==
    ASSUME NEW r \in TurnType, HasCalls(r) => r.todo # <<>>
    PROVE  Weight(r) \in Nat
<1>1. Len(r.todo) \in Nat /\ (HasCalls(r) => Len(r.todo) # 0)
  <2>1. r.todo \in Seq(Calls)
    BY DEF TurnType
  <2> QED BY <2>1, EmptySeq, LenProperties
<1> QED BY <1>1 DEF Weight

LEMMA WeightsType ==
    ASSUME TypeInv, TypeInv', NEW t \in Turns
    PROVE  Weight(turn[t]) \in Nat /\ Weight(turn'[t]) \in Nat
<1>1. turn[t] \in TurnType /\ (HasCalls(turn[t]) => turn[t].todo # <<>>)
  BY DEF TypeInv, TypeOK, TodoIssued, Handling
<1>2. turn'[t] \in TurnType /\ (HasCalls(turn'[t]) => turn'[t].todo # <<>>)
  BY DEF TypeInv, TypeOK, TodoIssued, Handling
<1> QED BY <1>1, <1>2, WeightType

\* The claims of a turn are as many as it weighs.
LEMMA OwnClaims ==
    ASSUME NEW t, NEW n \in Nat
    PROVE  IsFiniteSet({t} \X (1..n)) /\ Cardinality({t} \X (1..n)) = n
<1>1. IsFiniteSet({t}) /\ Cardinality({t}) = 1
  BY FS_Singleton
<1>2. IsFiniteSet(1..n) /\ Cardinality(1..n) = n
  BY FS_Interval
<1>3. /\ IsFiniteSet({t} \X (1..n))
      /\ Cardinality({t} \X (1..n)) = Cardinality({t}) * Cardinality(1..n)
  BY <1>1, <1>2, FS_Product
<1> QED BY <1>1, <1>2, <1>3

\* What a turn claims more is paid for by the status, or by a new call.
LEMMA ClaimsStep ==
    ASSUME TypeInv, TypeInv', CountInv, NEW t \in Turns,
           \A u \in Turns : u # t => turn'[u] = turn[u],
           Weight(turn'[t]) + StatusClaim' + Len(sent') + Len(issued)
              <= Weight(turn[t]) + StatusClaim + Len(sent) + Len(issued')
    PROVE  CountInv'
<1> DEFINE Rest == {p \in Claims : p[1] # t}
           Own == {t} \X (1..Weight(turn[t]))
           Then == {t} \X (1..Weight(turn'[t]))
<1>1. Weight(turn[t]) \in Nat /\ Weight(turn'[t]) \in Nat
  BY WeightsType
<1>2. /\ IsFiniteSet(Own) /\ Cardinality(Own) = Weight(turn[t])
      /\ IsFiniteSet(Then) /\ Cardinality(Then) = Weight(turn'[t])
  BY <1>1, OwnClaims
<1>3. IsFiniteSet(Rest)
  BY FS_Subset DEF CountInv
<1>4. Claims = Rest \cup Own /\ Rest \cap Own = {}
  BY <1>1 DEF Claims
<1>5. Claims' = Rest \cup Then /\ Rest \cap Then = {}
  BY <1>1 DEF Claims
<1> HIDE DEF Rest, Own, Then
<1>6. Cardinality(Rest) \in Nat /\ Cardinality({}) = 0
  BY <1>3, FS_CardinalityType, FS_EmptySet
<1>7. Cardinality(Claims) = Cardinality(Rest) + Weight(turn[t])
  <2>1. Cardinality(Rest \cup Own) = Cardinality(Rest) + Cardinality(Own) - Cardinality(Rest \cap Own)
    BY <1>2, <1>3, FS_Union
  <2>2. Cardinality(Rest \cap Own) = 0
    BY <1>4, <1>6
  <2>3. Cardinality(Rest \cup Own) = Cardinality(Rest) + Weight(turn[t])
    BY <1>1, <1>2, <1>6, <2>1, <2>2
  <2> QED BY <1>4, <2>1, <2>3
<1>8. IsFiniteSet(Claims') /\ Cardinality(Claims') = Cardinality(Rest) + Weight(turn'[t])
  <2>1. /\ IsFiniteSet(Rest \cup Then)
        /\ Cardinality(Rest \cup Then) = Cardinality(Rest) + Cardinality(Then) - Cardinality(Rest \cap Then)
    BY <1>2, <1>3, FS_Union
  <2>2. Cardinality(Rest \cap Then) = 0
    BY <1>5, <1>6
  <2>3. Cardinality(Rest \cup Then) = Cardinality(Rest) + Weight(turn'[t])
    BY <1>1, <1>2, <1>6, <2>1, <2>2
  <2> QED BY <1>5, <2>1, <2>3
<1>9. /\ Len(sent) \in Nat /\ Len(sent') \in Nat /\ Len(issued) \in Nat /\ Len(issued') \in Nat
      /\ StatusClaim \in Nat /\ StatusClaim' \in Nat
  <2>1. Len(sent) \in Nat /\ Len(issued) \in Nat
    BY ConversationType, LenProperties
  <2>2. Len(sent') \in Nat /\ Len(issued') \in Nat
    BY LenProperties DEF TypeInv, TypeOK
  <2> QED BY <2>1, <2>2 DEF StatusClaim
<1>10. Cardinality(Claims) + StatusClaim + Len(sent) <= Len(issued)
  BY DEF CountInv
<1>11. Cardinality(Claims') + StatusClaim' + Len(sent') <= Len(issued')
  <2> DEFINE w == Weight(turn[t])
             w1 == Weight(turn'[t])
             rest == Cardinality(Rest)
             c == StatusClaim
             c1 == StatusClaim'
             n == Len(sent)
             n1 == Len(sent')
             k == Len(issued)
             k1 == Len(issued')
  <2>1. /\ w \in Nat /\ w1 \in Nat /\ rest \in Nat /\ c \in Nat /\ c1 \in Nat
        /\ n \in Nat /\ n1 \in Nat /\ k \in Nat /\ k1 \in Nat
    BY <1>1, <1>6, <1>9
  <2>2. w1 + c1 + n1 + k <= w + c + n + k1
    OBVIOUS
  <2>3. (rest + w) + c + n <= k
    BY <1>7, <1>10
  <2> SUFFICES (rest + w1) + c1 + n1 <= k1
    BY <1>8
  <2> HIDE DEF w, w1, rest, c, c1, n, n1, k, k1
  <2> QED BY <2>1, <2>2, <2>3
<1> QED BY <1>8, <1>11 DEF CountInv

\* The same, when nothing is sent, and no call of the model comes.
LEMMA ClaimsQuiet ==
    ASSUME TypeInv, TypeInv', CountInv, NEW t \in Turns,
           \A u \in Turns : u # t => turn'[u] = turn[u],
           issued' = issued, sent' = sent,
           Weight(turn'[t]) + StatusClaim' <= Weight(turn[t]) + StatusClaim
    PROVE  CountInv'
<1>1. Weight(turn[t]) \in Nat /\ Weight(turn'[t]) \in Nat
  BY WeightsType
<1>2. /\ Len(sent) \in Nat /\ Len(issued) \in Nat
      /\ StatusClaim \in Nat /\ StatusClaim' \in Nat
  BY ConversationType, LenProperties DEF StatusClaim
<1>3. Weight(turn'[t]) + StatusClaim' + Len(sent') + Len(issued)
         <= Weight(turn[t]) + StatusClaim + Len(sent) + Len(issued')
  BY <1>1, <1>2
<1> QED BY <1>3, ClaimsStep

\* A turn of which nothing is left to be executed.
LEMMA NoClaim ==
    ASSUME NEW r, ~HasCalls(r), ~DenialCounts(r)
    PROVE  Weight(r) = 0
BY DEF Weight

LEMMA IdleClaim == Weight(Idle) = 0
BY IdleType, NoClaim DEF HasCalls, DenialCounts

\* A step that drops what its turn could have executed.
LEMMA ClaimsDropped ==
    ASSUME TypeInv, TypeInv', CountInv, NEW t \in Turns,
           \A u \in Turns : u # t => turn'[u] = turn[u],
           issued' = issued, sent' = sent, Weight(turn'[t]) = 0,
           status' = "authorization_required" =>
              status = "authorization_required" \/ Weight(turn[t]) >= 1
    PROVE  CountInv'
<1>1. Weight(turn[t]) \in Nat
  BY WeightsType
<1>2. Weight(turn'[t]) + StatusClaim' <= Weight(turn[t]) + StatusClaim
  BY <1>1 DEF StatusClaim
<1> QED BY <1>2, ClaimsQuiet

\* A step that keeps it.
LEMMA ClaimsKept ==
    ASSUME TypeInv, TypeInv', CountInv, NEW t \in Turns,
           \A u \in Turns : u # t => turn'[u] = turn[u],
           issued' = issued, sent' = sent, status' = status,
           Weight(turn'[t]) = Weight(turn[t])
    PROVE  CountInv'
<1>1. Weight(turn[t]) \in Nat
  BY WeightsType
<1>2. Weight(turn'[t]) + StatusClaim' <= Weight(turn[t]) + StatusClaim
  BY <1>1 DEF StatusClaim
<1> QED BY <1>2, ClaimsQuiet

LEMMA StopClaims ==
    ASSUME TypeInv, TypeInv', CountInv, NEW t \in Turns, Stopped(t)
    PROVE  CountInv'
<1>1. /\ turn' = [turn EXCEPT ![t] = Idle] /\ status' \in {status, "failed"}
      /\ issued' = issued /\ sent' = sent
  BY DEF Stopped
<1>2. turn'[t] = Idle /\ \A u \in Turns : u # t => turn'[u] = turn[u]
  BY <1>1, ConversationType
<1> QED BY <1>1, <1>2, IdleClaim, ClaimsDropped

LEMMA BeginClaims ==
    ASSUME TypeInv, TypeInv', CountInv, NEW t \in Turns, NEW input \in Inputs,
           NEW result \in 0..MaxCalls, NEW available \in BOOLEAN, Begin(t, input, result, available)
    PROVE  CountInv'
<1>1. /\ issued' = issued /\ sent' = sent /\ turn[t].at = "none"
      /\ \/ status' = "failed" /\ turn' = turn
         \/ Puts(t, turn'[t]) /\ Begun(t, input, result)
  BY BeginStep DEF InFlight
<1>2. Weight(turn[t]) = 0
  BY <1>1, NoClaim DEF HasCalls, DenialCounts
<1>3. CASE status' = "failed" /\ turn' = turn
  BY <1>1, <1>2, <1>3, ClaimsDropped
<1>4. CASE Puts(t, turn'[t]) /\ Begun(t, input, result)
  <2>1. \A u \in Turns : u # t => turn'[u] = turn[u]
    BY <1>4, ConversationType DEF Puts
  <2>2. /\ Weight(turn'[t]) = IF turn'[t].at = "resuming" THEN 1 ELSE 0
        /\ turn'[t].at = "resuming" => status = "authorization_required"
        /\ status' = "running"
    BY <1>4 DEF Begun, Weight, HasCalls, DenialCounts
  <2>3. Weight(turn'[t]) + StatusClaim' <= Weight(turn[t]) + StatusClaim
    BY <1>2, <2>2 DEF StatusClaim
  <2> QED BY <1>1, <2>1, <2>3, ClaimsQuiet
<1> QED BY <1>1, <1>3, <1>4

LEMMA ExecuteClaims ==
    ASSUME TypeInv, TypeInv', CountInv, NEW t \in Turns,
           \A u \in Turns : u # t => turn'[u] = turn[u], Resume(t) \/ CallTool(t)
    PROVE  CountInv'
<1>1. CASE CallTool(t)
  <2>1. /\ Within(t) /\ turn[t].at = "handling" /\ sent' = sent
        /\ turn'[t] = [turn[t] EXCEPT !.at = "executing", !.resumes = 0, !.reached = FALSE]
    BY <1>1, CallToolStep
  <2>2. /\ turn'[t].at = "executing" /\ turn'[t].resumes = 0 /\ turn'[t].todo = turn[t].todo
        /\ turn'[t].reached = FALSE
    BY <2>1, TurnFields DEF TurnType
  <2>3. Weight(turn'[t]) = Weight(turn[t])
    BY <2>1, <2>2 DEF Weight, HasCalls
  <2> QED BY <2>1, <2>3, ClaimsKept DEF Within
<1>2. CASE Resume(t)
  <2>1. CASE Stopped(t)
    BY <2>1, StopClaims
  <2>2. CASE /\ Within(t) /\ turn'[t] = [turn[t] EXCEPT !.at = "opening"] /\ sent' = sent
    <3>1. turn'[t].at = "opening"
      BY <2>2, TurnFields DEF TurnType
    <3>2. Weight(turn'[t]) = 0
      BY <3>1, NoClaim DEF HasCalls, DenialCounts
    <3> QED BY <2>2, <3>2, ClaimsDropped DEF Within
  <2>3. CASE /\ Within(t) /\ turn[t].at = "resuming" /\ PendingAuthorization # 0 /\ sent' = sent
             /\ turn'[t] = [turn[t] EXCEPT !.at = "executing", !.resumes = PendingAuthorization,
                                           !.reached = FALSE]
    <3>1. /\ turn'[t].at = "executing" /\ turn'[t].resumes = PendingAuthorization
          /\ turn'[t].reached = FALSE
      BY <2>3, TurnFields DEF TurnType
    <3>2. Weight(turn'[t]) = Weight(turn[t])
      BY <2>3, <3>1 DEF Weight, HasCalls, DenialCounts
    <3> QED BY <2>3, <3>2, ClaimsKept DEF Within
  <2> QED BY <1>2, <2>1, <2>2, <2>3, ResumeStep
<1> QED BY <1>1, <1>2

\* The API accepts a call: its claim is used up.
LEMMA SendClaims ==
    ASSUME TypeInv, ResumesLogged, TypeInv', CountInv, NEW t \in Turns,
           \A u \in Turns : u # t => turn'[u] = turn[u], Send(t)
    PROVE  CountInv'
<1>1. /\ Within(t) /\ turn[t].at = "executing" /\ ~turn[t].reached
      /\ turn'[t] = [turn[t] EXCEPT !.reached = TRUE]
      /\ CurrentCall(t) \in Calls /\ sent' = Append(sent, CurrentCall(t))
  BY SendStep
<1>2. /\ turn'[t].at = "executing" /\ turn'[t].resumes = turn[t].resumes
      /\ turn'[t].todo = turn[t].todo /\ turn'[t].reached = TRUE
  BY <1>1, TurnFields DEF TurnType
<1>3. Weight(turn[t]) = Weight(turn'[t]) + 1
  <2>1. Len(turn[t].todo) \in Nat
    BY TurnFields, LenProperties
  <2> QED BY <1>1, <1>2, <2>1 DEF Weight, HasCalls, DenialCounts
<1>4. /\ Len(sent') = Len(sent) + 1 /\ Len(sent) \in Nat /\ issued' = issued
      /\ Len(issued) \in Nat /\ StatusClaim' = StatusClaim /\ StatusClaim \in Nat
  BY <1>1, ConversationType, AppendProperties, LenProperties DEF Within, StatusClaim
<1>5. Weight(turn'[t]) \in Nat
  BY WeightsType
<1>6. Weight(turn'[t]) + StatusClaim' + Len(sent') + Len(issued)
         <= Weight(turn[t]) + StatusClaim + Len(sent) + Len(issued')
  BY <1>3, <1>4, <1>5
<1> QED BY <1>6, ClaimsStep

LEMMA ResumedClaims ==
    ASSUME TypeInv, TypeInv', CountInv, NEW t \in Turns,
           \A u \in Turns : u # t => turn'[u] = turn[u],
           NEW denied \in BOOLEAN, NEW expired \in BOOLEAN, Resumed(t, denied, expired)
    PROVE  CountInv'
<1>1. CASE denied
  <2>1. turn'[t] = Idle /\ Resuming(t) /\ ~turn[t].reached /\ issued' = issued /\ sent' = sent
    BY <1>1, DeniedAgainStep
  <2>2. Weight(turn[t]) >= 1
    BY <2>1 DEF Weight, HasCalls, DenialCounts, Resuming
  <2> QED BY <2>1, <2>2, IdleClaim, ClaimsDropped
<1>2. CASE ~denied
  <2>1. Within(t) /\ turn'[t].at = "opening" /\ sent' = sent
    BY <1>2, RejoinStep
  <2>2. Weight(turn'[t]) = 0
    BY <2>1, NoClaim DEF HasCalls, DenialCounts
  <2> QED BY <2>1, <2>2, ClaimsDropped DEF Within
<1> QED BY <1>1, <1>2

\* The claim of a call that was denied becomes that of its resumption.
LEMMA ObserveClaims ==
    ASSUME TypeInv, TypeInv', CountInv, NEW t \in Turns,
           \A u \in Turns : u # t => turn'[u] = turn[u],
           NEW d \in BOOLEAN, Handling(t), Within(t), ObservedAs(t, d), sent' = sent,
           d => turn[t].at = "executing" /\ ~turn[t].reached
    PROVE  CountInv'
<1>1. /\ Len(turn[t].todo) \in Nat \ {0} /\ Len(turn'[t].todo) = Len(turn[t].todo) - 1
  <2>1. /\ Len(turn[t].todo) \in Nat /\ 1 \in 1..Len(turn[t].todo)
        /\ Len(Tail(turn[t].todo)) = Len(turn[t].todo) - 1
    BY TurnFields
  <2> QED BY <2>1 DEF ObservedAs
<1>2. /\ d => turn'[t].at = "closing" /\ turn'[t].outcome = "authorization_required"
      /\ ~d => turn'[t].at \in {"asking", "handling"}
  BY DEF ObservedAs
<1>3. Weight(turn'[t]) <= Weight(turn[t])
  <2>1. Weight(turn[t]) = Len(turn[t].todo)
           - (IF turn[t].at = "executing" /\ turn[t].reached THEN 1 ELSE 0)
    BY DEF Weight, Handling
  <2>2. CASE d
    <3>1. Weight(turn'[t]) = 1
      BY <1>2, <2>2 DEF Weight, HasCalls, DenialCounts
    <3> QED BY <1>1, <2>1, <2>2, <3>1
  <2>3. CASE ~d
    <3>1. turn'[t].at = "handling" \/ turn'[t].at = "asking"
      BY <1>2, <2>3
    <3>2. Weight(turn'[t]) = Len(turn'[t].todo) - 0 \/ Weight(turn'[t]) = 0
      BY <3>1 DEF Weight, HasCalls, DenialCounts
    <3>3. Weight(turn[t]) >= Len(turn[t].todo) - 1
      BY <1>1, <2>1
    <3> QED BY <1>1, <3>2, <3>3, WeightsType
  <2> QED BY <2>2, <2>3
<1>4. StatusClaim' = StatusClaim /\ StatusClaim \in Nat /\ issued' = issued
  BY DEF StatusClaim, Within
<1>5. Weight(turn[t]) \in Nat /\ Weight(turn'[t]) \in Nat
  BY WeightsType
<1>6. Weight(turn'[t]) + StatusClaim' <= Weight(turn[t]) + StatusClaim
  BY <1>3, <1>4, <1>5
<1> QED BY <1>4, <1>6, ClaimsQuiet

\* The calls of an answer of the model pay for their claims.
LEMMA CallClaims ==
    ASSUME TypeInv, TypeInv', CountInv, NEW t \in Turns,
           \A u \in Turns : u # t => turn'[u] = turn[u], NEW calls \in Batches, Call(t, calls)
    PROVE  CountInv'
<1>1. /\ turn[t].at = "waiting" /\ status' = status /\ sent' = sent
      /\ \E ids : CallsMade(t, ids)
  BY CallStep
<1>2. PICK ids : CallsMade(t, ids)
  BY <1>1
<1>3. /\ Len(ids) \in Nat \ {0} /\ Len(issued') = Len(issued) + Len(ids)
      /\ \/ turn'[t].at = "handling" /\ turn'[t].todo = ids
         \/ turn'[t].at = "closing" /\ turn'[t].outcome = "needs_input"
  BY <1>2 DEF CallsMade
<1>4. Weight(turn[t]) = 0
  BY <1>1, NoClaim DEF HasCalls, DenialCounts
<1>5. Weight(turn'[t]) \in {0, Len(ids)}
  BY <1>3 DEF Weight, HasCalls, DenialCounts
<1>6. /\ Len(sent) \in Nat /\ Len(issued) \in Nat
      /\ StatusClaim' = StatusClaim /\ StatusClaim \in Nat
  BY <1>1, ConversationType, LenProperties DEF StatusClaim
<1>7. Weight(turn'[t]) + StatusClaim' + Len(sent') + Len(issued)
         <= Weight(turn[t]) + StatusClaim + Len(sent) + Len(issued')
  BY <1>1, <1>3, <1>4, <1>5, <1>6
<1> QED BY <1>7, ClaimsStep

LEMMA WriteClaims ==
    ASSUME TypeInv, TypeInv', CountInv, NEW t \in Turns,
           \A u \in Turns : u # t => turn'[u] = turn[u],
           Open(t) \/ Clear(t) \/ Reply(t) \/ Ask(t) \/ HandOver(t)
    PROVE  CountInv'
<1>1. CASE Open(t)
  <2>1. /\ Within(t) /\ sent' = sent
        /\ \/ turn'[t] = [turn[t] EXCEPT !.at = "clearing"]
           \/ turn'[t] = [turn[t] EXCEPT !.at = "asking"]
    BY <1>1, AnswerQuestionStep, OpenStep
  <2>2. turn'[t].at \in {"clearing", "asking"}
    BY <2>1, TurnFields DEF TurnType
  <2>3. Weight(turn'[t]) = 0
    BY <2>2, NoClaim DEF HasCalls, DenialCounts
  <2> QED BY <2>1, <2>3, ClaimsDropped DEF Within
<1>2. CASE Clear(t)
  <2>1. /\ Within(t) /\ sent' = sent /\ turn'[t] = [turn[t] EXCEPT !.at = "asking", !.asked = 0]
    BY <1>2, ClearStep
  <2>2. turn'[t].at = "asking"
    BY <2>1, TurnFields DEF TurnType
  <2>3. Weight(turn'[t]) = 0
    BY <2>2, NoClaim DEF HasCalls, DenialCounts
  <2> QED BY <2>1, <2>3, ClaimsDropped DEF Within
<1>3. CASE Reply(t)
  <2>1. /\ Within(t) /\ sent' = sent
        /\ turn'[t] = [turn[t] EXCEPT !.at = "closing", !.outcome = "completed"]
    BY <1>3, ReplyStep
  <2>2. turn'[t].at = "closing" /\ turn'[t].outcome = "completed"
    BY <2>1, TurnFields DEF TurnType
  <2>3. Weight(turn'[t]) = 0
    BY <2>2, NoClaim DEF HasCalls, DenialCounts
  <2> QED BY <2>1, <2>3, ClaimsDropped DEF Within
<1>4. CASE Ask(t)
  <2>1. CASE Exhausted(t) \/ Conflict(turn[t].known)
    BY <1>4, <2>1, AskStops, StopClaims
  <2>2. CASE ~(Exhausted(t) \/ Conflict(turn[t].known))
    <3>1. Within(t) /\ turn'[t].at = "waiting" /\ sent' = sent
      BY <1>4, <2>2, AskStep
    <3>2. Weight(turn'[t]) = 0
      BY <3>1, NoClaim DEF HasCalls, DenialCounts
    <3> QED BY <3>1, <3>2, ClaimsDropped DEF Within
  <2> QED BY <2>1, <2>2
<1>5. CASE HandOver(t)
  <2>1. /\ turn'[t] = Idle /\ status' = "waiting_client_tool" /\ sent' = sent
        /\ issued' = issued
    BY <1>5, HandOverStep
  <2> QED BY <2>1, IdleClaim, ClaimsDropped
<1> QED BY <1>1, <1>2, <1>3, <1>4, <1>5

LEMMA CloseClaims ==
    ASSUME TypeInv, TypeInv', CountInv, NEW t \in Turns,
           \A u \in Turns : u # t => turn'[u] = turn[u], Close(t) \/ Load(t)
    PROVE  CountInv'
<1>1. CASE Close(t)
  <2>1. /\ turn'[t] = Idle /\ turn[t].at = "closing" /\ status' = turn[t].outcome
        /\ issued' = issued /\ sent' = sent
    BY <1>1, CloseStep
  <2>2. status' = "authorization_required" => Weight(turn[t]) >= 1
    BY <2>1 DEF Weight, HasCalls, DenialCounts
  <2> QED BY <2>1, <2>2, IdleClaim, ClaimsDropped
<1>2. CASE Load(t)
  <2>1. /\ Within(t) /\ turn[t].at = "handling" /\ turn'[t].at = "observing"
        /\ turn'[t].todo = turn[t].todo /\ sent' = sent
    BY <1>2, LoadStep
  <2>2. Weight(turn'[t]) = Weight(turn[t])
    BY <2>1 DEF Weight, HasCalls
  <2> QED BY <2>1, <2>2, ClaimsKept DEF Within
<1> QED BY <1>1, <1>2

LEMMA StepClaims ==
    ASSUME TypeInv, ResumesLogged, CountInv, [Next]_vars
    PROVE  CountInv'
<1>1. TypeInv'
  BY StepType
<1>2. ASSUME NEW t \in Turns, Step(t) \/ Abort(t)
      PROVE  CountInv'
  <2>1. \A u \in Turns : u # t => turn'[u] = turn[u]
    BY <1>2, OthersStay
  <2>2. CASE Resume(t) \/ CallTool(t) \/ Send(t)
    BY <1>1, <2>1, <2>2, ExecuteClaims, SendClaims
  <2>3. CASE \E denied, expired \in BOOLEAN : Resumed(t, denied, expired)
    BY <1>1, <2>1, <2>3, ResumedClaims
  <2>4. CASE \E denied, expired \in BOOLEAN : Observed(t, denied, expired)
    BY <1>1, <2>1, <2>4, ObservedStep, ObserveClaims DEF Handling, HasCalls
  <2>5. CASE AnswerCall(t)
    BY <1>1, <2>1, <2>5, AnswerCallStep, ObserveClaims DEF Handling, HasCalls
  <2>6. CASE \E calls \in Batches : Call(t, calls)
    BY <1>1, <2>1, <2>6, CallClaims
  <2>7. CASE Open(t) \/ Clear(t) \/ Reply(t) \/ Ask(t) \/ HandOver(t)
    BY <1>1, <2>1, <2>7, WriteClaims
  <2>8. CASE Close(t) \/ Load(t)
    BY <1>1, <2>1, <2>8, CloseClaims
  <2>9. CASE Break(t) \/ Abort(t)
    BY <1>1, <2>9, BreakStops, AbortStops, StopClaims
  <2> QED BY <1>2, <2>2, <2>3, <2>4, <2>5, <2>6, <2>7, <2>8, <2>9 DEF Step
<1>3. ASSUME NEW t \in Turns, NEW input \in Inputs, NEW result \in 0..MaxCalls,
             NEW available \in BOOLEAN, Begin(t, input, result, available)
      PROVE  CountInv'
  BY <1>1, <1>3, BeginClaims
<1>4. CASE Crash
  <2>1. turn' = [t \in Turns |-> Idle] /\ UNCHANGED <<status, issued, sent>>
    BY <1>4, CrashStep
  <2>2. Claims' = {}
    BY <2>1, IdleClaim DEF Claims
  <2>3. Cardinality(Claims) \in Nat /\ IsFiniteSet({}) /\ Cardinality({}) = 0
    BY FS_CardinalityType, FS_EmptySet DEF CountInv
  <2>4. Len(sent) \in Nat /\ Len(issued) \in Nat /\ StatusClaim' = StatusClaim /\ StatusClaim \in Nat
    BY <2>1, ConversationType, LenProperties DEF StatusClaim
  <2> QED BY <2>1, <2>2, <2>3, <2>4 DEF CountInv
<1>5. CASE (\E s \in Skills : SwitchSkill(s)) \/ UNCHANGED vars
  <2>1. UNCHANGED <<status, issued, sent, turn>>
    BY <1>5, SwitchStep, StutterStep
  <2> QED BY <2>1 DEF CountInv, Claims, StatusClaim
<1> QED BY <1>2, <1>3, <1>4, <1>5 DEF Next

\* NoMoreThanCalled: turns that overlap may execute a call of the model twice,
\* yet never execute more calls than the model has made, however often they are
\* resumed, denied again, cut off or interrupted.
THEOREM CallsCounted == Spec => []NoMoreThanCalled
<1>1. Init => CountInv
  <2> SUFFICES ASSUME Init PROVE CountInv
    OBVIOUS
  <2>1. turn = [t \in Turns |-> Idle] /\ status = "completed" /\ sent = <<>> /\ issued = <<>>
    BY DEF Init
  <2>2. Claims = {}
    BY <2>1, IdleClaim DEF Claims
  <2>3. Len(sent) = 0 /\ Len(issued) = 0
    BY <2>1, EmptySeq
  <2> QED BY <2>1, <2>2, <2>3, FS_EmptySet DEF CountInv, StatusClaim
<1>2. TypeInv /\ ResumesLogged /\ CountInv /\ [Next]_vars => CountInv'
  BY StepClaims
<1>3. TypeInv /\ CountInv => NoMoreThanCalled
  <2> SUFFICES ASSUME TypeInv, CountInv PROVE NoMoreThanCalled
    OBVIOUS
  <2>1. /\ Cardinality(Claims) \in Nat /\ StatusClaim \in Nat
        /\ Len(sent) \in Nat /\ Len(issued) \in Nat
    BY FS_CardinalityType, ConversationType, LenProperties DEF CountInv, StatusClaim
  <2> QED BY <2>1 DEF CountInv, NoMoreThanCalled
<1> QED BY <1>1, <1>2, <1>3, AlwaysTyped, PTL DEF Spec
=============================================================================
