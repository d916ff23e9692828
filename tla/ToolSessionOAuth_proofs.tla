----------------------- MODULE ToolSessionOAuth_proofs -----------------------
(***************************************************************************)
(* Proofs about ToolSessionOAuth, for every set of handlers, every choice  *)
(* of flow kinds and every value of the time constants.                    *)
(***************************************************************************)
EXTENDS ToolSessionOAuth, TLAPS

\* The time constants are naturals.
LEMMA Times ==
    /\ FlowLifetime \in Nat /\ SlowDown \in Nat /\ WaitLimit \in Nat
    /\ MaxGeneration \in Nat /\ PollInterval \in Nat /\ Lease \in Nat
    /\ IdleWindow \in Nat /\ AccessLifetime \in Nat /\ SessionLifetime \in Nat
    /\ OwnerExpires \in Nat /\ MaxClock \in Nat
BY TimesAssumption

\* The bounds a step takes of two instants are instants.
LEMMA LeastType == ASSUME NEW a \in Nat, NEW b \in Nat PROVE Least(a, b) \in Nat
BY DEF Least

\* Every kind has a flow and an owner of the listed sorts.
LEMMA KindFields ==
    ASSUME NEW k \in Kinds
    PROVE  /\ k.flow \in {"device", "pkce", "swagger"}
           /\ k.owner \in {"key", "embed", "browser"}
           /\ k.flow = "device" => k.owner = "key"
BY KindsAssumption DEF AllKinds

\* A closed flow is a flow.
LEMMA ClosedType ==
    ASSUME TypeOK, NEW status \in FlowStatuses
    PROVE  Closed(flow, status) \in Flows
BY DEF TypeOK, Closed, Flows

\* A wiped credential is a credential.
LEMMA WipedType ==
    ASSUME TypeOK, NEW status \in Statuses
    PROVE  Wiped(status) \in Credentials
BY DEF TypeOK, Wiped, Credentials, Erased

\* Ending a flow keeps the types.
LEMMA TerminalType ==
    ASSUME TypeOK, NEW status \in {"expired", "failed"}, Terminal(status)
    PROVE  row' \in Rows /\ credential' \in Credentials /\ flow' \in Flows
BY DEF TypeOK, Terminal, Closed, Wiped, Rows, Credentials, Flows, Statuses,
       FlowStatuses, Erased

\* Storing a token keeps the types.
LEMMA TokenGrantedType ==
    ASSUME TypeOK, NEW r \in Requests, ~IsIdle(r), TokenGranted(r)
    PROVE  row' \in Rows /\ credential' \in Credentials /\ flow' \in Flows
<1>1. PICK refreshable \in BOOLEAN :
        /\ row' = StoredRow(FirstAbsolute(refreshable))
        /\ StoreToken(request[r].generation, FirstAbsolute(refreshable), refreshable)
  BY DEF TokenGranted
<1>2. FirstAbsolute(refreshable) \in Nat
  <2>1. clock + SessionLifetime \in Nat /\ clock + AccessLifetime \in Nat
    BY Times DEF TypeOK
  <2>2. \A time \in Nat : Capped(time) \in Nat
    BY Times, LeastType DEF Capped
  <2> QED BY <2>1, <2>2 DEF FirstAbsolute
<1>3. request[r].generation + 1 \in Nat
  BY DEF TypeOK, IsIdle, HandlerStates
<1>4. /\ Least(clock + IdleWindow, FirstAbsolute(refreshable)) \in Nat
      /\ Least(clock + AccessLifetime, FirstAbsolute(refreshable)) \in Nat
  <2>1. clock + IdleWindow \in Nat /\ clock + AccessLifetime \in Nat
    BY Times DEF TypeOK
  <2> QED BY <1>2, <2>1, LeastType
<1>5. row' \in Rows
  BY <1>1, <1>2, <1>4 DEF TypeOK, StoredRow, Rows, Statuses
<1>6. credential' \in Credentials
  BY <1>1, <1>3, <1>4 DEF StoreToken, Credentials, Statuses
<1>7. flow' \in Flows
  BY <1>1 DEF TypeOK, StoreToken, Closed, Flows, FlowStatuses
<1> QED BY <1>5, <1>6, <1>7

\* Starting and ending a handler keeps the types.
LEMMA HandlerType ==
    ASSUME TypeOK, NEW r \in Requests
    PROVE  /\ Done(r) => request' \in [Requests -> HandlerStates]
           /\ \A pc \in {"posting", "waiting"}, call \in Calls, generation \in Nat :
                Begin(r, pc, call, generation) => request' \in [Requests -> HandlerStates]
BY DEF TypeOK, Done, Begin, HandlerStates

\* Expiring a session keeps the types.
LEMMA ExpireRowType ==
    ASSUME TypeOK, ExpireRow
    PROVE  row' \in Rows /\ credential' \in Credentials
BY WipedType DEF TypeOK, ExpireRow, Rows, Statuses

\* Serving a request slides the idle window within the types.
LEMMA ServedType ==
    ASSUME NEW r0 \in Rows, NEW now \in Nat
    PROVE  Served(r0, now) \in Rows
<1>1. Least(now + IdleWindow, r0.absoluteExpires) \in Nat
  <2>1. now + IdleWindow \in Nat /\ r0.absoluteExpires \in Nat
    BY Times DEF Rows
  <2> QED BY <2>1, LeastType
<1> QED BY <1>1 DEF Served, Rows

\* Claiming a refresh keeps the types, whatever branch it takes.
LEMMA ClaimRefreshType ==
    ASSUME TypeOK, NEW r \in Requests, NEW call \in {"refresh", "resolve"},
           ClaimRefresh(r, call)
    PROVE  /\ row' \in Rows /\ credential' \in Credentials /\ flow' \in Flows
           /\ request' \in [Requests -> HandlerStates]
<1> call \in Calls
  BY DEF Calls
<1> /\ flow.generation \in Nat /\ flow.generation + 1 \in Nat
  BY DEF TypeOK, Flows
<1>1. CASE RowTimedOut /\ ExpireOAuthSession /\ UNCHANGED request
  <2>1. row' \in Rows /\ credential' \in Credentials
    BY <1>1, ExpireRowType DEF ExpireOAuthSession
  <2>2. flow' \in Flows
    BY <1>1 DEF ExpireOAuthSession, Closed, TypeOK, Flows, FlowStatuses
  <2> QED BY <1>1, <2>1, <2>2 DEF TypeOK
<1>2. CASE RefreshRaises(call) /\ UNCHANGED <<flow, request>>
  BY <1>2, ExpireRowType DEF RefreshRaises, TypeOK
<1>3. CASE Begin(r, "waiting", call, flow.generation) /\ UNCHANGED session
  BY <1>3, HandlerType DEF session, TypeOK
<1>4. CASE /\ flow' = [flow EXCEPT !.generation = @ + 1, !.inProgress = TRUE,
                                   !.startedAt = clock]
           /\ Begin(r, "posting", call, flow.generation + 1)
           /\ UNCHANGED <<row, credential>>
  <2>1. flow' \in Flows
    BY <1>4 DEF TypeOK, Flows
  <2> QED BY <1>4, <2>1, HandlerType DEF TypeOK
<1> QED BY <1>1, <1>2, <1>3, <1>4 DEF ClaimRefresh

\* Answering a refresh keeps the types.
LEMMA FinishRefreshType ==
    ASSUME TypeOK, NEW r \in Requests, NEW call \in {"refresh", "resolve"},
           FinishRefresh(r, call)
    PROVE  row' \in Rows /\ credential' \in Credentials /\ flow' \in Flows
<1>1. ~IsIdle(r) /\ request[r].now \in Nat /\ request[r].generation \in Nat
  BY DEF FinishRefresh, IsPosting, IsIdle, NoRequest, TypeOK, HandlerStates
<1>2. CASE RefreshSucceeds(r, call)
  <2> DEFINE absolute == row.absoluteExpires
  <2>1. absolute \in Nat /\ clock + IdleWindow \in Nat /\ clock + AccessLifetime \in Nat
    BY Times DEF TypeOK, Rows
  <2>2. /\ Least(clock + IdleWindow, absolute) \in Nat
        /\ Least(clock + AccessLifetime, absolute) \in Nat
    BY <2>1, LeastType
  <2>3. StoredRow(absolute) \in Rows
    BY <2>1, <2>2 DEF StoredRow, TypeOK, Rows, Statuses
  <2>4. row' \in Rows
    BY <1>1, <1>2, <2>3, ServedType DEF RefreshSucceeds
  <2>5. StoreToken(request[r].generation, absolute, TRUE)
    BY <1>2 DEF RefreshSucceeds
  <2>6. credential' \in Credentials
    <3>1. request[r].generation + 1 \in Nat
      BY <1>1
    <3> QED BY <2>2, <2>5, <3>1 DEF StoreToken, Credentials, Statuses
  <2>7. flow' \in Flows
    BY <2>5, ClosedType DEF StoreToken, FlowStatuses
  <2> QED BY <2>4, <2>6, <2>7
<1>3. CASE RefreshFails(r, call)
  <2>1. flow' = flow \/ flow' = Closed(flow, "failed")
    BY <1>3 DEF RefreshFails
  <2>2. flow' \in Flows
    BY <2>1, ClosedType DEF TypeOK, FlowStatuses
  <2>3. \/ ExpireRow
        \/ row' = row /\ credential' = credential
        \/ row' = [row EXCEPT !.status = "failed"] /\ credential' = Wiped("failed")
    BY <1>3 DEF RefreshFails, RefreshRaises
  <2>4. row' \in Rows
    BY <2>3, ExpireRowType DEF TypeOK, Rows, Statuses
  <2>5. credential' \in Credentials
    BY <2>3, ExpireRowType, WipedType DEF TypeOK, Statuses
  <2> QED BY <2>2, <2>4, <2>5
<1> QED BY <1>2, <1>3 DEF FinishRefresh

\* A login popup's answer keeps the types.
LEMMA FinishSwaggerType ==
    ASSUME TypeOK, NEW r \in Requests, FinishSwagger(r)
    PROVE  row' \in Rows /\ credential' \in Credentials /\ flow' \in Flows
<1>1. request[r].now \in Nat /\ request[r].generation \in Nat
  BY DEF FinishSwagger, IsPosting, NoRequest, TypeOK, HandlerStates
<1>2. \A lifetime \in Nat :
        /\ Least(request[r].now + lifetime, OwnerExpires) \in Nat
        /\ Least(request[r].now + IdleWindow,
                 Least(request[r].now + lifetime, OwnerExpires)) \in Nat
  <2> TAKE lifetime \in Nat
  <2>1. request[r].now + lifetime \in Nat /\ request[r].now + IdleWindow \in Nat
    BY <1>1, Times
  <2>2. Least(request[r].now + lifetime, OwnerExpires) \in Nat
    BY <2>1, Times, LeastType
  <2> QED BY <2>1, <2>2, LeastType
<1>3. Least(AccessLifetime, SessionLifetime) \in Nat
  BY Times, LeastType
<1>4. CASE /\ row' = [row EXCEPT !.status = "failed"]
           /\ flow' = [flow EXCEPT !.status = "failed", !.sealed = FALSE]
           /\ UNCHANGED credential
  BY <1>4 DEF TypeOK, Rows, Flows, Statuses, FlowStatuses
<1>5. ASSUME NEW lifetime \in Nat, NEW status \in {"ready", "failed"},
             LET absolute == Least(request[r].now + lifetime, OwnerExpires)
             IN  /\ row' = [row EXCEPT !.status = status, !.loginData = TRUE,
                              !.absoluteExpires = absolute,
                              !.idleExpires = Least(request[r].now + IdleWindow, absolute)]
                 /\ credential' = [status |-> "ready",
                                   token |-> request[r].generation + 1,
                                   refreshable |-> FALSE, expires |-> absolute]
                 /\ flow' = [flow EXCEPT !.status = status, !.sealed = FALSE]
      PROVE  row' \in Rows /\ credential' \in Credentials /\ flow' \in Flows
  <2>1. row' \in Rows
    BY <1>2, <1>5 DEF TypeOK, Rows, Statuses
  <2>2. request[r].generation + 1 \in Nat
    BY <1>1
  <2>3. credential' \in Credentials
    BY <1>2, <1>5, <2>2 DEF Credentials, Statuses
  <2>4. flow' \in Flows
    BY <1>5 DEF TypeOK, Flows, FlowStatuses
  <2> QED BY <2>1, <2>3, <2>4
<1>6. SessionLifetime \in Nat
  BY Times
<1> QED BY <1>3, <1>4, <1>5, <1>6 DEF FinishSwagger

\* Every handler step and every other step keeps the types.
LEMMA NextTyped == ASSUME TypeOK, [Next]_vars PROVE TypeOK'
<1>1. ASSUME NEW r \in Requests, PollDevice(r) PROVE TypeOK'
  <2>1. CASE ExpireFlow
    BY <1>1, <2>1, TerminalType DEF PollDevice, ExpireFlow, TypeOK
  <2>2. CASE ClaimPoll(r)
    <3>1. flow.generation + 1 \in Nat /\ clock + flow.interval \in Nat
      BY DEF TypeOK, Flows
    <3>2. flow' \in Flows
      BY <2>2, <3>1 DEF ClaimPoll, TypeOK, Flows
    <3>3. request' \in [Requests -> HandlerStates]
      BY <2>2, <3>1, HandlerType DEF ClaimPoll, Calls
    <3> QED BY <1>1, <2>2, <3>2, <3>3 DEF PollDevice, ClaimPoll, TypeOK
  <2> QED BY <1>1, <2>1, <2>2 DEF PollDevice
<1>2. ASSUME NEW r \in Requests, CompletePkce(r) PROVE TypeOK'
  <2>1. CASE ExpireFlow
    BY <1>2, <2>1, TerminalType DEF CompletePkce, ExpireFlow, TypeOK
  <2>2. CASE /\ flow' = [flow EXCEPT !.consumed = TRUE]
             /\ Begin(r, "posting", "exchange", 0)
             /\ UNCHANGED <<row, credential>>
    <3>1. flow' \in Flows
      BY <2>2 DEF TypeOK, Flows
    <3>2. request' \in [Requests -> HandlerStates]
      BY <2>2, HandlerType DEF Calls
    <3> QED BY <1>2, <2>2, <3>1, <3>2 DEF CompletePkce, TypeOK
  <2> QED BY <1>2, <2>1, <2>2 DEF CompletePkce
<1>3. ASSUME NEW r \in Requests, SwaggerLogin(r) PROVE TypeOK'
  <2>1. flow' \in Flows
    BY <1>3 DEF SwaggerLogin, TypeOK, Flows
  <2>2. request' \in [Requests -> HandlerStates]
    BY <1>3, HandlerType DEF SwaggerLogin, Calls
  <2> QED BY <1>3, <2>1, <2>2 DEF SwaggerLogin, TypeOK
<1>4. ASSUME NEW r \in Requests, RefreshEndpoint(r) PROVE TypeOK'
  BY <1>4, ClaimRefreshType DEF RefreshEndpoint, TypeOK
<1>5. ASSUME NEW r \in Requests, NEW force \in BOOLEAN, Resolve(r, force) PROVE TypeOK'
  <2>1. CASE ExpireRow /\ UNCHANGED <<flow, request>>
    BY <1>5, <2>1, ExpireRowType DEF Resolve, TypeOK
  <2>2. CASE row' = Served(row, clock) /\ UNCHANGED <<credential, flow, request>>
    BY <1>5, <2>2, ServedType DEF Resolve, TypeOK
  <2>3. CASE ClaimRefresh(r, "resolve")
    BY <1>5, <2>3, ClaimRefreshType DEF Resolve, TypeOK
  <2> QED BY <1>5, <2>1, <2>2, <2>3 DEF Resolve
<1>6. ASSUME NEW r \in Requests, FinishPoll(r) PROVE TypeOK'
  <2>1. ~IsIdle(r)
    BY <1>6 DEF FinishPoll, IsPosting, IsIdle, NoRequest
  <2>2. request' \in [Requests -> HandlerStates]
    BY <1>6, HandlerType DEF FinishPoll
  <2>3. row' \in Rows /\ credential' \in Credentials /\ flow' \in Flows
    <3>1. CASE PollContinues
      BY <3>1 DEF PollContinues, TypeOK, Flows
    <3>2. CASE PollSlowedDown
      <4>1. flow.interval + SlowDown \in Nat /\ clock + flow.interval + SlowDown \in Nat
        BY Times DEF TypeOK, Flows
      <4> QED BY <3>2, <4>1 DEF PollSlowedDown, TypeOK, Flows
    <3>3. CASE UNCHANGED session
      BY <3>3 DEF session, TypeOK
    <3> QED
      BY <1>6, <2>1, <3>1, <3>2, <3>3, TerminalType, TokenGrantedType DEF FinishPoll
  <2> QED BY <1>6, <2>2, <2>3 DEF FinishPoll, TypeOK
<1>7. ASSUME NEW r \in Requests, FinishExchange(r) PROVE TypeOK'
  <2>1. ~IsIdle(r)
    BY <1>7 DEF FinishExchange, IsPosting, IsIdle, NoRequest
  <2>2. request' \in [Requests -> HandlerStates]
    BY <1>7, HandlerType DEF FinishExchange
  <2>3. row' \in Rows /\ credential' \in Credentials /\ flow' \in Flows
    BY <1>7, <2>1, TerminalType, TokenGrantedType
       DEF FinishExchange, FailClaimedPkce, session, TypeOK
  <2> QED BY <1>7, <2>2, <2>3 DEF FinishExchange, TypeOK
<1>8. ASSUME NEW r \in Requests, FinishSwagger(r) PROVE TypeOK'
  BY <1>8, FinishSwaggerType, HandlerType DEF FinishSwagger, TypeOK
<1>9. ASSUME NEW r \in Requests, NEW call \in {"refresh", "resolve"},
             FinishRefresh(r, call)
      PROVE TypeOK'
  BY <1>9, FinishRefreshType, HandlerType DEF FinishRefresh, TypeOK
<1>10. ASSUME NEW r \in Requests, WakeWaiter(r) PROVE TypeOK'
  <2>1. request[r].now \in Nat
    BY <1>10 DEF WakeWaiter, NoRequest, TypeOK, HandlerStates
  <2>2. request' \in [Requests -> HandlerStates]
    BY <1>10, HandlerType DEF WakeWaiter
  <2>3. row' \in Rows /\ credential' \in Credentials
    BY <1>10, <2>1, ServedType, ExpireRowType
       DEF WakeWaiter, WaiterServed, WaiterFails, RefreshRaises, TypeOK
  <2> QED BY <1>10, <2>2, <2>3 DEF WakeWaiter, TypeOK
<1>11. ASSUME NEW r \in Requests, Cancel(r) PROVE TypeOK'
  <2>1. request' \in [Requests -> HandlerStates]
    BY <1>11, HandlerType DEF Cancel
  <2>2. row' \in Rows /\ credential' \in Credentials /\ flow' \in Flows
    BY <1>11, TerminalType DEF Cancel, FailClaimedPkce, session, TypeOK
  <2> QED BY <1>11, <2>1, <2>2 DEF Cancel, TypeOK
<1>12. CASE RejectPkce
  <2>1. CASE Terminal("expired")
    BY <1>12, <2>1, TerminalType DEF RejectPkce, TypeOK
  <2>2. CASE /\ row' = [row EXCEPT !.status = "failed"]
             /\ flow' = [Closed(flow, "failed") EXCEPT !.consumed = TRUE]
             /\ credential' = Wiped("failed")
    <3>1. Closed(flow, "failed") \in Flows
      BY ClosedType DEF FlowStatuses
    <3>2. flow' \in Flows
      BY <2>2, <3>1 DEF Flows
    <3>3. row' \in Rows
      BY <2>2 DEF TypeOK, Rows, Statuses
    <3>4. credential' \in Credentials
      BY <2>2, WipedType DEF Statuses
    <3> QED BY <1>12, <3>2, <3>3, <3>4 DEF RejectPkce, TypeOK
  <2> QED BY <1>12, <2>1, <2>2 DEF RejectPkce
<1>13. CASE Revoke
  <2>1. row' \in Rows
    BY <1>13 DEF Revoke, TypeOK, Rows, Statuses
  <2>2. credential' \in Credentials
    BY <1>13, WipedType DEF Revoke, Statuses
  <2> QED BY <1>13, <2>1, <2>2 DEF Revoke, TypeOK
<1>14. CASE RevokeOwner
  BY <1>14 DEF RevokeOwner, TypeOK
<1>15. CASE Crash
  BY <1>15 DEF Crash, TypeOK, HandlerStates
<1>16. CASE Tick
  BY <1>16 DEF Tick, TypeOK
<1>17. CASE UNCHANGED vars
  BY <1>17 DEF vars, TypeOK
<1> QED
  BY <1>1, <1>2, <1>3, <1>4, <1>5, <1>6, <1>7, <1>8, <1>9, <1>10, <1>11, <1>12,
     <1>13, <1>14, <1>15, <1>16, <1>17 DEF Next, Answered

\* Sessions, flows and handlers keep their shape in every reachable state.
THEOREM TypeCorrect == Spec => []TypeOK
<1>1. Init => TypeOK
  <2> SUFFICES ASSUME Init PROVE TypeOK
    OBVIOUS
  <2>1. PICK k \in Kinds :
          LET expires == IF k.owner = "key" THEN FlowLifetime
                         ELSE Least(FlowLifetime, OwnerExpires)
          IN  /\ row = [kind |-> k, status |-> "pending", revoked |-> FALSE,
                        loginData |-> FALSE, absoluteExpires |-> expires,
                        idleExpires |-> IF k.flow = "swagger" THEN expires
                                        ELSE Least(IdleWindow, expires)]
              /\ credential = [status |-> "pending", token |-> Erased,
                               refreshable |-> FALSE, expires |-> expires]
              /\ flow = [status |-> "pending", sealed |-> TRUE, consumed |-> FALSE,
                         generation |-> 0, inProgress |-> FALSE, startedAt |-> 0,
                         interval |-> PollInterval,
                         nextPollAt |-> IF k.flow = "device" THEN PollInterval ELSE 0,
                         expires |-> expires]
    BY DEF Init
  <2> DEFINE expires == IF k.owner = "key" THEN FlowLifetime
                        ELSE Least(FlowLifetime, OwnerExpires)
  <2>2. expires \in Nat
    BY Times, LeastType
  <2>3. Least(IdleWindow, expires) \in Nat
    BY <2>2, Times, LeastType
  <2> HIDE DEF expires
  <2>4. row \in Rows
    BY <2>1, <2>2, <2>3 DEF Rows, Statuses, expires
  <2>5. credential \in Credentials
    BY <2>1, <2>2 DEF Credentials, Statuses, Erased, expires
  <2>6. flow \in Flows
    BY <2>1, <2>2, Times DEF Flows, FlowStatuses, expires
  <2>7. clock \in Nat /\ ownerLive \in BOOLEAN /\ request \in [Requests -> HandlerStates]
    BY DEF Init, HandlerStates
  <2> QED BY <2>4, <2>5, <2>6, <2>7 DEF TypeOK
<1>2. TypeOK /\ [Next]_vars => TypeOK'
  BY NextTyped
<1> QED BY <1>1, <1>2, PTL DEF Spec

-----------------------------------------------------------------------------
(* What a session holds: its token, its lifetimes, and the issuer's        *)
(* throttle                                                                *)

\* Login data is stored with the end of the flow only.
LoginEndsFlow == row.loginData => flow.status # "pending"

HoldingInvariant ==
    ReadyIsBacked /\ WithinLifetimes /\ ExpiredHoldsNoToken /\ LoginEndsFlow

\* The row is as before but for its status, its login data and its idle window.
SameRow ==
    /\ row'.kind = row.kind
    /\ row'.absoluteExpires = row.absoluteExpires

\* The session is given up and its credential wiped.
GivesUp ==
    /\ SameRow /\ row'.idleExpires = row.idleExpires
    /\ row'.status # "ready"
    /\ row'.loginData => row.loginData /\ row'.status # "expired"
    /\ credential'.status # "ready" /\ credential'.token = Erased
    /\ flow'.status = "pending" => flow.status = "pending"

\* The session goes on as it is; at most its idle window slides.
GoesOn ==
    /\ SameRow /\ row'.status = row.status /\ row'.loginData = row.loginData
    /\ row'.idleExpires <= row'.absoluteExpires
    /\ credential' = credential
    /\ flow'.status = flow.status /\ flow'.sealed = flow.sealed

\* The session receives a token, or fails with one (a grant refused).
Receives ==
    /\ row'.kind = row.kind
    /\ row'.idleExpires <= row'.absoluteExpires
    /\ row'.kind.owner = "embed" => row'.absoluteExpires <= OwnerExpires
    /\ row'.status \in {"ready", "failed"} /\ flow'.status = row'.status /\ ~flow'.sealed
    /\ credential'.status = "ready" /\ credential'.token # Erased
    /\ credential'.expires <= row'.absoluteExpires

\* A login is refused: the credential has never been written.
Refuses ==
    /\ SameRow /\ row'.idleExpires = row.idleExpires
    /\ row'.status = "failed" /\ flow'.status = "failed"
    /\ credential' = credential

\* Each of the four keeps what a session holds.
LEMMA HoldingKept ==
    ASSUME HoldingInvariant, GivesUp \/ GoesOn \/ Receives \/ Refuses
    PROVE  HoldingInvariant'
BY DEF HoldingInvariant, ReadyIsBacked, WithinLifetimes, ExpiredHoldsNoToken,
       LoginEndsFlow, SameRow, GivesUp, GoesOn, Receives, Refuses

\* The lesser of two instants is at most either.
LEMMA LeastBound ==
    ASSUME NEW a \in Nat, NEW b \in Nat PROVE Least(a, b) <= a /\ Least(a, b) <= b
BY DEF Least

\* Ending a pending flow, and expiring a session, give the session up.
LEMMA TerminalGivesUp ==
    ASSUME TypeOK, HoldingInvariant, flow.status = "pending",
           NEW status \in {"expired", "failed"}, Terminal(status)
    PROVE  GivesUp
BY DEF TypeOK, HoldingInvariant, LoginEndsFlow, Terminal, Closed, Wiped, Rows,
       Credentials, Flows, GivesUp, SameRow

LEMMA ExpireGivesUp ==
    ASSUME TypeOK, ExpireRow, flow' = flow \/ flow' = Closed(flow, "expired")
                                \/ flow' = Closed(flow, "failed")
    PROVE  GivesUp
BY DEF TypeOK, ExpireRow, Closed, Wiped, Rows, Credentials, Flows, GivesUp, SameRow

\* A step that leaves row and credential, or all three, lets the session go on.
LEMMA SameGoesOn ==
    ASSUME HoldingInvariant, UNCHANGED <<row, credential>>,
           flow'.status = flow.status, flow'.sealed = flow.sealed
    PROVE  GoesOn
BY DEF HoldingInvariant, WithinLifetimes, GoesOn, SameRow

\* Serving slides the idle window up to the absolute expiry.
LEMMA ServedGoesOn ==
    ASSUME TypeOK, NEW now \in Nat, row' = Served(row, now), UNCHANGED <<credential, flow>>
    PROVE  GoesOn
<1>1. now + IdleWindow \in Nat /\ row.absoluteExpires \in Nat /\ row \in Rows
  BY Times DEF TypeOK, Rows
<1>2. Least(now + IdleWindow, row.absoluteExpires) <= row.absoluteExpires
  BY <1>1, LeastBound
<1> QED BY <1>1, <1>2 DEF Served, Rows, GoesOn, SameRow

\* Storing a token under an absolute expiry that its owner allows.
LEMMA StoreReceives ==
    ASSUME TypeOK, NEW r \in Requests, ~IsIdle(r), NEW absolute \in Nat,
           NEW refreshable \in BOOLEAN,
           row.kind.owner = "embed" => absolute <= OwnerExpires,
           \/ row' = StoredRow(absolute)
           \/ row' = Served(StoredRow(absolute), request[r].now),
           StoreToken(request[r].generation, absolute, refreshable)
    PROVE  Receives
<1>1. request[r].generation \in Nat /\ request[r].now \in Nat
  BY DEF TypeOK, IsIdle, HandlerStates
<1>2. /\ clock + IdleWindow \in Nat /\ clock + AccessLifetime \in Nat
      /\ request[r].now + IdleWindow \in Nat
  BY <1>1, Times DEF TypeOK
<1>3. /\ Least(clock + IdleWindow, absolute) <= absolute
      /\ Least(request[r].now + IdleWindow, absolute) <= absolute
      /\ Least(clock + AccessLifetime, absolute) <= absolute
  BY <1>2, LeastBound
<1>4. /\ row'.kind = row.kind /\ row'.absoluteExpires = absolute
      /\ row'.status = "ready" /\ row'.idleExpires <= absolute
  BY <1>3 DEF TypeOK, Rows, StoredRow, Served
<1>5. /\ credential'.status = "ready" /\ credential'.token # Erased
      /\ credential'.expires <= absolute
  BY <1>1, <1>3 DEF StoreToken, Erased
<1>6. flow'.status = "ready" /\ ~flow'.sealed
  BY DEF StoreToken, Closed, TypeOK, Flows
<1> QED BY <1>4, <1>5, <1>6 DEF Receives

LEMMA GrantReceives ==
    ASSUME TypeOK, NEW r \in Requests, ~IsIdle(r), TokenGranted(r)
    PROVE  Receives
<1>1. PICK refreshable \in BOOLEAN :
        /\ row' = StoredRow(FirstAbsolute(refreshable))
        /\ StoreToken(request[r].generation, FirstAbsolute(refreshable), refreshable)
  BY DEF TokenGranted
<1>2. clock + SessionLifetime \in Nat /\ clock + AccessLifetime \in Nat
  BY Times DEF TypeOK
<1>3. ASSUME NEW time \in Nat
      PROVE  /\ Capped(time) \in Nat
             /\ row.kind.owner = "embed" => Capped(time) <= OwnerExpires
  BY <1>3, Times, LeastType, LeastBound DEF Capped
<1>4. /\ FirstAbsolute(refreshable) \in Nat
      /\ row.kind.owner = "embed" => FirstAbsolute(refreshable) <= OwnerExpires
  BY <1>2, <1>3 DEF FirstAbsolute
<1> QED BY <1>1, <1>4, StoreReceives

\* What the popup of a login Tool leaves.
LEMMA SwaggerHolds ==
    ASSUME TypeOK, NEW r \in Requests, FinishSwagger(r)
    PROVE  Receives \/ Refuses
<1>1. request[r].generation \in Nat /\ request[r].now \in Nat
  BY DEF FinishSwagger, IsPosting, TypeOK, HandlerStates, NoRequest
<1>2. CASE /\ row' = [row EXCEPT !.status = "failed"]
           /\ flow' = [flow EXCEPT !.status = "failed", !.sealed = FALSE]
           /\ UNCHANGED credential
  BY <1>2 DEF TypeOK, Rows, Flows, Refuses, SameRow
<1>3. ASSUME NEW lifetime \in Nat, NEW absolute, NEW status \in {"ready", "failed"},
             absolute = Least(request[r].now + lifetime, OwnerExpires),
             row' = [row EXCEPT !.status = status, !.loginData = TRUE,
                        !.absoluteExpires = absolute,
                        !.idleExpires = Least(request[r].now + IdleWindow, absolute)],
             credential' = [status |-> "ready", token |-> request[r].generation + 1,
                            refreshable |-> FALSE, expires |-> absolute],
             flow' = [flow EXCEPT !.status = status, !.sealed = FALSE]
      PROVE  Receives
  <2>1. request[r].now + lifetime \in Nat /\ request[r].now + IdleWindow \in Nat
    BY <1>1, Times
  <2>2. absolute \in Nat /\ absolute <= OwnerExpires
    BY <1>3, <2>1, Times, LeastType, LeastBound
  <2>3. Least(request[r].now + IdleWindow, absolute) <= absolute
    BY <2>1, <2>2, LeastBound
  <2>4. /\ row'.kind = row.kind /\ row'.absoluteExpires = absolute
        /\ row'.status = status /\ row'.idleExpires <= absolute
    BY <1>3, <2>3 DEF TypeOK, Rows
  <2>5. /\ credential'.status = "ready" /\ credential'.token # Erased
        /\ credential'.expires <= absolute
    BY <1>1, <1>3, <2>2 DEF Erased
  <2>6. flow'.status = status /\ ~flow'.sealed
    BY <1>3 DEF TypeOK, Flows
  <2> QED BY <2>2, <2>4, <2>5, <2>6 DEF Receives
<1>4. \A lifetime \in {SessionLifetime, Least(AccessLifetime, SessionLifetime)} :
        lifetime \in Nat
  BY Times, LeastType
<1> QED BY <1>2, <1>3, <1>4 DEF FinishSwagger

\* Claiming a refresh expires the session or lets it go on.
LEMMA ClaimRefreshHolds ==
    ASSUME TypeOK, HoldingInvariant, NEW r \in Requests,
           NEW call \in {"refresh", "resolve"}, ClaimRefresh(r, call)
    PROVE  GivesUp \/ GoesOn
<1>1. CASE ExpireOAuthSession
  BY <1>1, ExpireGivesUp DEF ExpireOAuthSession
<1>2. CASE RefreshRaises(call) /\ UNCHANGED flow
  BY <1>2, ExpireGivesUp, SameGoesOn DEF RefreshRaises
<1>3. CASE UNCHANGED session
  BY <1>3, SameGoesOn DEF session
<1>4. CASE /\ flow' = [flow EXCEPT !.generation = @ + 1, !.inProgress = TRUE,
                                   !.startedAt = clock]
           /\ UNCHANGED <<row, credential>>
  <2>1. flow'.status = flow.status /\ flow'.sealed = flow.sealed
    BY <1>4 DEF TypeOK, Flows
  <2> QED BY <1>4, <2>1, SameGoesOn
<1> QED BY <1>1, <1>2, <1>3, <1>4 DEF ClaimRefresh

\* The answer to a refresh stores a token, fails the session or is dropped.
LEMMA FinishRefreshHolds ==
    ASSUME TypeOK, HoldingInvariant, NEW r \in Requests,
           NEW call \in {"refresh", "resolve"}, FinishRefresh(r, call)
    PROVE  GivesUp \/ GoesOn \/ Receives
<1>1. ~IsIdle(r)
  BY DEF FinishRefresh, IsPosting, IsIdle, NoRequest
<1>2. CASE RefreshSucceeds(r, call)
  <2>1. /\ row.absoluteExpires \in Nat
        /\ row.kind.owner = "embed" => row.absoluteExpires <= OwnerExpires
    BY DEF TypeOK, Rows, HoldingInvariant, WithinLifetimes
  <2> QED BY <1>1, <1>2, <2>1, StoreReceives DEF RefreshSucceeds
<1>3. CASE RefreshFails(r, call)
  <2>1. CASE flow' = Closed(flow, "failed") /\ ExpireRow
    BY <2>1, ExpireGivesUp
  <2>2. CASE /\ flow' = Closed(flow, "failed")
             /\ row' = [row EXCEPT !.status = "failed"]
             /\ credential' = Wiped("failed")
    BY <2>2 DEF TypeOK, Rows, Credentials, Flows, Closed, Wiped, GivesUp, SameRow
  <2>3. CASE RefreshRaises(call) /\ UNCHANGED flow
    BY <2>3, ExpireGivesUp, SameGoesOn DEF RefreshRaises
  <2> QED BY <1>3, <2>1, <2>2, <2>3 DEF RefreshFails
<1> QED BY <1>2, <1>3 DEF FinishRefresh

\* The exchange of a browser state ends with a token or without one.
LEMMA ExchangeHolds ==
    ASSUME TypeOK, HoldingInvariant, FailClaimedPkce
    PROVE  GivesUp \/ GoesOn
BY TerminalGivesUp, SameGoesOn DEF FailClaimedPkce, session

\* Every step of the specification is one of the four.
LEMMA StepHolds ==
    ASSUME TypeOK, HoldingInvariant, [Next]_vars
    PROVE  GivesUp \/ GoesOn \/ Receives \/ Refuses
<1>1. ASSUME NEW r \in Requests, PollDevice(r) PROVE GivesUp \/ GoesOn
  <2>1. CASE ExpireFlow
    BY <1>1, <2>1, TerminalGivesUp DEF PollDevice, ExpireFlow
  <2>2. CASE ClaimPoll(r)
    <3>1. flow'.status = flow.status /\ flow'.sealed = flow.sealed
      BY <2>2 DEF ClaimPoll, TypeOK, Flows
    <3> QED BY <2>2, <3>1, SameGoesOn DEF ClaimPoll
  <2> QED BY <1>1, <2>1, <2>2 DEF PollDevice
<1>2. ASSUME NEW r \in Requests, CompletePkce(r) \/ SwaggerLogin(r) PROVE GivesUp \/ GoesOn
  <2>1. CASE CompletePkce(r) /\ ExpireFlow
    BY <2>1, TerminalGivesUp DEF CompletePkce, PkceCallback, ExpireFlow
  <2>2. CASE flow' = [flow EXCEPT !.consumed = TRUE] /\ UNCHANGED <<row, credential>>
    <3>1. flow'.status = flow.status /\ flow'.sealed = flow.sealed
      BY <2>2 DEF TypeOK, Flows
    <3> QED BY <2>2, <3>1, SameGoesOn
  <2> QED BY <1>2, <2>1, <2>2 DEF CompletePkce, SwaggerLogin
<1>3. ASSUME NEW r \in Requests, RefreshEndpoint(r) PROVE GivesUp \/ GoesOn
  BY <1>3, ClaimRefreshHolds DEF RefreshEndpoint
<1>4. ASSUME NEW r \in Requests, NEW force \in BOOLEAN, Resolve(r, force)
      PROVE  GivesUp \/ GoesOn
  <2>1. CASE ExpireRow /\ UNCHANGED flow
    BY <2>1, ExpireGivesUp
  <2>2. CASE row' = Served(row, clock) /\ UNCHANGED <<credential, flow>>
    <3>1. clock \in Nat
      BY DEF TypeOK
    <3> QED BY <2>2, <3>1, ServedGoesOn
  <2>3. CASE ClaimRefresh(r, "resolve")
    BY <2>3, ClaimRefreshHolds
  <2> QED BY <1>4, <2>1, <2>2, <2>3 DEF Resolve
<1>5. ASSUME NEW r \in Requests, FinishPoll(r) PROVE GivesUp \/ GoesOn \/ Receives
  <2>1. ~IsIdle(r)
    BY <1>5 DEF FinishPoll, IsPosting, IsIdle, NoRequest
  <2>2. CASE PollContinues \/ PollSlowedDown
    <3>1. flow'.status = flow.status /\ flow'.sealed = flow.sealed
      BY <2>2 DEF PollContinues, PollSlowedDown, TypeOK, Flows
    <3> QED BY <2>2, <3>1, SameGoesOn DEF PollContinues, PollSlowedDown
  <2>3. CASE UNCHANGED session
    BY <2>3, SameGoesOn DEF session
  <2> QED
    BY <1>5, <2>1, <2>2, <2>3, GrantReceives, TerminalGivesUp DEF FinishPoll
<1>6. ASSUME NEW r \in Requests, FinishExchange(r) PROVE GivesUp \/ GoesOn \/ Receives
  <2>1. ~IsIdle(r)
    BY <1>6 DEF FinishExchange, IsPosting, IsIdle, NoRequest
  <2> QED BY <1>6, <2>1, GrantReceives, ExchangeHolds DEF FinishExchange
<1>7. ASSUME NEW r \in Requests, FinishSwagger(r) PROVE Receives \/ Refuses
  BY <1>7, SwaggerHolds
<1>8. ASSUME NEW r \in Requests, NEW call \in {"refresh", "resolve"}, FinishRefresh(r, call)
      PROVE  GivesUp \/ GoesOn \/ Receives
  BY <1>8, FinishRefreshHolds
<1>9. ASSUME NEW r \in Requests, WakeWaiter(r) PROVE GivesUp \/ GoesOn
  <2>1. request[r].now \in Nat
    BY <1>9 DEF WakeWaiter, NoRequest, TypeOK, HandlerStates
  <2>2. UNCHANGED flow
    BY <1>9 DEF WakeWaiter
  <2>3. CASE UNCHANGED <<row, credential>>
    BY <2>2, <2>3, SameGoesOn
  <2>4. CASE row' = Served(row, request[r].now) /\ UNCHANGED credential
    BY <2>1, <2>2, <2>4, ServedGoesOn
  <2>5. CASE ExpireRow
    BY <2>2, <2>5, ExpireGivesUp
  <2> QED BY <1>9, <2>3, <2>4, <2>5 DEF WakeWaiter, WaiterServed, WaiterFails, RefreshRaises
<1>10. ASSUME NEW r \in Requests, Cancel(r) PROVE GivesUp \/ GoesOn
  BY <1>10, ExchangeHolds, SameGoesOn DEF Cancel, session
<1>11. CASE RejectPkce
  <2>1. flow.status = "pending"
    BY <1>11 DEF RejectPkce, PkceCallback
  <2>2. CASE Terminal("expired")
    BY <2>1, <2>2, TerminalGivesUp
  <2>3. CASE /\ row' = [row EXCEPT !.status = "failed"]
             /\ flow' = [Closed(flow, "failed") EXCEPT !.consumed = TRUE]
             /\ credential' = Wiped("failed")
    BY <2>3 DEF TypeOK, Rows, Credentials, Flows, Closed, Wiped, GivesUp, SameRow
  <2> QED BY <1>11, <2>2, <2>3 DEF RejectPkce
<1>12. CASE Revoke
  BY <1>12 DEF Revoke, TypeOK, Rows, Credentials, Flows, Wiped, GivesUp, SameRow
<1>13. CASE RevokeOwner \/ Crash \/ Tick \/ UNCHANGED vars
  BY <1>13, SameGoesOn DEF RevokeOwner, Crash, Tick, vars
<1> QED
  BY <1>1, <1>2, <1>3, <1>4, <1>5, <1>6, <1>7, <1>8, <1>9, <1>10, <1>11, <1>12, <1>13
     DEF Next, Answered

\* A new session holds nothing yet, within its owner's lifetime.
LEMMA InitHolds == Init => HoldingInvariant
<1> SUFFICES ASSUME Init PROVE HoldingInvariant
  OBVIOUS
<1> DEFINE Lifetime(k) == IF k.owner = "key" THEN FlowLifetime
                          ELSE Least(FlowLifetime, OwnerExpires)
<1>0. PICK k \in Kinds :
        /\ row = [kind |-> k, status |-> "pending", revoked |-> FALSE,
                  loginData |-> FALSE, absoluteExpires |-> Lifetime(k),
                  idleExpires |-> IF k.flow = "swagger" THEN Lifetime(k)
                                  ELSE Least(IdleWindow, Lifetime(k))]
        /\ credential = [status |-> "pending", token |-> Erased,
                         refreshable |-> FALSE, expires |-> Lifetime(k)]
  BY DEF Init
<1> DEFINE expires == Lifetime(k)
<1>1. /\ row.kind = k /\ row.status = "pending" /\ row.loginData = FALSE
      /\ row.absoluteExpires = expires
      /\ row.idleExpires = IF k.flow = "swagger" THEN expires ELSE Least(IdleWindow, expires)
      /\ credential.status = "pending"
  BY <1>0
<1>2. expires \in Nat /\ (k.owner = "embed" => expires <= OwnerExpires)
  BY Times, LeastType, LeastBound
<1> HIDE DEF expires
<1>3. Least(IdleWindow, expires) <= expires
  BY <1>2, Times, LeastBound
<1>4. WithinLifetimes
  BY <1>1, <1>2, <1>3 DEF WithinLifetimes
<1> QED
  BY <1>1, <1>4 DEF HoldingInvariant, ReadyIsBacked, ExpiredHoldsNoToken, LoginEndsFlow

\* Whatever the session holds is held together, for as long as it may be.
THEOREM HoldingCorrect == Spec => []HoldingInvariant
<1>1. TypeOK /\ HoldingInvariant /\ [Next]_vars => HoldingInvariant'
  BY StepHolds, HoldingKept
<1> QED BY <1>1, InitHolds, TypeCorrect, PTL DEF Spec

\* A ready session has a token, a ready credential and a finished flow.
THEOREM Backed == Spec => []ReadyIsBacked
<1>1. HoldingInvariant => ReadyIsBacked
  BY DEF HoldingInvariant
<1> QED BY <1>1, HoldingCorrect, PTL

\* No credential outlives its session, no embed's session its embed session.
THEOREM LifetimesKept == Spec => []WithinLifetimes
<1>1. HoldingInvariant => WithinLifetimes
  BY DEF HoldingInvariant
<1> QED BY <1>1, HoldingCorrect, PTL

\* Expiry leaves neither a token nor login data.
THEOREM ExpiryErases == Spec => []ExpiredHoldsNoToken
<1>1. HoldingInvariant => ExpiredHoldsNoToken
  BY DEF HoldingInvariant
<1> QED BY <1>1, HoldingCorrect, PTL

-----------------------------------------------------------------------------
(* The throttle                                                            *)

\* The next poll is never further away than the interval: this makes the
\* throttle monotone when a poll starts and when it is slowed down.
PollWithinInterval == flow.nextPollAt <= clock + flow.interval

\* Every step that is not a poll leaves the throttle alone.
SameThrottle ==
    /\ flow'.nextPollAt = flow.nextPollAt /\ flow'.interval = flow.interval
    /\ clock' >= clock

\* Closing a flow, consuming its state or claiming it for a refresh does so.
LEMMA ClosedThrottle ==
    ASSUME TypeOK, NEW status
    PROVE  /\ Closed(flow, status).nextPollAt = flow.nextPollAt
           /\ Closed(flow, status).interval = flow.interval
           /\ [Closed(flow, status) EXCEPT !.consumed = TRUE].nextPollAt = flow.nextPollAt
           /\ [Closed(flow, status) EXCEPT !.consumed = TRUE].interval = flow.interval
BY DEF TypeOK, Flows, Closed

LEMMA ClaimRefreshThrottle ==
    ASSUME TypeOK, NEW r \in Requests, NEW call, ClaimRefresh(r, call)
    PROVE  flow'.nextPollAt = flow.nextPollAt /\ flow'.interval = flow.interval
<1>1. CASE flow' = flow \/ flow' = Closed(flow, "expired")
  BY <1>1, ClosedThrottle
<1>2. CASE flow' = [flow EXCEPT !.generation = @ + 1, !.inProgress = TRUE,
                                !.startedAt = clock]
  BY <1>2 DEF TypeOK, Flows
<1> QED BY <1>1, <1>2 DEF ClaimRefresh, ExpireOAuthSession, session

\* A step leaves the throttle alone or is one of the two that move it on.
LEMMA ThrottleStep ==
    ASSUME TypeOK, [Next]_vars
    PROVE  \/ SameThrottle
           \/ clock' = clock /\ \E r \in Requests : ClaimPoll(r)
           \/ clock' = clock /\ PollSlowedDown
<1> USE DEF SameThrottle
<1>0. clock \in Nat
  BY DEF TypeOK
<1>1. ASSUME NEW r \in Requests, PollDevice(r), ~ClaimPoll(r) PROVE SameThrottle
  BY <1>0, <1>1, ClosedThrottle DEF PollDevice, ExpireFlow, Terminal
<1>2. ASSUME NEW r \in Requests, CompletePkce(r) \/ SwaggerLogin(r) PROVE SameThrottle
  <2>1. CASE \E status : flow' = Closed(flow, status)
    BY <1>0, <1>2, <2>1, ClosedThrottle DEF CompletePkce, SwaggerLogin
  <2>2. CASE flow' = [flow EXCEPT !.consumed = TRUE]
    BY <1>0, <1>2, <2>2 DEF CompletePkce, SwaggerLogin, TypeOK, Flows
  <2> QED BY <1>2, <2>1, <2>2 DEF CompletePkce, SwaggerLogin, ExpireFlow, Terminal
<1>3. ASSUME NEW r \in Requests, NEW force \in BOOLEAN,
             RefreshEndpoint(r) \/ Resolve(r, force)
      PROVE  SameThrottle
  BY <1>0, <1>3, ClaimRefreshThrottle DEF RefreshEndpoint, Resolve
<1>4. ASSUME NEW r \in Requests, FinishPoll(r), ~PollSlowedDown PROVE SameThrottle
  <2>1. CASE PollContinues
    BY <1>0, <1>4, <2>1 DEF FinishPoll, PollContinues, TypeOK, Flows
  <2>2. CASE flow' = flow \/ \E status : flow' = Closed(flow, status)
    BY <1>0, <1>4, <2>2, ClosedThrottle DEF FinishPoll
  <2> QED BY <1>4, <2>1, <2>2 DEF FinishPoll, TokenGranted, StoreToken, Terminal, session
<1>5. ASSUME NEW r \in Requests,
             FinishExchange(r) \/ Cancel(r) \/ WakeWaiter(r)
                \/ \E call \in {"refresh", "resolve"} : FinishRefresh(r, call)
      PROVE  SameThrottle
  <2>1. flow' = flow \/ \E status : flow' = Closed(flow, status)
    BY <1>5 DEF FinishExchange, Cancel, WakeWaiter, FinishRefresh, FailClaimedPkce,
       TokenGranted, RefreshSucceeds, RefreshFails, StoreToken, Terminal, session
  <2>2. clock' = clock
    BY <1>5 DEF FinishExchange, Cancel, WakeWaiter, FinishRefresh
  <2> QED BY <1>0, <2>1, <2>2, ClosedThrottle
<1>6. ASSUME NEW r \in Requests, FinishSwagger(r) PROVE SameThrottle
  <2>1. \E status : flow' = [flow EXCEPT !.status = status, !.sealed = FALSE]
    BY <1>6 DEF FinishSwagger
  <2> QED BY <1>0, <1>6, <2>1 DEF FinishSwagger, TypeOK, Flows
<1>7. ASSUME RejectPkce PROVE SameThrottle
  <2>1. \E status : \/ flow' = Closed(flow, status)
                    \/ flow' = [Closed(flow, status) EXCEPT !.consumed = TRUE]
    BY <1>7 DEF RejectPkce, Terminal
  <2>2. flow'.nextPollAt = flow.nextPollAt /\ flow'.interval = flow.interval
    BY <2>1, ClosedThrottle
  <2> QED BY <1>0, <1>7, <2>2 DEF RejectPkce
<1>8. CASE Revoke \/ RevokeOwner \/ Crash \/ Tick \/ UNCHANGED vars
  BY <1>0, <1>8 DEF Revoke, RevokeOwner, Crash, Tick, vars
<1> QED
  BY <1>1, <1>2, <1>3, <1>4, <1>5, <1>6, <1>7, <1>8
     DEF Next, Answered, PollDevice, FinishPoll

\* Each of the three keeps the distance and moves the throttle forward only.
LEMMA ThrottleForward ==
    ASSUME TypeOK, PollWithinInterval, [Next]_vars
    PROVE  /\ PollWithinInterval'
           /\ flow'.nextPollAt >= flow.nextPollAt /\ flow'.interval >= flow.interval
<1>1. /\ clock \in Nat /\ flow.nextPollAt \in Nat /\ flow.interval \in Nat
      /\ flow.startedAt \in Nat
  BY DEF TypeOK, Flows
<1>2. CASE SameThrottle
  <2>1. clock' \in Nat
    BY NextTyped DEF TypeOK
  <2> QED BY <1>1, <1>2, <2>1 DEF SameThrottle, PollWithinInterval
<1>3. ASSUME NEW r \in Requests, ClaimPoll(r), clock' = clock
      PROVE  /\ PollWithinInterval'
             /\ flow'.nextPollAt >= flow.nextPollAt /\ flow'.interval >= flow.interval
  <2>1. flow.nextPollAt <= clock
    <3>1. flow.startedAt + Lease \in Nat
      BY <1>1, Times
    <3> QED BY <1>1, <1>3, <3>1 DEF ClaimPoll, MustWait, Most
  <2>2. flow'.nextPollAt = clock + flow.interval /\ flow'.interval = flow.interval
    BY <1>3 DEF ClaimPoll, TypeOK, Flows
  <2> QED BY <1>1, <1>3, <2>1, <2>2 DEF PollWithinInterval
<1>4. CASE PollSlowedDown /\ clock' = clock
  <2>1. /\ flow'.nextPollAt = clock + flow.interval + SlowDown
        /\ flow'.interval = flow.interval + SlowDown
    BY <1>4 DEF PollSlowedDown, TypeOK, Flows
  <2> QED BY <1>1, <1>4, <2>1, Times DEF PollWithinInterval
<1> QED BY <1>2, <1>3, <1>4, ThrottleStep

\* The issuer's throttle is durable, whatever a poll ends with.
THEOREM ThrottleDurable == Spec => ThrottleNeverRelaxed
<1>1. Init => PollWithinInterval
  BY Times DEF Init, PollWithinInterval
<1>2. TypeOK /\ PollWithinInterval /\ [Next]_vars => PollWithinInterval'
  BY ThrottleForward
<1>3. TypeOK /\ PollWithinInterval /\ [Next]_vars
        => [flow'.nextPollAt >= flow.nextPollAt /\ flow'.interval >= flow.interval]_vars
  BY ThrottleForward
<1> QED BY <1>1, <1>2, <1>3, TypeCorrect, PTL DEF Spec, ThrottleNeverRelaxed

-----------------------------------------------------------------------------
(***************************************************************************)
(* The operations claimed on an authorization flow exclude each other:     *)
(* OneOperationPerLease and StateIsSingleUse hold of every reachable       *)
(* state.  Every step has one of four shapes (Quiet, Claims, Consumes,     *)
(* Ends); each shape preserves the inductive invariant.  From the same     *)
(* invariant: the sessions, flows and handlers implement FencedOperation.  *)
(***************************************************************************)

ClaimInvariant ==
    EndedFlowIsErased /\ OneOperationPerLease /\ StateIsSingleUse /\ ClaimsFollowFlow

-----------------------------------------------------------------------------
(* The shapes of the steps                                                 *)

\* No handler goes to the issuer.
NoneBegins ==
    \A s \in Requests : request'[s].pc = "posting" => request'[s] = request[s]

Quiet ==
    /\ NoneBegins
    /\ flow' = flow
    /\ clock' >= clock

Claims(r) ==
    /\ ~LeaseLive
    /\ flow.status \in {"pending", "ready"}
    /\ flow.status = "pending" => row.kind.flow = "device"
    /\ flow'.status = flow.status /\ flow'.sealed = flow.sealed
    /\ flow'.generation = flow.generation + 1
    /\ flow'.inProgress = TRUE /\ flow'.startedAt = clock
    /\ \E call \in {"poll", "refresh", "resolve"} :
          Begin(r, "posting", call, flow.generation + 1)
    /\ clock' = clock

Consumes(r) ==
    /\ flow.status = "pending" /\ row.kind.flow # "device" /\ ~flow.consumed
    /\ flow' = [flow EXCEPT !.consumed = TRUE]
    /\ \E call \in {"exchange", "login"} : Begin(r, "posting", call, 0)
    /\ clock' = clock

\* The claim is given up, with or without ending the flow. Those still at the
\* issuer have been overtaken, or find a flow that has failed or expired.
Ends ==
    /\ NoneBegins
    /\ flow'.generation = flow.generation
    /\ flow'.inProgress = FALSE /\ flow'.startedAt = 0
    /\ flow'.sealed <=> flow'.status = "pending"
    /\ flow'.status = "pending" => flow.status = "pending"
    /\ \A s \in Requests : request'[s].pc = "posting" =>
          /\ Claimed(s)
          /\ \/ request[s].generation < flow.generation
             \/ flow'.status \in {"expired", "failed"}
    /\ clock' = clock

-----------------------------------------------------------------------------
(* Each shape preserves the invariant                                      *)

\* A handler that is not idle holds a call, a generation and an instant.
LEMMA HandlerFields ==
    ASSUME TypeOK, NEW r \in Requests
    PROVE  /\ request[r].generation \in Nat /\ request[r].now \in Nat
           /\ request[r].pc = "posting" => request[r].call \in Calls
BY DEF TypeOK, HandlerStates, NoRequest

\* The handler at the issuer is either an exchange or a login, or a claim.
LEMMA PostingCalls ==
    ASSUME TypeOK, NEW r \in Requests, request[r].pc = "posting"
    PROVE  IsPosting(r, "exchange") \/ IsPosting(r, "login") \/ Claimed(r)
BY HandlerFields DEF Calls, IsPosting, Claimed

\* While nobody goes to the issuer, nothing the claims rest on changes.
LEMMA QuietStep ==
    ASSUME TypeOK, TypeOK', ClaimInvariant, Quiet, row'.kind = row.kind
    PROVE  ClaimInvariant'
<1>1. \A s \in Requests : Claimed(s)' => Claimed(s) /\ request'[s] = request[s]
  BY DEF Quiet, NoneBegins, Claimed
<1>2. EndedFlowIsErased'
  BY DEF Quiet, ClaimInvariant, EndedFlowIsErased
<1>3. OneOperationPerLease'
  BY <1>1 DEF ClaimInvariant, OneOperationPerLease
<1>4. StateIsSingleUse'
  BY DEF Quiet, NoneBegins, ClaimInvariant, StateIsSingleUse, IsPosting
<1>5. ClaimsFollowFlow'
  <2>1. ASSUME NEW s \in Requests, IsPosting(s, "exchange")' \/ IsPosting(s, "login")'
        PROVE  row'.kind.flow # "device" /\ request'[s].generation = 0
    BY <2>1 DEF Quiet, NoneBegins, ClaimInvariant, ClaimsFollowFlow, IsPosting
  <2>2. ASSUME NEW s \in Requests, Claimed(s)'
        PROVE  /\ 0 < request'[s].generation /\ request'[s].generation <= flow'.generation
               /\ request'[s].generation < flow'.generation =>
                    request'[s].now + Lease <= clock'
               /\ request'[s].generation = flow'.generation =>
                    \/ flow'.inProgress /\ flow'.startedAt = request'[s].now
                    \/ flow'.status \in {"expired", "failed"}
    <3>1. Claimed(s) /\ request'[s] = request[s] /\ flow' = flow
      BY <1>1, <2>2 DEF Quiet
    <3>2. /\ 0 < request[s].generation /\ request[s].generation <= flow.generation
          /\ request[s].generation < flow.generation => request[s].now + Lease <= clock
          /\ request[s].generation = flow.generation =>
               \/ flow.inProgress /\ flow.startedAt = request[s].now
               \/ flow.status \in {"expired", "failed"}
      BY <3>1 DEF ClaimInvariant, ClaimsFollowFlow
    <3>3. request[s].now + Lease <= clock => request[s].now + Lease <= clock'
      BY HandlerFields, Times DEF Quiet, TypeOK
    <3> QED BY <3>1, <3>2, <3>3
  <2>3. flow' = flow
    BY DEF Quiet
  <2> QED BY <2>1, <2>2, <2>3 DEF ClaimInvariant, ClaimsFollowFlow
<1> QED BY <1>2, <1>3, <1>4, <1>5 DEF ClaimInvariant

\* A claim is taken only when every earlier one has lost its lease.
LEMMA ClaimStep ==
    ASSUME TypeOK, TypeOK', ClaimInvariant, NEW r \in Requests, Claims(r),
           row'.kind = row.kind
    PROVE  ClaimInvariant'
<1>1. PICK call \in {"poll", "refresh", "resolve"} :
        request' = [request EXCEPT ![r] =
          [pc |-> "posting", call |-> call, generation |-> flow.generation + 1, now |-> clock]]
  BY DEF Claims, Begin
<1> DEFINE mine == [pc |-> "posting", call |-> call,
                    generation |-> flow.generation + 1, now |-> clock]
<1>2. request'[r] = mine /\ \A s \in Requests : s # r => request'[s] = request[s]
  BY <1>1 DEF TypeOK
<1>3. flow.generation \in Nat /\ clock \in Nat /\ flow.startedAt \in Nat /\ Lease \in Nat
  BY Times DEF TypeOK, Flows
\* Whoever else is at the issuer has lost its lease.
<1>4. \A s \in Requests : Claimed(s) =>
        request[s].generation <= flow.generation /\ request[s].now + Lease <= clock
  <2> TAKE s \in Requests
  <2> HAVE Claimed(s)
  <2>1. /\ request[s].generation <= flow.generation
        /\ request[s].generation < flow.generation => request[s].now + Lease <= clock
        /\ request[s].generation = flow.generation =>
             flow.inProgress /\ flow.startedAt = request[s].now
    BY DEF ClaimInvariant, ClaimsFollowFlow, Claims
  <2>2. CASE request[s].generation = flow.generation
    BY <1>3, <2>1, <2>2 DEF Claims, LeaseLive
  <2>3. CASE request[s].generation # flow.generation
    BY <1>3, <2>1, <2>3, HandlerFields
  <2> QED BY <2>1, <2>2, <2>3
<1>5. \A s \in Requests : ~IsPosting(s, "exchange") /\ ~IsPosting(s, "login")
  BY DEF Claims, ClaimInvariant, StateIsSingleUse, ClaimsFollowFlow
<1>6. \A s \in Requests : s # r /\ Claimed(s)' => Claimed(s)
  BY <1>2 DEF Claimed
<1>7. EndedFlowIsErased'
  BY DEF Claims, ClaimInvariant, EndedFlowIsErased
<1>8. OneOperationPerLease'
  <2> SUFFICES ASSUME NEW p \in Requests, NEW q \in Requests,
                      Claimed(p)', Claimed(q)', p # q
               PROVE  /\ request'[p].generation # request'[q].generation
                      /\ request'[p].generation < request'[q].generation =>
                            request'[p].now + Lease <= request'[q].now
    BY DEF OneOperationPerLease
  <2>1. CASE p # r /\ q # r
    BY <1>2, <1>6, <2>1 DEF ClaimInvariant, OneOperationPerLease
  <2>2. CASE p = r
    <3>1. request[q].generation <= flow.generation /\ request'[q] = request[q]
      BY <1>2, <1>4, <1>6, <2>2
    <3>2. request'[p].generation = flow.generation + 1
      BY <1>2, <2>2
    <3> QED BY <1>3, <3>1, <3>2, HandlerFields
  <2>3. CASE q = r
    <3>1. /\ request[p].generation <= flow.generation /\ request'[p] = request[p]
          /\ request[p].now + Lease <= clock
      BY <1>2, <1>4, <1>6, <2>3
    <3>2. request'[q].generation = flow.generation + 1 /\ request'[q].now = clock
      BY <1>2, <2>3
    <3> QED BY <1>3, <3>1, <3>2, HandlerFields
  <2> QED BY <2>1, <2>2, <2>3
<1>9. StateIsSingleUse'
  BY <1>2, <1>5 DEF StateIsSingleUse, IsPosting
<1>10. ClaimsFollowFlow'
  <2>1. /\ ~flow'.inProgress => flow'.startedAt = 0
        /\ flow'.inProgress => flow'.generation > 0
        /\ flow'.status = "pending" /\ row'.kind.flow # "device" => flow'.generation = 0
    BY <1>3 DEF Claims
  <2>2. \A s \in Requests : ~IsPosting(s, "exchange")' /\ ~IsPosting(s, "login")'
    BY <1>2, <1>5 DEF IsPosting
  <2>3. ASSUME NEW s \in Requests, Claimed(s)'
        PROVE  /\ 0 < request'[s].generation /\ request'[s].generation <= flow'.generation
               /\ request'[s].generation < flow'.generation =>
                    request'[s].now + Lease <= clock'
               /\ request'[s].generation = flow'.generation =>
                    \/ flow'.inProgress /\ flow'.startedAt = request'[s].now
                    \/ flow'.status \in {"expired", "failed"}
    <3>1. flow'.generation = flow.generation + 1 /\ clock' = clock
      BY DEF Claims
    <3>2. CASE s = r
      <4>1. request'[s].generation = flow.generation + 1 /\ request'[s].now = clock
        BY <1>2, <3>2
      <4> QED BY <1>3, <3>1, <4>1 DEF Claims
    <3>3. CASE s # r
      <4>1. /\ request'[s] = request[s]
            /\ request[s].generation <= flow.generation /\ request[s].now + Lease <= clock
            /\ 0 < request[s].generation
        BY <1>2, <1>4, <1>6, <2>3, <3>3 DEF ClaimInvariant, ClaimsFollowFlow
      <4> QED BY <1>3, <3>1, <4>1, HandlerFields
    <3> QED BY <3>2, <3>3
  <2> QED BY <2>1, <2>2, <2>3 DEF ClaimsFollowFlow
<1> QED BY <1>7, <1>8, <1>9, <1>10 DEF ClaimInvariant

\* A browser state is consumed only while nobody is at the issuer.
LEMMA ConsumeStep ==
    ASSUME TypeOK, TypeOK', ClaimInvariant, NEW r \in Requests, Consumes(r),
           row'.kind = row.kind
    PROVE  ClaimInvariant'
<1>1. PICK call \in {"exchange", "login"} :
        request' = [request EXCEPT ![r] =
          [pc |-> "posting", call |-> call, generation |-> 0, now |-> clock]]
  BY DEF Consumes, Begin
<1>2. /\ request'[r] = [pc |-> "posting", call |-> call, generation |-> 0, now |-> clock]
      /\ \A s \in Requests : s # r => request'[s] = request[s]
  BY <1>1 DEF TypeOK
<1>3. flow.generation = 0
  BY DEF Consumes, ClaimInvariant, ClaimsFollowFlow
<1>4. \A s \in Requests : request[s].pc # "posting"
  <2> SUFFICES ASSUME NEW s \in Requests, request[s].pc = "posting" PROVE FALSE
    OBVIOUS
  <2>1. CASE Claimed(s)
    <3>1. 0 < request[s].generation /\ request[s].generation <= 0
      BY <1>3, <2>1 DEF ClaimInvariant, ClaimsFollowFlow
    <3> QED BY <3>1, HandlerFields
  <2>2. CASE IsPosting(s, "exchange") \/ IsPosting(s, "login")
    BY <2>2 DEF Consumes, ClaimInvariant, StateIsSingleUse
  <2> QED BY <2>1, <2>2, PostingCalls
<1>5. \A s \in Requests : ~Claimed(s)'
  BY <1>2, <1>4 DEF Claimed
<1>6. /\ flow'.status = flow.status /\ flow'.sealed = flow.sealed
      /\ flow'.generation = flow.generation /\ flow'.inProgress = flow.inProgress
      /\ flow'.startedAt = flow.startedAt /\ flow'.consumed = TRUE
  BY DEF Consumes, TypeOK, Flows
<1>7. EndedFlowIsErased'
  BY <1>6 DEF ClaimInvariant, EndedFlowIsErased
<1>8. OneOperationPerLease'
  BY <1>5 DEF OneOperationPerLease
<1>9. StateIsSingleUse'
  <2>1. \A s \in Requests : request'[s].pc = "posting" => s = r
    BY <1>2, <1>4
  <2> QED BY <1>3, <1>6, <2>1 DEF StateIsSingleUse, IsPosting, Consumes
<1>10. ClaimsFollowFlow'
  <2>1. \A s \in Requests : IsPosting(s, "exchange")' \/ IsPosting(s, "login")' =>
          row'.kind.flow # "device" /\ request'[s].generation = 0
    BY <1>2, <1>4 DEF IsPosting, Consumes
  <2> QED BY <1>5, <1>6, <2>1 DEF ClaimInvariant, ClaimsFollowFlow
<1> QED BY <1>7, <1>8, <1>9, <1>10 DEF ClaimInvariant

\* Giving a claim up leaves only overtaken operations at the issuer.
LEMMA EndStep ==
    ASSUME TypeOK, TypeOK', ClaimInvariant, Ends, row'.kind = row.kind
    PROVE  ClaimInvariant'
<1>1. \A s \in Requests : Claimed(s)' => Claimed(s) /\ request'[s] = request[s]
  BY DEF Ends, NoneBegins, Claimed
<1>2. \A s \in Requests : ~IsPosting(s, "exchange")' /\ ~IsPosting(s, "login")'
  BY DEF Ends, NoneBegins, IsPosting, Claimed
<1>3. EndedFlowIsErased'
  BY DEF Ends, EndedFlowIsErased
<1>4. OneOperationPerLease'
  BY <1>1 DEF ClaimInvariant, OneOperationPerLease
<1>5. StateIsSingleUse'
  BY <1>2 DEF StateIsSingleUse
<1>6. ClaimsFollowFlow'
  <2>1. ASSUME NEW s \in Requests, Claimed(s)'
        PROVE  /\ 0 < request'[s].generation /\ request'[s].generation <= flow'.generation
               /\ request'[s].generation < flow'.generation =>
                    request'[s].now + Lease <= clock'
               /\ request'[s].generation = flow'.generation =>
                    \/ flow'.inProgress /\ flow'.startedAt = request'[s].now
                    \/ flow'.status \in {"expired", "failed"}
    <3>1. /\ Claimed(s) /\ request'[s] = request[s]
          /\ flow'.generation = flow.generation /\ clock' = clock
      BY <1>1, <2>1 DEF Ends
    <3>2. request[s].generation < flow.generation \/ flow'.status \in {"expired", "failed"}
      BY <2>1 DEF Ends, Claimed
    <3>3. /\ 0 < request[s].generation /\ request[s].generation <= flow.generation
          /\ request[s].generation < flow.generation => request[s].now + Lease <= clock
      BY <3>1 DEF ClaimInvariant, ClaimsFollowFlow
    <3>4. request[s].generation \in Nat /\ flow.generation \in Nat
      BY HandlerFields DEF TypeOK, Flows
    <3> QED BY <3>1, <3>2, <3>3, <3>4
  <2>2. flow'.status = "pending" /\ row'.kind.flow # "device" => flow'.generation = 0
    BY DEF Ends, ClaimInvariant, ClaimsFollowFlow
  <2> QED BY <1>2, <2>1, <2>2 DEF Ends, ClaimsFollowFlow
<1> QED BY <1>3, <1>4, <1>5, <1>6 DEF ClaimInvariant

-----------------------------------------------------------------------------
(* Every step has one of the shapes                                        *)

\* A handler that ends goes to nobody, and the others stay where they are.
LEMMA DoneShape ==
    ASSUME TypeOK, NEW r \in Requests, Done(r)
    PROVE  /\ NoneBegins
           /\ \A s \in Requests : request'[s].pc = "posting" => s # r /\ request'[s] = request[s]
BY DEF TypeOK, Done, NoneBegins, NoRequest

\* A handler that waits for another one's refresh is not at the issuer.
LEMMA WaitingShape ==
    ASSUME TypeOK, NEW r \in Requests, NEW call, NEW generation,
           Begin(r, "waiting", call, generation)
    PROVE  NoneBegins
BY DEF TypeOK, Begin, NoneBegins

\* Closing a flow changes nothing but its status, its secret and its claim.
LEMMA ClosedFields ==
    ASSUME TypeOK, NEW status
    PROVE  /\ Closed(flow, status).status = status
           /\ Closed(flow, status).sealed = FALSE
           /\ Closed(flow, status).inProgress = FALSE
           /\ Closed(flow, status).startedAt = 0
           /\ Closed(flow, status).generation = flow.generation
           /\ Closed(flow, status).consumed = flow.consumed
BY DEF TypeOK, Flows, Closed

\* A step that fails or expires the flow, whoever is at the issuer with a claim.
LEMMA FlowFails ==
    ASSUME TypeOK, NoneBegins, clock' = clock, NEW status \in {"expired", "failed"},
           \/ flow' = Closed(flow, status)
           \/ flow' = [Closed(flow, status) EXCEPT !.consumed = TRUE],
           \A s \in Requests : request'[s].pc = "posting" => Claimed(s)
    PROVE  Ends
<1>1. Closed(flow, status) \in Flows
  BY ClosedType DEF FlowStatuses
<1>2. /\ flow'.status = status /\ flow'.sealed = FALSE /\ flow'.inProgress = FALSE
      /\ flow'.startedAt = 0 /\ flow'.generation = flow.generation
  BY <1>1, ClosedFields DEF Flows
<1> QED BY <1>2 DEF Ends

\* While a claimed operation is at the issuer, no state is exchanged.
LEMMA ClaimExcludesExchange ==
    ASSUME ClaimInvariant, NEW r \in Requests, Claimed(r)
    PROVE  \A s \in Requests : ~IsPosting(s, "exchange") /\ ~IsPosting(s, "login")
BY DEF ClaimInvariant, StateIsSingleUse, Claimed, IsPosting

\* The one handler that has the current claim gives it up.
LEMMA HolderEnds ==
    ASSUME TypeOK, ClaimInvariant, NEW r \in Requests, Claimed(r), Holds(r), Done(r),
           clock' = clock,
           flow'.generation = flow.generation,
           flow'.inProgress = FALSE, flow'.startedAt = 0,
           flow'.sealed <=> flow'.status = "pending",
           flow'.status = "pending" => flow.status = "pending"
    PROVE  Ends
<1>1. \A s \in Requests : request'[s].pc = "posting" =>
        Claimed(s) /\ request[s].generation < flow.generation
  <2> SUFFICES ASSUME NEW s \in Requests, request'[s].pc = "posting"
               PROVE  Claimed(s) /\ request[s].generation < flow.generation
    OBVIOUS
  <2>1. s # r /\ request'[s] = request[s]
    BY DoneShape
  <2>2. Claimed(s)
    BY <2>1, PostingCalls, ClaimExcludesExchange
  <2>3. request[s].generation # request[r].generation
    BY <2>1, <2>2 DEF ClaimInvariant, OneOperationPerLease
  <2>4. request[s].generation <= flow.generation
    BY <2>2 DEF ClaimInvariant, ClaimsFollowFlow
  <2>5. flow.generation \in Nat
    BY DEF TypeOK, Flows
  <2> QED BY <2>2, <2>3, <2>4, <2>5, HandlerFields DEF Holds
<1>2. NoneBegins
  BY DoneShape
<1> QED BY <1>1, <1>2 DEF Ends

\* The handler that has exchanged a state is the only one at the issuer.
LEMMA ExchangeDone ==
    ASSUME TypeOK, ClaimInvariant, NEW r \in Requests,
           IsPosting(r, "exchange") \/ IsPosting(r, "login"), Done(r)
    PROVE  /\ NoneBegins
           /\ \A s \in Requests : request'[s].pc # "posting"
           /\ flow.generation = 0 /\ flow.inProgress = FALSE /\ flow.startedAt = 0
<1>1. \A s \in Requests : request[s].pc = "posting" => s = r
  BY DEF ClaimInvariant, StateIsSingleUse
<1>2. NoneBegins /\ \A s \in Requests : request'[s].pc # "posting"
  BY <1>1, DoneShape
<1>3. flow.generation = 0
  BY DEF ClaimInvariant, StateIsSingleUse
<1>4. flow.inProgress \in BOOLEAN
  BY DEF TypeOK, Flows
<1>5. flow.inProgress = FALSE /\ flow.startedAt = 0
  BY <1>3, <1>4 DEF ClaimInvariant, ClaimsFollowFlow
<1> QED BY <1>2, <1>3, <1>5

\* A flow that is not a pending browser flow has nobody exchanging its state.
LEMMA NobodyExchanges ==
    ASSUME ClaimInvariant, flow.status # "pending" \/ row.kind.flow = "device"
                           \/ ~flow.consumed
    PROVE  \A s \in Requests : ~IsPosting(s, "exchange") /\ ~IsPosting(s, "login")
BY DEF ClaimInvariant, StateIsSingleUse, ClaimsFollowFlow

\* Claiming a refresh, waiting for one, or finding that none is possible.
LEMMA ClaimRefreshShape ==
    ASSUME TypeOK, ClaimInvariant, NEW r \in Requests, IsIdle(r),
           NEW call \in {"refresh", "resolve"}, ClaimRefresh(r, call), clock' = clock,
           flow.status # "pending" \/ ~RowTimedOut
    PROVE  Quiet \/ Claims(r) \/ Ends
<1> clock \in Nat
  BY DEF TypeOK
<1>1. CASE RowTimedOut /\ ExpireOAuthSession /\ UNCHANGED request
  <2>1. \A s \in Requests : request'[s].pc = "posting" => Claimed(s)
    BY <1>1, NobodyExchanges, PostingCalls
  <2>2. NoneBegins
    BY <1>1 DEF NoneBegins
  <2>3. flow' = Closed(flow, "expired")
    BY <1>1 DEF ExpireOAuthSession
  <2>4. "expired" \in {"expired", "failed"}
    OBVIOUS
  <2>5. Ends
    BY <2>1, <2>2, <2>3, <2>4, FlowFails
  <2> QED BY <2>5
<1>2. CASE UNCHANGED <<flow, request>>
  BY <1>2 DEF Quiet, NoneBegins
<1>3. CASE Begin(r, "waiting", call, flow.generation) /\ UNCHANGED session
  BY <1>3, WaitingShape DEF Quiet, session
<1>4. CASE /\ AllReady /\ ~LeaseLive
           /\ flow' = [flow EXCEPT !.generation = @ + 1, !.inProgress = TRUE,
                                   !.startedAt = clock]
           /\ Begin(r, "posting", call, flow.generation + 1)
  BY <1>4 DEF Claims, AllReady, TypeOK, Flows
<1> QED BY <1>1, <1>2, <1>3, <1>4 DEF ClaimRefresh

\* Every step of the specification has a shape.
LEMMA StepShape ==
    ASSUME TypeOK, ClaimInvariant, [Next]_vars
    PROVE  Quiet \/ Ends \/ \E r \in Requests : Claims(r) \/ Consumes(r)
<1> clock \in Nat
  BY DEF TypeOK
<1> USE DEF FlowStatuses
<1>1. ASSUME NEW r \in Requests, PollDevice(r) PROVE Ends \/ Claims(r)
  <2>1. CASE ExpireFlow
    <3>1. \A s \in Requests : request'[s].pc = "posting" => Claimed(s)
      BY <1>1, <2>1, NobodyExchanges, PostingCalls DEF PollDevice, ExpireFlow
    <3>2. NoneBegins /\ flow' = Closed(flow, "expired") /\ clock' = clock
      BY <1>1, <2>1 DEF PollDevice, ExpireFlow, Terminal, NoneBegins
    <3>3. "expired" \in {"expired", "failed"}
      OBVIOUS
    <3>4. Ends
      BY <3>1, <3>2, <3>3, FlowFails
    <3> QED BY <3>4
  <2>2. CASE ClaimPoll(r)
    <3>1. ~LeaseLive
      <4>1. flow.startedAt + Lease \in Nat /\ flow.nextPollAt \in Nat
        BY Times DEF TypeOK, Flows
      <4> QED BY <2>2, <4>1 DEF ClaimPoll, MustWait, Most, LeaseLive
    <3>2. /\ flow'.status = flow.status /\ flow'.sealed = flow.sealed
          /\ flow'.generation = flow.generation + 1
          /\ flow'.inProgress = TRUE /\ flow'.startedAt = clock
      BY <2>2 DEF ClaimPoll, TypeOK, Flows
    <3> QED BY <1>1, <2>2, <3>1, <3>2 DEF PollDevice, ClaimPoll, Claims
  <2> QED BY <1>1, <2>1, <2>2 DEF PollDevice
<1>2. ASSUME NEW r \in Requests, CompletePkce(r) PROVE Ends \/ Consumes(r)
  <2>1. CASE ExpireFlow
    <3>1. \A s \in Requests : request'[s].pc = "posting" => Claimed(s)
      BY <1>2, <2>1, NobodyExchanges, PostingCalls
         DEF CompletePkce, PkceCallback, ExpireFlow
    <3>2. NoneBegins /\ flow' = Closed(flow, "expired") /\ clock' = clock
      BY <1>2, <2>1 DEF CompletePkce, ExpireFlow, Terminal, NoneBegins
    <3>3. "expired" \in {"expired", "failed"}
      OBVIOUS
    <3>4. Ends
      BY <3>1, <3>2, <3>3, FlowFails
    <3> QED BY <3>4
  <2>2. CASE flow' = [flow EXCEPT !.consumed = TRUE] /\ Begin(r, "posting", "exchange", 0)
    BY <1>2, <2>2 DEF CompletePkce, PkceCallback, Consumes
  <2> QED BY <1>2, <2>1, <2>2 DEF CompletePkce
<1>3. ASSUME NEW r \in Requests, SwaggerLogin(r) PROVE Consumes(r)
  BY <1>3 DEF SwaggerLogin, Consumes
<1>4. ASSUME NEW r \in Requests, RefreshEndpoint(r) PROVE Quiet \/ Claims(r) \/ Ends
  BY <1>4, ClaimRefreshShape DEF RefreshEndpoint
<1>5. ASSUME NEW r \in Requests, NEW force \in BOOLEAN, Resolve(r, force)
      PROVE  Quiet \/ Claims(r) \/ Ends
  <2>1. CASE UNCHANGED <<flow, request>>
    BY <1>5, <2>1 DEF Resolve, Quiet, NoneBegins
  <2>2. CASE ~RowTimedOut /\ ClaimRefresh(r, "resolve")
    <3>1. IsIdle(r) /\ clock' = clock /\ "resolve" \in {"refresh", "resolve"}
      BY <1>5 DEF Resolve
    <3> QED BY <2>2, <3>1, ClaimRefreshShape
  <2> QED BY <1>5, <2>1, <2>2 DEF Resolve
<1>6. ASSUME NEW r \in Requests, FinishPoll(r) PROVE Quiet \/ Ends
  <2>1. Claimed(r) /\ Done(r) /\ clock' = clock
    BY <1>6 DEF FinishPoll, IsPosting, Claimed
  <2>2. CASE UNCHANGED session
    BY <2>1, <2>2, DoneShape DEF Quiet, session
  <2>3. CASE flow.status = "pending" /\ Holds(r) /\ ~UNCHANGED session
    <3>1. CASE PollContinues \/ PollSlowedDown
      <4>1. /\ flow'.generation = flow.generation /\ flow'.status = flow.status
            /\ flow'.inProgress = FALSE /\ flow'.startedAt = 0 /\ flow'.sealed = flow.sealed
        BY <3>1 DEF PollContinues, PollSlowedDown, TypeOK, Flows
      <4>2. flow'.sealed <=> flow'.status = "pending"
        BY <4>1 DEF ClaimInvariant, EndedFlowIsErased
      <4> QED BY <2>1, <2>3, <4>1, <4>2, HolderEnds
    <3>2. CASE \E status \in {"ready", "expired", "failed"} : flow' = Closed(flow, status)
      BY <2>1, <2>3, <3>2, ClosedFields, HolderEnds
    <3>3. \/ PollContinues \/ PollSlowedDown
          \/ \E status \in {"ready", "expired", "failed"} : flow' = Closed(flow, status)
      BY <1>6, <2>3 DEF FinishPoll, TokenGranted, StoreToken, Terminal
    <3> QED BY <3>1, <3>2, <3>3
  <2> QED BY <1>6, <2>2, <2>3 DEF FinishPoll
<1>7. ASSUME NEW r \in Requests, IsPosting(r, "exchange"), Done(r), clock' = clock,
             FailClaimedPkce \/ TokenGranted(r)
      PROVE  Quiet \/ Ends
  <2>1. NoneBegins /\ \A s \in Requests : request'[s].pc # "posting"
    BY <1>7, ExchangeDone
  <2>2. CASE UNCHANGED session
    BY <1>7, <2>1, <2>2 DEF Quiet, session
  <2>3. CASE \E status \in {"ready", "failed"} : flow' = Closed(flow, status)
    BY <1>7, <2>1, <2>3, ClosedFields DEF Ends
  <2> QED BY <1>7, <2>2, <2>3 DEF FailClaimedPkce, TokenGranted, StoreToken, Terminal
<1>8. ASSUME NEW r \in Requests, FinishSwagger(r) PROVE Ends
  <2>1. /\ NoneBegins /\ \A s \in Requests : request'[s].pc # "posting"
        /\ flow.inProgress = FALSE /\ flow.startedAt = 0
    BY <1>8, ExchangeDone DEF FinishSwagger
  <2>2. PICK status \in {"ready", "failed"} :
          flow' = [flow EXCEPT !.status = status, !.sealed = FALSE]
    BY <1>8 DEF FinishSwagger
  <2>3. /\ flow'.status = status /\ flow'.sealed = FALSE
        /\ flow'.generation = flow.generation
        /\ flow'.inProgress = FALSE /\ flow'.startedAt = 0
    BY <2>1, <2>2 DEF TypeOK, Flows
  <2> QED BY <1>8, <2>1, <2>3 DEF FinishSwagger, Ends
<1>9. ASSUME NEW r \in Requests, NEW call \in {"refresh", "resolve"},
             FinishRefresh(r, call)
      PROVE  Quiet \/ Ends
  <2>1. Claimed(r) /\ Done(r) /\ clock' = clock
    BY <1>9 DEF FinishRefresh, IsPosting, Claimed
  <2>2. CASE UNCHANGED flow
    BY <2>1, <2>2, DoneShape DEF Quiet
  <2>3. CASE Holds(r) /\ \E status \in {"ready", "failed"} : flow' = Closed(flow, status)
    <3>1. PICK status \in {"ready", "failed"} : flow' = Closed(flow, status)
      BY <2>3
    <3>2. /\ flow'.generation = flow.generation /\ flow'.status = status
          /\ flow'.inProgress = FALSE /\ flow'.startedAt = 0 /\ flow'.sealed = FALSE
      BY <3>1, ClosedFields
    <3>3. status # "pending"
      BY <3>1
    <3> QED BY <2>1, <2>3, <3>2, <3>3, HolderEnds
  <2> QED
    BY <1>9, <2>2, <2>3 DEF FinishRefresh, RefreshSucceeds, RefreshFails, StoreToken
<1>10. ASSUME NEW r \in Requests, WakeWaiter(r) PROVE Quiet
  BY <1>10, DoneShape DEF WakeWaiter, Quiet
<1>11. ASSUME NEW r \in Requests, Cancel(r) PROVE Quiet \/ Ends
  <2>1. CASE IsPosting(r, "exchange")
    BY <1>7, <1>11, <2>1 DEF Cancel
  <2>2. CASE UNCHANGED session
    BY <1>11, <2>2, DoneShape DEF Cancel, Quiet, session
  <2> QED BY <1>11, <2>1, <2>2 DEF Cancel
<1>12. CASE RejectPkce
  <2>1. /\ NoneBegins /\ clock' = clock
        /\ \A s \in Requests : request'[s].pc = "posting" => Claimed(s)
    BY <1>12, NobodyExchanges, PostingCalls DEF RejectPkce, PkceCallback, NoneBegins
  <2>2. \E status \in {"expired", "failed"} :
          \/ flow' = Closed(flow, status)
          \/ flow' = [Closed(flow, status) EXCEPT !.consumed = TRUE]
    BY <1>12 DEF RejectPkce, Terminal
  <2> QED BY <2>1, <2>2, FlowFails
<1>13. CASE Revoke \/ RevokeOwner \/ Tick \/ UNCHANGED vars
  BY <1>13 DEF Revoke, RevokeOwner, Tick, vars, Quiet, NoneBegins
<1>14. CASE Crash
  BY <1>14 DEF Crash, Quiet, NoneBegins, NoRequest
<1> QED
  BY <1>1, <1>2, <1>3, <1>4, <1>5, <1>6, <1>7, <1>8, <1>9, <1>10, <1>11, <1>12,
     <1>13, <1>14 DEF Next, Answered, FinishExchange

\* The kind of a session never changes.
LEMMA KindFixed ==
    ASSUME TypeOK, [Next]_vars
    PROVE  row'.kind = row.kind
<1>1. row \in Rows
  BY DEF TypeOK
<1>2. \A status \in Statuses : [row EXCEPT !.status = status].kind = row.kind
  BY <1>1 DEF Rows
<1>3. ExpireRow => row'.kind = row.kind
  BY <1>1 DEF ExpireRow, Rows
<1>4. \A now : Served(row, now).kind = row.kind
  BY <1>1 DEF Served, Rows
<1>5. \A absolute : StoredRow(absolute).kind = row.kind
  BY <1>1 DEF StoredRow, Rows
<1>6. \A absolute, now : Served(StoredRow(absolute), now).kind = row.kind
  BY <1>1 DEF Served, StoredRow, Rows
<1>7. ASSUME NEW status, Terminal(status) PROVE row'.kind = row.kind
  BY <1>1, <1>7 DEF Terminal, Rows
<1>8. ASSUME NEW r \in Requests, TokenGranted(r) PROVE row'.kind = row.kind
  BY <1>5, <1>8 DEF TokenGranted
<1>9. ASSUME NEW r \in Requests, NEW call, ClaimRefresh(r, call) PROVE row'.kind = row.kind
  BY <1>3, <1>9 DEF ClaimRefresh, ExpireOAuthSession, RefreshRaises, session
<1>10. ASSUME NEW r \in Requests, PollDevice(r) \/ CompletePkce(r) \/ SwaggerLogin(r)
       PROVE  row'.kind = row.kind
  BY <1>7, <1>10 DEF PollDevice, CompletePkce, SwaggerLogin, ExpireFlow, ClaimPoll
<1>11. ASSUME NEW r \in Requests, NEW force \in BOOLEAN,
              RefreshEndpoint(r) \/ Resolve(r, force)
       PROVE  row'.kind = row.kind
  BY <1>3, <1>4, <1>9, <1>11 DEF RefreshEndpoint, Resolve
<1>12. ASSUME NEW r \in Requests, FinishPoll(r) \/ FinishExchange(r)
       PROVE  row'.kind = row.kind
  BY <1>7, <1>8, <1>12
     DEF FinishPoll, FinishExchange, FailClaimedPkce, PollContinues, PollSlowedDown, session
<1>13. ASSUME NEW r \in Requests, FinishSwagger(r) PROVE row'.kind = row.kind
  BY <1>1, <1>13 DEF FinishSwagger, Rows
<1>14. ASSUME NEW r \in Requests, NEW call \in {"refresh", "resolve"},
              FinishRefresh(r, call)
       PROVE  row'.kind = row.kind
  <2>1. CASE RefreshSucceeds(r, call)
    BY <1>5, <1>6, <2>1 DEF RefreshSucceeds
  <2>2. CASE RefreshFails(r, call)
    BY <1>2, <1>3, <2>2 DEF RefreshFails, RefreshRaises, Statuses
  <2> QED BY <1>14, <2>1, <2>2 DEF FinishRefresh
<1>15. ASSUME NEW r \in Requests, WakeWaiter(r) PROVE row'.kind = row.kind
  BY <1>3, <1>4, <1>15 DEF WakeWaiter, WaiterServed, WaiterFails, RefreshRaises
<1>16. ASSUME NEW r \in Requests, Cancel(r) PROVE row'.kind = row.kind
  BY <1>7, <1>16 DEF Cancel, FailClaimedPkce, session
<1>17. CASE RejectPkce
  BY <1>2, <1>7, <1>17 DEF RejectPkce, Statuses
<1>18. CASE Revoke
  BY <1>1, <1>18 DEF Revoke, Rows
<1>19. CASE RevokeOwner \/ Crash \/ Tick \/ UNCHANGED vars
  BY <1>19 DEF RevokeOwner, Crash, Tick, vars
<1> QED
  BY <1>10, <1>11, <1>12, <1>13, <1>14, <1>15, <1>16, <1>17, <1>18, <1>19
     DEF Next, Answered

-----------------------------------------------------------------------------
(* The theorems                                                            *)

\* The claims are tied to the flow in every reachable state.
THEOREM ClaimsCorrect == Spec => []ClaimInvariant
<1>1. Init => ClaimInvariant
  BY DEF Init, ClaimInvariant, EndedFlowIsErased, OneOperationPerLease,
         StateIsSingleUse, ClaimsFollowFlow, Claimed, IsPosting, NoRequest
<1>2. TypeOK /\ TypeOK' /\ ClaimInvariant /\ [Next]_vars => ClaimInvariant'
  BY StepShape, KindFixed, QuietStep, ClaimStep, ConsumeStep, EndStep
<1> QED BY <1>1, <1>2, TypeCorrect, PTL DEF Spec

\* Polls and refreshes single-flight: two of them are at the issuer together
\* only if the lease of the earlier one ran out before the later one claimed.
THEOREM SingleFlight == Spec => []OneOperationPerLease
<1>1. ClaimInvariant => OneOperationPerLease
  BY DEF ClaimInvariant
<1> QED BY <1>1, ClaimsCorrect, PTL

\* A browser state is exchanged once, and nothing ends the flow meanwhile.
THEOREM SingleUse == Spec => []StateIsSingleUse
<1>1. ClaimInvariant => StateIsSingleUse
  BY DEF ClaimInvariant
<1> QED BY <1>1, ClaimsCorrect, PTL

\* An ended flow keeps no device code or verifier and no claim.
THEOREM EndedFlow == Spec => []EndedFlowIsErased
<1>1. ClaimInvariant => EndedFlowIsErased
  BY DEF ClaimInvariant
<1> QED BY <1>1, ClaimsCorrect, PTL

-----------------------------------------------------------------------------
(* The claims implement FencedOperation                                    *)


\* Wiping a credential erases its token.
LEMMA WipedToken ==
    ASSUME TypeOK, NEW status
    PROVE  Wiped(status).token = 0 /\ Wiped(status).status = status
BY DEF TypeOK, Credentials, Wiped, Erased

\* A step that touches no claim and at most erases the token.
LEMMA ErasesOnly ==
    ASSUME clock' = clock, flow'.generation = flow.generation,
           flow'.inProgress = flow.inProgress, flow'.startedAt = flow.startedAt,
           credential'.token \in {0, credential.token}
    PROVE  [Fenced!Next]_(Fenced!vars)
BY DEF Fenced!Next, Fenced!Erase, Fenced!vars

\* A step that gives the claim up and at most erases the token.
LEMMA ReleasesOnly ==
    ASSUME clock' = clock, flow'.generation = flow.generation,
           flow'.inProgress = FALSE, flow'.startedAt = 0,
           credential'.token \in {0, credential.token}
    PROVE  [Fenced!Next]_(Fenced!vars)
BY DEF Fenced!Next, Fenced!Release, Fenced!Ended

\* A step by which the holder of the claim, or the one handler that has
\* consumed the state of an unclaimed flow, publishes its token.
LEMMA Publishes ==
    ASSUME clock' = clock, flow'.generation = flow.generation,
           flow'.inProgress = FALSE, flow'.startedAt = 0,
           flow.inProgress \/ flow.generation = 0,
           credential'.token = flow.generation + 1
    PROVE  [Fenced!Next]_(Fenced!vars)
BY DEF Fenced!Next, Fenced!Publish, Fenced!Ended

\* A step that claims the flow, on the terms of the abstract specification.
LEMMA ClaimsOnly ==
    ASSUME TypeOK, NEW r \in Requests, Claims(r), credential' = credential
    PROVE  [Fenced!Next]_(Fenced!vars)
<1>1. ~flow.inProgress \/ flow.startedAt + Lease <= clock
  BY Times DEF Claims, LeaseLive, TypeOK, Flows
<1> QED BY <1>1 DEF Claims, Fenced!Next, Fenced!Claim

\* Storing a token publishes it.
LEMMA StoreTokenPublishes ==
    ASSUME TypeOK, NEW generation \in Nat, NEW absolute, NEW refreshable,
           StoreToken(generation, absolute, refreshable), clock' = clock,
           flow.inProgress \/ flow.generation = 0, generation = flow.generation
    PROVE  [Fenced!Next]_(Fenced!vars) /\ credential'.token = flow.generation + 1
<1>1. flow' = Closed(flow, "ready") /\ credential'.token = flow.generation + 1
  BY DEF StoreToken
<1>2. /\ flow'.generation = flow.generation
      /\ flow'.inProgress = FALSE /\ flow'.startedAt = 0
  BY <1>1, ClosedFields
<1> QED BY <1>1, <1>2, Publishes

\* Ending the flow without a token releases the claim.
LEMMA TerminalReleases ==
    ASSUME TypeOK, NEW status, Terminal(status), clock' = clock
    PROVE  [Fenced!Next]_(Fenced!vars) /\ credential'.token = 0
BY ClosedFields, WipedToken, ReleasesOnly DEF Terminal

\* What a step does to the stored token.
FencedStep ==
    /\ [Fenced!Next]_(Fenced!vars)
    /\ credential'.token \in {0, credential.token, flow.generation + 1}

\* Every step is a step of the abstract specification, or stutters.
LEMMA StepImplements ==
    ASSUME TypeOK, ClaimInvariant, [Next]_vars
    PROVE  FencedStep
<1> USE DEF FencedStep
<1>1. ASSUME NEW r \in Requests, TokenGranted(r), clock' = clock,
             flow.inProgress \/ flow.generation = 0,
             request[r].generation = flow.generation
      PROVE  FencedStep
  BY <1>1, HandlerFields, StoreTokenPublishes DEF TokenGranted
<1>2. ASSUME ExpireRow PROVE credential'.token = 0
  BY <1>2, WipedToken DEF ExpireRow
<1>3. ASSUME NEW r \in Requests, NEW call \in {"refresh", "resolve"},
             ClaimRefresh(r, call), clock' = clock
      PROVE  FencedStep
  <2>1. CASE ExpireOAuthSession
    <3>1. flow' = Closed(flow, "expired") /\ credential'.token = 0
      BY <1>2, <2>1 DEF ExpireOAuthSession
    <3> QED BY <1>3, <3>1, ClosedFields, ReleasesOnly
  <2>2. CASE UNCHANGED flow /\ (RefreshRaises(call) \/ UNCHANGED credential)
    BY <1>2, <1>3, <2>2, ErasesOnly DEF RefreshRaises
  <2>3. CASE /\ AllReady /\ ~LeaseLive
             /\ flow' = [flow EXCEPT !.generation = @ + 1, !.inProgress = TRUE,
                                     !.startedAt = clock]
             /\ Begin(r, "posting", call, flow.generation + 1)
             /\ UNCHANGED credential
    <3>1. Claims(r)
      BY <1>3, <2>3 DEF Claims, AllReady, TypeOK, Flows
    <3> QED BY <2>3, <3>1, ClaimsOnly
  <2> QED BY <1>3, <2>1, <2>2, <2>3 DEF ClaimRefresh, session
<1>4. ASSUME NEW r \in Requests, PollDevice(r) PROVE FencedStep
  <2>1. CASE ExpireFlow
    BY <1>4, <2>1, TerminalReleases DEF PollDevice, ExpireFlow
  <2>2. CASE ClaimPoll(r)
    <3>1. ~flow.inProgress \/ flow.startedAt + Lease <= clock
      <4>1. flow.startedAt + Lease \in Nat /\ flow.nextPollAt \in Nat
        BY Times DEF TypeOK, Flows
      <4> QED BY <2>2, <4>1 DEF ClaimPoll, MustWait, Most, TypeOK
    <3>2. /\ flow'.generation = flow.generation + 1
          /\ flow'.inProgress = TRUE /\ flow'.startedAt = clock
      BY <2>2 DEF ClaimPoll, TypeOK, Flows
    <3> QED BY <1>4, <2>2, <3>1, <3>2 DEF PollDevice, ClaimPoll, Fenced!Next, Fenced!Claim
  <2> QED BY <1>4, <2>1, <2>2 DEF PollDevice
<1>5. ASSUME NEW r \in Requests, CompletePkce(r) \/ SwaggerLogin(r) PROVE FencedStep
  <2>1. CASE ExpireFlow /\ clock' = clock
    BY <2>1, TerminalReleases DEF ExpireFlow
  <2>2. CASE /\ flow' = [flow EXCEPT !.consumed = TRUE]
             /\ credential' = credential /\ clock' = clock
    BY <2>2, ErasesOnly DEF TypeOK, Flows
  <2> QED BY <1>5, <2>1, <2>2 DEF CompletePkce, SwaggerLogin
<1>6. ASSUME NEW r \in Requests, NEW force \in BOOLEAN,
             RefreshEndpoint(r) \/ Resolve(r, force)
      PROVE  FencedStep
  <2>1. CASE ClaimRefresh(r, "refresh") \/ ClaimRefresh(r, "resolve")
    BY <1>3, <1>6, <2>1 DEF RefreshEndpoint, Resolve
  <2>2. CASE UNCHANGED flow /\ (ExpireRow \/ UNCHANGED credential) /\ clock' = clock
    BY <1>2, <2>2, ErasesOnly
  <2> QED BY <1>6, <2>1, <2>2 DEF RefreshEndpoint, Resolve
<1>7. ASSUME NEW r \in Requests, FinishPoll(r) PROVE FencedStep
  <2>1. CASE TokenGranted(r) /\ Holds(r)
    BY <1>1, <1>7, <2>1 DEF FinishPoll, Holds
  <2>2. CASE PollContinues \/ PollSlowedDown
    <3>1. /\ flow'.generation = flow.generation /\ flow'.inProgress = FALSE
          /\ flow'.startedAt = 0 /\ credential' = credential
      BY <2>2 DEF PollContinues, PollSlowedDown, TypeOK, Flows
    <3> QED BY <1>7, <3>1, ReleasesOnly DEF FinishPoll
  <2>3. CASE \E status \in {"expired", "failed"} : Terminal(status)
    BY <1>7, <2>3, TerminalReleases DEF FinishPoll
  <2>4. CASE UNCHANGED session
    BY <1>7, <2>4, ErasesOnly DEF FinishPoll, session
  <2> QED BY <1>7, <2>1, <2>2, <2>3, <2>4 DEF FinishPoll
<1>8. ASSUME NEW r \in Requests, IsPosting(r, "exchange"), Done(r), clock' = clock,
             FailClaimedPkce \/ TokenGranted(r)
      PROVE  FencedStep
  <2>1. CASE TokenGranted(r)
    <3>1. flow.generation = 0 /\ request[r].generation = 0
      BY <1>8 DEF ClaimInvariant, StateIsSingleUse, ClaimsFollowFlow
    <3> QED BY <1>1, <1>8, <2>1, <3>1
  <2>2. CASE Terminal("failed")
    BY <1>8, <2>2, TerminalReleases
  <2>3. CASE UNCHANGED session
    BY <1>8, <2>3, ErasesOnly DEF session
  <2> QED BY <1>8, <2>1, <2>2, <2>3 DEF FailClaimedPkce
<1>9. ASSUME NEW r \in Requests, FinishSwagger(r) PROVE FencedStep
  <2>1. /\ flow.generation = 0 /\ flow.inProgress = FALSE /\ flow.startedAt = 0
        /\ clock' = clock
    BY <1>9, ExchangeDone DEF FinishSwagger
  <2>2. request[r].generation = 0
    BY <1>9 DEF FinishSwagger, ClaimInvariant, ClaimsFollowFlow
  <2>3. /\ flow'.generation = flow.generation
        /\ flow'.inProgress = FALSE /\ flow'.startedAt = 0
    BY <1>9, <2>1 DEF FinishSwagger, TypeOK, Flows
  <2>4. credential' = credential \/ credential'.token = flow.generation + 1
    BY <1>9, <2>1, <2>2 DEF FinishSwagger
  <2> QED BY <2>1, <2>3, <2>4, ReleasesOnly, Publishes
<1>10. ASSUME NEW r \in Requests, NEW call \in {"refresh", "resolve"},
              FinishRefresh(r, call)
       PROVE  FencedStep
  <2> clock' = clock
    BY <1>10 DEF FinishRefresh
  <2>1. CASE RefreshSucceeds(r, call)
    <3>1. /\ StoreToken(request[r].generation, row.absoluteExpires, TRUE)
          /\ flow.inProgress /\ request[r].generation = flow.generation
      BY <2>1 DEF RefreshSucceeds, Holds
    <3> QED BY <3>1, HandlerFields, StoreTokenPublishes
  <2>2. CASE flow' = Closed(flow, "failed") /\ credential'.token = 0
    BY <2>2, ClosedFields, ReleasesOnly
  <2>3. CASE UNCHANGED flow /\ credential'.token \in {0, credential.token}
    BY <2>3, ErasesOnly
  <2> QED
    BY <1>2, <1>10, <2>1, <2>2, <2>3, WipedToken
       DEF FinishRefresh, RefreshFails, RefreshRaises
<1>11. ASSUME NEW r \in Requests, WakeWaiter(r) PROVE FencedStep
  BY <1>2, <1>11, ErasesOnly
     DEF WakeWaiter, WaiterServed, WaiterFails, RefreshRaises
<1>12. ASSUME NEW r \in Requests, Cancel(r) PROVE FencedStep
  <2>1. CASE IsPosting(r, "exchange")
    BY <1>8, <1>12, <2>1 DEF Cancel
  <2>2. CASE UNCHANGED session
    BY <1>12, <2>2, ErasesOnly DEF Cancel, session
  <2> QED BY <1>12, <2>1, <2>2 DEF Cancel
<1>13. CASE RejectPkce
  <2>1. CASE Terminal("expired")
    BY <1>13, <2>1, TerminalReleases DEF RejectPkce
  <2>2. CASE /\ flow' = [Closed(flow, "failed") EXCEPT !.consumed = TRUE]
             /\ credential' = Wiped("failed")
    <3>1. Closed(flow, "failed") \in Flows
      BY ClosedType DEF FlowStatuses
    <3>2. /\ flow'.generation = flow.generation /\ flow'.inProgress = FALSE
          /\ flow'.startedAt = 0
      BY <2>2, <3>1, ClosedFields DEF Flows
    <3> QED BY <1>13, <2>2, <3>2, WipedToken, ReleasesOnly DEF RejectPkce
  <2> QED BY <1>13, <2>1, <2>2 DEF RejectPkce
<1>14. CASE Revoke
  BY <1>14, WipedToken, ErasesOnly DEF Revoke
<1>15. CASE RevokeOwner \/ Crash \/ UNCHANGED vars
  BY <1>15, ErasesOnly DEF RevokeOwner, Crash, vars
<1>16. CASE Tick
  BY <1>16 DEF Tick, Fenced!Next, Fenced!Tick
<1> QED
  BY <1>4, <1>5, <1>6, <1>7, <1>8, <1>9, <1>10, <1>11, <1>12, <1>13, <1>14, <1>15,
     <1>16 DEF Next, Answered, FinishExchange

\* The claims of polls, exchanges, logins and refreshes implement the abstract
\* fenced operation, whatever expires, revokes, cancels or crashes meanwhile.
THEOREM Implements == Spec => ImplementsFencedOperation
<1>1. Init => Fenced!Init
  BY DEF Init, Fenced!Init, Erased
<1>2. TypeOK /\ ClaimInvariant /\ [Next]_vars => [Fenced!Next]_(Fenced!vars)
  BY StepImplements DEF FencedStep
<1> QED
  BY <1>1, <1>2, TypeCorrect, ClaimsCorrect, PTL
     DEF Spec, ImplementsFencedOperation, Fenced!Spec

\* A late result never replaces the token of a newer operation.
THEOREM StaleResults == Spec => StaleResultNeverStored
<1>1. TypeOK /\ ClaimInvariant /\ [Next]_vars =>
        [credential'.token \notin {Erased, credential.token} =>
           credential'.token = flow.generation + 1]_vars
  BY StepImplements DEF FencedStep, Erased
<1> QED
  BY <1>1, TypeCorrect, ClaimsCorrect, PTL DEF Spec, StaleResultNeverStored
=============================================================================
