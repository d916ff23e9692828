-------------------------- MODULE ToolLogins_proofs --------------------------
(***************************************************************************)
(* Sessions with login data, for any number of sources, owners, sessions,  *)
(* requests and clients: what has ended stays ended and forgets the login  *)
(* data, and no token leaves its source or outlives its client.            *)
(***************************************************************************)
EXTENDS ToolLogins, FiniteSetTheorems, TLAPS

\* The end of all lifetimes is a natural above each of them.
LEMMA NeverIsLast ==
    /\ Never \in Nat
    /\ \A t \in 0..MaxTime :
          {t + AbsoluteTime, t + TokenTime, t + IdleTime, t} \subseteq Times
BY LoginAssumption DEF Never, Times

\* The earlier of two instants is bounded by each.
LEMMA LeastTimes ==
    ASSUME NEW a \in Nat, NEW b \in Times
    PROVE  Least(a, b) \in Times /\ Least(b, a) \in Times
BY NeverIsLast DEF Least, Times

\* A row that expires keeps its shape.
LEMMA ExpiredType == ASSUME NEW r \in Rows PROVE Expired(r) \in Rows
BY DEF Expired, Rows, Statuses

\* A login that is under way, and a token that is being fetched, are of what
\* was configured.
LEMMA ConfigType ==
    ASSUME TypeOK
    PROVE  /\ ConfigOfAll \in Sources \cup {None}
           /\ \A x \in Sources, mode \in BOOLEAN :
                 ConfigOf(x, mode) \in Sources \cup {None}
<1>1. \A x \in Sources, mode \in BOOLEAN : ConfigOf(x, mode) \in Sources \cup {None}
  BY DEF TypeOK, ConfigOf
<1>2. CASE Cardinality({x \in Sources : own[x]}) = 1 /\ \E x \in Sources : own[x]
  <2>1. (CHOOSE x \in Sources : own[x]) \in Sources
    BY <1>2
  <2>2. QED
    BY <1>1, <1>2, <2>1 DEF ConfigOfAll
<1>3. CASE Cardinality({x \in Sources : own[x]}) # 1
  BY <1>1, <1>3 DEF TypeOK, ConfigOfAll
<1>4. CASE ~\E x \in Sources : own[x]
  <2>1. {x \in Sources : own[x]} = {}
    BY <1>4
  <2>2. Cardinality({}) = 0
    BY FS_EmptySet
  <2>3. QED
    BY <1>1, <2>1, <2>2 DEF TypeOK, ConfigOfAll
<1>5. QED
  BY <1>2, <1>3, <1>4

-----------------------------------------------------------------------------
(* Types                                                                   *)

\* Times that the rows keep.
LEMMA RowTimes ==
    ASSUME TypeOK, NEW s \in Sessions
    PROVE  /\ row[s] \in Rows
           /\ row[s].idle \in Times /\ row[s].absolute \in Times
           /\ row[s].source \in Sources
BY DEF TypeOK, Rows

\* A session that is used keeps the shape of its row.
LEMMA UntilType ==
    ASSUME NEW t \in Times, NEW absolute \in Times
    PROVE  Until(t, absolute) \in Times
<1>1. t + IdleTime \in Nat
  BY LoginAssumption, NeverIsLast DEF Times
<1>2. QED
  BY <1>1, LeastTimes DEF Until

\* So does one that hands its token out.
LEMMA TouchedType ==
    ASSUME TypeOK, NEW s \in Sessions, NEW t \in Times
    PROVE  Touched(s, t) \in [Sessions -> Rows]
<1>1. Until(t, row[s].absolute) \in Times
  BY RowTimes, UntilType
<1>2. QED
  BY <1>1 DEF Touched, TypeOK, Rows

\* The clock is an instant.
LEMMA NowType == TypeOK => now \in Nat /\ now \in Times
BY NeverIsLast DEF TypeOK

\* The initial state is well typed.
LEMMA TypeInit == Init => TypeOK
<1>1. 0 \in Times /\ 0 \in 0..MaxTime
  BY LoginAssumption, NeverIsLast DEF Times
<1>2. \A o \in Owners, x \in Sources : Absent(o, x) \in Rows
  BY <1>1 DEF Absent, Rows, Statuses
<1>3. QED
  BY <1>1, <1>2 DEF Init, TypeOK, OwnerStates, Idle

\* A login that is answered keeps the types.
LEMMA CreateType ==
    ASSUME TypeOK, NEW c \in Calls, NEW s \in Sessions,
           NEW lifetime \in {TokenTime, Never}, Create(c, s, lifetime)
    PROVE  TypeOK'
<1> DEFINE absolute == now + Least(AbsoluteTime, lifetime)
<1>1. call[c] \in [step: {"login"}, owner: Owners, config: Sources]
  BY DEF TypeOK, Create, CallStates, Idle
<1>2. lifetime \in Nat /\ now \in Nat
  BY LoginAssumption, NeverIsLast, NowType
<1>3. absolute \in Times
  BY <1>2, LoginAssumption, NeverIsLast DEF Least, TypeOK, Times
<1>4. Until(now, absolute) \in Times
  BY <1>3, NowType, UntilType
<1> DEFINE expiry == Least(now + lifetime, Never)
<1>5. expiry \in Times
  <2>1. Never \in Times /\ now + lifetime \in Nat
    BY <1>2, NeverIsLast DEF Times
  <2>2. QED
    BY <2>1, LeastTimes
<1> HIDE DEF expiry
<1>6. [status |-> "ready", revoked |-> FALSE, owner |-> call[c].owner,
       source |-> call[c].config, login |-> TRUE, idle |-> Until(now, absolute),
       absolute |-> absolute, auth |-> expiry, ends |-> expiry,
       cred |-> "ready", token |-> call[c].config] \in Rows
  BY <1>1, <1>3, <1>4, <1>5 DEF Rows, Statuses
<1> HIDE DEF absolute
<1>7. row' = [row EXCEPT ![s] =
       [status |-> "ready", revoked |-> FALSE, owner |-> call[c].owner,
        source |-> call[c].config, login |-> TRUE, idle |-> Until(now, absolute),
        absolute |-> absolute, auth |-> expiry, ends |-> expiry,
        cred |-> "ready", token |-> call[c].config]]
  BY DEF Create, LoginSource, absolute, expiry
<1>8. row' \in [Sessions -> Rows]
  BY <1>6, <1>7 DEF TypeOK
<1>9. QED
  BY <1>8 DEF Create, TypeOK

\* Injected credentials keep the types.
LEMMA InjectType ==
    ASSUME TypeOK, NEW s \in Sessions, NEW o \in Owners, NEW x \in Sources,
           NEW lifetime \in {TokenTime, AbsoluteTime}, Inject(s, o, x, lifetime)
    PROVE  TypeOK'
<1>1. now + lifetime \in Times
  BY NeverIsLast DEF TypeOK
<1>2. Until(now, now + lifetime) \in Times
  BY <1>1, NowType, UntilType
<1>3. [status |-> "ready", revoked |-> FALSE, owner |-> o, source |-> x,
       login |-> FALSE, idle |-> Until(now, now + lifetime),
       absolute |-> now + lifetime, auth |-> Never, ends |-> now + lifetime,
       cred |-> "ready", token |-> x] \in Rows
  <2>1. Never \in Times
    BY NeverIsLast DEF Times
  <2>2. QED
    BY <1>1, <1>2, <2>1 DEF Rows, Statuses
<1>4. row' \in [Sessions -> Rows]
  BY <1>3 DEF Inject, TypeOK
<1>5. QED
  BY <1>4 DEF Inject, TypeOK

\* Each attempt of a call keeps the types.
LEMMA ResolveType ==
    ASSUME TypeOK, NEW c \in Calls, NEW s \in Sessions, NEW mode \in BOOLEAN,
           NEW forced \in BOOLEAN, Resolve(c, s, mode, forced)
    PROVE  TypeOK'
<1> DEFINE config == ConfigOf(row[s].source, mode)
           login == [step |-> "relogin", session |-> s, mode |-> mode,
                     config |-> config, at |-> now, forced |-> forced]
<1>1. CASE row' = [row EXCEPT ![s] = Expired(row[s])] /\ call' = [call EXCEPT ![c] = Idle]
  BY <1>1, ExpiredType DEF TypeOK, Resolve
<1>2. CASE config # None /\ call' = [call EXCEPT ![c] = login] /\ UNCHANGED row
  <2>1. config \in Sources
    BY <1>2, ConfigType, RowTimes
  <2>2. login \in CallStates
    BY <2>1, NowType DEF CallStates
  <2> HIDE DEF login
  <2>3. QED
    BY <1>2, <2>2 DEF TypeOK, Resolve
<1>3. CASE /\ row' = Touched(s, now)
           /\ call' = [call EXCEPT ![c] = [step |-> "sent", session |-> s, mode |-> mode]]
  <2>1. row' \in [Sessions -> Rows]
    BY <1>3, NowType, TouchedType
  <2>2. [step |-> "sent", session |-> s, mode |-> mode] \in CallStates
    BY DEF CallStates
  <2>3. QED
    BY <1>3, <2>1, <2>2 DEF TypeOK, Resolve
<1>4. QED
  BY <1>1, <1>2, <1>3 DEF Resolve

\* Both resolves of a call are such attempts.
LEMMA AttemptOfCall ==
    ASSUME TypeOK, NEW c \in Calls,
           (\E s \in Sessions : Invoke(c, s)) \/ Refused(c)
    PROVE  \E s \in Sessions, mode \in BOOLEAN, forced \in BOOLEAN :
              Resolve(c, s, mode, forced)
<1>1. ASSUME NEW s \in Sessions, Invoke(c, s)
      PROVE  \E mode \in BOOLEAN : Resolve(c, s, mode, FALSE)
  <2>1. own[row[s].source] \in BOOLEAN
    BY RowTimes DEF TypeOK
  <2>2. Resolve(c, s, own[row[s].source], FALSE)
    BY <1>1 DEF Invoke
  <2>3. QED
    BY <2>1, <2>2
<1>2. ASSUME Refused(c)
      PROVE  \E s \in Sessions, mode \in BOOLEAN : Resolve(c, s, mode, TRUE)
  <2>1. call[c].session \in Sessions /\ call[c].mode \in BOOLEAN
    BY <1>2 DEF TypeOK, Refused, CallStates, Idle
  <2>2. QED
    BY <1>2, <2>1 DEF Refused
<1>3. QED
  BY <1>1, <1>2

\* The answer of a re-login keeps the types.
LEMMA ReloginType ==
    ASSUME TypeOK, NEW c \in Calls, NEW lifetime \in {TokenTime, Never},
           Relogin(c, lifetime)
    PROVE  TypeOK'
<1> DEFINE s == call[c].session
           r == Stored(c, row[s], lifetime)
           touched == [r EXCEPT !.idle = Until(call[c].at, r.absolute)]
           next == IF call[c].forced THEN [step |-> "resent", session |-> s]
                   ELSE [step |-> "sent", session |-> s, mode |-> call[c].mode]
<1>1. /\ s \in Sessions /\ call[c].config \in Sources
      /\ call[c].at \in Times /\ call[c].forced \in BOOLEAN /\ call[c].mode \in BOOLEAN
  BY DEF TypeOK, Relogin, CallStates, Idle
<1>2. row[s] \in Rows /\ row[s].absolute \in Times
  BY <1>1, RowTimes
<1>3. now + lifetime \in Nat /\ Never \in Times
  BY NowType, LoginAssumption, NeverIsLast DEF Times
<1> DEFINE expiry == Least(now + lifetime, Never)
<1>4. expiry \in Times /\ Least(expiry, row[s].absolute) \in Times
  <2>1. expiry \in Times
    BY <1>3, LeastTimes
  <2>2. expiry \in Nat
    BY <2>1, NeverIsLast DEF Times
  <2>3. QED
    BY <1>2, <2>1, <2>2, LeastTimes
<1> HIDE DEF expiry
<1>5. r \in Rows /\ r.absolute = row[s].absolute
  <2>1. r = [row[s] EXCEPT
              !.auth = expiry,
              !.ends = IF LoginSource(c) = row[s].source
                       THEN Least(expiry, row[s].absolute) ELSE @,
              !.token = IF LoginSource(c) = row[s].source THEN call[c].config ELSE @]
    BY DEF Stored, expiry
  <2>2. QED
    BY <1>1, <1>2, <1>4, <2>1 DEF Rows
<1> HIDE DEF r
<1>6. Until(call[c].at, r.absolute) \in Times
  BY <1>1, <1>2, <1>5, UntilType
<1>7. touched \in Rows
  BY <1>5, <1>6 DEF Rows
<1>8. next \in CallStates
  BY <1>1 DEF CallStates
<1> HIDE DEF touched, next
<1>9. CASE row' = [row EXCEPT ![s] = touched] /\ call' = [call EXCEPT ![c] = next]
  BY <1>7, <1>8, <1>9 DEF TypeOK, Relogin
<1>10. CASE row' = [row EXCEPT ![s] = r] /\ call' = [call EXCEPT ![c] = Idle]
  BY <1>5, <1>10 DEF TypeOK, Relogin
<1>11. QED
  BY <1>9, <1>10 DEF Relogin, r, touched, next

\* Revocation keeps the types.
LEMMA RevokeType ==
    ASSUME TypeOK, NEW s \in Sessions, Revoke(s)
    PROVE  TypeOK'
<1>1. [row[s] EXCEPT !.status = "revoked", !.revoked = TRUE, !.login = FALSE,
                     !.cred = "revoked", !.token = None] \in Rows
  <2>1. row[s] \in Rows
    BY RowTimes
  <2>2. QED
    BY <2>1 DEF Rows, Statuses
<1>2. QED
  BY <1>1 DEF Revoke, TypeOK

\* Handlers that write no session.
LEMMA FetchType ==
    ASSUME TypeOK, NEW c \in Calls,
           (\E o \in Owners : Login(c, o)) \/ GiveUp(c) \/ Fetch(c) \/ Fetched(c)
    PROVE  TypeOK'
<1>1. CASE \E o \in Owners : Login(c, o)
  <2>1. PICK o \in Owners : Login(c, o)
    BY <1>1
  <2>2. [step |-> "login", owner |-> o, config |-> ConfigOfAll] \in CallStates
    BY <2>1, ConfigType DEF Login, CallStates
  <2>3. QED
    BY <2>1, <2>2 DEF Login, TypeOK
<1>2. CASE GiveUp(c)
  BY <1>2 DEF GiveUp, TypeOK
<1>3. CASE Fetch(c)
  <2>1. [step |-> "fetch", client |-> client.config] \in CallStates
    BY <1>3 DEF Fetch, TypeOK, CallStates
  <2>2. QED
    BY <1>3, <2>1 DEF Fetch, TypeOK
<1>4. CASE Fetched(c)
  <2>1. call[c].client \in Clients
    BY <1>4 DEF Fetched, TypeOK, CallStates, Idle
  <2>2. QED
    BY <1>4, <2>1 DEF Fetched, Cached, TypeOK
<1>5. QED
  BY <1>1, <1>2, <1>3, <1>4

\* Every step keeps the types.
LEMMA TypeNext == TypeOK /\ [Next]_vars => TypeOK'
<1> SUFFICES ASSUME TypeOK, [Next]_vars
             PROVE  TypeOK'
  OBVIOUS
<1>1. ASSUME NEW c \in Calls, CallStep(c)
      PROVE  TypeOK'
  BY <1>1, CreateType, AttemptOfCall, ResolveType, ReloginType, FetchType DEF CallStep
<1>2. ASSUME NEW s \in Sessions, SessionStep(s)
      PROVE  TypeOK'
  BY <1>2, RevokeType, InjectType DEF SessionStep
<1>3. ASSUME NEW k \in Clients, ConfigureClient(k)
      PROVE  TypeOK'
  BY <1>3 DEF ConfigureClient, TypeOK
<1>4. ASSUME NEW o \in Owners, RevokeOwner(o) \/ TurnExpiry(o)
      PROVE  TypeOK'
  BY <1>4 DEF RevokeOwner, TurnExpiry, TypeOK, OwnerStates
<1>5. ASSUME NEW x \in Sources \cup {None}, ConfigureGlobal(x)
      PROVE  TypeOK'
  BY <1>5 DEF ConfigureGlobal, TypeOK
<1>6. ASSUME NEW x \in Sources, NEW enabled \in BOOLEAN, ConfigureSource(x, enabled)
      PROVE  TypeOK'
  BY <1>6 DEF ConfigureSource, TypeOK
<1>7. CASE Tick
  BY <1>7, LoginAssumption DEF Tick, TypeOK
<1>8. CASE UNCHANGED vars
  BY <1>8 DEF vars, TypeOK
<1>9. QED
  BY <1>1, <1>2, <1>3, <1>4, <1>5, <1>6, <1>7, <1>8 DEF Next

\* Every reachable state is well typed.
THEOREM LoginsTypeCorrect == Spec => []TypeOK
BY TypeInit, TypeNext, PTL DEF Spec

-----------------------------------------------------------------------------
(* What has ended                                                          *)

\* The status of a credential follows that of its row, and only a ready
\* session has login data.
Ends(r) == r.cred = r.status /\ (r.status \in {"expired", "revoked"} => ~r.login)

EndsInv == \A s \in Sessions : Ends(row[s])

\* What a handler may do to a row: make it, write it as it is but for its
\* token and its deadlines, or end it.
RowStep(r, q) ==
    \/ r.status = "absent" /\ q.status = "ready" /\ q.cred = "ready"
    \/ q.status = r.status /\ q.cred = r.cred /\ q.login = r.login
    \/ q.status \in {"expired", "revoked"} /\ q.cred = q.status /\ ~q.login

\* A row after such a step has ended properly, if it has ended, and stays so.
LEMMA RowStepEnds ==
    ASSUME NEW r, NEW q, Ends(r), RowStep(r, q)
    PROVE  /\ Ends(q)
           /\ r.status \in {"expired", "revoked"} =>
                  q.status \in {"expired", "revoked"} /\ q.cred # "ready"
BY DEF Ends, RowStep

\* The re-login writes no status.
LEMMA StoredStep ==
    ASSUME NEW r \in Rows, NEW c, NEW lifetime, NEW t
    PROVE  /\ RowStep(r, Stored(c, r, lifetime))
           /\ RowStep(r, [Stored(c, r, lifetime) EXCEPT !.idle = t])
<1>1. /\ Stored(c, r, lifetime).status = r.status
      /\ Stored(c, r, lifetime).cred = r.cred
      /\ Stored(c, r, lifetime).login = r.login
  BY DEF Stored, Rows
<1>2. /\ [Stored(c, r, lifetime) EXCEPT !.idle = t].status = r.status
      /\ [Stored(c, r, lifetime) EXCEPT !.idle = t].cred = r.cred
      /\ [Stored(c, r, lifetime) EXCEPT !.idle = t].login = r.login
  BY DEF Stored, Rows
<1>3. QED
  BY <1>1, <1>2 DEF RowStep

\* Expiry ends a row.
LEMMA ExpiredStep == ASSUME NEW r \in Rows PROVE RowStep(r, Expired(r))
BY DEF Expired, Rows, RowStep

\* The handlers of a request.
LEMMA CallRowStep ==
    ASSUME TypeOK, NEW c \in Calls, CallStep(c), NEW s \in Sessions
    PROVE  RowStep(row[s], row'[s])
<1>1. row[s] \in Rows /\ RowStep(row[s], row[s])
  BY RowTimes DEF RowStep
<1>2. ASSUME UNCHANGED row
      PROVE  RowStep(row[s], row'[s])
  BY <1>1, <1>2
<1>3. ASSUME NEW u \in Sessions, NEW lifetime \in {TokenTime, Never},
             Create(c, u, lifetime)
      PROVE  RowStep(row[s], row'[s])
  BY <1>1, <1>3 DEF Create, TypeOK, RowStep
<1>4. CASE (\E u \in Sessions : Invoke(c, u)) \/ Refused(c)
  <2>1. PICK u \in Sessions, mode \in BOOLEAN, forced \in BOOLEAN :
            Resolve(c, u, mode, forced)
    BY <1>4, AttemptOfCall
  <2>2. CASE row' = [row EXCEPT ![u] = Expired(row[u])]
    BY <1>1, <2>2, ExpiredStep DEF TypeOK
  <2>3. CASE row' = Touched(u, now)
    BY <1>1, <2>3 DEF Touched, TypeOK, Rows, RowStep
  <2>4. QED
    BY <1>2, <2>1, <2>2, <2>3 DEF Resolve
<1>6. ASSUME NEW lifetime \in {TokenTime, Never}, Relogin(c, lifetime)
      PROVE  RowStep(row[s], row'[s])
  <2> DEFINE u == call[c].session
             r == Stored(c, row[u], lifetime)
             touched == [r EXCEPT !.idle = Until(call[c].at, r.absolute)]
  <2>1. CASE s = u
    <3>1. RowStep(row[u], r) /\ RowStep(row[u], touched)
      BY <1>1, <2>1, StoredStep
    <3>2. row'[u] = r \/ row'[u] = touched
      <4> HIDE DEF r, touched
      <4>1. row' = [row EXCEPT ![u] = r] \/ row' = [row EXCEPT ![u] = touched]
        BY <1>6 DEF Relogin, r, touched
      <4>2. QED
        BY <4>1, <2>1 DEF TypeOK
    <3>3. QED
      BY <2>1, <3>1, <3>2
  <2>2. CASE s # u
    BY <1>1, <1>6, <2>2 DEF Relogin, TypeOK
  <2>3. QED
    BY <2>1, <2>2
<1>7. CASE (\E o \in Owners : Login(c, o)) \/ GiveUp(c) \/ Fetch(c) \/ Fetched(c)
  BY <1>2, <1>7 DEF Login, GiveUp, Fetch, Fetched
<1>8. QED
  BY <1>3, <1>4, <1>6, <1>7 DEF CallStep

\* Every handler does to a row what RowStep says.
LEMMA EveryRowStep ==
    ASSUME TypeOK, Next, NEW s \in Sessions
    PROVE  RowStep(row[s], row'[s])
<1>1. row[s] \in Rows
  BY RowTimes
<1>2. ASSUME NEW u \in Sessions, SessionStep(u)
      PROVE  RowStep(row[s], row'[s])
  <2>1. CASE Revoke(u)
    BY <1>1, <2>1 DEF Revoke, TypeOK, Rows, RowStep
  <2>2. ASSUME NEW o \in Owners, NEW x \in Sources,
               NEW lifetime \in {TokenTime, AbsoluteTime}, Inject(u, o, x, lifetime)
        PROVE  RowStep(row[s], row'[s])
    BY <1>1, <2>2 DEF Inject, TypeOK, RowStep
  <2>3. QED
    BY <1>2, <2>1, <2>2 DEF SessionStep
<1>3. ASSUME UNCHANGED row
      PROVE  RowStep(row[s], row'[s])
  BY <1>3 DEF RowStep
<1>4. QED
  BY <1>2, <1>3, CallRowStep DEF Next, ConfigureClient, RevokeOwner, TurnExpiry,
     ConfigureGlobal, ConfigureSource, Tick

\* No session exists at first.
LEMMA EndsInit == Init => EndsInv
BY DEF Init, Absent, EndsInv, Ends

\* Every step keeps ended rows ended.
LEMMA EndsNext == TypeOK /\ EndsInv /\ [Next]_vars => EndsInv'
<1> SUFFICES ASSUME TypeOK, EndsInv, [Next]_vars
             PROVE  EndsInv'
  OBVIOUS
<1>1. CASE Next
  BY <1>1, EveryRowStep, RowStepEnds DEF EndsInv
<1>2. CASE UNCHANGED vars
  BY <1>2 DEF vars, EndsInv
<1>3. QED
  BY <1>1, <1>2

\* The inductive invariant of the rows.
THEOREM RowsEnd == Spec => []EndsInv
BY LoginsTypeCorrect, EndsInit, EndsNext, PTL DEF Spec

\* The login data of a session that has ended are gone for good.
THEOREM EndedForgets == Spec => []EndedForgetsLogin
<1>1. EndsInv => EndedForgetsLogin
  BY DEF EndsInv, Ends, EndedForgetsLogin
<1>2. QED
  BY <1>1, RowsEnd, PTL

\* A session that has ended never becomes ready again, whatever re-login was
\* on its way.
THEOREM EndedForGood == Spec => EndedStays
<1> DEFINE Stays == \A s \in Sessions : row[s].status \in {"expired", "revoked"} =>
                        row'[s].status \in {"expired", "revoked"} /\ row'[s].cred # "ready"
<1>1. TypeOK /\ EndsInv /\ [Next]_vars => [Stays]_vars
  BY EveryRowStep, RowStepEnds DEF EndsInv
<1>2. QED
  BY <1>1, LoginsTypeCorrect, RowsEnd, PTL DEF Spec, EndedStays

\* The token of a re-login is used only for a session that is still ready.
THEOREM ReloginReady == Spec => ReloginServesReady
<1> DEFINE Serves == \A c \in Calls :
                        call[c].step = "relogin" /\ call'[c].step \in {"sent", "resent"} =>
                            row[call[c].session].status = "ready"
<1>1. ASSUME TypeOK, EndsInv, Next, NEW c \in Calls, call[c].step = "relogin",
             call'[c].step \in {"sent", "resent"}
      PROVE  row[call[c].session].status = "ready"
  <2>1. call[c].session \in Sessions
    BY <1>1 DEF TypeOK, CallStates, Idle
  <2>2. PICK d \in Calls : CallStep(d) /\ call'[c] # call[c]
    BY <1>1 DEF Next, SessionStep, Revoke, Inject, ConfigureClient, RevokeOwner,
       TurnExpiry, ConfigureGlobal, ConfigureSource, Tick
  <2>3. d = c
    BY <1>1, <2>2, AttemptOfCall DEF CallStep, Login, Resolve, Relogin, Create, GiveUp,
       Fetch, Fetched, TypeOK
  <2>4. PICK lifetime \in {TokenTime, Never} : Relogin(c, lifetime)
    <3>1. ~(\E o \in Owners : Login(c, o)) /\ ~(\E u \in Sessions : Invoke(c, u))
      <4>1. call[c] # Idle
        BY <1>1 DEF Idle
      <4>2. ASSUME NEW o \in Owners, Login(c, o)
            PROVE  FALSE
        BY <4>1, <4>2 DEF Login
      <4>3. ASSUME NEW u \in Sessions, Invoke(c, u)
            PROVE  FALSE
        BY <4>1, <4>3 DEF Invoke
      <4>4. QED
        BY <4>2, <4>3
    <3>2. ~Refused(c) /\ ~Fetch(c) /\ ~Fetched(c)
      BY <1>1 DEF Refused, Fetch, Fetched, Idle
    <3>3. ~GiveUp(c)
      BY <1>1 DEF GiveUp, TypeOK, Idle
    <3>4. \A u \in Sessions, lifetime \in {TokenTime, Never} : ~Create(c, u, lifetime)
      BY <1>1 DEF Create
    <3>5. QED
      BY <2>2, <2>3, <3>1, <3>2, <3>3, <3>4 DEF CallStep
  <2>5. StillReady(c, call[c].session)
    BY <1>1, <2>4 DEF Relogin, TypeOK, Idle
  <2>6. QED
    BY <1>1, <2>1, <2>5 DEF StillReady, EndsInv, Ends
<1>2. TypeOK /\ EndsInv /\ [Next]_vars => [Serves]_vars
  BY <1>1
<1>3. QED
  BY <1>2, LoginsTypeCorrect, RowsEnd, PTL DEF Spec, ReloginServesReady

-----------------------------------------------------------------------------
(* Where tokens go                                                         *)

\* Whoever writes a token of a session writes one of the session's source.
LEMMA TokensNext == TypeOK /\ TokensStayHome /\ [Next]_vars => TokensStayHome'
<1> SUFFICES ASSUME TypeOK, TokensStayHome, [Next]_vars, NEW s \in Sessions
             PROVE  row'[s].token \in {None, row'[s].source}
  BY DEF TokensStayHome
<1>1. row[s] \in Rows /\ row[s].token \in {None, row[s].source}
  BY RowTimes DEF TokensStayHome
<1>2. ASSUME UNCHANGED row
      PROVE  row'[s].token \in {None, row'[s].source}
  BY <1>1, <1>2
<1>3. ASSUME NEW r \in Rows, r.token \in {None, r.source}
      PROVE  Expired(r).token \in {None, Expired(r).source}
  BY <1>3 DEF Expired, Rows
<1>4. ASSUME NEW c \in Calls, CallStep(c)
      PROVE  row'[s].token \in {None, row'[s].source}
  <2>1. ASSUME NEW u \in Sessions, NEW lifetime \in {TokenTime, Never},
               Create(c, u, lifetime)
        PROVE  row'[s].token \in {None, row'[s].source}
    BY <1>1, <2>1 DEF Create, LoginSource, TypeOK
  <2>2. CASE (\E u \in Sessions : Invoke(c, u)) \/ Refused(c)
    <3>1. PICK u \in Sessions, mode \in BOOLEAN, forced \in BOOLEAN :
              Resolve(c, u, mode, forced)
      BY <2>2, AttemptOfCall
    <3>2. CASE row' = [row EXCEPT ![u] = Expired(row[u])]
      BY <1>1, <1>3, <3>2 DEF TypeOK
    <3>3. CASE row' = Touched(u, now)
      BY <1>1, <3>3 DEF Touched, TypeOK, Rows
    <3>4. QED
      BY <1>2, <3>1, <3>2, <3>3 DEF Resolve
  <2>4. ASSUME NEW lifetime \in {TokenTime, Never}, Relogin(c, lifetime)
        PROVE  row'[s].token \in {None, row'[s].source}
    <3> DEFINE u == call[c].session
               r == Stored(c, row[u], lifetime)
               touched == [r EXCEPT !.idle = Until(call[c].at, r.absolute)]
    <3>1. CASE s = u
      <4>1. r.token \in {None, r.source}
        BY <1>1, <3>1 DEF Stored, LoginSource, Rows
      <4>2. touched.token \in {None, touched.source}
        BY <1>1, <3>1 DEF Stored, LoginSource, Rows
      <4>3. row'[u] = r \/ row'[u] = touched
        <5> HIDE DEF r, touched
        <5>1. row' = [row EXCEPT ![u] = r] \/ row' = [row EXCEPT ![u] = touched]
          BY <2>4 DEF Relogin, r, touched
        <5>2. QED
          BY <5>1, <3>1 DEF TypeOK
      <4>4. QED
        BY <3>1, <4>1, <4>2, <4>3
    <3>2. CASE s # u
      BY <1>1, <2>4, <3>2 DEF Relogin, TypeOK
    <3>3. QED
      BY <3>1, <3>2
  <2>5. CASE (\E o \in Owners : Login(c, o)) \/ GiveUp(c) \/ Fetch(c) \/ Fetched(c)
    BY <1>2, <2>5 DEF Login, GiveUp, Fetch, Fetched
  <2>6. QED
    BY <1>4, <2>1, <2>2, <2>4, <2>5 DEF CallStep
<1>5. ASSUME NEW u \in Sessions, SessionStep(u)
      PROVE  row'[s].token \in {None, row'[s].source}
  <2>1. CASE Revoke(u)
    BY <1>1, <2>1 DEF Revoke, TypeOK, Rows
  <2>2. ASSUME NEW o \in Owners, NEW x \in Sources,
               NEW lifetime \in {TokenTime, AbsoluteTime}, Inject(u, o, x, lifetime)
        PROVE  row'[s].token \in {None, row'[s].source}
    BY <1>1, <2>2 DEF Inject, TypeOK
  <2>3. QED
    BY <1>5, <2>1, <2>2 DEF SessionStep
<1>6. QED
  BY <1>2, <1>4, <1>5 DEF Next, ConfigureClient, RevokeOwner, TurnExpiry,
     ConfigureGlobal, ConfigureSource, Tick, vars

\* No token is ever stored for an API other than the one that issued it.
THEOREM TokensAtHome == Spec => []TokensStayHome
<1>1. Init => TokensStayHome
  BY DEF Init, Absent, TokensStayHome
<1>2. QED
  BY <1>1, TokensNext, LoginsTypeCorrect, PTL DEF Spec

\* A token is stored together with the client that fetched it.
LEMMA CachedNext == CachedTokenFits /\ [Next]_vars => CachedTokenFits'
<1> SUFFICES ASSUME CachedTokenFits, [Next]_vars
             PROVE  client'.token \in {None, client'.config}
  BY DEF CachedTokenFits
<1>1. client' = client \/ \E k : client' = Cached(k) \/ client' = [config |-> k, token |-> None]
  BY DEF Next, CallStep, Login, Create, Invoke, Refused, Resolve, Relogin, GiveUp,
     Fetch, Fetched, SessionStep, Revoke, Inject, ConfigureClient, RevokeOwner, TurnExpiry,
     ConfigureGlobal, ConfigureSource, Tick, vars
<1>2. QED
  BY <1>1 DEF Cached, CachedTokenFits

\* The cached token always belongs to the configured client.
THEOREM CachedFits == Spec => []CachedTokenFits
<1>1. Init => CachedTokenFits
  BY DEF Init, CachedTokenFits
<1>2. QED
  BY <1>1, CachedNext, PTL DEF Spec
=============================================================================
