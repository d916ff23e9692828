------------------------- MODULE EmbedAccess_proofs -------------------------
(***************************************************************************)
(* Proofs about EmbedAccess for every set of Agents, embeds, sessions,     *)
(* Tool Sessions and requests and every choice of the lifetimes.           *)
(***************************************************************************)
EXTENDS EmbedAccess, TLAPS

\* The lifetimes are naturals, and the tables have rows to point to.
LEMMA Lifetimes ==
    /\ IdleTime \in Nat /\ AbsoluteTime \in Nat /\ LoginTime \in Nat /\ GrantTime \in Nat
    /\ MaxTime \in Nat
    /\ Agents # {} /\ Embeds # {} /\ Sessions # {}
BY EmbedAssumption

\* The shorter of two lifetimes is one of them, and no longer than either.
LEMMA UntilBounds ==
    ASSUME NEW t \in Int, NEW limit \in Int
    PROVE  /\ Until(t, limit) \in {t, limit}
           /\ Until(t, limit) <= t /\ Until(t, limit) <= limit
<1> DEFINE S == {t, limit}
<1>1. \E x \in S : \A y \in S : x <= y
  <2>1. CASE t <= limit
    BY <2>1
  <2>2. CASE limit <= t
    BY <2>2
  <2> QED BY <2>1, <2>2
<1>2. Min(S) \in S /\ \A y \in S : Min(S) <= y
  <2> HIDE DEF S
  <2> QED BY <1>1 DEF Min
<1> QED BY <1>2 DEF Until

-----------------------------------------------------------------------------
(* The invariant                                                           *)

\* A grant counts its exchanges, and a login under way has none.
GrantsCount ==
    \A g \in ToolSessions :
        /\ access[g].exchanged <= 1
        /\ access[g].code # "spent" => access[g].exchanged = 0
        /\ access[g].login # "none" => access[g].status # "absent" /\ access[g].code = "none"
        /\ access[g].revoked => access[g].status # "absent"

\* A session that a request or a Tool Session names has been issued: only
\* then is its absolute expiry final.
SessionsIssued ==
    /\ \A q \in Requests :
         request[q] # Idle => session[request[q].session].state # "absent"
    /\ \A g \in ToolSessions :
         access[g].status # "absent" => session[access[g].session].state # "absent"

\* An open grant ends with its embed session.
GrantsEnd ==
    \A g \in ToolSessions :
        access[g].code = "open" =>
            /\ access[g].status # "absent"
            /\ access[g].expires <= session[access[g].session].absolute

GrantInvariant == GrantsCount /\ SessionsIssued /\ GrantsEnd

-----------------------------------------------------------------------------
(* The shapes of a step                                                    *)

\* Sessions that have been issued keep their absolute expiry.
SessionsKept ==
    \A s \in Sessions :
        session[s].state # "absent" =>
            /\ session'[s].state # "absent"
            /\ session'[s].absolute = session[s].absolute

\* Requests in flight keep their session; a new one comes with an open one.
RequestsKept ==
    \A q \in Requests :
        request'[q] # Idle =>
            \/ request[q] # Idle /\ request'[q].session = request[q].session
            \/ /\ request'[q].session \in Sessions
               /\ session[request'[q].session].state # "absent"

\* What a step may make of one Tool Session.
Same(g) == access'[g] = access[g]

Starts(g) ==
    /\ access'[g].status = "pending" /\ access'[g].code = "none"
    /\ access'[g].exchanged = 0 /\ ~access[g].revoked
    /\ session[access'[g].session].state # "absent"
    /\ access'[g].session \in Sessions

Moves(g) ==
    /\ access[g].status # "absent"
    /\ access'[g].session = access[g].session
    /\ access'[g].exchanged = access[g].exchanged
    /\ access'[g].code = access[g].code
    /\ access'[g].expires = access[g].expires \/ access[g].code = "none"
    /\ access'[g].status # "absent"
    /\ access'[g].login = "none" \/ access[g].login # "none"
    /\ access[g].revoked => access'[g].revoked

Grants(g) ==
    /\ access[g].status # "absent" /\ access[g].code = "none"
    /\ access'[g].session = access[g].session
    /\ access'[g].exchanged = access[g].exchanged
    /\ access'[g].code = "open" /\ access'[g].login = "none"
    /\ access'[g].status # "absent" /\ access'[g].revoked = access[g].revoked
    /\ access'[g].expires <= session[access[g].session].absolute

Spends(g) ==
    /\ CodeFits(g) /\ Deliverable(g)
    /\ access'[g].session = access[g].session
    /\ access'[g].status = "ready" /\ access'[g].code = "spent"
    /\ access'[g].login = access[g].login /\ access'[g].revoked = access[g].revoked
    /\ access'[g].exchanged = access[g].exchanged + 1

Shape(g) == Same(g) \/ Starts(g) \/ Moves(g) \/ Grants(g) \/ Spends(g)
AccessShape == \A g \in ToolSessions : Shape(g)

\* Steps of these shapes keep the invariant.
LEMMA ShapesKeep ==
    ASSUME TypeOK, GrantInvariant, SessionsKept, RequestsKept, AccessShape
    PROVE  GrantInvariant'
<1>1. \A g \in ToolSessions : access[g].session \in Sessions
  BY DEF TypeOK, AccessRows
<1>2. \A q \in Requests : request[q] # Idle => request[q].session \in Sessions
  BY DEF TypeOK, RequestStates
<1>3. GrantsCount'
  <2> SUFFICES ASSUME NEW g \in ToolSessions
               PROVE  /\ access'[g].exchanged <= 1
                      /\ access'[g].code # "spent" => access'[g].exchanged = 0
                      /\ access'[g].login # "none" =>
                           access'[g].status # "absent" /\ access'[g].code = "none"
                      /\ access'[g].revoked => access'[g].status # "absent"
    BY DEF GrantsCount
  <2> QED BY DEF AccessShape, Shape, Same, Starts, Moves, Grants, Spends,
                 CodeFits, GrantInvariant, GrantsCount
<1>4. SessionsIssued'
  <2>1. ASSUME NEW q \in Requests, request'[q] # Idle
        PROVE  session'[request'[q].session].state # "absent"
    BY <1>2, <2>1 DEF RequestsKept, SessionsKept, GrantInvariant, SessionsIssued
  <2>2. ASSUME NEW g \in ToolSessions, access'[g].status # "absent"
        PROVE  session'[access'[g].session].state # "absent"
    BY <1>1, <2>2 DEF AccessShape, Shape, Same, Starts, Moves, Grants, Spends,
       Deliverable, SessionsKept, GrantInvariant, SessionsIssued
  <2> QED BY <2>1, <2>2 DEF SessionsIssued
<1>5. GrantsEnd'
  <2> SUFFICES ASSUME NEW g \in ToolSessions, access'[g].code = "open"
               PROVE  /\ access'[g].status # "absent"
                      /\ access'[g].expires <= session'[access'[g].session].absolute
    BY DEF GrantsEnd
  <2>1. CASE Same(g) \/ Moves(g)
    <3>1. access[g].code = "open" /\ access'[g].status # "absent"
      BY <2>1 DEF Same, Moves, GrantInvariant, GrantsEnd
    <3>2. access'[g].session = access[g].session /\ access'[g].expires = access[g].expires
      BY <2>1, <3>1 DEF Same, Moves
    <3>3. session'[access[g].session].absolute = session[access[g].session].absolute
      BY <1>1, <3>1 DEF SessionsKept, GrantInvariant, GrantsEnd, SessionsIssued
    <3> QED BY <3>1, <3>2, <3>3 DEF GrantInvariant, GrantsEnd
  <2>2. CASE Grants(g)
    <3>1. session'[access[g].session].absolute = session[access[g].session].absolute
      BY <1>1, <2>2 DEF Grants, SessionsKept, GrantInvariant, SessionsIssued
    <3> QED BY <2>2, <3>1 DEF Grants
  <2> QED BY <2>1, <2>2 DEF AccessShape, Shape, Starts, Spends
<1> QED BY <1>3, <1>4, <1>5 DEF GrantInvariant

-----------------------------------------------------------------------------
(* Every step keeps the types and has such a shape                         *)

\* Records of the tables.
LEMMA Rows ==
    ASSUME TypeOK
    PROVE  /\ \A s \in Sessions : session[s] \in SessionRows
           /\ \A g \in ToolSessions : access[g] \in AccessRows /\ access[g].session \in Sessions
           /\ \A q \in Requests : request[q] # Idle =>
                 request[q] \in RequestStates /\ request[q].session \in Sessions
BY DEF TypeOK, AccessRows, RequestStates

\* An instant and what may come of it are on the clock's scale.
LEMMA Instants ==
    ASSUME TypeOK
    PROVE  /\ now \in Nat /\ now <= MaxTime
           /\ now + IdleTime \in Times /\ now + AbsoluteTime \in Times
           /\ now + LoginTime \in Int /\ now + GrantTime \in Int
           /\ \A t \in Times : t \in Nat
           /\ \A t \in Int, limit \in Times : Until(t, limit) \in Int
           /\ \A t \in Nat, limit \in Times : Until(t, limit) \in Times
           /\ \A t \in Int, limit \in Times : Until(t, limit) <= limit
<1>1. now \in Nat /\ now <= MaxTime
  BY Lifetimes DEF TypeOK
<1>2. /\ now + IdleTime \in Times /\ now + AbsoluteTime \in Times
      /\ now + LoginTime \in Int /\ now + GrantTime \in Int
      /\ \A t \in Times : t \in Nat
  BY <1>1, Lifetimes DEF Times
<1>3. ASSUME NEW t \in Int, NEW limit \in Times
      PROVE  Until(t, limit) \in Int /\ Until(t, limit) <= limit
  BY <1>2, <1>3, UntilBounds
<1>4. ASSUME NEW t \in Nat, NEW limit \in Times PROVE Until(t, limit) \in Times
  <2>1. /\ Until(t, limit) \in {t, limit} /\ Until(t, limit) <= limit /\ limit \in Nat
    BY <1>2, <1>4, UntilBounds
  <2> QED BY <2>1, <1>4, Lifetimes DEF Times
<1> QED BY <1>1, <1>2, <1>3, <1>4

\* What a step has to show.
Good == TypeOK' /\ SessionsKept /\ RequestsKept /\ AccessShape

\* A step that leaves sessions, Tool Sessions and requests alone.
LEMMA ElsewhereGood ==
    ASSUME TypeOK, UNCHANGED <<session, access, request>>,
           agent' \in [Agents -> AgentStates], now' \in 0..MaxTime,
           embed' \in [Embeds -> EmbedRows]
    PROVE  Good
<1>1. TypeOK'
  BY DEF TypeOK
<1> QED BY <1>1 DEF Good, SessionsKept, RequestsKept, AccessShape, Shape, Same

\* A step of the administration or of the clock.
LEMMA AdministrationGood ==
    ASSUME TypeOK,
           \/ \E a \in Agents, state \in AgentStates : SwitchAgent(a, state)
           \/ \E e \in Embeds : EmbedStep(e)
           \/ Tick
           \/ UNCHANGED vars
    PROVE  Good
<1>1. ASSUME NEW a \in Agents, NEW state \in AgentStates, SwitchAgent(a, state) PROVE Good
  BY <1>1, ElsewhereGood DEF SwitchAgent, TypeOK
<1>2. ASSUME NEW e \in Embeds, EmbedStep(e) PROVE Good
  <2>1. embed' \in [Embeds -> EmbedRows]
    BY <1>2 DEF EmbedStep, UpdateEmbed, CreateEmbed, DeleteEmbed, TypeOK, EmbedRows
  <2>2. UNCHANGED <<agent, now, session, access, request>>
    BY <1>2 DEF EmbedStep, UpdateEmbed, CreateEmbed, DeleteEmbed
  <2> QED BY <2>1, <2>2, ElsewhereGood DEF TypeOK
<1>3. CASE Tick
  <2>1. now' \in 0..MaxTime
    BY <1>3, Lifetimes DEF Tick, TypeOK
  <2> QED BY <1>3, <2>1, ElsewhereGood DEF Tick, TypeOK
<1>4. CASE UNCHANGED vars
  BY <1>4, ElsewhereGood DEF vars, TypeOK
<1> QED BY <1>1, <1>2, <1>3, <1>4

\* A step of the sessions: one is issued, or one that has expired is revoked.
LEMMA SessionGood ==
    ASSUME TypeOK, NEW s \in Sessions, SessionStep(s)
    PROVE  Good
<1>1. UNCHANGED <<agent, now, embed, access, request>>
  BY DEF SessionStep, IssueSession, ExpireSession
<1>2. ASSUME NEW e \in Embeds, IssueSession(s, e)
      PROVE  session' \in [Sessions -> SessionRows] /\ SessionsKept
  <2> DEFINE new == [state |-> "open", embed |-> e,
                     idle |-> now + IdleTime, absolute |-> now + AbsoluteTime]
  <2>1. new \in SessionRows
    BY Instants DEF SessionRows
  <2>2. session' = [session EXCEPT ![s] = new] /\ session[s].state = "absent"
    BY <1>2 DEF IssueSession
  <2> HIDE DEF new
  <2> QED BY <2>1, <2>2 DEF TypeOK, SessionsKept
<1>3. ASSUME ExpireSession(s)
      PROVE  session' \in [Sessions -> SessionRows] /\ SessionsKept
  BY <1>3 DEF ExpireSession, TypeOK, SessionRows, SessionsKept
<1>4. session' \in [Sessions -> SessionRows] /\ SessionsKept
  BY <1>2, <1>3 DEF SessionStep
<1>5. TypeOK'
  BY <1>1, <1>4 DEF TypeOK
<1>6. RequestsKept /\ AccessShape
  BY <1>1 DEF RequestsKept, AccessShape, Shape, Same
<1> QED BY <1>4, <1>5, <1>6 DEF Good

\* A request that ends, or goes on with the session it has.
LEMMA RequestGood ==
    ASSUME TypeOK, NEW q \in Requests, request[q] # Idle,
           \/ request' = [request EXCEPT ![q] = Idle]
           \/ request' = [request EXCEPT ![q].at = "noted"]
    PROVE  request' \in [Requests -> RequestStates \cup {Idle}] /\ RequestsKept
<1>1. request[q] \in RequestStates
  BY DEF TypeOK
<1>2. CASE request' = [request EXCEPT ![q] = Idle]
  BY <1>2 DEF TypeOK, RequestsKept
<1>3. CASE request' = [request EXCEPT ![q].at = "noted"]
  <2> DEFINE next == [request[q] EXCEPT !.at = "noted"]
  <2>1. next \in RequestStates /\ next.session = request[q].session
    BY <1>1 DEF RequestStates
  <2>2. request' = [request EXCEPT ![q] = next]
    BY <1>3 DEF TypeOK
  <2> HIDE DEF next
  <2> QED BY <2>1, <2>2 DEF TypeOK, RequestsKept
<1> QED BY <1>2, <1>3

\* Sessions and Tool Sessions as they are.
LEMMA OnlyRequests ==
    ASSUME TypeOK, UNCHANGED <<agent, now, embed, session, access>>,
           request' \in [Requests -> RequestStates \cup {Idle}], RequestsKept
    PROVE  Good
<1>1. TypeOK'
  BY DEF TypeOK
<1> QED BY <1>1 DEF Good, SessionsKept, AccessShape, Shape, Same

\* One row of access is replaced by a row of a shape.
LEMMA AccessGood ==
    ASSUME TypeOK, UNCHANGED <<agent, now, embed, session>>,
           request' \in [Requests -> RequestStates \cup {Idle}], RequestsKept,
           NEW g \in ToolSessions, NEW row \in AccessRows,
           access' = [access EXCEPT ![g] = row], Shape(g)
    PROVE  Good
<1>1. TypeOK'
  BY DEF TypeOK
<1>2. \A h \in ToolSessions : h # g => Same(h)
  BY DEF TypeOK, Same
<1>3. AccessShape
  BY <1>2 DEF AccessShape, Shape
<1> QED BY <1>1, <1>3 DEF Good, SessionsKept

\* A request is authenticated, is noted, revokes its session or ends.
LEMMA HandlerGood ==
    ASSUME TypeOK, NEW q \in Requests,
           \/ \E s \in Sessions, action \in Actions : Authenticate(q, s, action)
           \/ NoteSeen(q) \/ RevokeSession(q) \/ Drop(q)
    PROVE  Good
<1>1. ASSUME NEW s \in Sessions, NEW action \in Actions, Authenticate(q, s, action)
      PROVE  Good
  <2> DEFINE new == [at |-> "checked", action |-> action, session |-> s]
  <2>1. new \in RequestStates /\ new.session = s
    BY Rows DEF RequestStates, SessionRows
  <2>2. /\ request' = [request EXCEPT ![q] = new] /\ session[s].state = "open"
        /\ UNCHANGED <<agent, now, embed, session, access>>
    BY <1>1 DEF Authenticate, Open
  <2> HIDE DEF new
  <2>3. request' \in [Requests -> RequestStates \cup {Idle}] /\ RequestsKept
    BY <2>1, <2>2 DEF TypeOK, RequestsKept
  <2> QED BY <2>2, <2>3, OnlyRequests
<1>2. CASE NoteSeen(q)
  <2> DEFINE s == request[q].session
             idle == Until(now + IdleTime, session[s].absolute)
             seen == [session[s] EXCEPT !.idle = idle]
  <2>1. /\ request[q] # Idle
        /\ session' = [session EXCEPT ![s] = seen]
        /\ request' = [request EXCEPT ![q].at = "noted"]
        /\ UNCHANGED <<agent, now, embed, access>>
    BY <1>2 DEF NoteSeen, Touched, TypeOK
  <2>2. s \in Sessions /\ session[s] \in SessionRows
    BY <2>1, Rows
  <2>3. idle \in Times
    <3>1. session[s].absolute \in Times /\ now + IdleTime \in Nat
      BY <2>2, Instants DEF SessionRows
    <3> QED BY <3>1, Instants
  <2>4. /\ seen \in SessionRows /\ seen.state = session[s].state
        /\ seen.absolute = session[s].absolute
    BY <2>2, <2>3 DEF SessionRows
  <2>5. request' \in [Requests -> RequestStates \cup {Idle}] /\ RequestsKept
    BY <2>1, RequestGood
  <2> HIDE DEF s, seen, idle
  <2>6. session' \in [Sessions -> SessionRows] /\ SessionsKept
    BY <2>1, <2>2, <2>4 DEF TypeOK, SessionsKept
  <2>7. TypeOK'
    BY <2>1, <2>5, <2>6 DEF TypeOK
  <2> QED BY <2>1, <2>5, <2>6, <2>7 DEF Good, AccessShape, Shape, Same
<1>3. CASE RevokeSession(q)
  <2> DEFINE s == request[q].session
             revoked == [session[s] EXCEPT !.state = "revoked"]
  <2>1. /\ request[q] # Idle
        /\ session' = [session EXCEPT ![s] = revoked]
        /\ request' = [request EXCEPT ![q] = Idle]
        /\ UNCHANGED <<agent, now, embed, access>>
    BY <1>3 DEF RevokeSession, Handles, TypeOK
  <2>2. s \in Sessions /\ session[s] \in SessionRows
    BY <2>1, Rows
  <2>3. /\ revoked \in SessionRows /\ revoked.state = "revoked"
        /\ revoked.absolute = session[s].absolute
    BY <2>2 DEF SessionRows
  <2>4. request' \in [Requests -> RequestStates \cup {Idle}] /\ RequestsKept
    BY <2>1, RequestGood
  <2> HIDE DEF s, revoked
  <2>5. session' \in [Sessions -> SessionRows] /\ SessionsKept
    BY <2>1, <2>2, <2>3 DEF TypeOK, SessionsKept
  <2>6. TypeOK'
    BY <2>1, <2>4, <2>5 DEF TypeOK
  <2> QED BY <2>1, <2>4, <2>5, <2>6 DEF Good, AccessShape, Shape, Same
<1>4. CASE Drop(q)
  BY <1>4, RequestGood, OnlyRequests DEF Drop
<1> QED BY <1>1, <1>2, <1>3, <1>4

-----------------------------------------------------------------------------
(* Logins, grants and logouts                                              *)

\* A login is started for the session of the request.
LEMMA StartGood ==
    ASSUME TypeOK, GrantInvariant, NEW q \in Requests, NEW g \in ToolSessions,
           StartLogin(q, g)
    PROVE  Good
<1> DEFINE s == request[q].session
           row == [status |-> "pending", session |-> s, revoked |-> FALSE,
                   login |-> "open", code |-> "none", exchanged |-> 0,
                   expires |-> Until(now + LoginTime, session[s].absolute)]
<1>1. /\ request[q] # Idle /\ access' = [access EXCEPT ![g] = row]
      /\ request' = [request EXCEPT ![q] = Idle]
      /\ UNCHANGED <<agent, now, embed, session>>
  BY DEF StartLogin, Handles
<1>2. s \in Sessions /\ session[s] \in SessionRows
  BY <1>1, Rows
<1>3. Until(now + LoginTime, session[s].absolute) \in Times
  <2>1. session[s].absolute \in Times /\ now + LoginTime \in Nat
    BY <1>2, Instants, Lifetimes DEF SessionRows
  <2> QED BY <2>1, Instants
<1>4. row \in AccessRows
  BY <1>2, <1>3 DEF AccessRows, Statuses, Logins
<1>5. session[s].state # "absent" /\ ~access[g].revoked
  BY <1>1 DEF StartLogin, GrantInvariant, SessionsIssued, GrantsCount
<1>6. /\ row.status = "pending" /\ row.code = "none" /\ row.exchanged = 0 /\ row.session = s
  OBVIOUS
<1> HIDE DEF row, s
<1>7. access'[g] = row
  BY <1>1 DEF TypeOK
<1>8. Shape(g)
  BY <1>2, <1>5, <1>6, <1>7 DEF Shape, Starts
<1>9. request' \in [Requests -> RequestStates \cup {Idle}] /\ RequestsKept
  BY <1>1, RequestGood
<1> QED BY <1>1, <1>4, <1>8, <1>9, AccessGood

\* An expiry of a grant is on the clock's scale and within its embed session.
LEMMA GrantEnding ==
    ASSUME TypeOK, NEW s \in Sessions
    PROVE  GrantEnds(s) \in Times /\ GrantEnds(s) <= session[s].absolute
<1>1. session[s].absolute \in Times /\ now + GrantTime \in Nat
  BY Rows, Instants, Lifetimes DEF SessionRows
<1> QED BY <1>1, Instants DEF GrantEnds

\* Nothing happens to the requests.
LEMMA RequestsSame ==
    ASSUME TypeOK, request' = request
    PROVE  request' \in [Requests -> RequestStates \cup {Idle}] /\ RequestsKept
BY DEF TypeOK, RequestsKept

\* One row of access takes the values of a login's step.
LEMMA LoginRow ==
    ASSUME TypeOK, NEW g \in ToolSessions, UNCHANGED <<agent, now, embed, session, request>>,
           NEW status \in Statuses, NEW login \in Logins,
           NEW code \in {"none", "open"}, NEW expires \in Times,
           access' = [access EXCEPT ![g].status = status, ![g].login = login,
                                    ![g].code = code, ![g].expires = expires]
    PROVE  /\ access'[g].status = status /\ access'[g].login = login
           /\ access'[g].code = code /\ access'[g].expires = expires
           /\ access'[g].session = access[g].session
           /\ access'[g].exchanged = access[g].exchanged
           /\ access'[g].revoked = access[g].revoked
           /\ Shape(g) => Good
<1> DEFINE row == [access[g] EXCEPT !.status = status, !.login = login,
                                    !.code = code, !.expires = expires]
<1>1. access' = [access EXCEPT ![g] = row]
  BY DEF TypeOK
<1>2. access[g] \in AccessRows
  BY Rows
<1>3. /\ row \in AccessRows
      /\ row.status = status /\ row.login = login /\ row.code = code /\ row.expires = expires
      /\ row.session = access[g].session /\ row.exchanged = access[g].exchanged
      /\ row.revoked = access[g].revoked
  BY <1>2 DEF AccessRows
<1> HIDE DEF row
<1>4. access'[g] = row
  BY <1>1 DEF TypeOK
<1>5. request' \in [Requests -> RequestStates \cup {Idle}] /\ RequestsKept
  BY RequestsSame
<1>6. Shape(g) => Good
  BY <1>1, <1>3, <1>5, AccessGood
<1> QED BY <1>3, <1>4, <1>6

\* A step of a login in the popup.
LEMMA LoginGood ==
    ASSUME TypeOK, GrantInvariant, NEW g \in ToolSessions, LoginStep(g)
    PROVE  Good
<1> DEFINE row == access[g]
<1>1. /\ row \in AccessRows /\ row.session \in Sessions
      /\ UNCHANGED <<agent, now, embed, session, request>>
  BY Rows DEF LoginStep, SubmitLogin, ExpireLogin, FinishLogin, StoreToken, CreateGrant, FailLogin
<1>2. /\ row.status \in Statuses /\ row.login \in Logins /\ row.expires \in Times
      /\ access = [access EXCEPT ![g] = row]
      /\ row = [row EXCEPT !.status = row.status, !.login = row.login,
                           !.code = row.code, !.expires = row.expires]
  BY <1>1 DEF AccessRows, TypeOK
<1>3. row.login # "none" /\ row.status # "absent" /\ row.code = "none"
  BY DEF LoginStep, SubmitLogin, ExpireLogin, FinishLogin, StoreToken, CreateGrant, FailLogin,
     GrantInvariant, GrantsCount
<1>4. ASSUME \/ SubmitLogin(g) \/ ExpireLogin(g) \/ StoreToken(g) \/ FailLogin(g) PROVE Good
  <2>1. PICK status \in Statuses \ {"absent"}, login \in Logins, expires \in Times :
          access' = [access EXCEPT ![g].status = status, ![g].login = login,
                                   ![g].code = "none", ![g].expires = expires]
    <3>1. CASE SubmitLogin(g)
      <4>1. 0 \in Times
        BY Lifetimes DEF Times
      <4>2. access' = [access EXCEPT ![g].status = row.status, ![g].login = "claimed",
                                     ![g].code = "none", ![g].expires = 0]
        BY <1>1, <1>3, <3>1 DEF SubmitLogin, TypeOK, AccessRows
      <4> QED BY <1>2, <1>3, <4>1, <4>2 DEF Logins
    <3>2. CASE ExpireLogin(g)
      <4>1. access' = [access EXCEPT ![g].status = "expired", ![g].login = "none",
                                     ![g].code = "none", ![g].expires = row.expires]
        BY <1>1, <1>3, <3>2 DEF ExpireLogin, TypeOK, AccessRows
      <4> QED BY <1>2, <4>1 DEF Logins, Statuses
    <3>3. CASE StoreToken(g)
      <4>1. access' = [access EXCEPT ![g].status = "ready", ![g].login = "stored",
                                     ![g].code = "none", ![g].expires = row.expires]
        BY <1>1, <1>3, <3>3 DEF StoreToken, TypeOK, AccessRows
      <4> QED BY <1>2, <4>1 DEF Logins, Statuses
    <3>4. CASE FailLogin(g)
      <4>1. access' = [access EXCEPT ![g].status = "failed", ![g].login = "none",
                                     ![g].code = "none", ![g].expires = row.expires]
        BY <1>1, <1>3, <3>4 DEF FailLogin, TypeOK, AccessRows
      <4> QED BY <1>2, <4>1 DEF Logins, Statuses
    <3> QED BY <1>4, <3>1, <3>2, <3>3, <3>4
  <2>2. /\ access'[g].status = status /\ access'[g].code = "none"
        /\ access'[g].session = row.session /\ access'[g].exchanged = row.exchanged
        /\ access'[g].revoked = row.revoked
        /\ Shape(g) => Good
    BY <1>1, <2>1, LoginRow
  <2> QED BY <1>3, <2>2 DEF Shape, Moves
<1>5. ASSUME FinishLogin(g) \/ CreateGrant(g) PROVE Good
  <2> DEFINE ends == GrantEnds(row.session)
  <2>1. ends \in Times /\ ends <= session[row.session].absolute
    BY <1>1, GrantEnding
  <2> HIDE DEF ends
  <2>2. PICK status \in Statuses \ {"absent"} :
          access' = [access EXCEPT ![g].status = status, ![g].login = "none",
                                   ![g].code = "open", ![g].expires = ends]
    <3>1. CASE FinishLogin(g)
      BY <3>1 DEF FinishLogin, Statuses, ends
    <3>2. CASE CreateGrant(g)
      <4>1. access' = [access EXCEPT ![g].status = row.status, ![g].login = "none",
                                     ![g].code = "open", ![g].expires = ends]
        BY <1>1, <3>2 DEF CreateGrant, TypeOK, AccessRows, ends
      <4> QED BY <1>2, <1>3, <4>1
    <3> QED BY <1>5, <3>1, <3>2
  <2> DEFINE Granted(login, code, expires) ==
               login = "none" /\ code = "open" /\ expires <= session[row.session].absolute
  <2>3. PICK login \in Logins, code \in {"none", "open"}, expires \in Times :
          /\ Granted(login, code, expires)
          /\ access' = [access EXCEPT ![g].status = status, ![g].login = login,
                                      ![g].code = code, ![g].expires = expires]
    BY <2>1, <2>2 DEF Logins
  <2>4. /\ access'[g].status = status /\ access'[g].login = login
        /\ access'[g].code = code /\ access'[g].expires = expires
        /\ access'[g].session = row.session /\ access'[g].exchanged = row.exchanged
        /\ access'[g].revoked = row.revoked
        /\ Shape(g) => Good
    <3> HIDE DEF Granted
    <3>1. status \in Statuses
      OBVIOUS
    <3>2. /\ access'[g].status = status /\ access'[g].login = login
          /\ access'[g].code = code /\ access'[g].expires = expires
      BY <1>1, <2>3 DEF TypeOK, AccessRows
    <3>3. /\ access'[g].session = row.session /\ access'[g].exchanged = row.exchanged
          /\ access'[g].revoked = row.revoked
      BY <1>1, <2>3, <3>1, LoginRow
    <3>4. Shape(g) => Good
      BY <1>1, <2>3, <3>1, LoginRow
    <3> QED BY <3>2, <3>3, <3>4
  <2> QED BY <1>3, <2>3, <2>4 DEF Shape, Grants
<1> QED BY <1>4, <1>5 DEF LoginStep

\* An exchange spends the grant.
LEMMA ExchangeGood ==
    ASSUME TypeOK, GrantInvariant, NEW q \in Requests, NEW g \in ToolSessions, Exchange(q, g)
    PROVE  Good
<1> DEFINE row == [access[g] EXCEPT !.code = "spent", !.exchanged = @ + 1]
<1>1. /\ access[g] \in AccessRows /\ request[q] # Idle
      /\ request' = [request EXCEPT ![q] = Idle]
      /\ UNCHANGED <<agent, now, embed, session>>
  BY Rows DEF Exchange, Handles
<1>2. access' = [access EXCEPT ![g] = row]
  BY DEF Exchange, TypeOK
<1>3. CodeFits(g) /\ Deliverable(g) /\ access[g].exchanged = 0
  BY DEF Exchange, CodeFits, GrantInvariant, GrantsCount
<1>4. /\ row \in AccessRows /\ row.code = "spent" /\ row.exchanged = access[g].exchanged + 1
      /\ row.session = access[g].session /\ row.status = access[g].status
      /\ row.login = access[g].login /\ row.revoked = access[g].revoked
  <2>1. access[g].exchanged + 1 \in 0..2
    BY <1>3
  <2> QED BY <1>1, <2>1 DEF AccessRows
<1> HIDE DEF row
<1>5. access'[g] = row
  BY <1>2 DEF TypeOK
<1>6. Shape(g)
  BY <1>3, <1>4, <1>5 DEF Shape, Spends, Deliverable
<1>7. request' \in [Requests -> RequestStates \cup {Idle}] /\ RequestsKept
  BY <1>1, RequestGood
<1> QED BY <1>1, <1>2, <1>4, <1>6, <1>7, AccessGood

\* A logout revokes the Tool Sessions of its owner.
LEMMA LogoutGood ==
    ASSUME TypeOK, GrantInvariant, NEW q \in Requests, Logout(q)
    PROVE  Good
<1>1. /\ request[q] # Idle /\ request' = [request EXCEPT ![q] = Idle]
      /\ UNCHANGED <<agent, now, embed, session>>
  BY DEF Logout, Handles
<1>2. request' \in [Requests -> RequestStates \cup {Idle}] /\ RequestsKept
  BY <1>1, RequestGood
<1>3. ASSUME NEW g \in ToolSessions PROVE access'[g] \in AccessRows /\ Shape(g)
  <2>1. access[g] \in AccessRows
    BY Rows
  <2>2. CASE access'[g] = access[g]
    BY <2>1, <2>2 DEF Shape, Same
  <2>3. CASE /\ access[g].status # "absent"
             /\ access'[g] = [access[g] EXCEPT !.status = "revoked", !.revoked = TRUE]
    BY <2>1, <2>3 DEF AccessRows, Statuses, Shape, Moves
  <2> QED BY <2>2, <2>3 DEF Logout
<1>4. access' \in [ToolSessions -> AccessRows]
  <2>1. \E f : access' = [g \in ToolSessions |-> f[g]]
    <3> WITNESS [g \in ToolSessions |->
           IF access[g].status # "absent" /\ access[g].session = request[q].session
           THEN [access[g] EXCEPT !.status = "revoked", !.revoked = TRUE]
           ELSE access[g]]
    <3> QED BY DEF Logout
  <2> QED BY <1>3, <2>1
<1>5. TypeOK'
  BY <1>1, <1>2, <1>4 DEF TypeOK
<1> QED BY <1>1, <1>2, <1>3, <1>5 DEF Good, SessionsKept, AccessShape

-----------------------------------------------------------------------------
(* The theorems                                                            *)

\* Every step has such a shape, keeps the types and with them the invariant.
LEMMA NextGood ==
    ASSUME TypeOK, GrantInvariant, [Next]_vars
    PROVE  Good /\ TypeOK' /\ GrantInvariant'
<1>1. ASSUME NEW q \in Requests, RequestStep(q) PROVE Good
  BY <1>1, HandlerGood, StartGood, ExchangeGood, LogoutGood DEF RequestStep
<1>2. Good
  BY <1>1, AdministrationGood, SessionGood, LoginGood DEF Next
<1> QED BY <1>2, ShapesKeep DEF Good

\* No session, login or grant is there in the beginning.
LEMMA InitGood == Init => TypeOK /\ GrantInvariant
<1> SUFFICES ASSUME Init PROVE TypeOK /\ GrantInvariant
  OBVIOUS
<1>1. /\ (CHOOSE a \in Agents : TRUE) \in Agents
      /\ (CHOOSE e \in Embeds : TRUE) \in Embeds
      /\ (CHOOSE s \in Sessions : TRUE) \in Sessions
  BY Lifetimes
<1>2. 0 \in Times
  BY Lifetimes DEF Times
<1>3. TypeOK
  <2>1. agent \in [Agents -> AgentStates] /\ now \in 0..MaxTime
    BY Lifetimes DEF Init
  <2>2. embed \in [Embeds -> EmbedRows]
    BY <1>1 DEF Init, EmbedRows
  <2>3. session \in [Sessions -> SessionRows]
    BY <1>1, <1>2 DEF Init, SessionRows
  <2>4. access \in [ToolSessions -> AccessRows]
    <3>1. access \in [ToolSessions -> [status: {"absent"},
             session: {CHOOSE s \in Sessions : TRUE}, revoked: {FALSE}, login: {"none"}, code: {"none"},
             expires: {0}, exchanged: {0}]]
      BY DEF Init
    <3>2. [status: {"absent"}, session: {CHOOSE s \in Sessions : TRUE}, revoked: {FALSE},
           login: {"none"}, code: {"none"}, expires: {0}, exchanged: {0}] \subseteq AccessRows
      <4>1. \A s \in Sessions :
              [status: {"absent"}, session: {s}, revoked: {FALSE}, login: {"none"}, code: {"none"},
               expires: {0}, exchanged: {0}] \subseteq AccessRows
        <5> SUFFICES ASSUME NEW s \in Sessions,
                            NEW r \in [status: {"absent"}, session: {s}, revoked: {FALSE},
                                       login: {"none"}, code: {"none"}, expires: {0}, exchanged: {0}]
                     PROVE  r \in AccessRows
          OBVIOUS
        <5>1. r = [status |-> "absent", session |-> s, revoked |-> FALSE,
                   login |-> "none", code |-> "none", expires |-> 0, exchanged |-> 0]
          OBVIOUS
        <5>2. "absent" \in Statuses /\ "none" \in Logins /\ 0 \in 0..2
          BY DEF Statuses, Logins
        <5> QED BY <1>2, <5>1, <5>2 DEF AccessRows
      <4> QED BY <1>1, <4>1
    <3> QED BY <3>1, <3>2
  <2>5. request \in [Requests -> RequestStates \cup {Idle}]
    BY DEF Init
  <2> QED BY <2>1, <2>2, <2>3, <2>4, <2>5 DEF TypeOK
<1>4. \A g \in ToolSessions :
        /\ access[g].status = "absent" /\ access[g].code = "none" /\ access[g].exchanged = 0
        /\ access[g].login = "none" /\ ~access[g].revoked
  BY DEF Init
<1>5. \A q \in Requests : request[q] = Idle
  BY DEF Init
<1> QED
  BY <1>3, <1>4, <1>5 DEF GrantInvariant, GrantsCount, SessionsIssued, GrantsEnd

\* Grants count their exchanges and end with their sessions, in every state.
THEOREM GrantsCorrect == Spec => [](TypeOK /\ GrantInvariant)
<1>1. TypeOK /\ GrantInvariant /\ [Next]_vars => TypeOK' /\ GrantInvariant'
  BY NextGood
<1> QED BY <1>1, InitGood, PTL DEF Spec

\* Embeds, sessions, logins and requests keep their shape.
THEOREM EmbedTypeCorrect == Spec => []TypeOK
BY GrantsCorrect, PTL

\* A grant is exchanged once.
THEOREM OneExchange == Spec => []ExchangedOnce
<1>1. GrantInvariant => ExchangedOnce
  BY DEF GrantInvariant, GrantsCount, ExchangedOnce
<1> QED BY <1>1, GrantsCorrect, PTL

\* A logout is not taken back, whatever the login in the popup does after it,
\* and a grant is delivered before its embed session ends and not after a
\* logout.
THEOREM DeliveredInTime == Spec => ExchangedInTime
<1>1. ASSUME TypeOK, GrantInvariant, [Next]_vars, NEW g \in ToolSessions, Exchanged(g)
      PROVE  ~access[g].revoked /\ now < session[access[g].session].absolute
  <2>1. access[g].exchanged \in Int
    BY <1>1, Rows DEF AccessRows
  <2>2. Shape(g) /\ ~Same(g) /\ ~Moves(g) /\ ~Grants(g)
    BY <1>1, <2>1, NextGood DEF Good, AccessShape, Exchanged, Same, Moves, Grants
  <2>3. ~Starts(g)
    BY <1>1, <2>1, Rows DEF Exchanged, Starts, AccessRows
  <2>4. CodeFits(g) /\ Deliverable(g)
    BY <2>2, <2>3 DEF Shape, Spends
  <2>5. access[g].expires <= session[access[g].session].absolute
    BY <1>1, <2>4 DEF CodeFits, GrantInvariant, GrantsEnd
  <2>6. access[g].expires \in Nat /\ session[access[g].session].absolute \in Nat /\ now \in Nat
    BY <1>1, Rows, Instants DEF AccessRows, SessionRows
  <2> QED BY <2>4, <2>5, <2>6 DEF CodeFits, Deliverable
<1>2. ASSUME TypeOK, GrantInvariant, [Next]_vars, NEW g \in ToolSessions, access[g].revoked
      PROVE  access'[g].revoked
  <2>1. Shape(g)
    BY <1>1, <1>2, NextGood DEF Good, AccessShape
  <2> QED BY <1>2, <2>1 DEF Shape, Same, Starts, Moves, Grants, Spends
<1>3. TypeOK /\ GrantInvariant /\ [Next]_vars =>
        [\A g \in ToolSessions :
            /\ Exchanged(g) => ~access[g].revoked /\ now < session[access[g].session].absolute
            /\ access[g].revoked => access'[g].revoked]_vars
  BY <1>1, <1>2
<1> QED BY <1>3, GrantsCorrect, PTL DEF Spec, ExchangedInTime
=============================================================================
