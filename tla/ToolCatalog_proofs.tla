------------------------- MODULE ToolCatalog_proofs -------------------------
(***************************************************************************)
(* Proofs about ToolCatalog for every set of sources, Tools, Skills and    *)
(* handlers in flight: nothing runs on a Tool that is gone, a login Tool   *)
(* stays ready, a source has one scheme.                                   *)
(***************************************************************************)
EXTENDS ToolCatalog, TLAPS

-----------------------------------------------------------------------------
(* Types                                                                   *)

\* The empty database is well typed.
LEMMA InitTypes == Init => TypeOK
BY CatalogAssumption DEF Init, TypeOK, Places, SkillStates, Modes

\* Stopping Skills keeps their states.
LEMMA StoppedType ==
    ASSUME TypeOK, NEW ts
    PROVE  Stopped(ts) \in [Skills -> SkillStates]
BY DEF TypeOK, Stopped, SkillStates

\* The handlers of a source, and a job that commits for it.
LEMMA SourceStepTypes ==
    ASSUME TypeOK, NEW s \in Sources, SourceStep(s)
    PROVE  TypeOK'
<1> USE CatalogAssumption
<1>1. CASE EnableSource(s)
  BY <1>1 DEF EnableSource, TypeOK, Places
<1>2. CASE DisableSource(s)
  BY <1>2, StoppedType DEF DisableSource, TypeOK, Places
<1>3. CASE DeleteSource(s)
  BY <1>3, StoppedType DEF DeleteSource, TypeOK, Places
<1>4. ASSUME NEW t \in Tools \cup {NoTool}, SetSourceToolAuth(s, t)
      PROVE  TypeOK'
  <2>1. /\ login' = [login EXCEPT ![s] = t]
        /\ UNCHANGED <<source, tool, skill, binds, writer, unfit>>
    BY <1>4 DEF SetSourceToolAuth
  <2>2. mode' \in [Sources -> Modes] /\ oauth' \in [Sources -> BOOLEAN]
    BY <1>4 DEF SetSourceToolAuth, OAuthAfterLogin, TypeOK, Modes
  <2>3. outdated' \subseteq Sources
    BY <1>4 DEF SetSourceToolAuth, TypeOK
  <2> QED BY <2>1, <2>2, <2>3 DEF TypeOK
<1>5. ASSUME NEW document \in SUBSET Tools, Import(s, document)
      PROVE  TypeOK'
  BY <1>5 DEF Import, TypeOK, Places
<1>6. ASSUME NEW document \in SUBSET Tools, NEW k \in Skills, NEW ts \in SUBSET document,
             Persist(s, document, k, ts)
      PROVE  TypeOK'
  <2>1. source' \in [Sources -> Places]
    BY <1>6 DEF Persist, TypeOK, Places
  <2>2. tool' \in [Tools -> Places]
    BY <1>6 DEF Persist, TypeOK, Places
  <2>3. skill' \in [Skills -> SkillStates] /\ binds' \in [Skills -> SUBSET Tools]
    BY <1>6 DEF Persist, TypeOK, SkillStates
  <2>4. unfit' \subseteq Skills
    BY <1>6 DEF Persist, TypeOK
  <2> QED BY <1>6, <2>1, <2>2, <2>3, <2>4 DEF Persist, TypeOK
<1> QED BY <1>1, <1>2, <1>3, <1>4, <1>5, <1>6 DEF SourceStep

\* The handlers under the write lock that no source is named in.
LEMMA LockedStepTypes ==
    ASSUME TypeOK,
           \/ ActOnTools
           \/ \E t \in Tools \cup {NoTool} : SetToolAuth(t)
           \/ \E k \in Skills : StartSkill(k)
    PROVE  TypeOK'
<1>1. ASSUME NEW done \in SUBSET Tools,
             EnableTools(done) \/ EndTools(done, "off") \/ EndTools(done, "deleted")
      PROVE  TypeOK'
  BY <1>1, StoppedType DEF EnableTools, EndTools, TypeOK, Places
<1>2. ASSUME NEW t \in Tools \cup {NoTool}, SetToolAuth(t)
      PROVE  TypeOK'
  BY <1>2 DEF SetToolAuth, TypeOK
<1>3. ASSUME NEW k \in Skills, StartSkill(k)
      PROVE  TypeOK'
  BY <1>3 DEF StartSkill, TypeOK, SkillStates
<1> QED BY <1>1, <1>2, <1>3 DEF ActOnTools

\* What a handler has read, by its kind.
LEMMA Read ==
    ASSUME TypeOK, NEW w \in Writers
    PROVE  /\ writer[w].kind \in {"create", "update"} =>
                 writer[w].skill \in Skills /\ writer[w].tools \subseteq Tools
           /\ writer[w].kind \in {"stop", "delete"} => writer[w].skill \in Skills
           /\ writer[w].kind = "refresh" => writer[w].source \in Sources
           /\ writer[w].kind = "configure" =>
                 /\ writer[w].source \in Sources /\ writer[w].enable \in BOOLEAN
                 /\ writer[w].saw \in Schemes
BY DEF TypeOK, Readings, Idle

\* What a handler makes of a scheme is one.
LEMMA ConfiguredType ==
    ASSUME NEW saw \in Schemes, NEW enable \in BOOLEAN
    PROVE  Configured(saw, enable) \in Schemes
BY DEF Configured, Schemes, Modes

\* The handlers without the write lock.
LEMMA WriterStepTypes ==
    ASSUME TypeOK, NEW w \in Writers, WriterStep(w)
    PROVE  TypeOK'
<1>1. ASSUME NEW s \in Sources, StartRefresh(w, s)
      PROVE  TypeOK'
  BY <1>1 DEF StartRefresh, TypeOK, Readings
<1>2. ASSUME NEW s \in OAuthable, NEW enable \in BOOLEAN, ReadScheme(w, s, enable)
      PROVE  TypeOK'
  <2>1. s \in Sources /\ Scheme(s) \in Schemes
    BY CatalogAssumption DEF TypeOK, Scheme, Schemes
  <2> QED BY <1>2, <2>1 DEF ReadScheme, TypeOK, Readings
<1>3. ASSUME NEW k \in Skills, NEW ts \in SUBSET Tools, NEW kind \in {"create", "update"},
             ReadSkill(w, k, kind, ts)
      PROVE  TypeOK'
  <2>1. [kind |-> kind, skill |-> k, was |-> skill[k], tools |-> ts] \in Readings
    BY DEF TypeOK, Readings
  <2> QED BY <1>3, <2>1 DEF ReadSkill, TypeOK
<1>4. ASSUME NEW k \in Skills, NEW kind \in {"stop", "delete"}, ReadToEnd(w, k, kind)
      PROVE  TypeOK'
  <2>1. [kind |-> kind, skill |-> k, was |-> skill[k]] \in Readings
    BY DEF TypeOK, Readings
  <2> QED BY <1>4, <2>1 DEF ReadToEnd, TypeOK
<1>5. ASSUME NEW document \in SUBSET Tools, FinishRefresh(w, document)
      PROVE  TypeOK'
  BY <1>5 DEF FinishRefresh, TypeOK, Places
<1>6. CASE ConfigureSource(w)
  <2> DEFINE s == writer[w].source
             saw == writer[w].saw
             new == Configured(saw, writer[w].enable)
  <2>1. s \in Sources /\ saw \in Schemes /\ new \in Schemes
    BY <1>6, Read, ConfiguredType DEF ConfigureSource
  <2>2. /\ mode' = [mode EXCEPT ![s] = Written(@, saw.mode, new.mode)]
        /\ oauth' = [oauth EXCEPT ![s] = Written(@, saw.oauth, new.oauth)]
        /\ login' \in {login, [login EXCEPT ![s] = NoTool]}
        /\ outdated' \in {outdated, outdated \cup {s}}
        /\ writer' = [writer EXCEPT ![w] = Idle]
        /\ UNCHANGED <<source, tool, skill, binds, unfit>>
    BY <1>6 DEF ConfigureSource
  <2> HIDE DEF s, saw, new
  <2> QED BY <2>1, <2>2 DEF TypeOK, Written, Schemes
<1>7. CASE WriteSkill(w)
  BY <1>7, Read DEF WriteSkill, Edited, Noted, TypeOK, SkillStates
<1>8. CASE EndSkill(w)
  BY <1>8, Read DEF EndSkill, Edited, TypeOK, SkillStates
<1>9. CASE Abandon(w)
  BY <1>9 DEF Abandon, TypeOK
<1> QED BY <1>1, <1>2, <1>3, <1>4, <1>5, <1>6, <1>7, <1>8, <1>9 DEF WriterStep

LEMMA NextTypes == TypeOK /\ [Next]_vars => TypeOK'
<1>1. ASSUME TypeOK, UNCHANGED vars PROVE TypeOK'
  BY <1>1 DEF TypeOK, vars
<1> QED BY <1>1, SourceStepTypes, LockedStepTypes, WriterStepTypes DEF Next

\* Sources, Tools, Skills and what is read of them keep their shape.
THEOREM CatalogTypeCorrect == Spec => []TypeOK
BY InitTypes, NextTypes, PTL DEF Spec

-----------------------------------------------------------------------------
(* The shapes of a step                                                    *)

\* Tools that can be called stay so.
KeepsTools == \A t \in Tools : Available(t) => Available(t)'

\* Tools are taken away: no login configuration needs one of them, and the
\* Skills that are bound to them are stopped.
TakesTools(ts) ==
    /\ \A t \in Tools \ ts : Available(t) => Available(t)'
    /\ FreeOfLogin(ts)
    /\ skill' = Stopped(ts)
    /\ UNCHANGED <<login, mode, oauth, binds, writer, unfit, outdated>>

LEMMA DisableTakes ==
    ASSUME TypeOK, NEW s \in Sources, DisableSource(s) \/ DeleteSource(s)
    PROVE  TakesTools(KeptTools(s))
<1> DEFINE ts == KeptTools(s)
<1>1. /\ skill' = Stopped(ts) /\ FreeOfLogin(ts)
      /\ UNCHANGED <<login, mode, oauth, binds, writer, unfit, outdated>>
  BY DEF DisableSource, DeleteSource
<1>2. ASSUME NEW t \in Tools \ ts, Available(t)
      PROVE  Available(t)'
  <2>1. SourceOf[t] \in Sources /\ SourceOf[t] # s
    BY <1>2, CatalogAssumption DEF KeptTools, Kept, Available
  <2>2. tool'[t] = tool[t]
    BY <1>2 DEF DisableSource, DeleteSource, TypeOK
  <2>3. source'[SourceOf[t]] = source[SourceOf[t]]
    BY <2>1 DEF DisableSource, DeleteSource, TypeOK
  <2> QED BY <1>2, <2>2, <2>3 DEF Available
<1> HIDE DEF ts
<1>3. TakesTools(ts)
  BY <1>1, <1>2 DEF TakesTools
<1> QED BY <1>3 DEF ts

LEMMA EndTakes ==
    ASSUME TypeOK, NEW done \in SUBSET Tools, NEW end, EndTools(done, end)
    PROVE  TakesTools(done)
<1>1. ASSUME NEW t \in Tools \ done, Available(t)
      PROVE  Available(t)'
  BY <1>1 DEF EndTools, Available
<1> QED BY <1>1 DEF EndTools, TakesTools

\* A job that commits enables Tools and disables none that was enabled.
LEMMA PersistKeeps ==
    ASSUME TypeOK, NEW s \in Sources, NEW document \in SUBSET Tools, NEW k \in Skills,
           NEW ts \in SUBSET document, Persist(s, document, k, ts)
    PROVE  /\ KeepsTools
           /\ \A t \in ts : tool'[t] = "on" /\ SourceOf[t] = s
           /\ source'[s] = IF source[s] = "absent" THEN "on" ELSE source[s]
           /\ source'[s] \in {"on", "off"}
           /\ \A x \in Sources : x # s => source'[x] = source[x]
<1>1. /\ source'[s] = IF source[s] = "absent" THEN "on" ELSE source[s]
      /\ source'[s] \in {"on", "off"}
      /\ \A x \in Sources : x # s => source'[x] = source[x]
      /\ \A t \in document : SourceOf[t] = s
  BY DEF Persist, Managed, KeptTools, TypeOK
<1>2. ASSUME NEW t \in Tools
      PROVE  /\ t \in ts => tool'[t] = "on"
             /\ tool[t] = "on" => tool'[t] = "on"
  BY DEF Persist
<1>3. ASSUME NEW t \in Tools, Available(t)
      PROVE  Available(t)'
  <2>1. SourceOf[t] \in Sources
    BY CatalogAssumption
  <2>2. source'[SourceOf[t]] = "on"
    BY <1>1, <1>3, <2>1 DEF Available
  <2> QED BY <1>2, <1>3, <2>2 DEF Available
<1> QED BY <1>1, <1>2, <1>3 DEF KeepsTools

\* Every step keeps the Tools or takes some away.
LEMMA StepShape ==
    ASSUME TypeOK, [Next]_vars
    PROVE  KeepsTools \/ \E ts \in SUBSET Tools : TakesTools(ts)
<1>1. ASSUME NEW s \in Sources, SourceStep(s)
      PROVE  KeepsTools \/ \E ts \in SUBSET Tools : TakesTools(ts)
  <2>1. CASE EnableSource(s)
    BY <2>1, CatalogAssumption DEF EnableSource, KeepsTools, Available, TypeOK
  <2>2. CASE DisableSource(s) \/ DeleteSource(s)
    <3>1. KeptTools(s) \in SUBSET Tools
      BY DEF KeptTools
    <3> QED BY <2>2, <3>1, DisableTakes
  <2>3. ASSUME NEW t \in Tools \cup {NoTool}, SetSourceToolAuth(s, t)
        PROVE  KeepsTools
    BY <2>3 DEF SetSourceToolAuth, KeepsTools, Available
  <2>4. ASSUME NEW document \in SUBSET Tools, Import(s, document)
        PROVE  KeepsTools
    BY <2>4, CatalogAssumption DEF Import, KeepsTools, Available, TypeOK
  <2>5. ASSUME NEW document \in SUBSET Tools, NEW k \in Skills, NEW ts \in SUBSET document,
               Persist(s, document, k, ts)
        PROVE  KeepsTools
    BY <2>5, PersistKeeps
  <2> QED BY <1>1, <2>1, <2>2, <2>3, <2>4, <2>5 DEF SourceStep
<1>2. ASSUME NEW done \in SUBSET Tools,
             EnableTools(done) \/ EndTools(done, "off") \/ EndTools(done, "deleted")
      PROVE  KeepsTools \/ \E ts \in SUBSET Tools : TakesTools(ts)
  <2>1. CASE EnableTools(done)
    BY <2>1 DEF EnableTools, KeepsTools, Available
  <2> QED BY <1>2, <2>1, EndTakes
<1>3. ASSUME NEW t \in Tools \cup {NoTool}, SetToolAuth(t)
      PROVE  KeepsTools
  BY <1>3 DEF SetToolAuth, KeepsTools, Available
<1>4. ASSUME NEW k \in Skills, StartSkill(k)
      PROVE  KeepsTools
  BY <1>4 DEF StartSkill, KeepsTools, Available
<1>5. ASSUME NEW w \in Writers, WriterStep(w)
      PROVE  KeepsTools
  BY <1>5 DEF WriterStep, StartRefresh, ReadScheme, ReadSkill, ReadToEnd, FinishRefresh,
     ConfigureSource, WriteSkill, EndSkill, Abandon, KeepsTools, Available
<1>6. CASE UNCHANGED vars
  BY <1>6 DEF vars, KeepsTools, Available
<1> QED BY <1>1, <1>2, <1>3, <1>4, <1>5, <1>6 DEF Next, ActOnTools

\* No step that takes a Tool away leaves a Skill running on it.
THEOREM SkillsGoAlong == Spec => TakesSkillsAlong
<1> DEFINE Along ==
      \A t \in Tools : Available(t) /\ ~Available(t)' =>
          \A k \in Skills : t \in binds[k]' => skill[k]' # "running"
<1>1. TypeOK /\ [Next]_vars => Along
  <2> SUFFICES ASSUME TypeOK, [Next]_vars, NEW t \in Tools, Available(t), ~Available(t)',
                      NEW k \in Skills, t \in binds[k]'
               PROVE  skill[k]' # "running"
    OBVIOUS
  <2>1. PICK ts \in SUBSET Tools : TakesTools(ts)
    BY StepShape DEF KeepsTools
  <2>2. t \in ts /\ t \in binds[k] /\ skill' = Stopped(ts)
    BY <2>1 DEF TakesTools
  <2> QED BY <2>2 DEF Stopped
<1> QED BY <1>1, CatalogTypeCorrect, PTL DEF Spec, TakesSkillsAlong

-----------------------------------------------------------------------------
(* Skills and their Tools                                                  *)

\* The Tools a Skill that runs is bound to can be called.
Usable(k) == skill[k] = "running" => \A t \in binds[k] : Available(t)

\* Taking Tools away stops the Skills that need them.
LEMMA TakingKeepsUsable ==
    ASSUME TypeOK, NEW ts \in SUBSET Tools, TakesTools(ts), NEW k \in Skills, Usable(k)
    PROVE  Usable(k)'
<1>1. /\ skill'[k] = IF skill[k] = "running" /\ binds[k] \cap ts # {}
                     THEN "stopped" ELSE skill[k]
      /\ binds'[k] = binds[k] /\ binds[k] \subseteq Tools
  BY DEF TakesTools, Stopped, TypeOK
<1>2. \A t \in Tools \ ts : Available(t) => Available(t)'
  BY DEF TakesTools
<1> QED BY <1>1, <1>2 DEF Usable

\* A Skill that stays as it is needs no other Tools than before.
LEMMA SameSkillUsable ==
    ASSUME TypeOK, KeepsTools, NEW k \in Skills, Usable(k),
           binds'[k] = binds[k], skill'[k] = "running" => skill[k] = "running"
    PROVE  Usable(k)'
BY DEF Usable, KeepsTools, TypeOK

\* The Tools that can be called now can be called after the step.
LEMMA CallableUsable ==
    ASSUME TypeOK, KeepsTools, NEW k \in Skills, NEW ts \in SUBSET Tools,
           \A t \in ts : Available(t), binds'[k] = ts
    PROVE  Usable(k)'
BY DEF Usable, KeepsTools

\* Every step keeps usable what is; what it binds to other Tools it marks.
LEMMA NextUsable ==
    ASSUME TypeOK, RunningIsUsable, [Next]_vars
    PROVE  RunningIsUsable'
<1> SUFFICES ASSUME NEW k \in Skills, k \notin unfit'
             PROVE  Usable(k)'
  BY DEF RunningIsUsable, Usable
<1>1. k \notin unfit => Usable(k)
  BY DEF RunningIsUsable, Usable
<1>2. ASSUME NEW ts \in SUBSET Tools, TakesTools(ts)
      PROVE  Usable(k)'
  BY <1>1, <1>2, TakingKeepsUsable DEF TakesTools
<1>3. ASSUME KeepsTools, k \notin unfit, binds'[k] = binds[k],
             skill'[k] = "running" => skill[k] = "running"
      PROVE  Usable(k)'
  BY <1>1, <1>3, SameSkillUsable
<1>4. ASSUME KeepsTools, NEW s \in Sources, SourceStep(s)
      PROVE  Usable(k)'
  <2>1. CASE EnableSource(s)
    BY <1>3, <1>4, <2>1 DEF EnableSource
  <2>2. CASE DisableSource(s) \/ DeleteSource(s)
    <3>1. KeptTools(s) \in SUBSET Tools
      BY DEF KeptTools
    <3> QED BY <1>2, <2>2, <3>1, DisableTakes
  <2>3. ASSUME NEW t \in Tools \cup {NoTool}, SetSourceToolAuth(s, t)
        PROVE  Usable(k)'
    <3>1. UNCHANGED <<skill, binds, unfit>>
      BY <2>3 DEF SetSourceToolAuth
    <3> QED BY <1>3, <1>4, <3>1
  <2>4. ASSUME NEW document \in SUBSET Tools, Import(s, document)
        PROVE  Usable(k)'
    BY <1>3, <1>4, <2>4 DEF Import
  <2>5. ASSUME NEW document \in SUBSET Tools, NEW j \in Skills, NEW ts \in SUBSET document,
               Persist(s, document, j, ts)
        PROVE  Usable(k)'
    <3>1. /\ skill' = [skill EXCEPT ![j] = "running"]
          /\ binds' = [binds EXCEPT ![j] = ts]
          /\ unfit' = IF source[s] = "off" THEN unfit \cup {j} ELSE unfit
      BY <2>5 DEF Persist
    <3>2. CASE k # j
      BY <1>3, <1>4, <3>1, <3>2 DEF TypeOK
    <3>3. CASE k = j
      <4>1. binds'[k] = ts /\ source[s] # "off"
        BY <3>1, <3>3 DEF TypeOK
      <4>2. /\ \A t \in ts : tool'[t] = "on" /\ SourceOf[t] = s
            /\ source'[s] = IF source[s] = "absent" THEN "on" ELSE source[s]
            /\ source'[s] \in {"on", "off"}
        BY <2>5 DEF Persist, Managed, KeptTools, TypeOK
      <4>3. source'[s] = "on"
        BY <4>1, <4>2
      <4> QED BY <4>1, <4>2, <4>3 DEF Usable, Available
    <3> QED BY <3>2, <3>3
  <2> QED BY <1>4, <2>1, <2>2, <2>3, <2>4, <2>5 DEF SourceStep
<1>5. ASSUME KeepsTools,
             \/ \E done \in SUBSET Tools : EnableTools(done)
             \/ \E t \in Tools \cup {NoTool} : SetToolAuth(t)
             \/ UNCHANGED vars
      PROVE  Usable(k)'
  BY <1>3, <1>5 DEF EnableTools, SetToolAuth, vars
<1>6. ASSUME KeepsTools, NEW j \in Skills, StartSkill(j)
      PROVE  Usable(k)'
  <2>1. /\ Eligible(binds[j]) /\ unfit' = unfit \ {j} /\ binds' = binds
        /\ skill' = [skill EXCEPT ![j] = "running"]
    BY <1>6 DEF StartSkill
  <2>2. CASE k # j
    BY <1>3, <1>6, <2>1, <2>2 DEF TypeOK
  <2>3. CASE k = j
    BY <1>6, <2>1, <2>3, CallableUsable DEF TypeOK, Eligible
  <2> QED BY <2>2, <2>3
<1>7. ASSUME KeepsTools, NEW w \in Writers, WriterStep(w)
      PROVE  Usable(k)'
  <2>1. CASE WriteSkill(w)
    <3> DEFINE j == writer[w].skill
               ts == writer[w].tools
    <3>1. j \in Skills /\ ts \in SUBSET Tools
      BY <2>1, Read DEF WriteSkill
    <3>2. /\ \E new : skill' = [skill EXCEPT ![j] = new]
          /\ binds' = [binds EXCEPT ![j] = ts]
          /\ unfit' = IF \A t \in ts : Available(t) THEN unfit \ {j} ELSE unfit \cup {j}
      BY <2>1 DEF WriteSkill, Noted
    <3> HIDE DEF j, ts
    <3>3. CASE k # j
      BY <1>3, <1>7, <3>2, <3>3 DEF TypeOK
    <3>4. CASE k = j
      <4>1. binds'[k] = ts /\ \A t \in ts : Available(t)
        BY <3>1, <3>2, <3>4 DEF TypeOK
      <4> QED BY <1>7, <3>1, <4>1, CallableUsable
    <3> QED BY <3>3, <3>4
  <2>2. CASE EndSkill(w)
    <3>1. writer[w].skill \in Skills
      BY <2>2, Read DEF EndSkill
    <3>2. skill'[k] = "running" => skill[k] = "running"
      BY <2>2, <3>1 DEF EndSkill, Edited, TypeOK
    <3> QED BY <1>3, <1>7, <2>2, <3>2 DEF EndSkill
  <2>3. CASE ConfigureSource(w)
    <3>1. UNCHANGED <<skill, binds, unfit>>
      BY <2>3 DEF ConfigureSource
    <3> QED BY <1>3, <1>7, <3>1
  <2>4. ASSUME UNCHANGED <<skill, binds, unfit>>
        PROVE  Usable(k)'
    BY <1>3, <1>7, <2>4
  <2> QED BY <1>7, <2>1, <2>2, <2>3, <2>4 DEF WriterStep, StartRefresh, ReadScheme, ReadSkill,
          ReadToEnd, FinishRefresh, Abandon
<1>8. CASE KeepsTools
  BY <1>2, <1>4, <1>5, <1>6, <1>7, <1>8, EndTakes DEF Next, ActOnTools
<1> QED BY <1>2, <1>8, StepShape

\* A Skill that runs has only Tools that can be called, or had others already
\* when they were bound, from outdated reads or by a job: no later step takes a
\* Tool away from under it, or starts it on another.
THEOREM RunningUsable == Spec => []RunningIsUsable
<1>1. Init => RunningIsUsable
  BY DEF Init, RunningIsUsable
<1>2. TypeOK /\ RunningIsUsable /\ [Next]_vars => RunningIsUsable'
  BY NextUsable
<1> QED BY <1>1, <1>2, CatalogTypeCorrect, PTL DEF Spec

-----------------------------------------------------------------------------
(* Login Tools, deleted sources and schemes                                *)

\* The Tool of a configuration, once chosen, is only given up by another choice.
LEMMA NextLoginReady ==
    ASSUME TypeOK, LoginToolIsReady, [Next]_vars
    PROVE  LoginToolIsReady'
<1> DEFINE Owners == Sources \cup {Global}
<1>1. ASSUME KeepsTools, \A x \in Owners : login'[x] \in {login[x], NoTool}
      PROVE  LoginToolIsReady'
  <2> SUFFICES ASSUME NEW x \in Owners, NEW t \in Tools, login'[x] = t
               PROVE  Available(t)'
    BY NextTypes DEF LoginToolIsReady, Available, TypeOK
  <2>1. login[x] = t
    BY <1>1, CatalogAssumption
  <2>2. Available(t)
    BY <2>1, CatalogAssumption DEF LoginToolIsReady
  <2> QED BY <1>1, <2>1, <2>2 DEF KeepsTools, Available
<1>2. ASSUME NEW ts \in SUBSET Tools, TakesTools(ts)
      PROVE  LoginToolIsReady'
  <2> SUFFICES ASSUME NEW x \in Owners, NEW t \in Tools, login'[x] = t
               PROVE  Available(t)'
    BY NextTypes DEF LoginToolIsReady, Available, TypeOK
  <2>1. login[x] = t /\ t \notin ts
    BY <1>2 DEF TakesTools, FreeOfLogin, LoginTools
  <2>2. Available(t)
    BY <2>1, CatalogAssumption DEF LoginToolIsReady
  <2> QED BY <1>2, <2>1, <2>2 DEF TakesTools, Available
<1>3. ASSUME KeepsTools, NEW y \in Owners, NEW n \in Tools \cup {NoTool},
             login' = [login EXCEPT ![y] = n], n = NoTool \/ Available(n)
      PROVE  LoginToolIsReady'
  <2> SUFFICES ASSUME NEW x \in Owners, NEW t \in Tools, login'[x] = t
               PROVE  Available(t)'
    BY NextTypes DEF LoginToolIsReady, Available, TypeOK
  <2>1. Available(t)
    BY <1>3, CatalogAssumption DEF LoginToolIsReady, TypeOK
  <2> QED BY <1>3, <2>1 DEF KeepsTools, Available
<1>4. CASE UNCHANGED login /\ KeepsTools
  BY <1>1, <1>4
<1>5. ASSUME KeepsTools, NEW s \in Sources, SourceStep(s)
      PROVE  LoginToolIsReady'
  <2>1. ASSUME NEW t \in Tools \cup {NoTool}, SetSourceToolAuth(s, t)
        PROVE  LoginToolIsReady'
    BY <1>3, <1>5, <2>1 DEF SetSourceToolAuth
  <2> QED BY <1>4, <1>5, <2>1 DEF SourceStep, EnableSource, DisableSource, DeleteSource,
          Import, Persist
<1>6. ASSUME KeepsTools, NEW w \in Writers, WriterStep(w)
      PROVE  LoginToolIsReady'
  <2>1. CASE ConfigureSource(w)
    <3> DEFINE s == writer[w].source
    <3>1. s \in Sources /\ login' \in {login, [login EXCEPT ![s] = NoTool]}
      BY <2>1, Read DEF ConfigureSource
    <3> HIDE DEF s
    <3> QED BY <1>1, <1>6, <3>1 DEF TypeOK
  <2> QED BY <1>4, <1>6, <2>1 DEF WriterStep, StartRefresh, ReadScheme, ReadSkill, ReadToEnd,
          FinishRefresh, WriteSkill, EndSkill, Abandon
<1>7. CASE KeepsTools
  <2>1. ASSUME NEW t \in Tools \cup {NoTool}, SetToolAuth(t)
        PROVE  LoginToolIsReady'
    BY <1>3, <1>7, <2>1 DEF SetToolAuth
  <2> QED BY <1>4, <1>5, <1>6, <1>7, <2>1 DEF Next, ActOnTools, EnableTools, EndTools,
          StartSkill, vars
<1> QED BY <1>2, <1>7, StepShape

\* The Tool of an enabled login configuration can be called.
THEOREM LoginToolsReady == Spec => []LoginToolIsReady
<1>1. Init => LoginToolIsReady
  BY DEF Init, LoginToolIsReady
<1>2. TypeOK /\ LoginToolIsReady /\ [Next]_vars => LoginToolIsReady'
  BY NextLoginReady
<1> QED BY <1>1, <1>2, CatalogTypeCorrect, PTL DEF Spec

\* A deleted source has no enabled Tool.
THEOREM DeletedIsOff == Spec => []DeletedSourceIsOff
<1>1. Init => DeletedSourceIsOff
  BY DEF Init, DeletedSourceIsOff
<1>2. TypeOK /\ DeletedSourceIsOff /\ [Next]_vars => DeletedSourceIsOff'
  <2> SUFFICES ASSUME TypeOK, DeletedSourceIsOff, [Next]_vars, NEW t \in Tools
               PROVE  source'[SourceOf[t]] = "deleted" => tool'[t] # "on"
    BY DEF DeletedSourceIsOff
  <2>1. source[SourceOf[t]] = "deleted" => tool[t] # "on"
    BY DEF DeletedSourceIsOff
  <2>2. SourceOf[t] \in Sources
    BY CatalogAssumption
  <2> DEFINE Goal == source'[SourceOf[t]] = "deleted" => tool'[t] # "on"
  <2>3. ASSUME NEW s \in Sources, SourceStep(s)
        PROVE  Goal
    <3>1. CASE DeleteSource(s)
      BY <2>1, <2>2, <3>1 DEF DeleteSource, KeptTools, Kept, TypeOK
    <3>2. CASE EnableSource(s) \/ DisableSource(s)
      BY <2>1, <2>2, <3>2 DEF EnableSource, DisableSource, TypeOK
    <3>3. ASSUME NEW x \in Tools \cup {NoTool}, SetSourceToolAuth(s, x)
          PROVE  Goal
      BY <2>1, <3>3 DEF SetSourceToolAuth
    <3>4. ASSUME NEW document \in SUBSET Tools, Import(s, document)
          PROVE  Goal
      BY <2>1, <2>2, <3>4 DEF Import, TypeOK
    <3>5. ASSUME NEW document \in SUBSET Tools, NEW k \in Skills, NEW ts \in SUBSET document,
                 Persist(s, document, k, ts)
          PROVE  Goal
      <4>1. CASE SourceOf[t] = s
        BY <2>2, <3>5, <4>1, PersistKeeps
      <4>2. CASE SourceOf[t] # s
        <5>1. source'[SourceOf[t]] = source[SourceOf[t]]
          BY <2>2, <3>5, <4>2, PersistKeeps
        <5>2. t \notin document
          BY <3>5, <4>2 DEF Persist, KeptTools
        <5>3. tool'[t] = tool[t]
          BY <3>5, <5>2 DEF Persist
        <5> QED BY <2>1, <5>1, <5>3
      <4> QED BY <4>1, <4>2
    <3> QED BY <2>3, <3>1, <3>2, <3>3, <3>4, <3>5 DEF SourceStep
  <2>4. ASSUME NEW done \in SUBSET Tools,
               EnableTools(done) \/ EndTools(done, "off") \/ EndTools(done, "deleted")
        PROVE  Goal
    BY <2>1, <2>4 DEF EnableTools, EndTools
  <2>5. ASSUME NEW w \in Writers, WriterStep(w)
        PROVE  Goal
    <3>1. ASSUME NEW document \in SUBSET Tools, FinishRefresh(w, document)
          PROVE  Goal
      BY <2>1, <3>1 DEF FinishRefresh
    <3>2. CASE UNCHANGED <<source, tool>>
      BY <2>1, <3>2
    <3> QED BY <2>5, <3>1, <3>2 DEF WriterStep, StartRefresh, ReadScheme, ReadSkill, ReadToEnd,
            ConfigureSource, WriteSkill, EndSkill, Abandon
  <2>6. CASE UNCHANGED <<source, tool>>
    BY <2>1, <2>6
  <2> QED BY <2>3, <2>4, <2>5, <2>6 DEF Next, ActOnTools, SetToolAuth, StartSkill, vars
<1> QED BY <1>1, <1>2, CatalogTypeCorrect, PTL DEF Spec

\* What auth_mode, the login Tool and the OAuth configuration say together.
Agree(s) == (mode[s] = "tool" <=> login[s] # NoTool) /\ (mode[s] = "oauth" <=> oauth[s])

\* What is claimed of a source.
OneSchemeOf(s) ==
    /\ ~(oauth[s] /\ login[s] # NoTool)
    /\ s \notin outdated => Agree(s)

\* A step that leaves the scheme of a source alone.
LEMMA SchemeKept ==
    ASSUME NEW s \in Sources, OneSchemeOf(s), UNCHANGED <<mode[s], login[s], oauth[s]>>,
           s \in outdated => s \in outdated'
    PROVE  OneSchemeOf(s)'
BY DEF OneSchemeOf, Agree

\* An administrator chooses a login Tool of the source, or none.
LEMMA ToolAuthAgrees ==
    ASSUME TypeOK, NEW s \in Sources, OneSchemeOf(s), NEW t \in Tools \cup {NoTool},
           SetSourceToolAuth(s, t)
    PROVE  OneSchemeOf(s)'
<1>1. CASE t # NoTool
  BY <1>1 DEF SetSourceToolAuth, OAuthAfterLogin, OneSchemeOf, Agree, TypeOK
<1>2. CASE t = NoTool
  <2>1. /\ login' = [login EXCEPT ![s] = NoTool] /\ UNCHANGED <<oauth, outdated>>
        /\ mode' = [mode EXCEPT ![s] = IF @ = "tool" THEN "none" ELSE @]
    BY <1>2, CatalogAssumption DEF SetSourceToolAuth
  <2> QED BY <2>1, CatalogAssumption DEF OneSchemeOf, Agree, TypeOK
<1> QED BY <1>1, <1>2

\* OAuth of a source is configured: the login Tool gives way to what is enabled,
\* and with reads that still hold, auth_mode names it.
LEMMA ConfigureAgrees ==
    ASSUME TypeOK, NEW w \in Writers, ConfigureSource(w),
           NEW s \in Sources, s = writer[w].source, OneSchemeOf(s)
    PROVE  OneSchemeOf(s)'
<1> DEFINE saw    == writer[w].saw
           enable == writer[w].enable
           new    == Configured(saw, enable)
<1>1. s \in Sources /\ saw \in Schemes /\ enable \in BOOLEAN
  BY Read DEF ConfigureSource
<1>2. /\ mode' = [mode EXCEPT ![s] = Written(@, saw.mode, new.mode)]
      /\ oauth' = [oauth EXCEPT ![s] = Written(@, saw.oauth, new.oauth)]
      /\ login' = IF enable THEN [login EXCEPT ![s] = NoTool] ELSE login
      /\ outdated' = IF saw = Scheme(s) THEN outdated ELSE outdated \cup {s}
  BY DEF ConfigureSource
<1>3. /\ enable => new.mode = "oauth" /\ new.oauth = TRUE
      /\ ~enable => /\ new.mode = IF saw.mode = "oauth" THEN "none" ELSE saw.mode
                    /\ new.oauth = FALSE
  BY DEF Configured
<1> HIDE DEF saw, enable, new
<1>4. ~(oauth'[s] /\ login'[s] # NoTool)
  <2>1. CASE enable
    <3>1. login'[s] = NoTool
      BY <1>1, <1>2, <2>1 DEF TypeOK
    <3> QED BY <3>1
  <2>2. CASE ~enable
    <3>1. login'[s] = login[s] /\ oauth'[s] \in {oauth[s], FALSE}
      BY <1>1, <1>2, <1>3, <2>2 DEF TypeOK, Written
    <3>2. ~(oauth[s] /\ login[s] # NoTool)
      BY DEF OneSchemeOf
    <3> QED BY <3>1, <3>2
  <2> QED BY <1>1, <2>1, <2>2
<1>5. ASSUME s \notin outdated'
      PROVE  Agree(s)'
  <2>1. saw = Scheme(s) /\ s \notin outdated
    BY <1>2, <1>5
  <2>2. Agree(s) /\ saw.mode = mode[s] /\ saw.oauth = oauth[s]
    BY <2>1 DEF OneSchemeOf, Scheme
  <2>3. mode'[s] = new.mode /\ oauth'[s] = new.oauth
    BY <1>1, <1>2, <2>2 DEF Written, TypeOK
  <2>4. CASE enable
    <3>1. login'[s] = NoTool /\ mode'[s] = "oauth" /\ oauth'[s] = TRUE
      BY <1>1, <1>2, <1>3, <2>3, <2>4 DEF TypeOK
    <3> QED BY <3>1 DEF Agree
  <2>5. CASE ~enable
    <3>1. /\ login'[s] = login[s] /\ oauth'[s] = FALSE
          /\ mode'[s] = IF mode[s] = "oauth" THEN "none" ELSE mode[s]
      BY <1>2, <1>3, <2>2, <2>3, <2>5
    <3> QED BY <2>2, <3>1 DEF Agree
  <2> QED BY <1>1, <2>4, <2>5
<1> QED BY <1>4, <1>5 DEF OneSchemeOf

\* OAuth or a login Tool, never both; and auth_mode says which, unless it was
\* configured from outdated reads.
THEOREM SchemesAgree == Spec => []OneScheme
<1>1. Init => OneScheme
  BY CatalogAssumption DEF Init, OneScheme
<1>2. TypeOK /\ OneScheme /\ [Next]_vars => OneScheme'
  <2> SUFFICES ASSUME TypeOK, OneScheme, [Next]_vars, NEW s \in Sources
               PROVE  OneSchemeOf(s)'
    BY DEF OneScheme, OneSchemeOf, Agree
  <2>1. OneSchemeOf(s)
    BY DEF OneScheme, OneSchemeOf, Agree
  <2>2. ASSUME UNCHANGED <<mode, login, oauth, outdated>>
        PROVE  OneSchemeOf(s)'
    BY <2>1, <2>2, SchemeKept
  <2>3. ASSUME NEW x \in Sources, NEW t \in Tools \cup {NoTool}, SetSourceToolAuth(x, t)
        PROVE  OneSchemeOf(s)'
    <3>1. CASE s # x
      <4>1. UNCHANGED <<mode[s], login[s], oauth[s]>> /\ (s \in outdated => s \in outdated')
        BY <2>3, <3>1 DEF SetSourceToolAuth, TypeOK
      <4> QED BY <2>1, <4>1, SchemeKept
    <3>2. CASE s = x
      BY <2>1, <2>3, <3>2, ToolAuthAgrees
    <3> QED BY <3>1, <3>2
  <2>4. ASSUME NEW w \in Writers, ConfigureSource(w)
        PROVE  OneSchemeOf(s)'
    <3>1. CASE s # writer[w].source
      <4>1. UNCHANGED <<mode[s], login[s], oauth[s]>> /\ outdated \subseteq outdated'
        BY <2>4, <3>1 DEF ConfigureSource, TypeOK
      <4> QED BY <2>1, <4>1, SchemeKept
    <3>2. CASE s = writer[w].source
      BY <2>1, <2>4, <3>2, ConfigureAgrees
    <3> QED BY <3>1, <3>2
  <2>5. ASSUME NEW t \in Tools \cup {NoTool}, SetToolAuth(t)
        PROVE  OneSchemeOf(s)'
    <3>1. UNCHANGED <<mode[s], login[s], oauth[s], outdated>>
      BY <2>5, CatalogAssumption DEF SetToolAuth, TypeOK
    <3> QED BY <2>1, <3>1, SchemeKept
  <2>6. ASSUME NEW w \in Writers, WriterStep(w)
        PROVE  OneSchemeOf(s)'
    BY <2>2, <2>4, <2>6 DEF WriterStep, StartRefresh, ReadScheme, ReadSkill,
       ReadToEnd, FinishRefresh, WriteSkill, EndSkill, Abandon
  <2>7. ASSUME NEW x \in Sources, SourceStep(x)
        PROVE  OneSchemeOf(s)'
    BY <2>2, <2>3, <2>7 DEF SourceStep, EnableSource, DisableSource,
       DeleteSource, Import, Persist
  <2> QED BY <2>2, <2>5, <2>6, <2>7 DEF Next, ActOnTools, EnableTools, EndTools, StartSkill, vars
<1> QED BY <1>1, <1>2, CatalogTypeCorrect, PTL DEF Spec
=============================================================================
