---------------------------- MODULE ToolCatalog ----------------------------
(***************************************************************************)
(* API Sources, their Tools, the Skills bound to them and the ways a       *)
(* source authenticates (api/admin_tools.py, tools/bulk.py,                *)
(* api/admin_skills.py, ToolOAuthService.configure_source and the commit   *)
(* of an Auto-Agentify job).                                               *)
(*                                                                         *)
(* A handler under serialized_write reads and writes in one transaction    *)
(* that nothing interleaves with: one action.  The others read first and   *)
(* take the write lock with their first statement; what they have read is  *)
(* kept in `writer', and another handler may commit in between.  The reads *)
(* of one such handler are taken together.                                 *)
(***************************************************************************)
EXTENDS FiniteSets

CONSTANTS
    Sources,   \* API Sources
    Tools,     \* operations of their documents: a row per source and key
    SourceOf,  \* api_source_id of each
    Skills,    \* Skills
    Writers,   \* bound: handlers without the write lock in flight
    OAuthable, \* bound: the sources that OAuth gets configured for
    NoTool,    \* login_tool_id IS NULL
    Global     \* the key of the global login configuration

ASSUME CatalogAssumption ==
    /\ SourceOf \in [Tools -> Sources]
    /\ OAuthable \subseteq Sources
    /\ NoTool \notin Tools
    /\ Global \notin Sources

VARIABLES
    source,   \* api_sources: absent, on, off or deleted
    tool,     \* tools, likewise
    login,    \* the Tool of each enabled login configuration, or NoTool
    mode,     \* api_sources.auth_mode
    oauth,    \* sources with an enabled OAuth configuration
    skill,    \* skills: absent, running, stopped or deleted
    binds,    \* skill_tools
    writer,   \* what each handler without the write lock has read
    unfit,    \* Skills whose Tools could not all be called when they were bound
    outdated  \* sources whose OAuth was configured from outdated reads

vars == <<source, tool, login, mode, oauth, skill, binds, writer, unfit, outdated>>

Places == {"absent", "on", "off", "deleted"}
SkillStates == {"absent", "running", "stopped", "deleted"}
Modes == {"none", "oauth", "tool"}
Schemes == [mode: Modes, oauth: BOOLEAN]
Idle == [kind |-> "idle"]
Readings ==
    [kind: {"create", "update"}, skill: Skills, was: SkillStates, tools: SUBSET Tools]
    \cup [kind: {"stop", "delete"}, skill: Skills, was: SkillStates]
    \cup [kind: {"refresh"}, source: Sources]
    \cup [kind: {"configure"}, source: Sources, enable: BOOLEAN, saw: Schemes]

\* Every table keeps its shape.
TypeOK ==
    /\ source \in [Sources -> Places]
    /\ tool \in [Tools -> Places]
    /\ login \in [Sources \cup {Global} -> Tools \cup {NoTool}]
    /\ mode \in [Sources -> Modes]
    /\ oauth \in [Sources -> BOOLEAN]
    /\ skill \in [Skills -> SkillStates]
    /\ binds \in [Skills -> SUBSET Tools]
    /\ writer \in [Writers -> Readings \cup {Idle}]
    /\ unfit \subseteq Skills
    /\ outdated \subseteq Sources

-----------------------------------------------------------------------------
(* Helpers                                                                 *)

Managed(s) == source[s] \in {"on", "off"}
Kept(t) == tool[t] \in {"on", "off"}
KeptTools(s) == {t \in Tools : SourceOf[t] = s /\ Kept(t)}
Available(t) == tool[t] = "on" /\ source[SourceOf[t]] = "on"
LoginTools == {login[x] : x \in Sources \cup {Global}}

Eligible(ts) == \A t \in ts : Available(t) /\ t \notin LoginTools

\* Mutant: only the Skills bound to nothing else are stopped.
StoppedOnly(ts) ==
    [k \in Skills |-> IF skill[k] = "running" /\ binds[k] # {} /\ binds[k] \subseteq ts
                      THEN "stopped" ELSE skill[k]]

Stopped(ts) ==
    [k \in Skills |-> IF skill[k] = "running" /\ binds[k] \cap ts # {}
                      THEN "stopped" ELSE skill[k]]

Scheme(s) == [mode |-> mode[s], oauth |-> oauth[s]]

Init ==
    /\ source = [s \in Sources |-> "absent"]
    /\ tool = [t \in Tools |-> "absent"]
    /\ login = [x \in Sources \cup {Global} |-> NoTool]
    /\ mode = [s \in Sources |-> "none"]
    /\ oauth = [s \in Sources |-> FALSE]
    /\ skill = [k \in Skills |-> "absent"]
    /\ binds = [k \in Skills |-> {}]
    /\ writer = [w \in Writers |-> Idle]
    /\ unfit = {} /\ outdated = {}

-----------------------------------------------------------------------------
(* Sources and Tools                                                       *)

\* A document is imported: its Tools are disabled.
Import(s, document) ==
    /\ source[s] = "absent"
    /\ \A t \in document : SourceOf[t] = s
    /\ source' = [source EXCEPT ![s] = "on"]
    /\ tool' = [t \in Tools |-> IF t \in document THEN "off" ELSE tool[t]]
    /\ UNCHANGED <<login, mode, oauth, skill, binds, writer, unfit, outdated>>

\* Mutant: the global configuration is overlooked.
FreeOfSourceLogin(ts) == \A s \in Sources : login[s] \notin ts

\* No enabled login configuration names one of the Tools.
FreeOfLogin(ts) == ts \cap LoginTools = {}

EnableSource(s) ==
    /\ Managed(s)
    /\ source' = [source EXCEPT ![s] = "on"]
    /\ UNCHANGED <<tool, login, mode, oauth, skill, binds, writer, unfit, outdated>>

DisableSource(s) ==
    /\ Managed(s)
    /\ FreeOfLogin(KeptTools(s))
    /\ source' = [source EXCEPT ![s] = "off"]
    /\ skill' = Stopped(KeptTools(s))
    /\ UNCHANGED <<tool, login, mode, oauth, binds, writer, unfit, outdated>>

\* Mutant: the Tools of a deleted source stay as they are.
DeleteSourceOnly(s) ==
    /\ Managed(s)
    /\ FreeOfLogin(KeptTools(s))
    /\ source' = [source EXCEPT ![s] = "deleted"]
    /\ skill' = Stopped(KeptTools(s))
    /\ UNCHANGED <<tool, login, mode, oauth, binds, writer, unfit, outdated>>

DeleteSource(s) ==
    /\ Managed(s)
    /\ FreeOfLogin(KeptTools(s))
    /\ source' = [source EXCEPT ![s] = "deleted"]
    /\ tool' = [t \in Tools |-> IF t \in KeptTools(s) THEN "deleted" ELSE tool[t]]
    /\ skill' = Stopped(KeptTools(s))
    /\ UNCHANGED <<login, mode, oauth, binds, writer, unfit, outdated>>

\* A batch under one lock, each Tool in a savepoint of its own: `done' are
\* those that went through.  A single Tool is a batch of one.
EnableTools(done) ==
    /\ \A t \in done : Kept(t) /\ source[SourceOf[t]] = "on"
    /\ tool' = [t \in Tools |-> IF t \in done THEN "on" ELSE tool[t]]
    /\ UNCHANGED <<source, login, mode, oauth, skill, binds, writer, unfit, outdated>>

EndTools(done, end) ==
    /\ \A t \in done : Kept(t)
    /\ FreeOfLogin(done)
    /\ skill' = Stopped(done)
    /\ tool' = [t \in Tools |-> IF t \in done THEN end ELSE tool[t]]
    /\ UNCHANGED <<source, login, mode, oauth, binds, writer, unfit, outdated>>

ActOnTools ==
    \E done \in SUBSET Tools \ {{}} :
        EnableTools(done) \/ EndTools(done, "off") \/ EndTools(done, "deleted")

\* The document is fetched between the look at the source and the commit.
StartRefresh(w, s) ==
    /\ writer[w] = Idle
    /\ Managed(s)
    /\ writer' = [writer EXCEPT ![w] = [kind |-> "refresh", source |-> s]]
    /\ UNCHANGED <<source, tool, login, mode, oauth, skill, binds, unfit, outdated>>

\* A key that only a deleted Tool has is inserted again and collides; then
\* nothing of the document is kept.
FinishRefresh(w, document) ==
    /\ writer[w].kind = "refresh"
    /\ \A t \in document : SourceOf[t] = writer[w].source /\ tool[t] # "deleted"
    /\ tool' = [t \in Tools |-> IF t \in document /\ tool[t] = "absent"
                                THEN "off" ELSE tool[t]]
    /\ writer' = [writer EXCEPT ![w] = Idle]
    /\ UNCHANGED <<source, login, mode, oauth, skill, binds, unfit, outdated>>

-----------------------------------------------------------------------------
(* Authentication of the sources                                           *)

SetToolAuth(t) ==
    /\ t = NoTool \/ (t \in Tools /\ Available(t))
    /\ login' = [login EXCEPT ![Global] = t]
    /\ UNCHANGED <<source, tool, mode, oauth, skill, binds, writer, unfit, outdated>>

\* Mutant: an OAuth configuration stays enabled.
KeepsOAuth(s) == oauth[s]

OAuthAfterLogin(s) == FALSE

SetSourceToolAuth(s, t) ==
    /\ Managed(s)
    /\ \/ /\ t \in Tools /\ SourceOf[t] = s /\ Available(t)
          /\ mode' = [mode EXCEPT ![s] = "tool"]
          /\ oauth' = [oauth EXCEPT ![s] = OAuthAfterLogin(s)]
          /\ outdated' = outdated \ {s}
       \/ /\ t = NoTool
          /\ mode' = [mode EXCEPT ![s] = IF @ = "tool" THEN "none" ELSE @]
          /\ UNCHANGED <<oauth, outdated>>
    /\ login' = [login EXCEPT ![s] = t]
    /\ UNCHANGED <<source, tool, skill, binds, writer, unfit>>

ReadScheme(w, s, enable) ==
    /\ writer[w] = Idle
    /\ source[s] = "on"
    /\ writer' = [writer EXCEPT ![w] = [kind |-> "configure", source |-> s,
                                        enable |-> enable, saw |-> Scheme(s)]]
    /\ UNCHANGED <<source, tool, login, mode, oauth, skill, binds, unfit, outdated>>

\* Mutant: a mode that the table does not know.
ConfiguredOff(saw, enable) ==
    IF enable THEN [mode |-> "oauth", oauth |-> TRUE]
              ELSE [mode |-> "off", oauth |-> FALSE]

\* What the handler makes of the rows it has read.
Configured(saw, enable) ==
    IF enable THEN [mode |-> "oauth", oauth |-> TRUE]
              ELSE [mode |-> IF saw.mode = "oauth" THEN "none" ELSE saw.mode, oauth |-> FALSE]

\* SQLAlchemy writes the columns that differ from what was read, no others.
Written(now, saw, new) == IF new = saw THEN now ELSE new

\* The login configuration is looked up last: the query flushes what has been
\* written so far, and with it takes the write lock.
ConfigureSource(w) ==
    /\ writer[w].kind = "configure"
    /\ LET s      == writer[w].source
           saw    == writer[w].saw
           enable == writer[w].enable
           new    == Configured(saw, enable)
       IN /\ mode' = [mode EXCEPT ![s] = Written(@, saw.mode, new.mode)]
          /\ oauth' = [oauth EXCEPT ![s] = Written(@, saw.oauth, new.oauth)]
          /\ login' = IF enable THEN [login EXCEPT ![s] = NoTool] ELSE login
          /\ outdated' = IF saw = Scheme(s) THEN outdated ELSE outdated \cup {s}
    /\ writer' = [writer EXCEPT ![w] = Idle]
    /\ UNCHANGED <<source, tool, skill, binds, unfit>>

-----------------------------------------------------------------------------
(* Skills                                                                  *)

Exists(k) == skill[k] \in {"running", "stopped"}

ReadSkill(w, k, kind, ts) ==
    /\ writer[w] = Idle
    /\ \/ kind = "create" /\ skill[k] = "absent"
       \/ kind = "update" /\ Exists(k)
    /\ Eligible(ts)
    /\ writer' = [writer EXCEPT ![w] = [kind |-> kind, skill |-> k,
                                        was |-> skill[k], tools |-> ts]]
    /\ UNCHANGED <<source, tool, login, mode, oauth, skill, binds, unfit, outdated>>

\* Whether the Tools of a Skill can be called when they are bound.
Noted(k, ts) == IF \A t \in ts : Available(t) THEN unfit \ {k} ELSE unfit \cup {k}

Edited(k, was) == IF was = "running" /\ skill[k] = "running" THEN "stopped" ELSE skill[k]

WriteSkill(w) ==
    /\ writer[w].kind \in {"create", "update"}
    /\ LET k  == writer[w].skill
           ts == writer[w].tools
       IN /\ writer[w].kind = "create" => skill[k] = "absent"
          /\ skill' = [skill EXCEPT ![k] =
                 IF writer[w].kind = "create" THEN "running"
                                              ELSE Edited(k, writer[w].was)]
          /\ binds' = [binds EXCEPT ![k] = ts]
          /\ unfit' = Noted(k, ts)
    /\ writer' = [writer EXCEPT ![w] = Idle]
    /\ UNCHANGED <<source, tool, login, mode, oauth, outdated>>

\* Mutant: the Tools are not looked at again.
StartUnchecked(k) ==
    /\ Exists(k)
    /\ skill' = [skill EXCEPT ![k] = "running"]
    /\ unfit' = unfit \ {k}
    /\ UNCHANGED <<source, tool, login, mode, oauth, binds, writer, outdated>>

StartSkill(k) ==
    /\ Exists(k)
    /\ Eligible(binds[k])
    /\ skill' = [skill EXCEPT ![k] = "running"]
    /\ unfit' = unfit \ {k}
    /\ UNCHANGED <<source, tool, login, mode, oauth, binds, writer, outdated>>

ReadToEnd(w, k, kind) ==
    /\ writer[w] = Idle
    /\ Exists(k)
    /\ writer' = [writer EXCEPT ![w] = [kind |-> kind, skill |-> k, was |-> skill[k]]]
    /\ UNCHANGED <<source, tool, login, mode, oauth, skill, binds, unfit, outdated>>

EndSkill(w) ==
    /\ writer[w].kind \in {"stop", "delete"}
    /\ LET k == writer[w].skill
       IN skill' = [skill EXCEPT ![k] =
              IF writer[w].kind = "delete" THEN "deleted" ELSE Edited(k, writer[w].was)]
    /\ writer' = [writer EXCEPT ![w] = Idle]
    /\ UNCHANGED <<source, tool, login, mode, oauth, binds, unfit, outdated>>

\* A name or a key that is taken, a failed fetch, a crash: nothing is kept.
Abandon(w) ==
    /\ writer[w] # Idle
    /\ writer' = [writer EXCEPT ![w] = Idle]
    /\ UNCHANGED <<source, tool, login, mode, oauth, skill, binds, unfit, outdated>>

\* An Auto-Agentify job commits, under the write lock, for a source it imports
\* or one that is there: it enables the Tools it binds, and looks neither at
\* whether the source is enabled nor at the login configurations.
Persist(s, document, k, ts) ==
    /\ skill[k] = "absent"
    /\ ts # {} /\ ts \subseteq document
    /\ \/ /\ source[s] = "absent" /\ \A t \in document : SourceOf[t] = s
          /\ source' = [source EXCEPT ![s] = "on"]
       \/ /\ Managed(s) /\ document \subseteq KeptTools(s)
          /\ UNCHANGED source
    /\ tool' = [t \in Tools |-> IF t \in ts THEN "on"
                               ELSE IF t \in document /\ tool[t] = "absent" THEN "off"
                               ELSE tool[t]]
    /\ skill' = [skill EXCEPT ![k] = "running"]
    /\ binds' = [binds EXCEPT ![k] = ts]
    /\ unfit' = IF source[s] = "off" THEN unfit \cup {k} ELSE unfit
    /\ UNCHANGED <<login, mode, oauth, writer, outdated>>

-----------------------------------------------------------------------------

SourceStep(s) ==
    \/ EnableSource(s) \/ DisableSource(s) \/ DeleteSource(s)
    \/ \E t \in Tools \cup {NoTool} : SetSourceToolAuth(s, t)
    \/ \E document \in SUBSET Tools \ {{}} :
          \/ Import(s, document)
          \/ \E k \in Skills, ts \in SUBSET document : Persist(s, document, k, ts)

WriterStep(w) ==
    \/ \E s \in Sources : StartRefresh(w, s)
    \/ \E s \in OAuthable, enable \in BOOLEAN : ReadScheme(w, s, enable)
    \/ \E k \in Skills, ts \in SUBSET Tools, kind \in {"create", "update"} :
          ReadSkill(w, k, kind, ts)
    \/ \E k \in Skills, kind \in {"stop", "delete"} : ReadToEnd(w, k, kind)
    \/ \E document \in SUBSET Tools : FinishRefresh(w, document)
    \/ ConfigureSource(w) \/ WriteSkill(w) \/ EndSkill(w) \/ Abandon(w)

Next ==
    \/ \E s \in Sources : SourceStep(s)
    \/ ActOnTools
    \/ \E t \in Tools \cup {NoTool} : SetToolAuth(t)
    \/ \E k \in Skills : StartSkill(k)
    \/ \E w \in Writers : WriterStep(w)

Spec == Init /\ [][Next]_vars

-----------------------------------------------------------------------------
(* Properties                                                              *)

\* A Skill that runs has only Tools that are enabled, of sources that are,
\* or it had others already when they were bound: whatever is disabled or
\* deleted later, alone, in a batch or with its source, takes its Skills
\* along, and no Skill is started on anything else.  What is excepted is bound
\* either from outdated reads or by a job, for a disabled source.
RunningIsUsable ==
    \A k \in Skills \ unfit : skill[k] = "running" => \A t \in binds[k] : Available(t)

\* No step that takes a Tool away leaves a Skill running on it, not even a
\* Skill that was written while the Tool was being disabled.
TakesSkillsAlong ==
    [][\A t \in Tools : Available(t) /\ ~Available(t)' =>
          \A k \in Skills : t \in binds[k]' => skill[k]' # "running"]_vars

\* The Tool of an enabled login configuration can be called: nobody
\* disables or deletes it, or its source, under the configuration.
LoginToolIsReady ==
    \A x \in Sources \cup {Global} : login[x] # NoTool => Available(login[x])

\* A deleted source has no enabled Tool, not even one that a refresh adds
\* after its deletion.
DeletedSourceIsOff ==
    \A t \in Tools : source[SourceOf[t]] = "deleted" => tool[t] # "on"

\* A source authenticates by OAuth or by its login Tool, never by both; and
\* auth_mode says by which, unless OAuth was configured from outdated reads.
OneScheme ==
    \A s \in Sources :
        /\ ~(oauth[s] /\ login[s] # NoTool)
        /\ s \notin outdated =>
              /\ mode[s] = "tool" <=> login[s] # NoTool
              /\ mode[s] = "oauth" <=> oauth[s]
=============================================================================
