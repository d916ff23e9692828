------------------------------- MODULE Agents -------------------------------
(***************************************************************************)
(* Agents, their providers and their Skills (api/admin_agents.py,          *)
(* api/admin_providers.py).  Every write but the creation of a provider is *)
(* under serialized_write, so that a handler is one action; Skills come    *)
(* and go by handlers of their own (ToolCatalog), Auto-Agentify jobs add   *)
(* Agents.                                                                 *)
(***************************************************************************)
EXTENDS FiniteSets

CONSTANTS
    Agents,     \* Agents
    Providers,  \* LLM providers
    Skills,     \* Skills
    FirstAgent, \* the Agent that the migrations create
    NoProvider  \* provider_id IS NULL

ASSUME AgentsAssumption ==
    /\ FirstAgent \in Agents
    /\ NoProvider \notin Providers

VARIABLES
    agent,    \* agents: absent, on (enabled), off or deleted
    default,  \* the Agents with is_default
    uses,     \* provider_id of each
    bound,    \* agent_skills
    provider, \* llm_providers: absent, on, off or deleted
    running,  \* Skills that run
    gone      \* Skills that are deleted

agentVars == <<agent, default, uses, bound, provider, running, gone>>

Places == {"absent", "on", "off", "deleted"}

\* Every table keeps its shape.
AgentsTypeOK ==
    /\ agent \in [Agents -> Places]
    /\ default \subseteq Agents
    /\ uses \in [Agents -> Providers \cup {NoProvider}]
    /\ bound \in [Agents -> SUBSET Skills]
    /\ provider \in [Providers -> Places]
    /\ running \subseteq Skills
    /\ gone \subseteq Skills

-----------------------------------------------------------------------------
(* Helpers                                                                 *)

Kept(a) == agent[a] \in {"on", "off"}
ProviderOn(p) == p # NoProvider /\ provider[p] = "on"
RunsSkill(ks) == ks \cap (running \ gone) # {}
Runnable(a) == ProviderOn(uses[a]) /\ RunsSkill(bound[a])

InitAgents ==
    /\ agent = [a \in Agents |-> IF a = FirstAgent THEN "on" ELSE "absent"]
    /\ default = {FirstAgent}
    /\ uses = [a \in Agents |-> NoProvider]
    /\ bound = [a \in Agents |-> {}]
    /\ provider = [p \in Providers |-> "absent"]
    /\ running = {}
    /\ gone = {}

-----------------------------------------------------------------------------
(* Agents                                                                  *)

\* An Agent may name no provider as long as it is disabled.
ProviderFits(p, enabled) == ProviderOn(p) \/ (p = NoProvider /\ ~enabled)

\* No Skill is bound yet, so an enabled Agent is refused.
CreateAgent(a, p) ==
    /\ agent[a] = "absent"
    /\ ProviderFits(p, FALSE)
    /\ agent' = [agent EXCEPT ![a] = "off"]
    /\ uses' = [uses EXCEPT ![a] = p]
    /\ UNCHANGED <<default, bound, provider, running, gone>>

MayStop(a) == a \notin default

UpdateAgent(a, p, enabled) ==
    /\ Kept(a)
    /\ enabled \/ MayStop(a)
    /\ ProviderFits(p, enabled)
    /\ enabled /\ agent[a] = "off" => RunsSkill(bound[a])
    /\ agent' = [agent EXCEPT ![a] = IF enabled THEN "on" ELSE "off"]
    /\ uses' = [uses EXCEPT ![a] = p]
    /\ UNCHANGED <<default, bound, provider, running, gone>>

ReplaceSkills(a, ks) ==
    /\ Kept(a)
    /\ ks \cap gone = {}
    /\ bound' = [bound EXCEPT ![a] = ks]
    /\ UNCHANGED <<agent, default, uses, provider, running, gone>>

EnableAgent(a) ==
    /\ Kept(a)
    /\ Runnable(a)
    /\ agent' = [agent EXCEPT ![a] = "on"]
    /\ UNCHANGED <<default, uses, bound, provider, running, gone>>

DisableAgent(a) ==
    /\ Kept(a)
    /\ MayStop(a)
    /\ agent' = [agent EXCEPT ![a] = "off"]
    /\ UNCHANGED <<default, uses, bound, provider, running, gone>>

\* Mutant: the bulk update does not reach the row in the session, so that
\* the flag of an Agent that was the default already is not written again.
DefaultLost(a) == IF a \in default THEN {} ELSE {a}

NewDefault(a) == {a}

SetDefault(a) ==
    /\ Kept(a)
    /\ Runnable(a)
    /\ default' = NewDefault(a)
    /\ agent' = [agent EXCEPT ![a] = "on"]
    /\ UNCHANGED <<uses, bound, provider, running, gone>>

DeleteAgent(a) ==
    /\ Kept(a)
    /\ a \notin default
    /\ agent' = [agent EXCEPT ![a] = "deleted"]
    /\ UNCHANGED <<default, uses, bound, provider, running, gone>>

\* The commit of a job: an enabled Agent with Skills that run, on the
\* provider that was enabled before the model was asked.
Generate(a, p, ks) ==
    /\ agent[a] = "absent"
    /\ provider[p] # "absent"
    /\ ks # {} /\ ks \cap gone = {}
    /\ agent' = [agent EXCEPT ![a] = "on"]
    /\ uses' = [uses EXCEPT ![a] = p]
    /\ bound' = [bound EXCEPT ![a] = ks]
    /\ running' = running \cup ks
    /\ UNCHANGED <<default, provider, gone>>

-----------------------------------------------------------------------------
(* Providers and Skills                                                    *)

CreateProvider(p, enabled) ==
    /\ provider[p] = "absent"
    /\ provider' = [provider EXCEPT ![p] = IF enabled THEN "on" ELSE "off"]
    /\ UNCHANGED <<agent, default, uses, bound, running, gone>>

FreeOfAgents(p) == \A a \in Agents : Kept(a) => uses[a] # p

EnableProvider(p) ==
    /\ provider[p] = "off"
    /\ provider' = [provider EXCEPT ![p] = "on"]
    /\ UNCHANGED <<agent, default, uses, bound, running, gone>>

EndProvider(p, end) ==
    /\ provider[p] \in {"on", "off"}
    /\ FreeOfAgents(p)
    /\ provider' = [provider EXCEPT ![p] = end]
    /\ UNCHANGED <<agent, default, uses, bound, running, gone>>

StartSkill(k) ==
    /\ k \notin gone
    /\ running' = running \cup {k}
    /\ UNCHANGED <<agent, default, uses, bound, provider, gone>>

StopSkill(k) ==
    /\ running' = running \ {k}
    /\ UNCHANGED <<agent, default, uses, bound, provider, gone>>

DeleteSkill(k) ==
    /\ running' = running \ {k}
    /\ gone' = gone \cup {k}
    /\ UNCHANGED <<agent, default, uses, bound, provider>>

-----------------------------------------------------------------------------

AgentStep(a) ==
    \/ \E p \in Providers \cup {NoProvider} :
          CreateAgent(a, p) \/ \E enabled \in BOOLEAN : UpdateAgent(a, p, enabled)
    \/ \E p \in Providers, ks \in SUBSET Skills : Generate(a, p, ks)
    \/ \E ks \in SUBSET Skills : ReplaceSkills(a, ks)
    \/ EnableAgent(a) \/ DisableAgent(a) \/ SetDefault(a) \/ DeleteAgent(a)

ProviderStep(p) ==
    \/ \E enabled \in BOOLEAN : CreateProvider(p, enabled)
    \/ EnableProvider(p)
    \/ EndProvider(p, "off") \/ EndProvider(p, "deleted")

AgentsNext ==
    \/ \E a \in Agents : AgentStep(a)
    \/ \E p \in Providers : ProviderStep(p)
    \/ \E k \in Skills : StartSkill(k) \/ StopSkill(k) \/ DeleteSkill(k)

AgentsSpec == InitAgents /\ [][AgentsNext]_agentVars

-----------------------------------------------------------------------------
(* Properties                                                              *)

\* One Agent is the default, and it is enabled and not deleted, in whatever
\* order Agents are made the default, updated, disabled and deleted.
OneDefaultEnabled == \E a \in Agents : default = {a} /\ agent[a] = "on"

\* No step takes the provider of a kept Agent away, disabled or not: only
\* the Agent's own update does.  (An Agent may be born on a provider that is
\* gone already, by Generate.)
AgentsKeepProvider ==
    \A a \in Agents : Kept(a) /\ ProviderOn(uses[a]) /\ Kept(a)' =>
        ProviderOn(uses[a])' \/ uses'[a] = NoProvider

ProviderStays == [][AgentsKeepProvider]_agentVars
=============================================================================
