---------------------------- MODULE Agents_proofs ----------------------------
(***************************************************************************)
(* Agents keep their shape, one of them is the default and enabled, and no *)
(* Agent loses its provider: for any number of Agents, providers and       *)
(* Skills.                                                                 *)
(***************************************************************************)
EXTENDS Agents, TLAPS

-----------------------------------------------------------------------------
(* Types                                                                   *)

\* The state that the migrations leave is well typed.
LEMMA AgentsTypeInit == InitAgents => AgentsTypeOK
BY AgentsAssumption DEF InitAgents, AgentsTypeOK, Places

\* Every handler of api/admin_agents.py, and the commit of a job.
LEMMA AgentStepType ==
    ASSUME AgentsTypeOK, NEW a \in Agents, AgentStep(a)
    PROVE  AgentsTypeOK'
<1> USE DEF AgentsTypeOK, Places
<1>1. ASSUME NEW p \in Providers \cup {NoProvider}, CreateAgent(a, p)
      PROVE  AgentsTypeOK'
  BY <1>1 DEF CreateAgent
<1>2. ASSUME NEW p \in Providers \cup {NoProvider}, NEW enabled \in BOOLEAN,
             UpdateAgent(a, p, enabled)
      PROVE  AgentsTypeOK'
  BY <1>2 DEF UpdateAgent
<1>3. ASSUME NEW p \in Providers, NEW ks \in SUBSET Skills, Generate(a, p, ks)
      PROVE  AgentsTypeOK'
  BY <1>3 DEF Generate
<1>4. ASSUME NEW ks \in SUBSET Skills, ReplaceSkills(a, ks)
      PROVE  AgentsTypeOK'
  BY <1>4 DEF ReplaceSkills
<1>5. CASE EnableAgent(a)
  BY <1>5 DEF EnableAgent
<1>6. CASE DisableAgent(a)
  BY <1>6 DEF DisableAgent
<1>7. CASE SetDefault(a)
  BY <1>7 DEF SetDefault, NewDefault
<1>8. CASE DeleteAgent(a)
  BY <1>8 DEF DeleteAgent
<1>9. QED
  BY <1>1, <1>2, <1>3, <1>4, <1>5, <1>6, <1>7, <1>8 DEF AgentStep

\* Every handler of api/admin_providers.py.
LEMMA ProviderStepType ==
    ASSUME AgentsTypeOK, NEW p \in Providers, ProviderStep(p)
    PROVE  AgentsTypeOK'
<1> USE DEF AgentsTypeOK, Places
<1>1. ASSUME NEW enabled \in BOOLEAN, CreateProvider(p, enabled)
      PROVE  AgentsTypeOK'
  BY <1>1 DEF CreateProvider
<1>2. CASE EnableProvider(p)
  BY <1>2 DEF EnableProvider
<1>3. CASE EndProvider(p, "off") \/ EndProvider(p, "deleted")
  BY <1>3 DEF EndProvider
<1>4. QED
  BY <1>1, <1>2, <1>3 DEF ProviderStep

\* Skills that start, stop or are deleted keep the types.
LEMMA SkillStepType ==
    ASSUME AgentsTypeOK, NEW k \in Skills,
           StartSkill(k) \/ StopSkill(k) \/ DeleteSkill(k)
    PROVE  AgentsTypeOK'
BY DEF AgentsTypeOK, StartSkill, StopSkill, DeleteSkill

\* Every step keeps the types.
LEMMA AgentsTypeNext == AgentsTypeOK /\ [AgentsNext]_agentVars => AgentsTypeOK'
<1> SUFFICES ASSUME AgentsTypeOK, [AgentsNext]_agentVars
             PROVE  AgentsTypeOK'
  OBVIOUS
<1>1. CASE AgentsNext
  BY <1>1, AgentStepType, ProviderStepType, SkillStepType DEF AgentsNext
<1>2. CASE UNCHANGED agentVars
  BY <1>2 DEF agentVars, AgentsTypeOK
<1>3. QED
  BY <1>1, <1>2

\* Every reachable state of the Agents is well typed.
THEOREM AgentsTypeCorrect == AgentsSpec => []AgentsTypeOK
BY AgentsTypeInit, AgentsTypeNext, PTL DEF AgentsSpec

-----------------------------------------------------------------------------
(* The default Agent                                                       *)

\* What keeps the default as it is: nobody else becomes the default, and the
\* default stays enabled.
LEMMA DefaultKept ==
    ASSUME OneDefaultEnabled, default' = default,
           \A a \in default : agent[a] = "on" => agent'[a] = "on"
    PROVE  OneDefaultEnabled'
BY DEF OneDefaultEnabled

\* The handlers that disable or delete an Agent spare the default, and
\* set_default enables the new one in the same transaction.
LEMMA AgentStepDefault ==
    ASSUME AgentsTypeOK, OneDefaultEnabled, NEW a \in Agents, AgentStep(a)
    PROVE  OneDefaultEnabled'
<1> USE DEF AgentsTypeOK
<1>1. ASSUME NEW p \in Providers \cup {NoProvider}, CreateAgent(a, p)
      PROVE  OneDefaultEnabled'
  BY <1>1, DefaultKept DEF CreateAgent
<1>2. ASSUME NEW p \in Providers \cup {NoProvider}, NEW enabled \in BOOLEAN,
             UpdateAgent(a, p, enabled)
      PROVE  OneDefaultEnabled'
  BY <1>2, DefaultKept DEF UpdateAgent, MayStop
<1>3. ASSUME NEW p \in Providers, NEW ks \in SUBSET Skills, Generate(a, p, ks)
      PROVE  OneDefaultEnabled'
  BY <1>3, DefaultKept DEF Generate
<1>4. ASSUME NEW ks \in SUBSET Skills, ReplaceSkills(a, ks)
      PROVE  OneDefaultEnabled'
  BY <1>4, DefaultKept DEF ReplaceSkills
<1>5. CASE EnableAgent(a)
  BY <1>5, DefaultKept DEF EnableAgent
<1>6. CASE DisableAgent(a)
  BY <1>6, DefaultKept DEF DisableAgent, MayStop
<1>7. CASE SetDefault(a)
  BY <1>7 DEF SetDefault, NewDefault, OneDefaultEnabled
<1>8. CASE DeleteAgent(a)
  BY <1>8, DefaultKept DEF DeleteAgent
<1>9. QED
  BY <1>1, <1>2, <1>3, <1>4, <1>5, <1>6, <1>7, <1>8 DEF AgentStep

\* The migrations make the first Agent the default and enable it.
LEMMA DefaultInit == InitAgents => OneDefaultEnabled
BY AgentsAssumption DEF InitAgents, OneDefaultEnabled

\* Every step keeps one enabled default.
LEMMA DefaultNext ==
    AgentsTypeOK /\ OneDefaultEnabled /\ [AgentsNext]_agentVars => OneDefaultEnabled'
<1> SUFFICES ASSUME AgentsTypeOK, OneDefaultEnabled, [AgentsNext]_agentVars
             PROVE  OneDefaultEnabled'
  OBVIOUS
<1>1. ASSUME NEW a \in Agents, AgentStep(a)
      PROVE  OneDefaultEnabled'
  BY <1>1, AgentStepDefault
<1>2. ASSUME NEW p \in Providers, ProviderStep(p)
      PROVE  agent' = agent /\ default' = default
  BY <1>2 DEF ProviderStep, CreateProvider, EnableProvider, EndProvider
<1>3. ASSUME NEW k \in Skills, StartSkill(k) \/ StopSkill(k) \/ DeleteSkill(k)
      PROVE  agent' = agent /\ default' = default
  BY <1>3 DEF StartSkill, StopSkill, DeleteSkill
<1>4. CASE UNCHANGED agentVars
  BY <1>4, DefaultKept DEF agentVars
<1>5. QED
  BY <1>1, <1>2, <1>3, <1>4, DefaultKept DEF AgentsNext

\* One Agent is the default, enabled and not deleted, for any number of
\* Agents and any order of the handlers.
THEOREM OneDefault == AgentsSpec => []OneDefaultEnabled
BY AgentsTypeCorrect, DefaultInit, DefaultNext, PTL DEF AgentsSpec

-----------------------------------------------------------------------------
(* Providers                                                               *)

\* A handler that writes one Agent leaves the others and all providers; the
\* Agent it writes is made, removed, keeps its provider or gets one that is
\* enabled, or none.
LEMMA AgentStepProvider ==
    ASSUME AgentsTypeOK, NEW a \in Agents, AgentStep(a)
    PROVE  /\ provider' = provider
           /\ \A b \in Agents \ {a} : uses'[b] = uses[b]
           /\ \/ ~Kept(a)
              \/ uses'[a] = uses[a]
              \/ ProviderOn(uses'[a])
              \/ uses'[a] = NoProvider
BY DEF AgentStep, CreateAgent, UpdateAgent, Generate, ReplaceSkills, EnableAgent,
       DisableAgent, SetDefault, DeleteAgent, AgentsTypeOK, Kept, ProviderFits

\* A provider is disabled or deleted only when no kept Agent names it.
LEMMA ProviderStepKeeps ==
    ASSUME AgentsTypeOK, NEW p \in Providers, ProviderStep(p)
    PROVE  AgentsKeepProvider
<1> SUFFICES ASSUME NEW a \in Agents, Kept(a), ProviderOn(uses[a])
             PROVE  ProviderOn(uses[a])'
  BY DEF AgentsKeepProvider
<1> USE DEF AgentsTypeOK, ProviderOn
<1>1. ASSUME NEW enabled \in BOOLEAN, CreateProvider(p, enabled)
      PROVE  ProviderOn(uses[a])'
  BY <1>1 DEF CreateProvider
<1>2. CASE EnableProvider(p)
  BY <1>2 DEF EnableProvider
<1>3. CASE EndProvider(p, "off") \/ EndProvider(p, "deleted")
  BY <1>3 DEF EndProvider, FreeOfAgents
<1>4. QED
  BY <1>1, <1>2, <1>3 DEF ProviderStep

\* No step takes a provider away from a kept Agent.
LEMMA KeepsProvider == AgentsTypeOK /\ [AgentsNext]_agentVars => [AgentsKeepProvider]_agentVars
<1> SUFFICES ASSUME AgentsTypeOK, AgentsNext
             PROVE  AgentsKeepProvider
  OBVIOUS
<1>1. ASSUME NEW a \in Agents, AgentStep(a)
      PROVE  AgentsKeepProvider
  BY <1>1, AgentStepProvider DEF AgentsKeepProvider, ProviderOn
<1>2. ASSUME NEW k \in Skills, StartSkill(k) \/ StopSkill(k) \/ DeleteSkill(k)
      PROVE  AgentsKeepProvider
  BY <1>2 DEF StartSkill, StopSkill, DeleteSkill, AgentsKeepProvider, ProviderOn
<1>3. QED
  BY <1>1, <1>2, ProviderStepKeeps DEF AgentsNext

\* No Agent loses its provider, for any number of Agents and providers.
THEOREM ProvidersStay == AgentsSpec => ProviderStays
BY AgentsTypeCorrect, KeepsProvider, PTL DEF AgentsSpec, ProviderStays
=============================================================================
