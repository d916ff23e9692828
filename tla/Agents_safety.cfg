SPECIFICATION AgentsSpec
CONSTANTS
    Agents = {a0, a1, a2}
    Providers = {p1, p2}
    Skills = {k1}
    FirstAgent = a0
    NoProvider = none
INVARIANTS
    OneDefaultEnabled
