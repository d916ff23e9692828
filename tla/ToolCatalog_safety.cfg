SPECIFICATION Spec
CONSTANTS
    s1 = s1
    s2 = s2
    t1 = t1
    t2 = t2
    t3 = t3
    Sources = {s1, s2}
    Tools = {t1, t2, t3}
    SourceOf <- MCSourceOf
    Skills = {k1}
    Writers = {w1}
    OAuthable = {s1}
    NoTool = NoTool
    Global = Global
SYMMETRY CatalogSymmetry
INVARIANTS
    TypeOK
    RunningIsUsable
    LoginToolIsReady
    DeletedSourceIsOff
    OneScheme
PROPERTIES
    TakesSkillsAlong
