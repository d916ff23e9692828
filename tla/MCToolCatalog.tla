--------------------------- MODULE MCToolCatalog ---------------------------
EXTENDS ToolCatalog, TLC

CONSTANTS s1, s2, t1, t2, t3

MCSourceOf == t1 :> s1 @@ t2 :> s1 @@ t3 :> s2

CatalogSymmetry == Permutations({t1, t2})
=============================================================================
