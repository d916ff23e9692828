--------------------------- MODULE MCAdminAccess ---------------------------
(* AdminAccess for TLC: sessions and handlers are interchangeable.         *)
EXTENDS AdminAccess, TLC

AdminSymmetry == Permutations(Sessions) \cup Permutations(Requests)
=============================================================================
