------------------------- MODULE MCToolSessionOAuth -------------------------
(* Model checking ToolSessionOAuth: handlers are interchangeable.           *)
EXTENDS ToolSessionOAuth, TLC

Symmetry == Permutations(Requests)
=============================================================================
