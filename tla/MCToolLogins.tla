---------------------------- MODULE MCToolLogins ----------------------------
(* ToolLogins for TLC: requests, sessions and clients are interchangeable. *)
EXTENDS ToolLogins, TLC

LoginSymmetry ==
    Permutations(Calls) \cup Permutations(Sessions) \cup Permutations(Clients)
=============================================================================
