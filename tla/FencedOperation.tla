--------------------------- MODULE FencedOperation ---------------------------
(***************************************************************************)
(* What the claims of a ToolOAuthAuthorization promise, without sessions,  *)
(* flows or handlers: an operation is claimed by taking the next           *)
(* generation, a live claim is not taken over before its lease has run     *)
(* out, and only the newest claim can publish its token.  Generation 0 is  *)
(* the browser authorization, which is claimed by consuming its state.     *)
(***************************************************************************)
EXTENDS Integers

CONSTANT Lease

VARIABLES clock, generation, inProgress, startedAt, token

vars == <<clock, generation, inProgress, startedAt, token>>

Init ==
    /\ clock = 0 /\ generation = 0 /\ inProgress = FALSE /\ startedAt = 0
    /\ token = 0

Tick ==
    /\ clock' = clock + 1
    /\ UNCHANGED <<generation, inProgress, startedAt, token>>

Claim ==
    /\ ~inProgress \/ startedAt + Lease <= clock
    /\ generation' = generation + 1
    /\ inProgress' = TRUE
    /\ startedAt' = clock
    /\ UNCHANGED <<clock, token>>

Ended == inProgress' = FALSE /\ startedAt' = 0 /\ UNCHANGED <<clock, generation>>

Publish ==
    /\ inProgress \/ generation = 0
    /\ token' = generation + 1
    /\ Ended

Release == token' \in {0, token} /\ Ended

Erase ==
    /\ token' = 0
    /\ UNCHANGED <<clock, generation, inProgress, startedAt>>

Next == Tick \/ Claim \/ Publish \/ Release \/ Erase

Spec == Init /\ [][Next]_vars
=============================================================================
