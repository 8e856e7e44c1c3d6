----------------------------- MODULE MCDecisions -----------------------------
(* Instance of Decisions for TLC. *)
EXTENDS Decisions

CONSTANTS r1, r2

MCReviewers == {r1, r2}
MCTypes     == {"approved"}

=============================================================================
