------------------------------ MODULE MCAccess ------------------------------
(* Instance of Access for TLC. *)
EXTENDS Access, TLC

CONSTANTS q1, q2, q3, Newcomer

ThreeRequests == {q1, q2, q3}
OldAndNew == {Client, Newcomer}

Interchangeable == Permutations(ThreeRequests)
=============================================================================
