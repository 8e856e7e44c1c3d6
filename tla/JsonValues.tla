----------------------------- MODULE JsonValues -----------------------------
(***************************************************************************)
(* What may stand where a payload or a rule's condition should have a      *)
(* number, besides numbers and texts that are compared.                    *)
(***************************************************************************)
EXTENDS Integers

CONSTANTS
  Absent,   \* a field that is missing, null or ""
  Text      \* a text that float() rejects

ASSUME MarkersAssumption == {Absent, Text} \cap (Int \cup {"low", "medium", "high"}) = {}
=============================================================================
