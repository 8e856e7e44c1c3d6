------------------------------ MODULE MCIntake ------------------------------
(* Instances of Intake for TLC. *)
EXTENDS Intake

CONSTANTS q1, q2, q3, s1, s2

TwoRequests   == {q1, q2}
ThreeRequests == {q1, q2, q3}
OneSlot       == {s1}
TwoSlots      == {s1, s2}

(* The environments of the runs. *)
NoFaults      == {}
BrokerFaults  == {"publish"}
EveryFault    == Fault
=============================================================================
