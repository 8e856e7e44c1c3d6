---------------------------- MODULE MCPolicyTable ----------------------------
(* Instances of PolicyTable for TLC. *)
EXTENDS PolicyTable

CONSTANTS q1, q2, s1, s2, s3

TwoRequests == {q1, q2}
NoRequests  == {}
TwoSeeds    == {s1, s2}
ThreeSeeds  == {s1, s2, s3}

(* Before and after the ids of the seeded rules. *)
MCRequestIds == {0, 9}
MCSeedIds    == 1 .. 6
ManySeedIds  == 1 .. 8

(* Three of the four defaults: the catch-all decides as no rule does. *)
ThreeDefaults == <<HighBand, HighScore, LowBand>>

(* A second rule of a default's name and priority, whose bound is a text. *)
MCAdditions ==
  { Rule("decline", 10, [NoCondition EXCEPT !.risk_band = "low", !.max_score = Text],
         "approved") }

(* A rule is switched off, or a feature test replaces its condition. *)
MCPatches ==
  { [is_active |-> FALSE],
    [condition |-> [NoCondition EXCEPT !.feature_path = "velocity", !.feature_min = 50]] }

(* An application of each band, one with a score above 85. *)
MCContexts ==
  { [score |-> 2000, risk_band |-> "low", features |-> [velocity |-> 80]],
    [score |-> 5000, risk_band |-> "medium", features |-> [velocity |-> 20]],
    [score |-> 9000, risk_band |-> "high", features |-> [velocity |-> 80]] }

Interchangeable == Permutations(TwoRequests) \cup Permutations(TwoSeeds)
=============================================================================
