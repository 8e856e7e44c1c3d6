----------------------------- MODULE Assessment -----------------------------
(***************************************************************************)
(* The data that the pipeline's tasks hand on through the database for one *)
(* application: payload, feature snapshot, score result and outcome, with  *)
(* the rules of seed_policy_rules in the table.  Tasks that are retried    *)
(* run again and overwrite what they saved (update_or_create).             *)
(***************************************************************************)
EXTENDS Scoring, PolicyRules

CONSTANT Payloads    \* the payloads that may be submitted

ASSUME PayloadsAssumption == Payloads \subseteq [Fields -> Int \cup {Absent, Text}]

VARIABLES
  payload,    \* Application.raw_payload
  snapshot,   \* FeatureSnapshot.data, Absent before it exists
  result,     \* ScoreResult, Absent before it exists
  outcome     \* RuleEvaluationResult.outcome, which the next task is given

vars == <<payload, snapshot, result, outcome>>

SeedRules == {Row(k, DefaultRules[k]) : k \in DOMAIN DefaultRules}

Init ==
  /\ payload \in Payloads
  /\ snapshot = Absent /\ result = Absent /\ outcome = "none"

(* float() of a field that is not a number fails the application for good. *)
ComputeFeatures ==
  /\ ~Unreadable(payload)
  /\ snapshot' = compute_feature_dict(payload)
  /\ UNCHANGED <<payload, result, outcome>>

RunScoring ==
  /\ snapshot # Absent
  /\ LET score == Score(snapshot)
     IN result' = [score |-> score, risk_band |-> RiskBand(score)]
  /\ UNCHANGED <<payload, snapshot, outcome>>

Context == [score |-> result.score, risk_band |-> result.risk_band, features |-> snapshot]

EvaluateRules ==
  /\ result # Absent
  /\ outcome' = Evaluate(SeedRules, Context)
  /\ UNCHANGED <<payload, snapshot, result>>

Next == ComputeFeatures \/ RunScoring \/ EvaluateRules

Spec == Init /\ [][Next]_vars

-----------------------------------------------------------------------------
(* The score is between 0 and 100 and its band is the one band of           *)
(* RISK_BAND_THRESHOLDS that contains it, at the bounds of the bands too:  *)
(* the engine's fallback to "medium" is never taken.                       *)
ScoreHasItsBand ==
  result # Absent =>
    /\ 0 <= result.score /\ result.score <= 10000
    /\ \A band \in Bands : InBand(result.score, band) <=> band = result.risk_band

(* More of any risk never lowers the score, as long as the field is given   *)
(* and not zero: a zero is read as missing, and a missing history_score or *)
(* geo_risk counts 0.5 or 0.2.                                             *)
RiskIsMonotone ==
  result # Absent =>
    \A p \in Payloads :
      /\ \E field \in Fields :
           /\ \A other \in Fields \ {field} : p[other] = payload[other]
           /\ payload[field] \notin {Absent, Text, 0}
           /\ p[field] \notin {Absent, Text, 0}
           /\ p[field] >= payload[field]
      => Score(compute_feature_dict(p)) >= result.score

(* The seeded rules decide by the band alone.  In particular the rule       *)
(* "Manual review high score" never decides, as a score of 85 is in the    *)
(* high band, which a rule of smaller priority declines.                   *)
SeededOutcome ==
  outcome # "none" =>
    outcome = CASE result.risk_band = "high" -> "declined"
                [] result.risk_band = "low"  -> "approved"
                [] OTHER                     -> "manual_review"
=============================================================================
