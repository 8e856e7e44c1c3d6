------------------------------ MODULE Scoring ------------------------------
(***************************************************************************)
(* compute_feature_dict and WeightedScoringEngine as functions.            *)
(*                                                                         *)
(* Numbers are integers: payload fields and features count hundredths (so  *)
(* an amount is counted in steps of 500, a hundredth of 50000), scores     *)
(* count hundredths of a point.  On this grid the weighted sum needs no    *)
(* rounding; the floats in between, which the code rounds to the same two  *)
(* decimals, are left out.                                                 *)
(***************************************************************************)
EXTENDS JsonValues

Fields == {"amount", "velocity_score", "history_score", "geo_risk"}

LowerOf(a, b)  == IF a <= b THEN a ELSE b
HigherOf(a, b) == IF a >= b THEN a ELSE b
Clamp(x)       == HigherOf(0, LowerOf(100, x))

(* payload.get(field, default) or default: zero is replaced, too. *)
OrDefault(value, default) == IF value \in {Absent, 0} THEN default ELSE value

Unreadable(payload) == \E field \in Fields : payload[field] = Text

compute_feature_dict(payload) ==
  [amount_risk |-> LowerOf(100, OrDefault(payload.amount, 0)),
   velocity    |-> Clamp(OrDefault(payload.velocity_score, 0)),
   history     |-> Clamp(OrDefault(payload.history_score, 50)),
   geo_risk    |-> Clamp(OrDefault(payload.geo_risk, 20))]

(* SCORING_FEATURE_WEIGHTS, in percent; they add up to 100. *)
Weight == [amount_risk |-> 35, velocity |-> 25, history |-> 25, geo_risk |-> 15]

(* RISK_BAND_THRESHOLDS, in hundredths: lo <= score < hi. *)
Bands == {"low", "medium", "high"}
Threshold == [low    |-> [lo |-> 0,    hi |-> 4000],
              medium |-> [lo |-> 4000, hi |-> 7000],
              high   |-> [lo |-> 7000, hi |-> 10100]]

InBand(score, band) == Threshold[band].lo <= score /\ score < Threshold[band].hi

(* Bug variant: the bounds of a band are both exclusive. *)
RiskBandExclusive(score) ==
  IF \E band \in Bands : InBand(score, band) /\ score # Threshold[band].lo
  THEN CHOOSE band \in Bands : InBand(score, band) /\ score # Threshold[band].lo
  ELSE "medium"

(* _risk_band *)
RiskBand(score) ==
  IF \E band \in Bands : InBand(score, band)
  THEN CHOOSE band \in Bands : InBand(score, band)
  ELSE "medium"

(* Bug variant: velocity counts as a merit. *)
ScoreMeritOfVelocity(features) ==
  LET contrib(key) == Weight[key] * Clamp(features[key])
  IN  contrib("amount_risk") + Weight.velocity * (100 - Clamp(features.velocity))
        + contrib("history") + contrib("geo_risk")

(* WeightedScoringEngine.score *)
Score(features) ==
  LET contrib(key) == Weight[key] * Clamp(features[key])
      acc == contrib("amount_risk") + contrib("velocity") + contrib("history")
               + contrib("geo_risk")
  IN  HigherOf(0, LowerOf(10000, acc))
=============================================================================
