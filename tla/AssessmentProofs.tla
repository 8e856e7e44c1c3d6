-------------------------- MODULE AssessmentProofs --------------------------
(***************************************************************************)
(* Proofs about Assessment, for any payloads of numbers: what the score    *)
(* and the seeded rules make of every integer, not of a few.               *)
(***************************************************************************)
EXTENDS Assessment, PolicyRulesProofs

Features == {"amount_risk", "velocity", "history", "geo_risk"}

(* Features that the scoring engine can add up. *)
AreNumbers(f) == \A key \in Features : f[key] \in Int

IsScore(score) == score \in Int /\ 0 <= score /\ score <= 10000

(* Each result is what its task makes of the saved input: tasks that run     *)
(* again save what they had saved.                                         *)
Inv ==
  /\ payload \in Payloads
  /\ snapshot # Absent => ~Unreadable(payload) /\ snapshot = compute_feature_dict(payload)
  /\ result # Absent =>
       /\ snapshot # Absent
       /\ result = [score |-> Score(snapshot), risk_band |-> RiskBand(Score(snapshot))]
  /\ outcome # "none" => result # Absent /\ outcome = Evaluate(SeedRules, Context)

-----------------------------------------------------------------------------
(* A readable payload has features that are numbers. *)
LEMMA FeaturesAreNumbers ==
  ASSUME NEW p \in Payloads, ~Unreadable(p)
  PROVE  AreNumbers(compute_feature_dict(p))
<1>1. \A field \in Fields : p[field] \in Int \cup {Absent}
  BY PayloadsAssumption DEF Unreadable
<1>2. \A field \in Fields, default \in Int : OrDefault(p[field], default) \in Int
  BY <1>1 DEF OrDefault
<1> QED
  BY <1>2 DEF AreNumbers, Features, Fields, compute_feature_dict, Clamp, LowerOf, HigherOf

(* The score of any numbers is a score. *)
LEMMA ScoreRange ==
  ASSUME NEW f, AreNumbers(f)
  PROVE  IsScore(Score(f))
<1>1. \A key \in Features : Clamp(f[key]) \in Int
  BY DEF AreNumbers, Clamp, LowerOf, HigherOf
<1>2. PICK a \in Int, b \in Int, c \in Int, d \in Int :
        Score(f) = HigherOf(0, LowerOf(10000, 35 * a + 25 * b + 25 * c + 15 * d))
  BY <1>1 DEF Score, Weight, Features
<1> QED BY <1>2 DEF IsScore, LowerOf, HigherOf

(* No weight is negative: the score does not fall when no feature does. *)
LEMMA ScoreIsMonotone ==
  ASSUME NEW f, AreNumbers(f), NEW g, AreNumbers(g),
         \A key \in Features : f[key] <= g[key]
  PROVE  Score(f) <= Score(g)
<1>1. \A key \in Features :
        Clamp(f[key]) \in Int /\ Clamp(g[key]) \in Int /\ Clamp(f[key]) <= Clamp(g[key])
  BY DEF AreNumbers, Clamp, LowerOf, HigherOf
<1> QED BY <1>1 DEF Score, Weight, Features, LowerOf, HigherOf

(* Every score is in one band, at the bounds too. *)
LEMMA BandOfScore ==
  ASSUME NEW score, IsScore(score)
  PROVE  \A band \in Bands : InBand(score, band) <=> band = RiskBand(score)
<1>1. /\ InBand(score, "low") <=> score < 4000
      /\ InBand(score, "medium") <=> 4000 <= score /\ score < 7000
      /\ InBand(score, "high") <=> 7000 <= score
  BY DEF IsScore, InBand, Threshold
<1>2. \E band \in Bands : InBand(score, band)
  BY <1>1 DEF IsScore, Bands
<1>3. RiskBand(score) \in Bands /\ InBand(score, RiskBand(score))
  BY <1>2 DEF RiskBand
<1> QED BY <1>1, <1>3 DEF IsScore, Bands

-----------------------------------------------------------------------------
(* Before the tasks have run there is nothing to say. *)
LEMMA InvInit == Init => Inv
BY DEF Init, Inv

(* Running a task again changes nothing once its input is settled. *)
(* A task that runs, or runs again, keeps the invariant. *)
LEMMA InvStep == Inv /\ [Next]_vars => Inv'
<1> SUFFICES ASSUME Inv, [Next]_vars
             PROVE  Inv'
  OBVIOUS
<1>1. CASE ComputeFeatures
  BY <1>1 DEF Inv, ComputeFeatures, Context
<1>2. CASE RunScoring
  BY <1>2 DEF Inv, RunScoring, Context
<1>3. CASE EvaluateRules
  BY <1>3 DEF Inv, EvaluateRules, Context
<1>4. CASE UNCHANGED vars
  BY <1>4 DEF vars, Inv, Context
<1> QED BY <1>1, <1>2, <1>3, <1>4 DEF Next

LEMMA Invariance == Spec => []Inv
BY InvInit, InvStep, PTL DEF Spec

(* What is known of a result. *)
LEMMA ResultOfScore ==
  ASSUME Inv, result # Absent
  PROVE  /\ ~Unreadable(payload) /\ payload \in Payloads
         /\ result.score = Score(compute_feature_dict(payload))
         /\ IsScore(result.score)
         /\ result.risk_band = RiskBand(result.score)
BY FeaturesAreNumbers, ScoreRange DEF Inv

-----------------------------------------------------------------------------
(* A saved result has its band, and no other. *)
LEMMA BandOfResult ==
  ASSUME Inv, result # Absent
  PROVE  /\ IsScore(result.score)
         /\ \A band \in Bands : InBand(result.score, band) <=> band = result.risk_band
<1> DEFINE score == result.score
<1>1. IsScore(score) /\ result.risk_band = RiskBand(score)
  BY ResultOfScore
<1> HIDE DEF score
<1>2. \A band \in Bands : InBand(score, band) <=> band = RiskBand(score)
  BY <1>1, BandOfScore
<1> QED BY <1>1, <1>2 DEF score

(* Every score is between 0 and 100 and its band is the only band of         *)
(* RISK_BAND_THRESHOLDS that contains it, whatever numbers are submitted:  *)
(* the fallback to "medium" is dead code.                                  *)
THEOREM ScoresHaveTheirBand == Spec => []ScoreHasItsBand
<1>1. Inv => ScoreHasItsBand
  BY BandOfResult DEF ScoreHasItsBand, IsScore
<1> QED BY <1>1, Invariance, PTL

(* A higher field, given and not zero, never lowers the score. *)
THEOREM RiskRaisesTheScore == Spec => []RiskIsMonotone
<1>1. ASSUME Inv, result # Absent, NEW p \in Payloads, NEW field \in Fields,
             \A other \in Fields \ {field} : p[other] = payload[other],
             payload[field] \notin {Absent, Text, 0}, p[field] \notin {Absent, Text, 0},
             p[field] >= payload[field]
      PROVE  Score(compute_feature_dict(p)) >= result.score
  <2> DEFINE f == compute_feature_dict(payload)
             g == compute_feature_dict(p)
  <2>1. ~Unreadable(payload) /\ ~Unreadable(p) /\ payload \in Payloads
    BY <1>1, ResultOfScore DEF Unreadable
  <2>2. AreNumbers(f) /\ AreNumbers(g)
    BY <2>1, FeaturesAreNumbers
  <2>3. \A default \in Int, k \in Fields :
          /\ OrDefault(payload[k], default) \in Int /\ OrDefault(p[k], default) \in Int
          /\ OrDefault(payload[k], default) <= OrDefault(p[k], default)
    <3>1. \A k \in Fields : payload[k] \in Int \cup {Absent} /\ p[k] \in Int \cup {Absent}
      BY <2>1, PayloadsAssumption DEF Unreadable
    <3> QED BY <1>1, <3>1 DEF OrDefault
  <2>4. \A key \in Features : f[key] <= g[key]
    <3>1. \A x, y \in Int :
            x <= y => Clamp(x) <= Clamp(y) /\ LowerOf(100, x) <= LowerOf(100, y)
      BY DEF Clamp, LowerOf, HigherOf
    <3>2. \A default \in Int, k \in Fields :
            LET x == OrDefault(payload[k], default)
                y == OrDefault(p[k], default)
            IN Clamp(x) <= Clamp(y) /\ LowerOf(100, x) <= LowerOf(100, y)
      BY <2>3, <3>1
    <3> QED BY <3>2 DEF Features, Fields, compute_feature_dict
  <2>5. /\ Score(f) <= Score(g) /\ Score(f) = result.score
        /\ Score(f) \in Int /\ Score(g) \in Int
    <3> HIDE DEF f, g
    <3>1. Score(f) <= Score(g) /\ IsScore(Score(f)) /\ IsScore(Score(g))
      BY <2>2, <2>4, ScoreIsMonotone, ScoreRange
    <3>2. Score(f) = result.score
      BY <1>1, ResultOfScore DEF f
    <3> QED BY <3>1, <3>2 DEF IsScore
  <2> QED BY <2>5
<1>2. Inv => RiskIsMonotone
  BY <1>1 DEF RiskIsMonotone
<1> QED BY <1>2, Invariance, PTL

(* With the seeded rules the band alone decides: the rule for high scores is *)
(* dead, since every score of 85 or more is in the high band.              *)
THEOREM BandDecides == Spec => []SeededOutcome
<1>1. ASSUME Inv, outcome # "none"
      PROVE  outcome = CASE result.risk_band = "high" -> "declined"
                         [] result.risk_band = "low"  -> "approved"
                         [] OTHER                     -> "manual_review"
  <2>1. result # Absent /\ outcome = Evaluate(SeedRules, Context)
    BY <1>1 DEF Inv
  <2>2. Context.score = result.score /\ Context.risk_band = result.risk_band
    BY DEF Context
  <2>3. /\ IsScore(result.score)
        /\ \A band \in Bands : InBand(result.score, band) <=> band = result.risk_band
    BY <1>1, <2>1, BandOfResult
  <2>4. result.risk_band = "low" => result.score < 4000
    BY <2>3 DEF IsScore, InBand, Threshold, Bands
  <2> QED BY <2>1, <2>2, <2>3, <2>4, DefaultsDecide, SeededTable DEF IsScore, SeedRules
<1>2. Inv => SeededOutcome
  BY <1>1 DEF SeededOutcome
<1> QED BY <1>2, Invariance, PTL
=============================================================================
