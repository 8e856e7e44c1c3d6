---------------------------- MODULE PolicyRules ----------------------------
(***************************************************************************)
(* RuleEngine.evaluate over a table of PolicyRule rows.  A condition is a  *)
(* JSON object whose keys are all optional; Absent stands for a missing    *)
(* key, and for a feature path that leads nowhere.  The API accepts any    *)
(* object, so a bound may be a text that float() rejects: Text.            *)
(***************************************************************************)
EXTENDS JsonValues, SequencesExt

Has(value) == value # Absent

NoCondition == [min_score |-> Absent, max_score |-> Absent, risk_band |-> Absent,
                feature_path |-> Absent, feature_equals |-> Absent,
                feature_min |-> Absent]

(* What one test of _matches does with the rule: it goes on, the rule does  *)
(* not match, or the engine raises.                                        *)
Test(applies, unreadable, holds) ==
  IF ~applies THEN "on" ELSE IF unreadable THEN "raise" ELSE IF holds THEN "on" ELSE "no"

(* _resolve_path in a snapshot, which has no nested objects. *)
Resolve(features, path) == IF path \in DOMAIN features THEN features[path] ELSE Absent

(* _matches tries the tests in this order and stops at the first that does  *)
(* not go on.  A feature that is missing fails feature_min.                *)
Tests(c, ctx) ==
  LET actual == IF Has(c.feature_path) THEN Resolve(ctx.features, c.feature_path)
                                       ELSE Absent
  IN << Test(Has(c.min_score), c.min_score = Text, ctx.score >= c.min_score),
        Test(Has(c.max_score), c.max_score = Text, ctx.score <= c.max_score),
        Test(Has(c.risk_band), FALSE, ctx.risk_band = c.risk_band),
        Test(Has(c.feature_equals) /\ Has(c.feature_path), FALSE,
             actual = c.feature_equals),
        Test(Has(c.feature_min) /\ Has(c.feature_path), c.feature_min = Text,
             Has(actual) /\ actual >= c.feature_min) >>

Matches(c, ctx) ==
  LET tests == Tests(c, ctx)
      stops == {k \in 1 .. 5 : tests[k] # "on"}
  IN IF stops = {} THEN "yes" ELSE tests[Min(stops)]

(* PolicyOutcome *)
Outcomes == {"approved", "manual_review", "declined"}

(* order_by("priority", "id") *)
Before(r, s) == r.priority < s.priority \/ (r.priority = s.priority /\ r.id < s.id)
Ordered(rules) ==
  LET active == {r \in rules : r.is_active}
      place(r) == 1 + Cardinality({s \in active : Before(s, r)})
  IN [k \in 1 .. Cardinality(active) |-> CHOOSE r \in active : place(r) = k]

(* Bug variant: a later match replaces an earlier one. *)
EvaluateLastMatch(rules, ctx) ==
  LET visit(result, r) ==
        IF result = "raise" \/ Matches(r.condition, ctx) = "no" THEN result
        ELSE IF Matches(r.condition, ctx) = "raise" THEN "raise" ELSE r.outcome
  IN FoldLeft(visit, "manual_review", Ordered(rules))

(* The loop of evaluate: "none" until a rule matches or raises. *)
Evaluate(rules, ctx) ==
  LET visit(result, r) ==
        IF result # "none" THEN result
        ELSE CASE Matches(r.condition, ctx) = "yes"   -> r.outcome
               [] Matches(r.condition, ctx) = "raise" -> "raise"
               [] Matches(r.condition, ctx) = "no"    -> "none"
      result == FoldLeft(visit, "none", Ordered(rules))
  IN IF result = "none" THEN "manual_review" ELSE result

(* What README.md says the engine does: the first rule, by priority and     *)
(* then id, that does not fail to match decides; no rule, manual review.   *)
FirstMatch(rules, ctx, outcome) ==
  LET stops(r) == r.is_active /\ Matches(r.condition, ctx) # "no"
  IN IF \E r \in rules : stops(r)
     THEN \E r \in rules :
            /\ stops(r)
            /\ \A s \in rules \ {r} : stops(s) => Before(r, s)
            /\ outcome = IF Matches(r.condition, ctx) = "raise" THEN "raise"
                                                               ELSE r.outcome
     ELSE outcome = "manual_review"

(* What an administrator or the seed command gives of a rule, and the row    *)
(* it becomes.  Names need not be unique; ids are random UUIDs.            *)
Rule(name, priority, condition, outcome) ==
  [name |-> name, priority |-> priority, is_active |-> TRUE, condition |-> condition,
   outcome |-> outcome]
Row(id, rule) ==
  [id |-> id, name |-> rule.name, priority |-> rule.priority,
   is_active |-> rule.is_active, condition |-> rule.condition, outcome |-> rule.outcome]

(* The rules of seed_policy_rules; scores in hundredths. *)
HighBand  == Rule("decline", 10, [NoCondition EXCEPT !.risk_band = "high"], "declined")
HighScore == Rule("review", 20, [NoCondition EXCEPT !.min_score = 8500], "manual_review")
LowBand   ==
  Rule("approve", 100, [NoCondition EXCEPT !.risk_band = "low", !.max_score = 10000],
       "approved")
CatchAll  == Rule("catch-all", 1000, NoCondition, "manual_review")

(* Bug variant: the rule for high scores comes first. *)
DefaultsHighScoreFirst == <<HighBand, [HighScore EXCEPT !.priority = 5], LowBand, CatchAll>>

DefaultRules == <<HighBand, HighScore, LowBand, CatchAll>>
=============================================================================
