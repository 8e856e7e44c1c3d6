-------------------------- MODULE PolicyRulesProofs --------------------------
(***************************************************************************)
(* RuleEngine.evaluate decides by the first match on every finite table:   *)
(* the loop over the ordered rules computes what FirstMatch describes.     *)
(* The induction over the rules takes a smallest counterexample among the  *)
(* subsets of a finite set.                                                *)
(***************************************************************************)
EXTENDS PolicyRules, FiniteSetTheorems, TLAPS

(* A table that the database can hold: finite, keyed by id, its priorities  *)
(* and outcomes of their columns' types.                                   *)
IsTable(rules) ==
  /\ IsFiniteSet(rules)
  /\ \A r \in rules : r.id \in Int /\ r.priority \in Int /\ r.outcome \in Outcomes
  /\ \A r, s \in rules : r.id = s.id => r = s

-----------------------------------------------------------------------------
(* Of some subsets of a finite set, one has none of the others inside it. *)
HasSmallest(T) == \E x \in T : \A y \in T : y \subseteq x => y = x

(* Of any sets of subsets of a finite set, by its well-founded inclusion. *)
LEMMA SmallestSubset ==
  ASSUME NEW S, IsFiniteSet(S), NEW T \in SUBSET SUBSET S, T # {}
  PROVE  HasSmallest(T)
<1>1. IsWellFoundedOn(StrictSubsetOrdering(S), FiniteSubsetsOf(S))
  BY FS_StrictSubsetOrderingWellFounded
<1>2. T \subseteq FiniteSubsetsOf(S)
  BY FS_Subset DEF FiniteSubsetsOf
<1>3. PICK x \in T : \A y \in T : <<y, x>> \notin StrictSubsetOrdering(S)
  BY <1>1, <1>2, WFMin
<1> QED BY <1>3 DEF StrictSubsetOrdering, HasSmallest

(* In particular of the index sets of a sequence. *)
LEMMA SmallestRange ==
  ASSUME NEW n \in Nat, NEW T \in SUBSET SUBSET (1 .. n), T # {}
  PROVE  HasSmallest(T)
<1>1. IsFiniteSet(1 .. n)
  BY FS_Interval
<1> QED BY <1>1, SmallestSubset

(* Max of a set of indices is defined and is its greatest member. *)
LEMMA MaxIsGreatest ==
  ASSUME NEW n \in Nat, NEW S, S \subseteq 1 .. n, S # {}
  PROVE  Max(S) \in S /\ \A k \in S : k <= Max(S)
<1> DEFINE HasMax(s) == \E m \in s : \A k \in s : m >= k
           Bad == {s \in SUBSET (1 .. n) : s # {} /\ ~HasMax(s)}
<1>1. Bad = {}
  <2> SUFFICES ASSUME Bad # {}
               PROVE  FALSE
    OBVIOUS
  <2>1. PICK s \in Bad : \A t \in Bad : t \subseteq s => t = s
    <3>1. Bad \in SUBSET SUBSET (1 .. n)
      OBVIOUS
    <3> HIDE DEF Bad
    <3>2. HasSmallest(Bad)
      BY <3>1, SmallestRange
    <3> QED BY <3>2 DEF HasSmallest
  <2>2. PICK j \in s : TRUE
    OBVIOUS
  <2>3. s \ {j} \notin Bad
    BY <2>1, <2>2
  <2>4. CASE s \ {j} = {}
    BY <2>2, <2>4
  <2>5. CASE s \ {j} # {}
    <3>1. PICK m \in s \ {j} : \A k \in s \ {j} : m >= k
      BY <2>3, <2>5
    <3>2. CASE m >= j
      BY <3>1, <3>2
    <3>3. CASE j >= m
      BY <2>2, <3>1, <3>3
    <3> QED BY <3>1, <2>2, <3>2, <3>3
  <2> QED BY <2>4, <2>5
<1>2. HasMax(S)
  BY <1>1
<1> QED BY <1>2 DEF Max

(* A rule matches, does not match or raises. *)
LEMMA MatchesType ==
  ASSUME NEW c, NEW ctx
  PROVE  Matches(c, ctx) \in {"yes", "no", "raise"}
<1> DEFINE tests == Tests(c, ctx)
           stops == {k \in 1 .. 5 : tests[k] # "on"}
<1>1. \A k \in 1 .. 5 : tests[k] \in {"on", "no", "raise"}
  BY DEF Tests, Test
<1> HIDE DEF tests
<1>2. stops # {} => Min(stops) \in stops
  <2>1. stops # {} => \E m \in stops : \A k \in stops : m <= k
    OBVIOUS
  <2> QED BY <2>1 DEF Min
<1> QED BY <1>1, <1>2 DEF Matches, tests

-----------------------------------------------------------------------------
(* The rules are visited by priority and then id, each active one once. *)
LEMMA OrderedRules ==
  ASSUME NEW rules, IsTable(rules)
  PROVE  LET active == {r \in rules : r.is_active}
             seq == Ordered(rules)
         IN \E n \in Nat :
              /\ DOMAIN seq = 1 .. n
              /\ \A k \in 1 .. n : seq[k] \in active
              /\ \A r \in active : \E k \in 1 .. n : seq[k] = r
              /\ \A j, k \in 1 .. n : j < k => Before(seq[j], seq[k])
<1> DEFINE active == {r \in rules : r.is_active}
           earlier(r) == {s \in active : Before(s, r)}
           place(r) == 1 + Cardinality(earlier(r))
           n == Cardinality(active)
           seq == Ordered(rules)
<1>1. IsFiniteSet(active) /\ n \in Nat
  BY FS_Subset, FS_CardinalityType DEF IsTable
<1>2. \A r \in active : IsFiniteSet(earlier(r)) /\ Cardinality(earlier(r)) \in Nat
  BY <1>1, FS_Subset, FS_CardinalityType
<1>3. \A r, s \in active : r # s => Before(r, s) \/ Before(s, r)
  BY DEF IsTable, Before
<1>4. \A r, s \in active : Before(r, s) => place(r) < place(s)
  <2> SUFFICES ASSUME NEW r \in active, NEW s \in active, Before(r, s)
               PROVE  place(r) < place(s)
    OBVIOUS
  <2>1. earlier(r) \in SUBSET earlier(s) /\ r \in earlier(s) /\ r \notin earlier(r)
    BY DEF IsTable, Before
  <2>2. /\ Cardinality(earlier(r)) <= Cardinality(earlier(s))
        /\ Cardinality(earlier(r)) # Cardinality(earlier(s))
    BY <1>2, <2>1, FS_Subset
  <2> QED BY <1>2, <2>2
<1>5. \A r \in active : place(r) \in 1 .. n
  <2> SUFFICES ASSUME NEW r \in active
               PROVE  place(r) \in 1 .. n
    OBVIOUS
  <2>1. earlier(r) \in SUBSET active /\ earlier(r) # active
    BY DEF IsTable, Before
  <2>2. Cardinality(earlier(r)) <= n /\ Cardinality(earlier(r)) # n
    BY <1>1, <2>1, FS_Subset
  <2> QED BY <1>1, <1>2, <2>2
<1> HIDE DEF place
<1>6. \A k \in 1 .. n : \E r \in active : place(r) = k
  <2> DEFINE f == [r \in active |-> place(r)]
  <2>1. f \in Injection(active, 1 .. n)
    <3>1. f \in [active -> 1 .. n]
      BY <1>5
    <3>2. ASSUME NEW r \in active, NEW s \in active, r # s
          PROVE  f[r] # f[s]
      <4>1. Before(r, s) \/ Before(s, r)
        BY <1>3, <3>2
      <4>2. place(r) < place(s) \/ place(s) < place(r)
        BY <1>4, <4>1
      <4>3. place(r) \in 1 .. n /\ place(s) \in 1 .. n
        BY <1>5
      <4>4. place(r) # place(s)
        <5> HIDE DEF n
        <5> QED BY <1>1, <4>2, <4>3
      <4> QED BY <4>4
    <3> HIDE DEF f
    <3> QED BY <3>1, <3>2 DEF Injection, IsInjective
  <2>2. IsFiniteSet(1 .. n) /\ Cardinality(1 .. n) = n
    BY <1>1, FS_Interval
  <2>3. f \in Surjection(active, 1 .. n)
    BY <1>1, <2>1, <2>2, FS_Injection
  <2> QED BY <2>3 DEF Surjection
<1>7. seq = [k \in 1 .. n |-> CHOOSE r \in active : place(r) = k]
  BY DEF Ordered, place
<1>8. \A k \in 1 .. n : seq[k] \in active /\ place(seq[k]) = k
  BY <1>6, <1>7
<1> HIDE DEF n, seq
<1>9. \A r \in active : seq[place(r)] = r
  <2> SUFFICES ASSUME NEW r \in active
               PROVE  seq[place(r)] = r
    OBVIOUS
  <2>1. seq[place(r)] \in active /\ place(seq[place(r)]) = place(r) /\ place(r) \in Int
    BY <1>5, <1>8
  <2> HIDE DEF active
  <2> QED BY <1>3, <1>4, <2>1
<1>10. \A j, k \in 1 .. n : j < k => Before(seq[j], seq[k])
  BY <1>1, <1>3, <1>4, <1>8
<1> QED BY <1>1, <1>5, <1>7, <1>8, <1>9, <1>10 DEF seq

-----------------------------------------------------------------------------
(* What the loop has computed after the rules of s: the first of them that   *)
(* does not fail to match decides.                                         *)
Decision(r, ctx) == IF Matches(r.condition, ctx) = "raise" THEN "raise" ELSE r.outcome
Stops(r, ctx)    == Matches(r.condition, ctx) # "no"

Decides(seq, ctx, s, v) ==
  IF \E k \in s : Stops(seq[k], ctx)
  THEN \E k \in s : /\ Stops(seq[k], ctx) /\ v = Decision(seq[k], ctx)
                    /\ \A j \in s : Stops(seq[j], ctx) => k <= j
  ELSE v = "none"

(* The body of the loop, and the recursion that FoldLeft is. *)
Visit(ctx, result, r) ==
  IF result # "none" THEN result
  ELSE CASE Matches(r.condition, ctx) = "yes"   -> r.outcome
         [] Matches(r.condition, ctx) = "raise" -> "raise"
         [] Matches(r.condition, ctx) = "no"    -> "none"
Loop(g, s, seq, ctx) ==
  IF s = {} THEN "none" ELSE Visit(ctx, g[s \ {Max(s)}], seq[Max(s)])

(* One more rule: the loop's result stays the first match of those visited. *)
LEMMA VisitDecides ==
  ASSUME NEW n \in Nat, NEW seq, NEW ctx, \A k \in 1 .. n : seq[k].outcome \in Outcomes,
         NEW s \in SUBSET (1 .. n), s # {}, NEW v, Decides(seq, ctx, s \ {Max(s)}, v)
  PROVE  Decides(seq, ctx, s, Visit(ctx, v, seq[Max(s)]))
<1> DEFINE m == Max(s)
<1>1. m \in s /\ m \in 1 .. n /\ \A k \in s : k <= m
  BY MaxIsGreatest
<1> HIDE DEF m
<1>2. CASE \E k \in s \ {m} : Stops(seq[k], ctx)
  <2>1. PICK k \in s \ {m} : /\ Stops(seq[k], ctx) /\ v = Decision(seq[k], ctx)
                            /\ \A j \in s \ {m} : Stops(seq[j], ctx) => k <= j
    BY <1>2 DEF Decides, m
  <2>2. v # "none"
    BY <2>1 DEF Decision, Outcomes
  <2>3. Visit(ctx, v, seq[m]) = v
    BY <2>2 DEF Visit
  <2>4. \A j \in s : Stops(seq[j], ctx) => k <= j
    BY <1>1, <2>1
  <2> QED BY <2>1, <2>3, <2>4 DEF Decides, m
<1>3. CASE \A k \in s \ {m} : ~Stops(seq[k], ctx)
  <2>1. v = "none"
    BY <1>3 DEF Decides, m
  <2>2. Visit(ctx, v, seq[m]) =
          IF Stops(seq[m], ctx) THEN Decision(seq[m], ctx) ELSE "none"
    BY <2>1, MatchesType DEF Visit, Stops, Decision
  <2> QED BY <1>1, <1>3, <2>2 DEF Decides, m
<1> QED BY <1>2, <1>3

(* There is one such result only. *)
LEMMA DecidesOnce ==
  ASSUME NEW n \in Nat, NEW seq, NEW ctx, NEW s \in SUBSET (1 .. n), NEW v, NEW w,
         Decides(seq, ctx, s, v), Decides(seq, ctx, s, w)
  PROVE  v = w
  BY DEF Decides

(* The recursion has a solution: what Decides describes. *)
Solves(g, D, seq, ctx) == g = [s \in SUBSET D |-> Loop(g, s, seq, ctx)]
Solvable(D, seq, ctx)  == \E g : Solves(g, D, seq, ctx)

(* It has one: a smallest index set without one would get it from a smaller. *)
LEMMA LoopExists ==
  ASSUME NEW n \in Nat, NEW seq, NEW ctx, \A k \in 1 .. n : seq[k].outcome \in Outcomes
  PROVE  Solvable(1 .. n, seq, ctx)
<1> DEFINE g == [s \in SUBSET (1 .. n) |-> CHOOSE v : Decides(seq, ctx, s, v)]
           Bad == {s \in SUBSET (1 .. n) : \A v : ~Decides(seq, ctx, s, v)}
<1>1. Bad = {}
  <2> SUFFICES ASSUME Bad # {}
               PROVE  FALSE
    OBVIOUS
  <2>1. PICK s \in Bad : \A t \in Bad : t \subseteq s => t = s
    <3>1. Bad \in SUBSET SUBSET (1 .. n)
      OBVIOUS
    <3> HIDE DEF Bad
    <3>2. HasSmallest(Bad)
      BY <3>1, SmallestRange
    <3> QED BY <3>2 DEF HasSmallest
  <2>2. s # {}
    BY DEF Decides
  <2>3. Max(s) \in s
    BY <2>2, MaxIsGreatest
  <2>4. PICK v : Decides(seq, ctx, s \ {Max(s)}, v)
    BY <2>1, <2>3
  <2>5. Decides(seq, ctx, s, Visit(ctx, v, seq[Max(s)]))
    BY <2>2, <2>4, VisitDecides
  <2> QED BY <2>5
<1>2. \A s \in SUBSET (1 .. n) : Decides(seq, ctx, s, g[s])
  BY <1>1
<1>3. ASSUME NEW s \in SUBSET (1 .. n)
      PROVE  g[s] = Loop(g, s, seq, ctx)
  <2>1. CASE s = {}
    BY <1>2, <2>1 DEF Decides, Loop
  <2>2. CASE s # {}
    <3>1. Decides(seq, ctx, s, Visit(ctx, g[s \ {Max(s)}], seq[Max(s)]))
      <4> HIDE DEF g
      <4> QED BY <1>2, <2>2, VisitDecides
    <3>2. Decides(seq, ctx, s, g[s])
      BY <1>2
    <3> HIDE DEF g
    <3>3. g[s] = Visit(ctx, g[s \ {Max(s)}], seq[Max(s)])
      <4> DEFINE u == g[s]
                 v == Visit(ctx, g[s \ {Max(s)}], seq[Max(s)])
      <4>1. Decides(seq, ctx, s, u) /\ Decides(seq, ctx, s, v)
        BY <3>1, <3>2
      <4> HIDE DEF u, v
      <4>2. u = v
        BY <4>1, DecidesOnce
      <4> QED BY <4>2 DEF u, v
    <3> QED BY <2>2, <3>3 DEF Loop
  <2> QED BY <2>1, <2>2
<1>4. Solves(g, 1 .. n, seq, ctx)
  BY <1>3 DEF Solves
<1> HIDE DEF g
<1> QED BY <1>4 DEF Solvable

(* And every solution is that. *)
LEMMA LoopDecides ==
  ASSUME NEW n \in Nat, NEW seq, NEW ctx, \A k \in 1 .. n : seq[k].outcome \in Outcomes,
         NEW g, Solves(g, 1 .. n, seq, ctx)
  PROVE  Decides(seq, ctx, 1 .. n, g[1 .. n])
<1> DEFINE Bad == {s \in SUBSET (1 .. n) : ~Decides(seq, ctx, s, g[s])}
<1>1. \A s \in SUBSET (1 .. n) : g[s] = Loop(g, s, seq, ctx)
  BY DEF Solves
<1>2. Bad = {}
  <2> SUFFICES ASSUME Bad # {}
               PROVE  FALSE
    OBVIOUS
  <2>1. PICK s \in Bad : \A t \in Bad : t \subseteq s => t = s
    <3>1. Bad \in SUBSET SUBSET (1 .. n)
      OBVIOUS
    <3> HIDE DEF Bad
    <3>2. HasSmallest(Bad)
      BY <3>1, SmallestRange
    <3> QED BY <3>2 DEF HasSmallest
  <2>2. s # {}
    BY <1>1 DEF Decides, Loop
  <2>3. Max(s) \in s
    BY <2>2, MaxIsGreatest
  <2>4. Decides(seq, ctx, s \ {Max(s)}, g[s \ {Max(s)}])
    <3>1. s \ {Max(s)} \notin Bad
      BY <2>1, <2>3
    <3> QED BY <3>1
  <2>5. Decides(seq, ctx, s, Visit(ctx, g[s \ {Max(s)}], seq[Max(s)]))
    BY <2>2, <2>4, VisitDecides
  <2> QED BY <1>1, <2>2, <2>5 DEF Loop
<1> QED BY <1>2

-----------------------------------------------------------------------------
(* On every finite table whose ids are unique, RuleEngine.evaluate gives    *)
(* the outcome of the first matching rule by priority and id.              *)
THEOREM EvaluateIsFirstMatch ==
  ASSUME NEW rules, IsTable(rules), NEW ctx
  PROVE  FirstMatch(rules, ctx, Evaluate(rules, ctx))
<1> DEFINE active == {r \in rules : r.is_active}
           seq == Ordered(rules)
<1>1. PICK n \in Nat :
        /\ DOMAIN seq = 1 .. n
        /\ \A k \in 1 .. n : seq[k] \in active
        /\ \A r \in active : \E k \in 1 .. n : seq[k] = r
        /\ \A j, k \in 1 .. n : j < k => Before(seq[j], seq[k])
  BY OrderedRules
<1> DEFINE g == CHOOSE g : Solves(g, DOMAIN seq, seq, ctx)
           result == g[DOMAIN seq]
<1>2. Evaluate(rules, ctx) = IF result = "none" THEN "manual_review" ELSE result
  BY DEF Evaluate, FoldLeft, MapThenFoldSet, Visit, Loop, Solves
<1> HIDE DEF seq
<1>3. \A k \in 1 .. n : seq[k].outcome \in Outcomes
  BY <1>1 DEF IsTable
<1>4. Solves(g, 1 .. n, seq, ctx)
  <2>1. Solvable(1 .. n, seq, ctx)
    BY <1>3, LoopExists
  <2> QED BY <1>1, <2>1 DEF Solvable
<1> HIDE DEF g
<1>5. Decides(seq, ctx, 1 .. n, result)
  BY <1>1, <1>3, <1>4, LoopDecides
<1>6. CASE \A k \in 1 .. n : ~Stops(seq[k], ctx)
  <2>1. result = "none"
    BY <1>5, <1>6 DEF Decides
  <2>2. \A r \in rules : ~(r.is_active /\ Matches(r.condition, ctx) # "no")
    BY <1>1, <1>6 DEF Stops
  <2> QED BY <1>2, <2>1, <2>2 DEF FirstMatch
<1>7. CASE \E k \in 1 .. n : Stops(seq[k], ctx)
  <2>1. PICK k \in 1 .. n : /\ Stops(seq[k], ctx) /\ result = Decision(seq[k], ctx)
                           /\ \A j \in 1 .. n : Stops(seq[j], ctx) => k <= j
    BY <1>5, <1>7 DEF Decides
  <2>2. seq[k] \in rules /\ seq[k].is_active /\ Matches(seq[k].condition, ctx) # "no"
    BY <1>1, <2>1 DEF Stops
  <2>3. \A s \in rules \ {seq[k]} :
          s.is_active /\ Matches(s.condition, ctx) # "no" => Before(seq[k], s)
    BY <1>1, <2>1 DEF Stops
  <2>4. Evaluate(rules, ctx) = Decision(seq[k], ctx)
    BY <1>2, <1>3, <2>1 DEF Decision, Outcomes
  <2> QED BY <2>2, <2>3, <2>4 DEF FirstMatch, Decision
<1> QED BY <1>6, <1>7

-----------------------------------------------------------------------------
(* If no test of a condition raises, it matches when all its tests hold. *)
LEMMA TestsOfMatches ==
  ASSUME NEW c, NEW ctx, \A k \in 1 .. 5 : Tests(c, ctx)[k] \in {"on", "no"}
  PROVE  Matches(c, ctx) =
           IF \A k \in 1 .. 5 : Tests(c, ctx)[k] = "on" THEN "yes" ELSE "no"
<1> DEFINE tests == Tests(c, ctx)
           stops == {k \in 1 .. 5 : tests[k] # "on"}
<1> HIDE DEF tests
<1>1. stops # {} => Min(stops) \in stops
  <2>1. stops # {} => \E m \in stops : \A k \in stops : m <= k
    OBVIOUS
  <2> QED BY <2>1 DEF Min
<1>2. \A k \in 1 .. 5 : tests[k] \in {"on", "no"}
  BY DEF tests
<1>3. Matches(c, ctx) = IF stops = {} THEN "yes" ELSE tests[Min(stops)]
  BY DEF Matches, tests
<1>4. Matches(c, ctx) =
        IF \A k \in 1 .. 5 : tests[k] = "on" THEN "yes" ELSE "no"
  BY <1>1, <1>2, <1>3
<1> QED BY <1>4 DEF tests

(* What the seeded rules match. *)
LEMMA DefaultsMatch ==
  ASSUME NEW ctx
  PROVE  /\ Matches(HighBand.condition, ctx) =
              IF ctx.risk_band = "high" THEN "yes" ELSE "no"
         /\ Matches(HighScore.condition, ctx) = IF ctx.score >= 8500 THEN "yes" ELSE "no"
         /\ Matches(LowBand.condition, ctx) =
              IF ctx.risk_band = "low" /\ ctx.score <= 10000 THEN "yes" ELSE "no"
         /\ Matches(CatchAll.condition, ctx) = "yes"
<1>0. /\ "high" # Absent /\ "low" # Absent
      /\ 8500 # Absent /\ 8500 # Text /\ 10000 # Absent /\ 10000 # Text
  BY MarkersAssumption
<1> USE DEF Has, Test, NoCondition, Rule
<1>1. Tests(HighBand.condition, ctx) =
        << "on", "on", IF ctx.risk_band = "high" THEN "on" ELSE "no", "on", "on" >>
  BY <1>0 DEF Tests, HighBand
<1>2. Tests(HighScore.condition, ctx) =
        << IF ctx.score >= 8500 THEN "on" ELSE "no", "on", "on", "on", "on" >>
  BY <1>0 DEF Tests, HighScore
<1>3. Tests(LowBand.condition, ctx) =
        << "on", IF ctx.score <= 10000 THEN "on" ELSE "no",
           IF ctx.risk_band = "low" THEN "on" ELSE "no", "on", "on" >>
  <2> DEFINE Given(band, bound) ==
        [NoCondition EXCEPT !.risk_band = band, !.max_score = bound]
      Bounded(band, bound) ==
        [min_score |-> Absent, max_score |-> bound, risk_band |-> band,
         feature_path |-> Absent, feature_equals |-> Absent, feature_min |-> Absent]
  <2>1. ASSUME NEW band, NEW bound
        PROVE  Given(band, bound) = Bounded(band, bound)
    <3>1. [NoCondition EXCEPT !.risk_band = band] = Bounded(band, Absent)
      OBVIOUS
    <3>2. [Bounded(band, Absent) EXCEPT !.max_score = bound] = Bounded(band, bound)
      OBVIOUS
    <3> HIDE DEF Bounded, NoCondition
    <3> QED BY <3>1, <3>2
  <2>2. LowBand.condition = Given("low", 10000)
    <3> HIDE DEF NoCondition
    <3> QED BY DEF LowBand
  <2> HIDE DEF Given
  <2>3. LowBand.condition = Bounded("low", 10000)
    <3> HIDE DEF Bounded
    <3> QED BY <2>1, <2>2
  <2> HIDE DEF LowBand
  <2> QED BY <1>0, <2>3 DEF Tests
<1>4. Tests(CatchAll.condition, ctx) = << "on", "on", "on", "on", "on" >>
  BY DEF Tests, CatchAll
<1>5. Matches(HighBand.condition, ctx) = IF ctx.risk_band = "high" THEN "yes" ELSE "no"
  BY <1>1, TestsOfMatches
<1>6. Matches(HighScore.condition, ctx) = IF ctx.score >= 8500 THEN "yes" ELSE "no"
  BY <1>2, TestsOfMatches
<1>7. Matches(LowBand.condition, ctx) =
        IF ctx.risk_band = "low" /\ ctx.score <= 10000 THEN "yes" ELSE "no"
  BY <1>3, TestsOfMatches
<1>8. Matches(CatchAll.condition, ctx) = "yes"
  BY <1>4, TestsOfMatches
<1> QED BY <1>5, <1>6, <1>7, <1>8

(* The table has a copy of a rule, under some id. *)
HasCopy(rules, rule) == \E r \in rules : r = Row(r.id, rule)

(* What a table of copies of the seeded rules decides: copies of one of them *)
(* have one priority and one outcome, so that neither their number nor     *)
(* their ids matter.                                                       *)
LEMMA DefaultsDecide ==
  ASSUME NEW rules, IsTable(rules), NEW ctx, ctx.score \in Int,
         \A r \in rules : \E k \in 1 .. 4 : r = Row(r.id, DefaultRules[k])
  PROVE  Evaluate(rules, ctx) =
           IF HasCopy(rules, HighBand) /\ ctx.risk_band = "high" THEN "declined"
           ELSE IF /\ ~(HasCopy(rules, HighScore) /\ ctx.score >= 8500)
                   /\ HasCopy(rules, LowBand)
                   /\ ctx.risk_band = "low" /\ ctx.score <= 10000
                THEN "approved" ELSE "manual_review"
<1> DEFINE Is(r, rule) == r = Row(r.id, rule)
           stops(r) == r.is_active /\ Matches(r.condition, ctx) # "no"
           Of(r, rule, holds) ==
             /\ r.priority = rule.priority /\ r.outcome = rule.outcome
             /\ Matches(r.condition, ctx) # "raise"
             /\ stops(r) <=> holds
<1>1. \A r \in rules :
        Is(r, HighBand) \/ Is(r, HighScore) \/ Is(r, LowBand) \/ Is(r, CatchAll)
  BY DEF DefaultRules
<1>2. \A r : /\ Is(r, HighBand) => Of(r, HighBand, ctx.risk_band = "high")
             /\ Is(r, HighScore) => Of(r, HighScore, ctx.score >= 8500)
             /\ Is(r, LowBand) =>
                  Of(r, LowBand, ctx.risk_band = "low" /\ ctx.score <= 10000)
             /\ Is(r, CatchAll) => Of(r, CatchAll, TRUE)
  <2>1. /\ HighBand.is_active /\ HighScore.is_active
        /\ LowBand.is_active /\ CatchAll.is_active
    BY DEF HighBand, HighScore, LowBand, CatchAll, Rule
  <2> HIDE DEF HighBand, HighScore, LowBand, CatchAll
  <2> QED BY <2>1, DefaultsMatch DEF Row
<1>3. /\ HighBand.priority = 10 /\ HighBand.outcome = "declined"
      /\ HighScore.priority = 20 /\ HighScore.outcome = "manual_review"
      /\ LowBand.priority = 100 /\ LowBand.outcome = "approved"
      /\ CatchAll.priority = 1000 /\ CatchAll.outcome = "manual_review"
  BY DEF HighBand, HighScore, LowBand, CatchAll, Rule
<1>4. FirstMatch(rules, ctx, Evaluate(rules, ctx))
  BY EvaluateIsFirstMatch
<1> QED BY <1>1, <1>2, <1>3, <1>4 DEF FirstMatch, HasCopy, Before, IsTable

(* The table that a seed makes of an empty one. *)
LEMMA SeededTable ==
  LET table == {Row(k, DefaultRules[k]) : k \in DOMAIN DefaultRules}
  IN /\ IsTable(table)
     /\ \A r \in table : \E k \in 1 .. 4 : r = Row(r.id, DefaultRules[k])
     /\ HasCopy(table, HighBand) /\ HasCopy(table, HighScore) /\ HasCopy(table, LowBand)
<1> DEFINE table == {Row(k, DefaultRules[k]) : k \in DOMAIN DefaultRules}
           row == [k \in 1 .. 4 |-> Row(k, DefaultRules[k])]
<1>1. /\ DOMAIN DefaultRules = 1 .. 4
      /\ \A k \in 1 .. 4 : /\ DefaultRules[k].priority \in Int
                           /\ DefaultRules[k].outcome \in Outcomes
  BY DEF DefaultRules, HighBand, HighScore, LowBand, CatchAll, Rule, Outcomes
<1>2. \A k \in 1 .. 4 : Row(k, DefaultRules[k]).id = k
  BY DEF Row
<1>3. IsFiniteSet(table)
  <2>1. row \in Surjection(1 .. 4, table)
    BY <1>1 DEF Surjection
  <2> HIDE DEF table, row
  <2>2. \A n \in Nat : IsFiniteSet(1 .. n)
    BY FS_Interval
  <2>3. IsFiniteSet(1 .. 4)
    BY <2>2
  <2> QED BY <2>1, <2>3, FS_Surjection
<1>4. IsTable(table)
  BY <1>1, <1>3 DEF IsTable, Row
<1>5. \A k \in 1 .. 4 : HasCopy(table, DefaultRules[k])
  BY <1>1, <1>2 DEF HasCopy
<1>6. HasCopy(table, HighBand) /\ HasCopy(table, HighScore) /\ HasCopy(table, LowBand)
  BY <1>5 DEF DefaultRules
<1> QED BY <1>1, <1>2, <1>4, <1>6
=============================================================================
