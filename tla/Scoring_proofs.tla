-------------------------- MODULE Scoring_proofs --------------------------
(***************************************************************************)
(* A run that got worse is reported as a regression, whatever the          *)
(* scenarios, as long as there are at most twenty: one scenario in twenty  *)
(* is worth exactly the threshold.                                         *)
(***************************************************************************)
EXTENDS Scoring, FiniteSetTheorems, TLAPS

\* What score_deterministic yields, as far as the comparison is concerned.
Outcome(o) ==
    /\ o.reached \in BOOLEAN
    /\ o.reached => o.verdict \in {0, 1} /\ o.action \in {0, 1}
    /\ ~o.reached => o.verdict = Unscored /\ o.action = Unscored
Outcomes(results) == \A i \in DOMAIN results : Outcome(results[i])

LEMMA ScoresAreOutcomes ==
    ASSUME NEW scenario, NEW result
    PROVE  Outcome(score_deterministic(scenario, result))
<1> DEFINE o == score_deterministic(scenario, result)
           r == Status(result) \in {"diagnosed", "awaiting_approval"}
<1>1. \A condition : Flag(condition) \in {0, 1}
  BY DEF Flag
<1>2. o.reached = r
  BY DEF score_deterministic
<1>3. r => o.verdict \in {0, 1} /\ o.action \in {0, 1}
  BY <1>1 DEF score_deterministic
<1>4. ~r => o.verdict = Unscored /\ o.action = Unscored
  BY DEF score_deterministic
<1>5. r \in BOOLEAN
  OBVIOUS
<1> QED
  BY <1>2, <1>3, <1>4, <1>5 DEF Outcome

\* One more hit among at most twenty moves the rounded rate by the threshold,
\* whatever is rounded away.
LEMMA RateDrop ==
    ASSUME NEW n \in 1..20, NEW j \in Nat, NEW k \in Nat, j < k
    PROVE  /\ Rounded(j, n, 1) \in Nat /\ Rounded(k, n, 1) \in Nat
           /\ Rounded(j, n, 1) - Rounded(k, n, 1) <= -Threshold
  BY SMTT(60) DEF Rounded, Threshold

\* A strict subset of the hits, among the same scenarios.
LEMMA FewerHits ==
    ASSUME NEW among, IsFiniteSet(among), Cardinality(among) <= 20,
           NEW b, NEW c, b \subseteq among, c \subseteq b, c # b
    PROVE  /\ Rate(b, among) \in Nat /\ Rate(c, among) \in Nat
           /\ Rate(c, among) - Rate(b, among) <= -Threshold
<1>1. among # {}
  OBVIOUS
<1>2. IsFiniteSet(b) /\ IsFiniteSet(c)
  BY FS_Subset
<1>3. Cardinality(c) < Cardinality(b) /\ Cardinality(c) \in Nat /\ Cardinality(b) \in Nat
  BY <1>2, FS_Subset, FS_CardinalityType
<1>4. Cardinality(among) \in 1..20
  <2>1. Cardinality(among) \in Nat /\ Cardinality(among) # 0
    BY <1>1, FS_CardinalityType, FS_EmptySet
  <2>2. Cardinality(among) <= 20
    OBVIOUS
  <2> QED
    BY ONLY <2>1, <2>2
<1> DEFINE n == Cardinality(among)
           j == Cardinality(c)
           k == Cardinality(b)
<1>5. Rate(b, among) = Rounded(k, n, 1) /\ Rate(c, among) = Rounded(j, n, 1)
  BY <1>1 DEF Rate
<1> HIDE DEF n, j, k
<1>6. n \in 1..20 /\ j \in Nat /\ k \in Nat /\ j < k
  BY <1>3, <1>4 DEF n, j, k
<1> QED
  BY <1>5, <1>6, RateDrop

\* regression.py: "a prompt/graph change that degrades behavior should show up
\* here as a regression".  It does for every pair of runs over at most twenty
\* scenarios: through the completion rate if a diagnosis was lost, otherwise
\* through the accuracy of the verdicts or of the actions, whose denominators
\* are then the same.
THEOREM DegradationIsARegression ==
    ASSUME NEW baseline, NEW candidate,
           IsFiniteSet(DOMAIN baseline), Cardinality(DOMAIN baseline) <= 20,
           Outcomes(baseline), Outcomes(candidate),
           Degraded(baseline, candidate)
    PROVE  Regressions(baseline, candidate) # {}
<1> DEFINE S == DOMAIN baseline
           B == Reached(baseline)
           C == Reached(candidate)
           VB == {i \in B : baseline[i].verdict = 1}
           VC == {i \in C : candidate[i].verdict = 1}
           AB == {i \in B : baseline[i].action = 1}
           AC == {i \in C : candidate[i].action = 1}
<1>1. DOMAIN candidate = S
  BY DEF Degraded
<1>2. B \subseteq S /\ C \subseteq B
  BY <1>1 DEF Degraded, NoBetter, Reached
<1>3. CASE C # B
  <2>1. /\ Rate(B, S) \in Nat /\ Rate(C, S) \in Nat
        /\ Rate(C, S) - Rate(B, S) <= -Threshold
    BY <1>2, <1>3, FewerHits
  <2>2. Aggregate(baseline).completion_rate = Rate(B, S)
        /\ Aggregate(candidate).completion_rate = Rate(C, S)
    BY <1>1 DEF Aggregate
  <2>3. "completion_rate" \in Regressions(baseline, candidate)
    BY <2>1, <2>2 DEF Regressions, HigherIsBetter, Unscored
  <2> QED
    BY <2>3
<1>4. CASE C = B
  <2>1. IsFiniteSet(B) /\ Cardinality(B) <= 20
    BY <1>2, FS_Subset, FS_CardinalityType
  <2>2. \A i \in S : /\ i \in B <=> baseline[i].reached
                     /\ i \in C <=> candidate[i].reached
    BY <1>1 DEF Reached
  <2>3. VC \subseteq VB /\ AC \subseteq AB
    BY <1>1, <1>2, <1>4 DEF Degraded, NoBetter
  <2>4. PICK i \in S : Worse(baseline[i], candidate[i])
    BY DEF Degraded
  <2>5. Outcome(baseline[i]) /\ Outcome(candidate[i])
    BY <1>1, <2>4 DEF Outcomes
  <2>6. VC # VB \/ AC # AB
    <3>1. CASE baseline[i].reached /\ ~candidate[i].reached
      BY <1>4, <2>2, <2>4, <3>1
    <3>2. CASE baseline[i].verdict = 1 /\ candidate[i].verdict = 0
      <4>1. i \in B
        BY <2>2, <2>5, <3>2 DEF Outcome, Unscored
      <4>2. i \in VB /\ i \notin VC
        BY <3>2, <4>1
      <4> QED
        BY <4>2
    <3>3. CASE baseline[i].action = 1 /\ candidate[i].action = 0
      <4>1. i \in B
        BY <2>2, <2>5, <3>3 DEF Outcome, Unscored
      <4>2. i \in AB /\ i \notin AC
        BY <3>3, <4>1
      <4> QED
        BY <4>2
    <3> QED
      BY <2>4, <3>1, <3>2, <3>3 DEF Worse
  <2>7. CASE VC # VB
    <3>1. /\ Rate(VB, B) \in Nat /\ Rate(VC, B) \in Nat
          /\ Rate(VC, B) - Rate(VB, B) <= -Threshold
      BY <2>1, <2>3, <2>7, FewerHits
    <3>2. Aggregate(baseline).policy_verdict_accuracy = Rate(VB, B)
          /\ Aggregate(candidate).policy_verdict_accuracy = Rate(VC, B)
      BY <1>4 DEF Aggregate
    <3>3. "policy_verdict_accuracy" \in Regressions(baseline, candidate)
      BY <3>1, <3>2 DEF Regressions, HigherIsBetter, Unscored
    <3> QED
      BY <3>3
  <2>8. CASE AC # AB
    <3>1. /\ Rate(AB, B) \in Nat /\ Rate(AC, B) \in Nat
          /\ Rate(AC, B) - Rate(AB, B) <= -Threshold
      BY <2>1, <2>3, <2>8, FewerHits
    <3>2. Aggregate(baseline).recommended_action_exact_match_rate = Rate(AB, B)
          /\ Aggregate(candidate).recommended_action_exact_match_rate = Rate(AC, B)
      BY <1>4 DEF Aggregate
    <3>3. "recommended_action_exact_match_rate" \in Regressions(baseline, candidate)
      BY <3>1, <3>2 DEF Regressions, HigherIsBetter, Unscored
    <3> QED
      BY <3>3
  <2> QED
    BY <2>6, <2>7, <2>8
<1> QED
  BY <1>3, <1>4
=============================================================================
