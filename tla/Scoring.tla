------------------------------ MODULE Scoring ------------------------------
(***************************************************************************)
(* How the evaluation harness scores an investigation against a scenario's *)
(* ground truth (eval/deterministic.py), aggregates a run (eval/runner.py) *)
(* and compares two runs (eval/regression.py).  Rates are kept as the code *)
(* rounds them, in units of 1/10000; tool selection in units of 1/1000.    *)
(* The judge's four scores are treated alike, and stand as one.            *)
(***************************************************************************)
EXTENDS Integers, FiniteSetsExt, Policy, Evidence

NoAction == "none"

\* Python's None among numbers.
Unscored == -1

\* What is scored of an InvestigationResult: the action it recommends, if it
\* reached a diagnosis, the tools it called, and what the judge made of it.
Status(result) ==
    IF result.action = NoAction THEN "incomplete"
    ELSE IF Gated(result.action) THEN "awaiting_approval"
    ELSE "diagnosed"

\* Awaiting approval is the right outcome where approval is expected.
EffectivePolicyVerdict(result) ==
    IF Status(result) = "awaiting_approval" THEN "REQUIRE_APPROVAL" ELSE Evaluate(result.action)

Flag(condition) == IF condition THEN 1 ELSE 0

ExpectedTools(scenario) ==
    {EvidenceCategoryTool[e.category] : e \in scenario.expected_evidence}

\* Rounded to three places.
ToolSelection(scenario, called) ==
    LET expected == ExpectedTools(scenario)
        n == Cardinality(expected)
    IN  IF n = 0 THEN 1000
        ELSE (2000 * Cardinality(expected \cap called) + n) \div (2 * n)

\* Mutant: how many more were called than expected.
MutantUnnecessary(scenario, called) == Cardinality(called) - Cardinality(ExpectedTools(scenario))

Unnecessary(scenario, called) == Cardinality(called \ ExpectedTools(scenario))

score_deterministic(scenario, result) ==
    LET reached == Status(result) \in {"diagnosed", "awaiting_approval"}
    IN  [reached     |-> reached,
         verdict     |-> IF reached
                         THEN Flag(EffectivePolicyVerdict(result) = scenario.expected_verdict)
                         ELSE Unscored,
         action      |-> IF reached THEN Flag(result.action = scenario.expected_action)
                         ELSE Unscored,
         tools       |-> ToolSelection(scenario, result.called),
         unnecessary |-> Unnecessary(scenario, result.called),
         judge       |-> IF result.action = NoAction THEN Unscored ELSE result.judge]

Scores == [reached : BOOLEAN, verdict : {Unscored, 0, 1}, action : {Unscored, 0, 1},
           tools : Nat, unnecessary : Nat, judge : Int]

-----------------------------------------------------------------------------
(* A run's results: a function from scenarios to their scores.             *)

Reached(results) == {i \in DOMAIN results : results[i].reached}
Judged(results)  == {i \in DOMAIN results : results[i].judge # Unscored}

\* round(total / count, 4) of a total in units of 1 / per.
Rounded(total, count, per) == (20000 * total + per * count) \div (2 * per * count)

Rate(hits, among) ==
    IF among = {} THEN 0 ELSE Rounded(Cardinality(hits), Cardinality(among), 1)

ToolTotal(results)        == MapThenSumSet(LAMBDA i : results[i].tools, DOMAIN results)
UnnecessaryTotal(results) == MapThenSumSet(LAMBDA i : results[i].unnecessary, DOMAIN results)
JudgeTotal(results)       == MapThenSumSet(LAMBDA i : results[i].judge, Judged(results))

Aggregate(results) ==
    [completion_rate |-> Rate(Reached(results), DOMAIN results),
     policy_verdict_accuracy |->
        Rate({i \in Reached(results) : results[i].verdict = 1}, Reached(results)),
     recommended_action_exact_match_rate |->
        Rate({i \in Reached(results) : results[i].action = 1}, Reached(results)),
     mean_tool_selection_score |->
        Rounded(ToolTotal(results), Cardinality(DOMAIN results), 1000),
     total_unnecessary_tool_calls |-> UnnecessaryTotal(results),
     mean_judge_score |->
        IF Judged(results) = {} THEN Unscored
        ELSE Rounded(JudgeTotal(results), Cardinality(Judged(results)), 1000)]

\* Mutant: runs that end without a diagnosis are not compared.
MutantHigherIsBetter ==
    {"policy_verdict_accuracy", "recommended_action_exact_match_rate",
     "mean_tool_selection_score", "mean_judge_score"}

\* The metrics compared; the unnecessary tool calls are not among them.
HigherIsBetter ==
    {"completion_rate", "policy_verdict_accuracy", "recommended_action_exact_match_rate",
     "mean_tool_selection_score", "mean_judge_score"}

\* 0.05
Threshold == 500

Regressions(baseline, candidate) ==
    LET b == Aggregate(baseline)
        c == Aggregate(candidate)
    IN  {m \in HigherIsBetter :
            b[m] # Unscored /\ c[m] # Unscored /\ c[m] - b[m] <= -Threshold}

Improvements(baseline, candidate) ==
    LET b == Aggregate(baseline)
        c == Aggregate(candidate)
    IN  {m \in HigherIsBetter :
            b[m] # Unscored /\ c[m] # Unscored /\ c[m] - b[m] >= Threshold}

-----------------------------------------------------------------------------
(* What a reader means by a run that got worse.                            *)

\* No scenario's outcome is better, and one is worse: a diagnosis, the right
\* verdict or the right action is gone.
NoBetter(b, c) ==
    /\ c.reached => b.reached
    /\ c.verdict = 1 => b.verdict = 1
    /\ c.action = 1 => b.action = 1
Worse(b, c) ==
    \/ b.reached /\ ~c.reached
    \/ b.verdict = 1 /\ c.verdict = 0
    \/ b.action = 1 /\ c.action = 0
Degraded(baseline, candidate) ==
    /\ DOMAIN candidate = DOMAIN baseline
    /\ \A i \in DOMAIN baseline : NoBetter(baseline[i], candidate[i])
    /\ \E i \in DOMAIN baseline : Worse(baseline[i], candidate[i])
=============================================================================
