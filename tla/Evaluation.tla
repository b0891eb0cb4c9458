---------------------------- MODULE Evaluation ----------------------------
(***************************************************************************)
(* The golden dataset at work: seeders (seed/generator.py, run by every    *)
(* start of the container and by hand) fill the fixture tables, and        *)
(* evaluations (eval/__main__.py, eval/runner.py), one after another,      *)
(* investigate seeded scenarios, score them, save the run in a file of     *)
(* eval/storage.py and compare it with an earlier one.  Seeders are split  *)
(* at their statements, evaluations at each scenario and each access of a  *)
(* file.  Either may crash anywhere.                                       *)
(***************************************************************************)
EXTENDS Integers, Sequences, FiniteSetsExt, Scoring

CONSTANTS
    Dataset,        \* ALL_SCENARIOS
    Seeders,        \* processes that run seed_all
    Selections,     \* the sets of scenarios --scenarios may select
    Labels,         \* --label and --compare-to
    Investigated,   \* what an investigation and its judge may make of a scenario
    MaxEvaluations, \* bound: evaluations
    MaxCrashes      \* bound: crashes of seeders and evaluations

Ids == DOMAIN Dataset
NoLabel == "no label"

ASSUME EvaluationAssumption ==
    /\ Len(Dataset) \in Nat /\ Ids = 1..Len(Dataset)
    /\ \A i \in Ids : IsFiniteSet(Dataset[i].expected_evidence)
    /\ \A r \in Investigated : IsFiniteSet(r.called) /\ r.judge \in Int
    /\ \A S \in Selections : S \subseteq Ids /\ S # {}
    /\ NoLabel \notin Labels
    /\ MaxEvaluations \in Nat
    /\ MaxCrashes \in Nat

VARIABLES
    db,             \* scenarios whose rows are committed
    seed,           \* per seeder: where it stands, and its uncommitted rows
    eval,           \* the evaluation that runs, or the last one
    files,          \* eval_runs/<label>.json
    evaluations,    \* bound: evaluations so far
    crashes         \* bound: crashes so far

vars == <<db, seed, eval, files, evaluations, crashes>>

\* A run's results are a function from the scenarios it evaluated to their scores.
NoResults == <<>>
IsResults(r) == DOMAIN r \subseteq Ids /\ \A i \in DOMAIN r : r[i] \in Scores

IdleSeeder == [pc |-> "idle", at |-> 1, rows |-> {}]
IdleEval == [pc |-> "idle", label |-> NoLabel, compare_to |-> NoLabel, selected |-> {},
             results |-> NoResults, before |-> NoResults, baseline |-> NoResults]

Seeding   == {"look", "insert", "commit"}
Running   == {"run", "write", "compare"}
Ended     == {"idle", "failed", "missing", "saved", "reported"}

TypeOK ==
    /\ db \subseteq Ids
    /\ \A s \in Seeders : /\ seed[s].pc \in {"idle", "done", "failed"} \cup Seeding
                          /\ seed[s].at \in 1..(Len(Dataset) + 1)
                          /\ seed[s].rows \subseteq Ids
    /\ eval.pc \in Running \cup Ended
    /\ eval.label \in Labels \cup {NoLabel} /\ eval.compare_to \in Labels \cup {NoLabel}
    /\ eval.selected \subseteq Ids
    /\ IsResults(eval.results) /\ IsResults(eval.before) /\ IsResults(eval.baseline)
    /\ \A l \in Labels : /\ files[l].state \in {"absent", "torn", "saved"}
                         /\ IsResults(files[l].results)
    /\ evaluations \in Nat /\ crashes \in Nat

-----------------------------------------------------------------------------
(* seed_all: one transaction over the whole dataset.                       *)

StartSeeding(s) ==
    /\ seed[s].pc = "idle"
    /\ seed' = [seed EXCEPT ![s] = [IdleSeeder EXCEPT !.pc = "look"]]
    /\ UNCHANGED <<db, eval, files, evaluations, crashes>>

\* Mutant: the scenarios that are not there are inserted in any order.
MutantLookAnywhere(s) ==
    /\ seed[s].pc = "look"
    /\ LET missing == Ids \ (db \cup seed[s].rows)
       IN  \E next \in IF missing = {} THEN {Len(Dataset) + 1} ELSE missing :
            seed' = [seed EXCEPT ![s].pc = IF missing = {} THEN "commit" ELSE "insert", ![s].at = next]
    /\ UNCHANGED <<db, eval, files, evaluations, crashes>>

\* Which scenario is the next that is not there?  The queries see what is
\* committed; nothing deletes a scenario, so those that are there are passed
\* in one step.
Look(s) ==
    /\ seed[s].pc = "look"
    /\ \E next \in seed[s].at..(Len(Dataset) + 1) :
        /\ next \notin db /\ \A i \in seed[s].at..(next - 1) : i \in db
        /\ seed' = [seed EXCEPT ![s] = [pc |-> IF next \in Ids THEN "insert" ELSE "commit",
                                        at |-> next, rows |-> @.rows]]
    /\ UNCHANGED <<db, eval, files, evaluations, crashes>>

\* Another transaction has inserted the unique key, and is not over.
Locked(s) == \E other \in Seeders \ {s} : seed[s].at \in seed[other].rows

\* The rows of a scenario.  Two of them have a unique key, and are flushed first:
\* its service, where no scenario before it had the same one, and its own.  A
\* key waits for the transaction that holds it and raises IntegrityError once
\* that committed.  Whoever holds either key inserted this scenario or is at it,
\* so both are one key here.
InsertScenario(s) ==
    /\ seed[s].pc = "insert" /\ ~Locked(s)
    /\ seed' = IF seed[s].at \in db
               THEN [seed EXCEPT ![s] = [IdleSeeder EXCEPT !.pc = "failed"]]
               ELSE [seed EXCEPT ![s] = [pc |-> "look", at |-> @.at + 1,
                                         rows |-> @.rows \cup {@.at}]]
    /\ UNCHANGED <<db, eval, files, evaluations, crashes>>

\* Mutant: a commit after each scenario.
MutantCommitEach(s) ==
    /\ seed[s].pc = "commit" \/ (seed[s].pc = "look" /\ seed[s].rows # {})
    /\ db' = db \cup seed[s].rows
    /\ seed' = [seed EXCEPT ![s].rows = {}, ![s].pc = IF @ = "commit" THEN "done" ELSE @]
    /\ UNCHANGED <<eval, files, evaluations, crashes>>

CommitSeed(s) ==
    /\ seed[s].pc = "commit"
    /\ db' = db \cup seed[s].rows
    /\ seed' = [seed EXCEPT ![s] = [IdleSeeder EXCEPT !.pc = "done"]]
    /\ UNCHANGED <<eval, files, evaluations, crashes>>

\* Mutant: the session is not closed, and its transaction stays open.
MutantSessionLeaked(s) ==
    /\ seed[s].pc \in Seeding
    /\ crashes < MaxCrashes
    /\ crashes' = crashes + 1
    /\ seed' = [seed EXCEPT ![s].pc = "idle"]
    /\ UNCHANGED <<db, eval, files, evaluations>>

\* The process dies; PostgreSQL rolls back.  The next start seeds again.
CrashSeeder(s) ==
    /\ seed[s].pc \in Seeding
    /\ crashes < MaxCrashes
    /\ crashes' = crashes + 1
    /\ seed' = [seed EXCEPT ![s] = IdleSeeder]
    /\ UNCHANGED <<db, eval, files, evaluations>>

-----------------------------------------------------------------------------
(* python -m opspilot.eval                                                 *)

File(state, results) == [state |-> state, results |-> results]

\* The process is over, and with it what it held.
End(pc) ==
    /\ eval' = [IdleEval EXCEPT !.pc = pc, !.results = IF pc = "missing" THEN eval.results ELSE @]
    /\ UNCHANGED <<db, seed, files, evaluations, crashes>>

\* "before" is history: the file of --compare-to as it is now.
StartEvaluation ==
    /\ eval.pc \in Ended /\ evaluations < MaxEvaluations
    /\ evaluations' = evaluations + 1
    /\ \E label \in Labels, compare_to \in Labels \cup {NoLabel}, S \in Selections :
        eval' = [IdleEval EXCEPT
                    !.pc = "run", !.label = label, !.compare_to = compare_to, !.selected = S,
                    !.before = IF compare_to = NoLabel THEN NoResults
                               ELSE files[compare_to].results]
    /\ UNCHANGED <<db, seed, files, crashes>>

Remaining == eval.selected \ DOMAIN eval.results

\* The scenarios are run in the dataset's order.
ComesNext(i) == i \in Remaining /\ \A j \in Remaining : i <= j

\* .one() raises where the scenario is not seeded.
ScenarioMissing ==
    /\ eval.pc = "run"
    /\ \E i \in Ids \ db : ComesNext(i)
    /\ End("missing")

Recorded(i, scores) ==
    [j \in DOMAIN eval.results \cup {i} |-> IF j = i THEN scores ELSE eval.results[j]]

\* run_scenario: the investigation, its deterministic scores and the judge's,
\* which are missing when the judge answers nonsense (JudgeError) or is off.
RunScenario ==
    /\ eval.pc = "run"
    /\ \E i \in db, result \in Investigated :
        /\ ComesNext(i)
        /\ eval' = [eval EXCEPT !.results =
                        Recorded(i, score_deterministic(Dataset[i], result))]
    /\ UNCHANGED <<db, seed, files, evaluations, crashes>>

\* Any other exception of the investigation or the judge: nothing is saved.
RaiseError ==
    /\ eval.pc = "run"
    /\ \E i \in db : ComesNext(i)
    /\ End("failed")

\* save_run: write_text truncates the file, then writes.
TruncateFile ==
    /\ eval.pc = "run" /\ Remaining = {}
    /\ files' = [files EXCEPT ![eval.label] = File("torn", NoResults)]
    /\ eval' = [eval EXCEPT !.pc = "write"]
    /\ UNCHANGED <<db, seed, evaluations, crashes>>

WriteFile ==
    /\ eval.pc = "write"
    /\ files' = [files EXCEPT ![eval.label] = File("saved", eval.results)]
    /\ eval' = IF eval.compare_to = NoLabel THEN [IdleEval EXCEPT !.pc = "saved"]
               ELSE [eval EXCEPT !.pc = "compare"]
    /\ UNCHANGED <<db, seed, evaluations, crashes>>

\* Mutant: the comparison is with the run itself, not the file.
MutantBaseline == eval.results

Baseline == files[eval.compare_to].results

\* Only now is the baseline loaded; a file that is missing or torn raises.
CompareRuns ==
    /\ eval.pc = "compare"
    /\ eval' = IF files[eval.compare_to].state = "saved"
               THEN [eval EXCEPT !.pc = "reported", !.baseline = Baseline]
               ELSE [IdleEval EXCEPT !.pc = "failed"]
    /\ UNCHANGED <<db, seed, files, evaluations, crashes>>

CrashEvaluation ==
    /\ eval.pc \in Running
    /\ crashes < MaxCrashes
    /\ crashes' = crashes + 1
    /\ eval' = [IdleEval EXCEPT !.pc = "failed"]
    /\ UNCHANGED <<db, seed, files, evaluations>>

-----------------------------------------------------------------------------

Init ==
    /\ db = {}
    /\ seed = [s \in Seeders |-> IdleSeeder]
    /\ eval = IdleEval
    /\ files = [l \in Labels |-> File("absent", NoResults)]
    /\ evaluations = 0 /\ crashes = 0

SeederStep(s) == Look(s) \/ InsertScenario(s) \/ CommitSeed(s)
EvaluationStep ==
    \/ ScenarioMissing \/ RunScenario \/ RaiseError
    \/ TruncateFile \/ WriteFile \/ CompareRuns

Next ==
    \/ \E s \in Seeders : StartSeeding(s) \/ SeederStep(s) \/ CrashSeeder(s)
    \/ StartEvaluation \/ EvaluationStep \/ CrashEvaluation

Spec == Init /\ [][Next]_vars

\* Processes that were started are scheduled.
FairSpec == Spec /\ WF_vars(EvaluationStep) /\ \A s \in Seeders : WF_vars(SeederStep(s))
-----------------------------------------------------------------------------
(* Properties.                                                             *)

\* Whatever seeders overlap or crash (generator.py:151 "Idempotent: safe to call
\* on every app startup"), the dataset is there as a whole or not at all and
\* no scenario is inserted twice; so an evaluation that found its first
\* scenario never misses a later one.  This is about the data only: of two seeders
\* that overlap one may fail, with IntegrityError.
SeedIsAtomic ==
    /\ db \in {{}, Ids}
    /\ \A s \in Seeders :
        /\ seed[s].rows \cap db = {}
        /\ \A other \in Seeders \ {s} : seed[s].rows \cap seed[other].rows = {}
    /\ eval.pc = "missing" => eval.results = NoResults

Waits(s) == seed[s].pc = "insert" /\ Locked(s)

\* seed_all inserts in the dataset's order, in one transaction: a seeder that
\* others wait for is at work, and waits for nobody; so however many starts of
\* the container overlap, they never wait for each other in a circle.
NobodyWaitsForAWaiter ==
    \A s, other \in Seeders :
        Waits(s) /\ s # other /\ seed[s].at \in seed[other].rows =>
            seed[other].pc \in Seeding /\ ~Waits(other)

\* What the tools show of a scenario agrees with the evidence it expects: a call
\* with the default window or the widest one shows it, unless the notes declare
\* it absent: then no call shows it.
EvidenceThere(s) ==
    /\ \A e \in s.expected_evidence \ s.absent :
        \/ Shows(s, e, DefaultSince(EvidenceCategoryTool[e.category]))
        \/ Shows(s, e, MaxSince)
    /\ \A e \in s.absent, since \in 1..MaxSince : ~Shows(s, e, since)

\* The expected action, found with the expected tools, gets full marks.
FullMarks(s) ==
    LET best == score_deterministic(s, [action |-> s.expected_action,
                                        called |-> ExpectedTools(s), judge |-> Unscored])
    IN  /\ best.reached /\ best.verdict = 1 /\ best.action = 1
        /\ best.tools = 1000 /\ best.unnecessary = 0

Agreeing == {i \in Ids : FullMarks(Dataset[i]) /\ EvidenceThere(Dataset[i])}

\* The ground truth of whatever is seeded is what the policy, the tools and the
\* fixture rows say (seed/scenarios.py, agent/policy.py, agent/tools.py): the
\* expected action with the expected tools is scored in full in every scenario,
\* and what is to be cited can be seen.  One citation is different: the line
\* "high request volume" of checkout-red-herring-correlation is listed as
\* evidence (scenarios.py:802) and left out of its logs on purpose
\* (scenarios.py:812); there the property says that no call shows it.
GroundTruthHolds == db \subseteq Agreeing

\* regression.py: "a prompt/graph change that degrades behavior should show up
\* here as a regression".  A run that lost diagnoses, right verdicts or right
\* actions and won none is reported, with the baseline as it was when the
\* evaluation started; unless it was told to compare with its own label, whose
\* file it has just overwritten.
DegradationReported ==
    eval.pc = "reported" /\ eval.compare_to # eval.label /\ Degraded(eval.before, eval.results)
        => Regressions(eval.baseline, eval.results) # {}

\* Every evaluation ends, saved or not, and every seeder, waiting for another
\* one or not.
EvaluationsAndSeedersEnd ==
    /\ eval.pc \in Running ~> eval.pc \in Ended
    /\ \A s \in Seeders : seed[s].pc \in Seeding ~> seed[s].pc \notin Seeding
=============================================================================
