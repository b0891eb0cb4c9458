------------------------- MODULE Evaluation_proofs -------------------------
(***************************************************************************)
(* Seeding is atomic for every dataset and any number of seeders, and a    *)
(* degraded run is reported for every dataset of at most twenty scenarios, *)
(* through any number of evaluations, crashes and torn files.  The golden  *)
(* dataset itself can be passed in full, scenario by scenario.             *)
(***************************************************************************)
EXTENDS Evaluation, Scoring_proofs, GoldenDataset

LEMMA IdsFacts == Ids = 1..Len(Dataset) /\ Len(Dataset) \in Nat
  BY EvaluationAssumption

-----------------------------------------------------------------------------
(* The evaluation's record and the files.                                  *)

Sound(results) == DOMAIN results \subseteq Ids /\ Outcomes(results)

EvalRecord ==
    eval = [pc |-> eval.pc, label |-> eval.label, compare_to |-> eval.compare_to,
            selected |-> eval.selected, results |-> eval.results,
            before |-> eval.before, baseline |-> eval.baseline]

\* An evaluation overwrites no file but its own, so until it loads the baseline
\* the file is what it was when the evaluation started.
EvalInv ==
    /\ EvalRecord
    /\ eval.pc \in Running => /\ eval.label \in Labels
                              /\ eval.compare_to \in Labels \cup {NoLabel}
    /\ eval.pc = "compare" => eval.compare_to # NoLabel
    /\ DOMAIN files = Labels
    /\ Sound(eval.results) /\ \A l \in Labels : Sound(files[l].results)
    /\ eval.pc \in Running /\ eval.compare_to \notin {NoLabel, eval.label} =>
            files[eval.compare_to].results = eval.before
    /\ eval.pc = "reported" /\ eval.compare_to # eval.label =>
            eval.baseline = eval.before /\ Sound(eval.baseline)

LEMMA NothingIsSound == Sound(NoResults)
  BY DEF Sound, Outcomes, NoResults

LEMMA RecordedIsSound ==
    ASSUME NEW i \in Ids, NEW scores, Outcome(scores), Sound(eval.results)
    PROVE  Sound(Recorded(i, scores))
  BY DEF Sound, Outcomes, Recorded

LEMMA EvalInit == Init => EvalInv
<1> SUFFICES ASSUME Init PROVE EvalInv
  OBVIOUS
<1>1. EvalRecord /\ eval.pc = "idle" /\ eval.results = NoResults
  BY DEF Init, EvalRecord, IdleEval
<1>2. DOMAIN files = Labels /\ \A l \in Labels : files[l].results = NoResults
  BY DEF Init, File
<1> QED
  BY <1>1, <1>2, NothingIsSound DEF EvalInv, Running

\* A step after which no evaluation runs or has just reported.
LEMMA EvalEnds ==
    ASSUME EvalInv, NEW p, NEW r, p \notin Running \cup {"reported"}, Sound(r),
           eval' = [IdleEval EXCEPT !.pc = p, !.results = r],
           DOMAIN files' = Labels, \A l \in Labels : Sound(files'[l].results)
    PROVE  EvalInv'
<1>1. EvalRecord' /\ eval'.pc = p /\ eval'.results = r
  BY DEF EvalRecord, IdleEval
<1> QED
  BY <1>1 DEF EvalInv, Sound, Outcomes, Running

SameBut(p) ==
    /\ eval'.pc = p /\ eval'.label = eval.label /\ eval'.compare_to = eval.compare_to
    /\ eval'.results = eval.results /\ eval'.before = eval.before
FileReplaced(results) ==
    /\ DOMAIN files' = Labels
    /\ files'[eval.label].results = results
    /\ \A l \in Labels \ {eval.label} : files'[l] = files[l]

LEMMA EvalStep ==
    ASSUME EvalInv, db \subseteq Ids, StartEvaluation \/ EvaluationStep \/ CrashEvaluation
    PROVE  EvalInv'
<1>1. CASE StartEvaluation
  <2>1. PICK label \in Labels, compare_to \in Labels \cup {NoLabel}, S \in Selections :
            eval' = [IdleEval EXCEPT
                        !.pc = "run", !.label = label, !.compare_to = compare_to,
                        !.selected = S,
                        !.before = IF compare_to = NoLabel THEN NoResults
                                   ELSE files[compare_to].results]
    BY <1>1 DEF StartEvaluation
  <2>2. EvalRecord' /\ eval'.pc = "run" /\ eval'.label = label /\ eval'.compare_to = compare_to
        /\ eval'.results = NoResults
        /\ (compare_to # NoLabel => eval'.before = files[compare_to].results)
    BY <2>1 DEF EvalRecord, IdleEval
  <2>3. UNCHANGED files
    BY <1>1 DEF StartEvaluation
  <2> QED
    BY <2>2, <2>3, NothingIsSound DEF EvalInv, Sound, Outcomes, Running
<1>2. CASE ScenarioMissing \/ RaiseError \/ CrashEvaluation
  <2>1. PICK p \in {"missing", "failed"}, r \in {eval.results, NoResults} :
            eval' = [IdleEval EXCEPT !.pc = p, !.results = r]
    BY <1>2 DEF ScenarioMissing, RaiseError, End, CrashEvaluation, IdleEval
  <2>2. UNCHANGED files
    BY <1>2 DEF ScenarioMissing, RaiseError, End, CrashEvaluation
  <2>3. Sound(r)
    BY NothingIsSound DEF EvalInv
  <2>4. DOMAIN files' = Labels /\ \A l \in Labels : Sound(files'[l].results)
    BY <2>2 DEF EvalInv
  <2> QED
    BY <2>1, <2>3, <2>4, EvalEnds DEF Running
<1>3. CASE RunScenario
  <2>1. PICK i \in db, result \in Investigated :
            eval' = [eval EXCEPT !.results =
                        Recorded(i, score_deterministic(Dataset[i], result))]
    BY <1>3 DEF RunScenario
  <2>2. Sound(Recorded(i, score_deterministic(Dataset[i], result)))
    BY ScoresAreOutcomes, RecordedIsSound DEF EvalInv
  <2>3. eval.pc = "run" /\ UNCHANGED files
    BY <1>3 DEF RunScenario
  <2>4. /\ EvalRecord'
        /\ eval'.pc = "run" /\ eval'.label = eval.label /\ eval'.compare_to = eval.compare_to
        /\ eval'.before = eval.before
        /\ eval'.results = Recorded(i, score_deterministic(Dataset[i], result))
    BY <2>1, <2>3 DEF EvalInv, EvalRecord
  <2> QED
    BY <2>2, <2>3, <2>4 DEF EvalInv, Sound, Outcomes, Running
<1>4. CASE TruncateFile
  <2>1. /\ eval.pc = "run" /\ files' = [files EXCEPT ![eval.label] = File("torn", NoResults)]
        /\ eval' = [eval EXCEPT !.pc = "write"]
    BY <1>4 DEF TruncateFile
  <2>2. EvalRecord' /\ SameBut("write")
    BY <2>1 DEF EvalInv, EvalRecord, SameBut
  <2>3. FileReplaced(NoResults)
    BY <2>1 DEF EvalInv, FileReplaced, File, Running
  <2> QED
    BY <2>1, <2>2, <2>3, NothingIsSound
       DEF EvalInv, Sound, Outcomes, Running, SameBut, FileReplaced
<1>5. CASE WriteFile
  <2>1. eval.pc = "write" /\ files' = [files EXCEPT ![eval.label] = File("saved", eval.results)]
    BY <1>5 DEF WriteFile
  <2>2. FileReplaced(eval.results)
    BY <2>1 DEF EvalInv, FileReplaced, File, Running
  <2>3. CASE eval.compare_to = NoLabel
    <3>1. EvalRecord' /\ eval'.pc = "saved" /\ eval'.results = NoResults
      BY <1>5, <2>3 DEF WriteFile, EvalRecord, IdleEval
    <3> QED
      BY <2>2, <3>1, NothingIsSound DEF EvalInv, Sound, Outcomes, Running, FileReplaced
  <2>4. CASE eval.compare_to # NoLabel
    <3>1. EvalRecord' /\ SameBut("compare")
      BY <1>5, <2>4 DEF WriteFile, EvalInv, EvalRecord, SameBut
    <3> QED
      BY <2>1, <2>2, <2>4, <3>1
         DEF EvalInv, Sound, Outcomes, Running, SameBut, FileReplaced
  <2> QED
    BY <2>3, <2>4
<1>6. CASE CompareRuns
  <2>1. eval.pc = "compare" /\ UNCHANGED files
    BY <1>6 DEF CompareRuns
  <2>2. CASE files[eval.compare_to].state = "saved"
    <3>1. /\ EvalRecord' /\ eval'.pc = "reported" /\ eval'.label = eval.label
          /\ eval'.compare_to = eval.compare_to /\ eval'.results = eval.results
          /\ eval'.before = eval.before /\ eval'.baseline = files[eval.compare_to].results
      BY <1>6, <2>2 DEF CompareRuns, Baseline, EvalInv, EvalRecord
    <3>2. eval.compare_to \in Labels
      BY <2>1 DEF EvalInv, Running
    <3> QED
      BY <2>1, <3>1, <3>2 DEF EvalInv, Sound, Outcomes, Running
  <2>3. CASE files[eval.compare_to].state # "saved"
    <3>1. EvalRecord' /\ eval'.pc = "failed" /\ eval'.results = NoResults
      BY <1>6, <2>3 DEF CompareRuns, EvalRecord, IdleEval
    <3> QED
      BY <2>1, <3>1, NothingIsSound DEF EvalInv, Sound, Outcomes, Running
  <2> QED
    BY <2>2, <2>3
<1> QED
  BY <1>1, <1>2, <1>3, <1>4, <1>5, <1>6 DEF EvaluationStep

-----------------------------------------------------------------------------
(* Atomic seeding.                                                         *)

SeederType ==
    [pc : {"idle", "done", "failed", "look", "insert", "commit"}, at : 1..(Len(Dataset) + 1),
     rows : SUBSET Ids]

\* What a seeder holds is a prefix of the dataset, as long as nothing is
\* committed: the scenarios it has passed.
HoldsPrefix(x) ==
    /\ x.pc \in Seeding /\ db = {} => x.rows = 1..(x.at - 1)
    /\ x.pc \notin Seeding \/ db = Ids => x.rows = {}
    /\ x.pc = "insert" => x.at \in Ids
    /\ x.pc = "commit" => x.at = Len(Dataset) + 1

Disjoint == \A s, other \in Seeders : s # other => seed[s].rows \cap seed[other].rows = {}

SeedInv ==
    /\ seed \in [Seeders -> SeederType]
    /\ db \in {{}, Ids}
    /\ \A s \in Seeders : HoldsPrefix(seed[s])
    /\ Disjoint

\* An evaluation that has a result found a committed dataset.
FoundInv ==
    /\ eval.pc = "run" /\ eval.results # NoResults => db = Ids
    /\ eval.pc = "missing" => eval.results = NoResults

LEMMA SeedInit == Init => SeedInv /\ FoundInv
  BY IdsFacts DEF Init, SeedInv, FoundInv, SeederType, IdleSeeder, HoldsPrefix, Disjoint,
     Seeding, IdleEval

\* The evaluation's actions leave the tables and the seeders alone.
LEMMA SeedUnchanged ==
    ASSUME SeedInv, UNCHANGED <<db, seed>>
    PROVE  SeedInv'
  BY DEF SeedInv, HoldsPrefix, Disjoint

LEMMA IdleWith == \A p : [IdleSeeder EXCEPT !.pc = p] = [pc |-> p, at |-> 1, rows |-> {}]
  BY DEF IdleSeeder

\* One seeder moves on, and nothing is committed.
LEMMA SeederMoves ==
    ASSUME SeedInv, NEW s \in Seeders, NEW x \in SeederType,
           seed' = [seed EXCEPT ![s] = x], db' = db, HoldsPrefix(x),
           \A other \in Seeders \ {s} : x.rows \cap seed[other].rows = {}
    PROVE  SeedInv' /\ (db = Ids => db' = Ids)
<1>1. \A t \in Seeders : seed'[t] = IF t = s THEN x ELSE seed[t]
  BY DEF SeedInv
<1>2. seed' \in [Seeders -> SeederType]
  BY DEF SeedInv
<1>3. \A t \in Seeders : HoldsPrefix(seed[t])'
  BY <1>1 DEF SeedInv, HoldsPrefix
<1>4. Disjoint'
  BY <1>1 DEF SeedInv, Disjoint
<1> QED
  BY <1>2, <1>3, <1>4 DEF SeedInv

LEMMA SeedStep ==
    ASSUME SeedInv, NEW s \in Seeders,
           StartSeeding(s) \/ SeederStep(s) \/ CrashSeeder(s)
    PROVE  SeedInv' /\ (db = Ids => db' = Ids)
<1> USE IdsFacts
<1>1. /\ seed \in [Seeders -> SeederType] /\ seed[s] \in SeederType
      /\ \A other \in Seeders \ {s} : seed[s].rows \cap seed[other].rows = {}
  BY DEF SeedInv, Disjoint
<1>2. CASE StartSeeding(s) \/ CrashSeeder(s)
  <2>1. PICK p \in {"look", "idle"} :
            db' = db /\ seed' = [seed EXCEPT ![s] = [pc |-> p, at |-> 1, rows |-> {}]]
    BY <1>2 DEF StartSeeding, CrashSeeder, IdleSeeder
  <2>2. [pc |-> p, at |-> 1, rows |-> {}] \in SeederType
    BY DEF SeederType
  <2>3. HoldsPrefix([pc |-> p, at |-> 1, rows |-> {}])
    BY DEF HoldsPrefix, Seeding
  <2> QED
    BY <2>1, <2>2, <2>3, SeederMoves
<1>3. CASE Look(s)
  <2>1. PICK next \in seed[s].at..(Len(Dataset) + 1) :
            /\ \A i \in seed[s].at..(next - 1) : i \in db
            /\ seed' = [seed EXCEPT ![s] =
                            [pc |-> IF next \in Ids THEN "insert" ELSE "commit",
                             at |-> next, rows |-> seed[s].rows]]
    BY <1>1, <1>3 DEF Look
  <2> DEFINE x == [pc |-> IF next \in Ids THEN "insert" ELSE "commit", at |-> next,
                   rows |-> seed[s].rows]
  <2>2. seed[s].pc = "look" /\ db' = db /\ seed[s].at \in 1..(Len(Dataset) + 1)
    BY <1>1, <1>3 DEF Look, SeederType
  <2>3. seed' = [seed EXCEPT ![s] = x]
    BY <2>1
  <2>4. x \in SeederType
    BY <1>1, <2>1, <2>2 DEF SeederType
  <2>5. db = {} => next = seed[s].at
    BY <2>1, <2>2
  <2>6. HoldsPrefix(x)
    <3>1. HoldsPrefix(seed[s])
      BY DEF SeedInv
    <3>2. x.pc = "insert" => x.at \in Ids
      OBVIOUS
    <3>3. x.pc = "commit" => x.at = Len(Dataset) + 1
      BY <2>1, <2>2
    <3>4. x.pc \in Seeding /\ seed[s].pc \in Seeding
      BY <2>2 DEF Seeding
    <3>5. x.rows = seed[s].rows /\ x.at = next
      OBVIOUS
    <3> HIDE DEF x
    <3> QED
      BY <2>5, <3>1, <3>2, <3>3, <3>4, <3>5 DEF HoldsPrefix
  <2>7. x.rows = seed[s].rows
    OBVIOUS
  <2> HIDE DEF x
  <2> QED
    BY <1>1, <2>2, <2>3, <2>4, <2>6, <2>7, SeederMoves
<1>4. CASE InsertScenario(s)
  <2>1. seed[s].pc = "insert" /\ seed[s].at \in Ids /\ db' = db
    BY <1>4 DEF InsertScenario, SeedInv, HoldsPrefix
  <2>2. CASE seed[s].at \in db
    <3> DEFINE x == [pc |-> "failed", at |-> 1, rows |-> {}]
    <3>1. seed' = [seed EXCEPT ![s] = x]
      BY <1>4, <2>2, IdleWith DEF InsertScenario
    <3>2. x \in SeederType /\ HoldsPrefix(x)
      BY DEF SeederType, HoldsPrefix, Seeding
    <3> QED
      BY <2>1, <3>1, <3>2, SeederMoves
  <2>3. CASE seed[s].at \notin db
    <3> DEFINE x == [pc |-> "look", at |-> seed[s].at + 1,
                     rows |-> seed[s].rows \cup {seed[s].at}]
    <3>1. seed' = [seed EXCEPT ![s] = x]
      BY <1>1, <1>4, <2>3 DEF InsertScenario
    <3>2. db = {} /\ db # Ids
      BY <2>1, <2>3 DEF SeedInv
    <3>3. x \in SeederType
      BY <1>1, <2>1 DEF SeederType
    <3>4. seed[s].rows = 1..(seed[s].at - 1)
      BY <2>1, <3>2 DEF SeedInv, HoldsPrefix, Seeding
    <3>5. x.rows = 1..(x.at - 1)
      BY <2>1, <3>4
    <3>6. HoldsPrefix(x)
      BY <3>2, <3>5 DEF HoldsPrefix, Seeding
    <3>7. \A other \in Seeders \ {s} : x.rows \cap seed[other].rows = {}
      BY <1>1, <1>4 DEF InsertScenario, Locked
    <3> HIDE DEF x
    <3> QED
      BY <2>1, <3>1, <3>3, <3>6, <3>7, SeederMoves
  <2> QED
    BY <2>2, <2>3
<1>5. CASE CommitSeed(s)
  <2>1. /\ seed[s].pc = "commit"
        /\ db' = db \cup seed[s].rows
        /\ seed' = [seed EXCEPT ![s] = [pc |-> "done", at |-> 1, rows |-> {}]]
    BY <1>5, IdleWith DEF CommitSeed
  <2>2. seed[s].at = Len(Dataset) + 1
    BY <2>1 DEF SeedInv, HoldsPrefix
  <2>3. /\ db = {} => seed[s].rows = Ids
        /\ db = Ids => seed[s].rows = {}
    BY <2>1, <2>2 DEF SeedInv, HoldsPrefix, Seeding
  <2>4. db' = Ids
    BY <2>1, <2>3 DEF SeedInv
  <2>5. \A t \in Seeders : seed'[t].rows = {}
    <3> SUFFICES ASSUME NEW t \in Seeders PROVE seed'[t].rows = {}
      OBVIOUS
    <3>1. CASE t = s
      BY <1>1, <2>1, <3>1
    <3>2. CASE t # s
      <4>1. seed'[t] = seed[t] /\ seed[t].rows \subseteq Ids
        BY <1>1, <2>1, <3>2 DEF SeederType
      <4>2. CASE db = Ids
        BY <4>1, <4>2 DEF SeedInv, HoldsPrefix
      <4>3. CASE db = {}
        BY <2>3, <3>2, <4>1, <4>3 DEF SeedInv, Disjoint
      <4> QED
        BY <4>2, <4>3 DEF SeedInv
    <3> QED
      BY <3>1, <3>2
  <2>6. seed' \in [Seeders -> SeederType]
    BY <1>1, <2>1 DEF SeederType
  <2>7. \A t \in Seeders : HoldsPrefix(seed[t])'
    <3> SUFFICES ASSUME NEW t \in Seeders PROVE HoldsPrefix(seed[t])'
      OBVIOUS
    <3>1. CASE t = s
      BY <1>1, <2>1, <2>5, <3>1 DEF HoldsPrefix, Seeding
    <3>2. CASE t # s
      <4>1. seed'[t] = seed[t]
        BY <1>1, <2>1, <3>2
      <4>2. db' = {} => db = {}
        BY <2>1
      <4> QED
        BY <2>5, <4>1, <4>2 DEF SeedInv, HoldsPrefix
    <3> QED
      BY <3>1, <3>2
  <2>8. Disjoint'
    BY <2>5 DEF Disjoint
  <2> QED
    BY <2>4, <2>6, <2>7, <2>8 DEF SeedInv
<1> QED
  BY <1>2, <1>3, <1>4, <1>5 DEF SeederStep

\* Of the evaluation's steps, only these matter here.
LEMMA FoundStep ==
    ASSUME SeedInv, FoundInv, EvalRecord, StartEvaluation \/ EvaluationStep \/ CrashEvaluation
    PROVE  FoundInv' /\ UNCHANGED <<db, seed>>
<1>1. UNCHANGED <<db, seed>>
  BY DEF StartEvaluation, EvaluationStep, CrashEvaluation, ScenarioMissing, RunScenario,
     RaiseError, End, TruncateFile, WriteFile, CompareRuns
<1>2. CASE StartEvaluation
  BY <1>2 DEF StartEvaluation, FoundInv, IdleEval
<1>3. CASE ScenarioMissing
  <2>1. db # Ids /\ eval.pc = "run"
    BY <1>3 DEF ScenarioMissing
  <2>2. eval.results = NoResults
    BY <2>1 DEF FoundInv
  <2> QED
    BY <1>3, <2>2 DEF ScenarioMissing, End, FoundInv, IdleEval
<1>4. CASE RunScenario
  <2>1. db = Ids
    BY <1>4 DEF RunScenario, SeedInv
  <2>2. eval'.pc # "missing"
    BY <1>4 DEF RunScenario, EvalRecord
  <2> QED
    BY <1>1, <2>1, <2>2 DEF FoundInv
<1>5. CASE RaiseError \/ CrashEvaluation
  <2>1. eval'.pc = "failed"
    BY <1>5 DEF RaiseError, End, CrashEvaluation, IdleEval
  <2> QED
    BY <1>1, <2>1 DEF FoundInv
<1>6. CASE TruncateFile
  <2>1. eval'.pc = "write"
    BY <1>6 DEF TruncateFile, EvalRecord
  <2> QED
    BY <1>1, <2>1 DEF FoundInv
<1>7. CASE WriteFile
  <2>1. eval'.pc \in {"saved", "compare"}
    BY <1>7 DEF WriteFile, EvalRecord, IdleEval
  <2> QED
    BY <1>1, <2>1 DEF FoundInv
<1>8. CASE CompareRuns
  <2>1. eval'.pc \in {"reported", "failed"}
    BY <1>8 DEF CompareRuns, EvalRecord, IdleEval
  <2> QED
    BY <1>1, <2>1 DEF FoundInv
<1> QED
  BY <1>1, <1>2, <1>3, <1>4, <1>5, <1>6, <1>7, <1>8 DEF EvaluationStep

-----------------------------------------------------------------------------
(* The theorems.                                                           *)

IInv == SeedInv /\ FoundInv /\ EvalInv

LEMMA Invariance == Spec => []IInv
<1>1. Init => IInv
  BY SeedInit, EvalInit DEF IInv
<1>2. IInv /\ [Next]_vars => IInv'
  <2> SUFFICES ASSUME SeedInv, FoundInv, EvalInv, [Next]_vars
               PROVE  SeedInv' /\ FoundInv' /\ EvalInv'
    BY DEF IInv
  <2>1. CASE \E s \in Seeders : StartSeeding(s) \/ SeederStep(s) \/ CrashSeeder(s)
    <3>1. SeedInv' /\ (db = Ids => db' = Ids)
      BY <2>1, SeedStep
    <3>2. UNCHANGED <<eval, files>>
      BY <2>1 DEF StartSeeding, SeederStep, Look, InsertScenario, CommitSeed, CrashSeeder
    <3>3. EvalInv'
      BY <3>2 DEF EvalInv, EvalRecord, Sound, Outcomes
    <3> QED
      BY <3>1, <3>2, <3>3 DEF FoundInv
  <2>2. CASE StartEvaluation \/ EvaluationStep \/ CrashEvaluation
    <3>1. FoundInv' /\ UNCHANGED <<db, seed>>
      BY <2>2, FoundStep DEF EvalInv
    <3>2. EvalInv'
      BY <2>2, EvalStep DEF SeedInv
    <3> QED
      BY <3>1, <3>2, SeedUnchanged
  <2>3. CASE UNCHANGED vars
    <3>1. UNCHANGED <<db, seed>> /\ UNCHANGED <<eval, files>>
      BY <2>3 DEF vars
    <3>2. EvalInv' /\ FoundInv'
      BY <3>1 DEF EvalInv, EvalRecord, Sound, Outcomes, FoundInv
    <3> QED
      BY <3>1, <3>2, SeedUnchanged
  <2> QED
    BY <2>1, <2>2, <2>3 DEF Next
<1> QED
  BY <1>1, <1>2, PTL DEF Spec

\* generator.py:151 "Idempotent: safe to call on every app startup": for every
\* dataset and any number of seeders that overlap and crash.
THEOREM SeedingIsAtomic == Spec => []SeedIsAtomic
<1>1. IInv => SeedIsAtomic
  <2> SUFFICES ASSUME SeedInv, FoundInv PROVE SeedIsAtomic
    BY DEF IInv
  <2>1. \A s \in Seeders : db = Ids => seed[s].rows = {}
    BY DEF SeedInv, HoldsPrefix
  <2>2. \A s \in Seeders : seed[s].rows \cap db = {}
    BY <2>1 DEF SeedInv
  <2>3. \A s, other \in Seeders : other # s => seed[s].rows \cap seed[other].rows = {}
    BY DEF SeedInv, Disjoint
  <2> QED
    BY <2>2, <2>3 DEF SeedIsAtomic, SeedInv, FoundInv
<1> QED
  BY <1>1, Invariance, PTL

\* No circle of waiting seeders (generator.py seed_all), for every dataset and
\* any number of seeders: what a seeder holds is a prefix of the dataset, so no
\* two hold anything at once, and whoever holds something waits for nobody.
THEOREM SeedersNeverDeadlock == Spec => []NobodyWaitsForAWaiter
<1>1. IInv => NobodyWaitsForAWaiter
  <2> SUFFICES ASSUME SeedInv, NEW s \in Seeders, NEW other \in Seeders,
                      s # other, seed[s].at \in seed[other].rows
               PROVE  seed[other].pc \in Seeding /\ ~Waits(other)
    BY DEF IInv, NobodyWaitsForAWaiter
  <2>1. seed[other].pc \in Seeding /\ db = {}
    BY DEF SeedInv, HoldsPrefix, SeederType, Seeding
  <2>2. seed[other].rows = 1..(seed[other].at - 1) /\ seed[other].at \in Nat
    BY <2>1, IdsFacts DEF SeedInv, HoldsPrefix, SeederType
  <2>3. ASSUME NEW third \in Seeders \ {other}, seed[other].at \in seed[third].rows
        PROVE  FALSE
    <3>1. seed[third].rows = 1..(seed[third].at - 1)
      BY <2>1, <2>3 DEF SeedInv, HoldsPrefix, SeederType, Seeding
    <3>2. 1 \in seed[other].rows /\ 1 \in seed[third].rows
      BY <2>2, <2>3, <3>1, IdsFacts DEF SeedInv, SeederType
    <3> QED
      BY <3>2 DEF SeedInv, Disjoint
  <2> QED
    BY <2>1, <2>3 DEF Waits, Locked
<1> QED
  BY <1>1, Invariance, PTL

\* regression.py: "a prompt/graph change that degrades behavior should show up
\* here as a regression": it does with any dataset of at most twenty scenarios,
\* whatever is run, crashes or is overwritten between the two runs.  (The
\* dataset has seventeen; with twenty-one, one lost diagnosis stays below the
\* threshold.)
THEOREM DegradationAlwaysReported ==
    ASSUME Len(Dataset) <= 20
    PROVE  Spec => []DegradationReported
<1>1. IInv => DegradationReported
  <2> SUFFICES ASSUME EvalInv, eval.pc = "reported", eval.compare_to # eval.label,
                      Degraded(eval.before, eval.results)
               PROVE  Regressions(eval.baseline, eval.results) # {}
    BY DEF IInv, DegradationReported
  <2>1. eval.baseline = eval.before /\ Sound(eval.baseline) /\ Sound(eval.results)
    BY DEF EvalInv
  <2>2. IsFiniteSet(Ids) /\ Cardinality(Ids) <= 20
    <3>1. 1 \in Int /\ Len(Dataset) \in Int
      BY IdsFacts
    <3> DEFINE n == Len(Dataset)
    <3> HIDE DEF n
    <3>2. /\ IsFiniteSet(1..n)
          /\ Cardinality(1..n) = IF 1 > n THEN 0 ELSE n - 1 + 1
      BY <3>1, FS_Interval DEF n
    <3> QED
      BY <3>2, IdsFacts DEF n
  <2>3. IsFiniteSet(DOMAIN eval.baseline) /\ Cardinality(DOMAIN eval.baseline) <= 20
    BY <2>1, <2>2, FS_Subset, FS_CardinalityType DEF Sound
  <2> QED
    BY <2>1, <2>3, DegradationIsARegression DEF Sound
<1> QED
  BY <1>1, Invariance, PTL

-----------------------------------------------------------------------------
(* Types.  Those of the seeders are in SeedInv; a score has its type        *)
(* because every set that is counted is finite.                            *)

LEMMA FinitelyExpected ==
    ASSUME NEW s, IsFiniteSet(s.expected_evidence)
    PROVE  IsFiniteSet(ExpectedTools(s))
<1> DEFINE cited == s.expected_evidence
           tools == ExpectedTools(s)
           ToolOf == [e \in cited |-> EvidenceCategoryTool[e.category]]
<1>1. ToolOf \in Surjection(cited, tools)
  BY DEF ExpectedTools, Surjection
<1> HIDE DEF ToolOf, tools
<1>2. IsFiniteSet(tools)
  BY <1>1, FS_Surjection
<1> QED
  BY <1>2 DEF tools

LEMMA ToolsCounted ==
    ASSUME NEW s, IsFiniteSet(s.expected_evidence), NEW called, IsFiniteSet(called)
    PROVE  ToolSelection(s, called) \in Nat /\ Unnecessary(s, called) \in Nat
<1> DEFINE expected == ExpectedTools(s)
           n == Cardinality(expected)
           m == Cardinality(expected \cap called)
<1>1. IsFiniteSet(expected)
  BY FinitelyExpected
<1>2. n \in Nat /\ m \in Nat
  <2>1. IsFiniteSet(expected \cap called)
    <3> HIDE DEF expected
    <3> QED
      BY <1>1, FS_Subset
  <2> HIDE DEF expected
  <2> QED
    BY <1>1, <2>1, FS_CardinalityType
<1>3. ToolSelection(s, called) \in Nat
  <2>1. ToolSelection(s, called) = IF n = 0 THEN 1000 ELSE (2000 * m + n) \div (2 * n)
    BY DEF ToolSelection
  <2> HIDE DEF n, m
  <2>2. ASSUME n # 0 PROVE (2000 * m + n) \div (2 * n) \in Nat
    <3> DEFINE a == 2000 * m + n
               b == 2 * n
    <3>1. a \in Nat /\ b \in Nat /\ b > 0
      BY <1>2, <2>2
    <3> HIDE DEF a, b
    <3>2. a \div b \in Nat
      BY <3>1, Z3
    <3> QED
      BY <3>2 DEF a, b
  <2> QED
    BY <2>1, <2>2
<1>4. Unnecessary(s, called) \in Nat
  <2>1. IsFiniteSet(called \ expected)
    BY FS_Subset
  <2> QED
    BY <2>1, FS_CardinalityType DEF Unnecessary
<1> QED
  BY <1>3, <1>4

LEMMA ScoreType ==
    ASSUME NEW s, IsFiniteSet(s.expected_evidence),
           NEW r, IsFiniteSet(r.called), r.judge \in Int
    PROVE  score_deterministic(s, r) \in Scores
<1>1. ToolSelection(s, r.called) \in Nat /\ Unnecessary(s, r.called) \in Nat
  BY ToolsCounted
<1>2. \A c : Flag(c) \in {0, 1}
  BY DEF Flag
<1>3. Unscored \in Int
  BY DEF Unscored
<1> QED
  BY <1>1, <1>2, <1>3 DEF score_deterministic, Scores

EvalTypes ==
    /\ eval.pc \in Running \cup Ended
    /\ eval.label \in Labels \cup {NoLabel} /\ eval.compare_to \in Labels \cup {NoLabel}
    /\ eval.selected \subseteq Ids
    /\ IsResults(eval.results) /\ IsResults(eval.before) /\ IsResults(eval.baseline)
    /\ \A l \in Labels : /\ files[l].state \in {"absent", "torn", "saved"}
                         /\ IsResults(files[l].results)
    /\ evaluations \in Nat /\ crashes \in Nat

LEMMA NothingIsResults == IsResults(NoResults)
  BY DEF IsResults, NoResults

LEMMA RecordedIsResults ==
    ASSUME NEW i \in Ids, NEW scores \in Scores, IsResults(eval.results)
    PROVE  IsResults(Recorded(i, scores))
  BY DEF IsResults, Recorded

LEMMA EvalTypesInit == Init => EvalTypes
<1> SUFFICES ASSUME Init PROVE EvalTypes
  OBVIOUS
<1>1. /\ eval.pc = "idle" /\ eval.label = NoLabel /\ eval.compare_to = NoLabel
      /\ eval.selected = {} /\ eval.results = NoResults /\ eval.before = NoResults
      /\ eval.baseline = NoResults
  BY DEF Init, IdleEval
<1>2. \A l \in Labels : files[l].state = "absent" /\ files[l].results = NoResults
  BY DEF Init, File
<1>3. evaluations = 0 /\ crashes = 0
  BY DEF Init
<1> QED
  BY <1>1, <1>2, <1>3, NothingIsResults DEF EvalTypes, Ended

\* A step after which the evaluation is over and no file has changed.
LEMMA EvalTypesEnd ==
    ASSUME EvalTypes, NEW p \in Ended, NEW r, IsResults(r),
           eval' = [IdleEval EXCEPT !.pc = p, !.results = r],
           UNCHANGED <<files, evaluations>>, crashes' \in Nat
    PROVE  EvalTypes'
<1>1. /\ eval'.pc = p /\ eval'.label = NoLabel /\ eval'.compare_to = NoLabel
      /\ eval'.selected = {} /\ eval'.results = r /\ eval'.before = NoResults
      /\ eval'.baseline = NoResults
  BY DEF IdleEval
<1> QED
  BY <1>1, NothingIsResults DEF EvalTypes

LEMMA EvalTypesStep ==
    ASSUME EvalTypes, EvalInv, db \subseteq Ids,
           StartEvaluation \/ EvaluationStep \/ CrashEvaluation
    PROVE  EvalTypes'
<1>1. CASE StartEvaluation
  <2>1. PICK label \in Labels, compare_to \in Labels \cup {NoLabel}, S \in Selections :
            eval' = [IdleEval EXCEPT
                        !.pc = "run", !.label = label, !.compare_to = compare_to,
                        !.selected = S,
                        !.before = IF compare_to = NoLabel THEN NoResults
                                   ELSE files[compare_to].results]
    BY <1>1 DEF StartEvaluation
  <2>2. /\ eval'.pc = "run" /\ eval'.label = label /\ eval'.compare_to = compare_to
        /\ eval'.selected = S /\ eval'.results = NoResults /\ eval'.baseline = NoResults
        /\ eval'.before = IF compare_to = NoLabel THEN NoResults ELSE files[compare_to].results
    BY <2>1 DEF IdleEval
  <2>3. IsResults(eval'.before)
    BY <2>2, NothingIsResults DEF EvalTypes
  <2>4. S \subseteq Ids
    BY EvaluationAssumption
  <2>5. UNCHANGED <<files, crashes>> /\ evaluations' \in Nat
    <3>1. evaluations \in Nat
      BY DEF EvalTypes
    <3>2. UNCHANGED <<files, crashes>> /\ evaluations' = evaluations + 1
      BY <1>1 DEF StartEvaluation
    <3> QED
      BY <3>1, <3>2
  <2> QED
    BY <2>2, <2>3, <2>4, <2>5, NothingIsResults DEF EvalTypes, Running
<1>2. CASE ScenarioMissing \/ RaiseError \/ CrashEvaluation
  <2>1. PICK p \in {"missing", "failed"}, r \in {eval.results, NoResults} :
            eval' = [IdleEval EXCEPT !.pc = p, !.results = r]
    BY <1>2 DEF ScenarioMissing, RaiseError, End, CrashEvaluation, IdleEval
  <2>2. UNCHANGED <<files, evaluations>> /\ crashes' \in Nat
    BY <1>2 DEF ScenarioMissing, RaiseError, End, CrashEvaluation, EvalTypes
  <2>3. IsResults(r) /\ p \in Ended
    BY NothingIsResults DEF EvalTypes, Ended
  <2> QED
    BY <2>1, <2>2, <2>3, EvalTypesEnd
<1>3. CASE RunScenario
  <2>1. PICK i \in db, result \in Investigated :
            eval' = [eval EXCEPT !.results =
                        Recorded(i, score_deterministic(Dataset[i], result))]
    BY <1>3 DEF RunScenario
  <2>2. score_deterministic(Dataset[i], result) \in Scores
    BY EvaluationAssumption, ScoreType
  <2>3. IsResults(Recorded(i, score_deterministic(Dataset[i], result)))
    BY <2>2, RecordedIsResults DEF EvalTypes
  <2>4. UNCHANGED <<files, evaluations, crashes>>
    BY <1>3 DEF RunScenario
  <2>5. /\ eval'.pc = eval.pc /\ eval'.label = eval.label /\ eval'.compare_to = eval.compare_to
        /\ eval'.selected = eval.selected /\ eval'.before = eval.before
        /\ eval'.baseline = eval.baseline
        /\ eval'.results = Recorded(i, score_deterministic(Dataset[i], result))
    BY <2>1 DEF EvalInv, EvalRecord
  <2> QED
    BY <2>3, <2>4, <2>5 DEF EvalTypes
<1>4. CASE TruncateFile \/ WriteFile
  <2>1. PICK state \in {"torn", "saved"}, r \in {NoResults, eval.results} :
            files' = [files EXCEPT ![eval.label] = File(state, r)]
    BY <1>4 DEF TruncateFile, WriteFile
  <2>2. \A l \in Labels : /\ files'[l].state \in {"absent", "torn", "saved"}
                          /\ IsResults(files'[l].results)
    BY <2>1, NothingIsResults DEF EvalTypes, EvalInv, File
  <2>3. \/ eval' = [IdleEval EXCEPT !.pc = "saved"]
        \/ \E p \in Running : eval' = [eval EXCEPT !.pc = p]
    BY <1>4 DEF TruncateFile, WriteFile, Running
  <2>4. UNCHANGED <<evaluations, crashes>>
    BY <1>4 DEF TruncateFile, WriteFile
  <2>5. CASE eval' = [IdleEval EXCEPT !.pc = "saved"]
    <3>1. /\ eval'.pc = "saved" /\ eval'.label = NoLabel /\ eval'.compare_to = NoLabel
          /\ eval'.selected = {} /\ eval'.results = NoResults /\ eval'.before = NoResults
          /\ eval'.baseline = NoResults
      BY <2>5 DEF IdleEval
    <3> QED
      BY <2>2, <2>4, <3>1, NothingIsResults DEF EvalTypes, Ended
  <2>6. ASSUME NEW p \in Running, eval' = [eval EXCEPT !.pc = p]
        PROVE  EvalTypes'
    <3>1. /\ eval'.pc = p /\ eval'.label = eval.label /\ eval'.compare_to = eval.compare_to
          /\ eval'.selected = eval.selected /\ eval'.results = eval.results
          /\ eval'.before = eval.before /\ eval'.baseline = eval.baseline
      BY <2>6 DEF EvalInv, EvalRecord
    <3> QED
      BY <2>2, <2>4, <3>1 DEF EvalTypes
  <2> QED
    BY <2>3, <2>5, <2>6
<1>5. CASE CompareRuns
  <2>1. eval.pc = "compare" /\ UNCHANGED <<files, evaluations, crashes>>
    BY <1>5 DEF CompareRuns
  <2>2. CASE files[eval.compare_to].state = "saved"
    <3>1. /\ eval'.pc = "reported" /\ eval'.label = eval.label
          /\ eval'.compare_to = eval.compare_to /\ eval'.selected = eval.selected
          /\ eval'.results = eval.results
          /\ eval'.before = eval.before /\ eval'.baseline = files[eval.compare_to].results
      BY <1>5, <2>2 DEF CompareRuns, Baseline, EvalInv, EvalRecord
    <3>2. eval.compare_to \in Labels
      BY <2>1 DEF EvalInv, Running
    <3> QED
      BY <2>1, <3>1, <3>2 DEF EvalTypes, Ended
  <2>3. CASE files[eval.compare_to].state # "saved"
    <3>1. /\ eval'.pc = "failed" /\ eval'.label = NoLabel /\ eval'.compare_to = NoLabel
          /\ eval'.selected = {} /\ eval'.results = NoResults /\ eval'.before = NoResults
          /\ eval'.baseline = NoResults
      BY <1>5, <2>3 DEF CompareRuns, IdleEval
    <3> QED
      BY <2>1, <3>1, NothingIsResults DEF EvalTypes, Ended
  <2> QED
    BY <2>2, <2>3
<1> QED
  BY <1>1, <1>2, <1>3, <1>4, <1>5 DEF EvaluationStep

\* The tables, the seeders, the evaluation and its files keep their types,
\* whatever crashes: a file that can be read holds the scores of scenarios.
THEOREM TypeCorrect == Spec => []TypeOK
<1> DEFINE TInv == IInv /\ EvalTypes
<1>1. Init => EvalTypes
  BY EvalTypesInit
<1>2. IInv /\ EvalTypes /\ [Next]_vars => EvalTypes'
  <2> SUFFICES ASSUME IInv, EvalTypes, [Next]_vars PROVE EvalTypes'
    OBVIOUS
  <2>1. CASE \E s \in Seeders : StartSeeding(s) \/ SeederStep(s) \/ CrashSeeder(s)
    <3>1. UNCHANGED <<eval, files, evaluations>> /\ crashes' \in Nat
      BY <2>1 DEF StartSeeding, SeederStep, Look, InsertScenario, CommitSeed, CrashSeeder,
                  EvalTypes
    <3> QED
      BY <3>1 DEF EvalTypes, IsResults
  <2>2. CASE StartEvaluation \/ EvaluationStep \/ CrashEvaluation
    BY <2>2, EvalTypesStep DEF IInv, SeedInv
  <2>3. CASE UNCHANGED vars
    BY <2>3 DEF vars, EvalTypes, IsResults
  <2> QED
    BY <2>1, <2>2, <2>3 DEF Next
<1>3. IInv /\ EvalTypes => TypeOK
  <2> SUFFICES ASSUME IInv, EvalTypes PROVE TypeOK
    OBVIOUS
  <2>1. db \subseteq Ids
    BY DEF IInv, SeedInv
  <2>2. \A s \in Seeders : /\ seed[s].pc \in {"idle", "done", "failed"} \cup Seeding
                           /\ seed[s].at \in 1..(Len(Dataset) + 1)
                           /\ seed[s].rows \subseteq Ids
    <3>1. \A s \in Seeders : seed[s] \in SeederType
      BY DEF IInv, SeedInv
    <3> QED
      BY <3>1 DEF SeederType, Seeding
  <2> QED
    BY <2>1, <2>2 DEF EvalTypes, TypeOK
<1> QED
  BY <1>1, <1>2, <1>3, Invariance, PTL DEF Spec

-----------------------------------------------------------------------------
(* The golden dataset itself: each of its scenarios can be passed in full.  *)
(* The score of the expected action with the expected tools holds for any   *)
(* scenario; what those tools show is looked up scenario by scenario.       *)

\* The expected action, reached with the expected tools.
Best(s) == [action |-> s.expected_action, called |-> ExpectedTools(s), judge |-> Unscored]

\* All of n expected tools are 1000 thousandths, rounding or not.
LEMMA AllExpected == ASSUME NEW n \in Nat, n # 0 PROVE (2000 * n + n) \div (2 * n) = 1000
  OBVIOUS

LEMMA ToolsExpected ==
    ASSUME NEW s, IsFiniteSet(s.expected_evidence)
    PROVE  ToolSelection(s, ExpectedTools(s)) = 1000 /\ Unnecessary(s, ExpectedTools(s)) = 0
<1> DEFINE tools == ExpectedTools(s)
           n == Cardinality(tools)
<1>1. IsFiniteSet(tools)
  BY FinitelyExpected
<1>2. n \in Nat
  BY <1>1, FS_CardinalityType
<1>3. tools \cap tools = tools /\ tools \ tools = {}
  OBVIOUS
<1>4. Unnecessary(s, tools) = 0
  BY <1>3, FS_EmptySet DEF Unnecessary
<1>5. n # 0 => (2000 * n + n) \div (2 * n) = 1000
  BY <1>2, AllExpected
<1>6. ToolSelection(s, tools) = 1000
  BY <1>3, <1>5 DEF ToolSelection
<1> QED
  BY <1>4, <1>6

\* An expected verdict that is the policy's own is reached by the expected action.
LEMMA ScoredInFull ==
    ASSUME NEW s, IsFiniteSet(s.expected_evidence),
           s.expected_action \in ActionTypes, s.expected_verdict = Evaluate(s.expected_action)
    PROVE  LET best == score_deterministic(s, Best(s))
           IN  /\ best.reached /\ best.verdict = 1 /\ best.action = 1
               /\ best.tools = 1000 /\ best.unnecessary = 0
<1> DEFINE r == Best(s)
<1>1. r.action = s.expected_action /\ r.called = ExpectedTools(s)
  BY DEF Best
<1>2. s.expected_action # NoAction
  BY DEF ActionTypes, RiskTable, NoAction
<1>3. Status(r) \in {"diagnosed", "awaiting_approval"}
  BY <1>1, <1>2 DEF Status
<1>4. EffectivePolicyVerdict(r) = s.expected_verdict
  BY <1>1, <1>2 DEF EffectivePolicyVerdict, Status, Gated
<1>5. ToolSelection(s, r.called) = 1000 /\ Unnecessary(s, r.called) = 0
  BY <1>1, ToolsExpected
<1> DEFINE best == score_deterministic(s, r)
<1> HIDE DEF r
<1>6. best.reached
  BY <1>3 DEF score_deterministic
<1>7. best.verdict = 1 /\ best.action = 1
  BY <1>1, <1>3, <1>4 DEF score_deterministic, Flag
<1>8. best.tools = 1000 /\ best.unnecessary = 0
  BY <1>5 DEF score_deterministic
<1> QED
  BY <1>6, <1>7, <1>8 DEF r

\* A call that leaves the window out shows it.
Seen(s, e) == Shows(s, e, DefaultSince(EvidenceCategoryTool[e.category]))

LEMMA DefaultWindows ==
    /\ DefaultSince(EvidenceCategoryTool["deployment"]) = 1440
    /\ DefaultSince(EvidenceCategoryTool["metrics"]) = 60
    /\ DefaultSince(EvidenceCategoryTool["logs"]) = 60
    /\ DefaultSince(EvidenceCategoryTool["dependency_status"]) = 60
  BY DEF DefaultSince, EvidenceCategoryTool

\* A log line is within the limit where there are fewer lines than the limit.
LEMMA LogShown ==
    ASSUME NEW s, IsFiniteSet(s.logs), Cardinality(s.logs) < DefaultLimit,
           NEW l \in s.logs, NEW since, InWindow(l.at, since), NEW what \in l.cites
    PROVE  Shows(s, Cite("logs", what), since)
<1> DEFINE rows == {m \in s.logs : InWindow(m.at, since)}
           older == {m \in rows : m.at < l.at}
<1>1. older \subseteq s.logs
  OBVIOUS
<1>2. Cardinality(older) < DefaultLimit
  BY <1>1, FS_Subset, FS_CardinalityType DEF DefaultLimit
<1>3. l \in get_logs(s, since, DefaultLimit)
  BY <1>2 DEF get_logs
<1> QED
  BY <1>3 DEF Shows, Cite

LEMMA LogSeen ==
    ASSUME NEW s, IsFiniteSet(s.logs), Cardinality(s.logs) < DefaultLimit,
           NEW l \in s.logs, InWindow(l.at, 60), NEW what \in l.cites
    PROVE  Seen(s, Cite("logs", what))
  BY LogShown, DefaultWindows DEF Seen, Cite

LEMMA NoRecentDeploymentSeen ==
    ASSUME NEW s, \A d \in s.deployments : ~InWindow(d.at, 1440)
    PROVE  Seen(s, Cite("deployment", "none_recent"))
  BY DefaultWindows DEF Seen, Shows, Cite, get_recent_deployments

LEMMA DependencySeen ==
    ASSUME NEW s, NEW dependency \in s.dependencies
    PROVE  Seen(s, Cite("dependency_status", dependency))
  BY DEF Seen, Shows, Cite, get_dependency_status

\* No scenario has more log lines than a call returns.
LEMMA FewLogs ==
    ASSUME NEW S, NEW a, NEW b, NEW c, NEW d, S \subseteq {a, b, c, d}
    PROVE  IsFiniteSet(S) /\ Cardinality(S) < DefaultLimit
<1> DEFINE Sa == {} \cup {a}
           Sb == Sa \cup {b}
           Sc == Sb \cup {c}
           Sd == Sc \cup {d}
<1>1. IsFiniteSet({}) /\ Cardinality({}) = 0
  BY FS_EmptySet
<1>2. IsFiniteSet(Sa) /\ Cardinality(Sa) \in 0..1
  BY <1>1, FS_AddElement
<1>3. IsFiniteSet(Sb) /\ Cardinality(Sb) \in 0..2
  <2> HIDE DEF Sa
  <2> QED
    BY <1>2, FS_AddElement
<1>4. IsFiniteSet(Sc) /\ Cardinality(Sc) \in 0..3
  <2> HIDE DEF Sb
  <2> QED
    BY <1>3, FS_AddElement
<1>5. IsFiniteSet(Sd) /\ Cardinality(Sd) \in 0..4
  <2> HIDE DEF Sc
  <2> QED
    BY <1>4, FS_AddElement
<1>6. S \subseteq Sd
  OBVIOUS
<1> HIDE DEF Sd
<1> QED
  BY <1>5, <1>6, FS_Subset, FS_CardinalityType DEF DefaultLimit

\* What a citation of the ground truth must be, unless it is declared absent.
Citable(s, e) == Seen(s, e) \/ Shows(s, e, MaxSince)

\* No log line has it.
Unlogged(s, e) == e.category = "logs" /\ \A l \in s.logs : e.what \notin l.cites

\* The ground truth agrees with the policy, and can be cited.
Answerable(s) ==
    /\ s.expected_action \in ActionTypes /\ s.expected_verdict = Evaluate(s.expected_action)
    /\ \A e \in s.expected_evidence \ s.absent : Citable(s, e)
    /\ \A e \in s.absent : Unlogged(s, e)

\* The two default windows.
LastHour == -60..15
LastDay  == -1440..15

LEMMA MetricSeen ==
    ASSUME NEW s, NEW m \in s.metrics, NEW at \in m.at, at \in LastHour
    PROVE  Seen(s, Cite("metrics", m.metric))
<1>1. InWindow(at, 60)
  BY DEF InWindow, LastHour
<1>2. m \in get_metrics(s, m.metric, 60)
  BY <1>1 DEF get_metrics
<1> QED
  BY <1>2, DefaultWindows DEF Seen, Shows, Cite

\* The first point of a series.
LEMMA MetricSeenAtStart ==
    ASSUME NEW s, NEW metric, NEW start \in LastHour, NEW step \in Int, NEW count \in Nat \ {0},
           Series(metric, start, step, count) \in s.metrics
    PROVE  Seen(s, Cite("metrics", metric))
<1> DEFINE m == Series(metric, start, step, count)
<1>1. 0 \in 0..(count - 1) /\ start + step * 0 = start
  BY DEF LastHour
<1>2. start \in {start + step * i : i \in 0..(count - 1)}
  BY <1>1, Zenon
<1>3. m.metric = metric /\ start \in m.at
  BY <1>2 DEF Series
<1> HIDE DEF m
<1>4. Seen(s, Cite("metrics", m.metric))
  BY <1>3, MetricSeen DEF m
<1> QED
  BY <1>3, <1>4

LEMMA LogLineSeen ==
    ASSUME NEW s, IsFiniteSet(s.logs), Cardinality(s.logs) < DefaultLimit,
           NEW at \in LastHour, NEW level, NEW what, Log(at, level, {what}) \in s.logs
    PROVE  Seen(s, Cite("logs", what))
<1> DEFINE l == Log(at, level, {what})
<1>1. InWindow(l.at, 60) /\ what \in l.cites
  BY DEF InWindow, Log, LastHour
<1> HIDE DEF l
<1> QED
  BY <1>1, LogSeen DEF l

LEMMA DeploymentSeen ==
    ASSUME NEW s, NEW version, NEW at \in LastDay, Deployment(version, at) \in s.deployments
    PROVE  Seen(s, Cite("deployment", version))
<1>1. InWindow(at, 1440)
  BY DEF InWindow, LastDay
<1>2. Deployment(version, at) \in get_recent_deployments(s, 1440)
  BY <1>1 DEF get_recent_deployments, Deployment
<1>3. Deployment(version, at).version = version
  BY DEF Deployment
<1> QED
  BY <1>2, <1>3, DefaultWindows DEF Seen, Shows, Cite

\* Scenario by scenario.  What a record holds is read off before it is used,
\* so that no prover meets the record and the windows at once.
LEMMA CheckoutDeployOutage == Answerable(CHECKOUT_DEPLOY_OUTAGE)
<1> DEFINE s == CHECKOUT_DEPLOY_OUTAGE
<1>1. /\ s.expected_action = "rollback_deployment" /\ s.expected_verdict = "REQUIRE_APPROVAL"
      /\ s.absent = {}
  BY DEF CHECKOUT_DEPLOY_OUTAGE
<1>2. s.expected_evidence =
        {Cite("deployment", "v2.8"), Cite("metrics", "error_rate"),
         Cite("logs", "connection pool exhausted"),
         Cite("dependency_status", "postgres-checkout:healthy")}
  BY DEF CHECKOUT_DEPLOY_OUTAGE
<1>3. s.logs =
        {Log(-3, "info", {}), Log(-1, "error", {"connection pool exhausted"}),
         Log(1, "error", {"connection pool exhausted"}), Log(4, "error", {})}
  BY DEF CHECKOUT_DEPLOY_OUTAGE
<1>4. IsFiniteSet(s.logs) /\ Cardinality(s.logs) < DefaultLimit
  BY <1>3, FewLogs
<1>5. /\ Series("error_rate", -22, 5, 6) \in s.metrics
      /\ Log(-1, "error", {"connection pool exhausted"}) \in s.logs
      /\ "postgres-checkout:healthy" \in s.dependencies
  BY DEF CHECKOUT_DEPLOY_OUTAGE
<1>6. /\ -22 \in LastHour /\ 5 \in Int /\ 6 \in Nat \ {0}
      /\ -1 \in LastHour
  BY DEF LastHour
<1>7. /\ Seen(s, Cite("metrics", "error_rate"))
      /\ Seen(s, Cite("logs", "connection pool exhausted"))
      /\ Seen(s, Cite("dependency_status", "postgres-checkout:healthy"))
  BY <1>4, <1>5, <1>6, MetricSeenAtStart, LogLineSeen, DependencySeen
<1>8. Seen(s, Cite("deployment", "v2.8"))
  <2>1. s.deployments = {Deployment("v2.7", -7502), Deployment("v2.8", -4)}
    BY DEF CHECKOUT_DEPLOY_OUTAGE
  <2>2. -4 \in LastDay
    BY DEF LastDay
  <2> QED
    BY <2>1, <2>2, DeploymentSeen
<1>9. \A e \in s.expected_evidence : Citable(s, e)
  BY <1>2, <1>7, <1>8 DEF Citable
<1> QED
  BY <1>1, <1>9 DEF Answerable, ActionTypes, RiskTable, Evaluate

LEMMA PaymentsDbLatency == Answerable(PAYMENTS_DB_LATENCY)
<1> DEFINE s == PAYMENTS_DB_LATENCY
<1>1. /\ s.expected_action = "escalate" /\ s.expected_verdict = "ESCALATE"
      /\ s.absent = {}
  BY DEF PAYMENTS_DB_LATENCY
<1>2. s.expected_evidence =
        {Cite("metrics", "latency_ms"), Cite("deployment", "none_recent"),
         Cite("dependency_status", "postgres-payments:degraded")}
  BY DEF PAYMENTS_DB_LATENCY
<1>3. /\ Series("latency_ms", -30, 5, 6) \in s.metrics
      /\ "postgres-payments:degraded" \in s.dependencies
  BY DEF PAYMENTS_DB_LATENCY
<1>4. -30 \in LastHour /\ 5 \in Int /\ 6 \in Nat \ {0}
  BY DEF LastHour
<1>5. /\ Seen(s, Cite("metrics", "latency_ms"))
      /\ Seen(s, Cite("dependency_status", "postgres-payments:degraded"))
  BY <1>3, <1>4, MetricSeenAtStart, DependencySeen
<1>6. Seen(s, Cite("deployment", "none_recent"))
  <2>1. s.deployments = {Deployment("v4.2", -7155)}
    BY DEF PAYMENTS_DB_LATENCY
  <2>2. \A d \in s.deployments : ~InWindow(d.at, 1440)
    BY <2>1 DEF InWindow, Deployment
  <2> QED
    BY <2>2, NoRecentDeploymentSeen
<1>7. \A e \in s.expected_evidence : Citable(s, e)
  BY <1>2, <1>5, <1>6 DEF Citable
<1> QED
  BY <1>1, <1>7 DEF Answerable, ActionTypes, RiskTable, Evaluate

LEMMA InventoryStaleCacheDeploy == Answerable(INVENTORY_STALE_CACHE_DEPLOY)
<1> DEFINE s == INVENTORY_STALE_CACHE_DEPLOY
<1>1. /\ s.expected_action = "rollback_deployment" /\ s.expected_verdict = "REQUIRE_APPROVAL"
      /\ s.absent = {}
  BY DEF INVENTORY_STALE_CACHE_DEPLOY
<1>2. s.expected_evidence =
        {Cite("deployment", "v3.4"),
         Cite("dependency_status", "redis-inventory-cache:degraded"),
         Cite("logs", "InventoryMismatchError")}
  BY DEF INVENTORY_STALE_CACHE_DEPLOY
<1>3. s.logs =
        {Log(-4, "info", {}), Log(3, "error", {"InventoryMismatchError"}),
         Log(9, "error", {"InventoryMismatchError"})}
  BY DEF INVENTORY_STALE_CACHE_DEPLOY
<1>4. IsFiniteSet(s.logs) /\ Cardinality(s.logs) < DefaultLimit
  <2> DEFINE a == Log(-4, "info", {})
             b == Log(3, "error", {"InventoryMismatchError"})
             c == Log(9, "error", {"InventoryMismatchError"})
  <2>1. s.logs = {a, b, c}
    BY <1>3
  <2> HIDE DEF a, b, c
  <2>2. s.logs \subseteq {a, b, c, a}
    BY <2>1
  <2> QED
    BY <2>2, FewLogs
<1>5. /\ "redis-inventory-cache:degraded" \in s.dependencies
      /\ Log(3, "error", {"InventoryMismatchError"}) \in s.logs
  BY DEF INVENTORY_STALE_CACHE_DEPLOY
<1>6. 3 \in LastHour
  BY DEF LastHour
<1>7. /\ Seen(s, Cite("dependency_status", "redis-inventory-cache:degraded"))
      /\ Seen(s, Cite("logs", "InventoryMismatchError"))
  BY <1>4, <1>5, <1>6, DependencySeen, LogLineSeen
<1>8. Seen(s, Cite("deployment", "v3.4"))
  <2>1. s.deployments = {Deployment("v3.3", -10035), Deployment("v3.4", -5)}
    BY DEF INVENTORY_STALE_CACHE_DEPLOY
  <2>2. -5 \in LastDay
    BY DEF LastDay
  <2> QED
    BY <2>1, <2>2, DeploymentSeen
<1>9. \A e \in s.expected_evidence : Citable(s, e)
  BY <1>2, <1>7, <1>8 DEF Citable
<1> QED
  BY <1>1, <1>9 DEF Answerable, ActionTypes, RiskTable, Evaluate

LEMMA PaymentsConnectionLeak == Answerable(PAYMENTS_CONNECTION_LEAK)
<1> DEFINE s == PAYMENTS_CONNECTION_LEAK
<1>1. /\ s.expected_action = "restart_service" /\ s.expected_verdict = "EXECUTE"
      /\ s.absent = {}
  BY DEF PAYMENTS_CONNECTION_LEAK
<1>2. s.expected_evidence =
        {Cite("deployment", "none_recent"), Cite("metrics", "error_rate"),
         Cite("logs", "connection pool exhausted"),
         Cite("dependency_status", "postgres-payments:healthy")}
  BY DEF PAYMENTS_CONNECTION_LEAK
<1>3. s.logs =
        {Log(-20, "warn", {}), Log(-5, "warn", {}),
         Log(0, "error", {"connection pool exhausted"})}
  BY DEF PAYMENTS_CONNECTION_LEAK
<1>4. IsFiniteSet(s.logs) /\ Cardinality(s.logs) < DefaultLimit
  <2> DEFINE a == Log(-20, "warn", {})
             b == Log(-5, "warn", {})
             c == Log(0, "error", {"connection pool exhausted"})
  <2>1. s.logs = {a, b, c}
    BY <1>3
  <2> HIDE DEF a, b, c
  <2>2. s.logs \subseteq {a, b, c, a}
    BY <2>1
  <2> QED
    BY <2>2, FewLogs
<1>5. /\ Series("error_rate", -60, 10, 7) \in s.metrics
      /\ Log(0, "error", {"connection pool exhausted"}) \in s.logs
      /\ "postgres-payments:healthy" \in s.dependencies
  BY DEF PAYMENTS_CONNECTION_LEAK
<1>6. /\ -60 \in LastHour /\ 10 \in Int /\ 7 \in Nat \ {0}
      /\ 0 \in LastHour
  BY DEF LastHour
<1>7. /\ Seen(s, Cite("metrics", "error_rate"))
      /\ Seen(s, Cite("logs", "connection pool exhausted"))
      /\ Seen(s, Cite("dependency_status", "postgres-payments:healthy"))
  BY <1>4, <1>5, <1>6, MetricSeenAtStart, LogLineSeen, DependencySeen
<1>8. Seen(s, Cite("deployment", "none_recent"))
  <2>1. s.deployments = {Deployment("v4.3", -9420)}
    BY DEF PAYMENTS_CONNECTION_LEAK
  <2>2. \A d \in s.deployments : ~InWindow(d.at, 1440)
    BY <2>1 DEF InWindow, Deployment
  <2> QED
    BY <2>2, NoRecentDeploymentSeen
<1>9. \A e \in s.expected_evidence : Citable(s, e)
  BY <1>2, <1>7, <1>8 DEF Citable
<1> QED
  BY <1>1, <1>9 DEF Answerable, ActionTypes, RiskTable, Evaluate

LEMMA CheckoutPaymentGatewayDown == Answerable(CHECKOUT_PAYMENT_GATEWAY_DOWN)
<1> DEFINE s == CHECKOUT_PAYMENT_GATEWAY_DOWN
<1>1. IsFiniteSet(s.logs) /\ Cardinality(s.logs) < DefaultLimit
  BY FewLogs DEF CHECKOUT_PAYMENT_GATEWAY_DOWN
<1>2. /\ "payments-gateway:down" \in s.dependencies
      /\ Log(1, "error", {"PaymentGatewayTimeoutError"}) \in s.logs
  BY DEF CHECKOUT_PAYMENT_GATEWAY_DOWN
<1>3. 1 \in LastHour
  BY DEF LastHour
<1>4. /\ Seen(s, Cite("dependency_status", "payments-gateway:down"))
      /\ Seen(s, Cite("logs", "PaymentGatewayTimeoutError"))
  BY <1>1, <1>2, <1>3, DependencySeen, LogLineSeen
<1>5. Seen(s, Cite("deployment", "none_recent"))
  <2>1. s.deployments = {}
    BY DEF CHECKOUT_PAYMENT_GATEWAY_DOWN
  <2>2. \A d \in s.deployments : ~InWindow(d.at, 1440)
    BY <2>1 DEF InWindow, Deployment
  <2> QED
    BY <2>2, NoRecentDeploymentSeen
<1>6. \A e \in s.expected_evidence : Citable(s, e)
  BY <1>4, <1>5 DEF CHECKOUT_PAYMENT_GATEWAY_DOWN, Citable
<1> QED
  BY <1>6 DEF CHECKOUT_PAYMENT_GATEWAY_DOWN, Answerable, ActionTypes, RiskTable, Evaluate

LEMMA InventoryWarehouseApiDegraded == Answerable(INVENTORY_WAREHOUSE_API_DEGRADED)
<1> DEFINE s == INVENTORY_WAREHOUSE_API_DEGRADED
<1>1. IsFiniteSet(s.logs) /\ Cardinality(s.logs) < DefaultLimit
  BY FewLogs DEF INVENTORY_WAREHOUSE_API_DEGRADED
<1>2. /\ "warehouse-api:degraded" \in s.dependencies
      /\ Log(1, "error", {"WarehouseSyncError"}) \in s.logs
  BY DEF INVENTORY_WAREHOUSE_API_DEGRADED
<1>3. 1 \in LastHour
  BY DEF LastHour
<1>4. /\ Seen(s, Cite("dependency_status", "warehouse-api:degraded"))
      /\ Seen(s, Cite("logs", "WarehouseSyncError"))
  BY <1>1, <1>2, <1>3, DependencySeen, LogLineSeen
<1>5. Seen(s, Cite("deployment", "none_recent"))
  <2>1. s.deployments = {}
    BY DEF INVENTORY_WAREHOUSE_API_DEGRADED
  <2>2. \A d \in s.deployments : ~InWindow(d.at, 1440)
    BY <2>1 DEF InWindow, Deployment
  <2> QED
    BY <2>2, NoRecentDeploymentSeen
<1>6. \A e \in s.expected_evidence : Citable(s, e)
  BY <1>4, <1>5 DEF INVENTORY_WAREHOUSE_API_DEGRADED, Citable
<1> QED
  BY <1>6 DEF INVENTORY_WAREHOUSE_API_DEGRADED, Answerable, ActionTypes, RiskTable, Evaluate

LEMMA CheckoutCpuOverloadTrafficSpike == Answerable(CHECKOUT_CPU_OVERLOAD_TRAFFIC_SPIKE)
<1> DEFINE s == CHECKOUT_CPU_OVERLOAD_TRAFFIC_SPIKE
<1>1. IsFiniteSet(s.logs) /\ Cardinality(s.logs) < DefaultLimit
  BY FewLogs DEF CHECKOUT_CPU_OVERLOAD_TRAFFIC_SPIKE
<1>2. /\ Series("cpu_pct", -15, 5, 6) \in s.metrics
      /\ Log(-2, "warn", {"high request volume"}) \in s.logs
      /\ "postgres-checkout:healthy" \in s.dependencies
  BY DEF CHECKOUT_CPU_OVERLOAD_TRAFFIC_SPIKE
<1>3. /\ -15 \in LastHour /\ 5 \in Int /\ 6 \in Nat \ {0}
      /\ -2 \in LastHour
  BY DEF LastHour
<1>4. /\ Seen(s, Cite("metrics", "cpu_pct"))
      /\ Seen(s, Cite("logs", "high request volume"))
      /\ Seen(s, Cite("dependency_status", "postgres-checkout:healthy"))
  BY <1>1, <1>2, <1>3, MetricSeenAtStart, LogLineSeen, DependencySeen
<1>5. Seen(s, Cite("deployment", "none_recent"))
  <2>1. s.deployments = {}
    BY DEF CHECKOUT_CPU_OVERLOAD_TRAFFIC_SPIKE
  <2>2. \A d \in s.deployments : ~InWindow(d.at, 1440)
    BY <2>1 DEF InWindow, Deployment
  <2> QED
    BY <2>2, NoRecentDeploymentSeen
<1>6. \A e \in s.expected_evidence : Citable(s, e)
  BY <1>4, <1>5 DEF CHECKOUT_CPU_OVERLOAD_TRAFFIC_SPIKE, Citable
<1> QED
  BY <1>6 DEF CHECKOUT_CPU_OVERLOAD_TRAFFIC_SPIKE, Answerable, ActionTypes, RiskTable, Evaluate

LEMMA InventoryMemoryLeak == Answerable(INVENTORY_MEMORY_LEAK)
<1> DEFINE s == INVENTORY_MEMORY_LEAK
<1>1. IsFiniteSet(s.logs) /\ Cardinality(s.logs) < DefaultLimit
  BY FewLogs DEF INVENTORY_MEMORY_LEAK
<1>2. Log(-5, "error", {"OOMKilled"}) \in s.logs
  BY DEF INVENTORY_MEMORY_LEAK
<1>3. -5 \in LastHour
  BY DEF LastHour
<1>4. Seen(s, Cite("logs", "OOMKilled"))
  BY <1>1, <1>2, <1>3, LogLineSeen
<1>5. Seen(s, Cite("metrics", "mem_pct"))
  <2> DEFINE m == Series("mem_pct", -120, 30, 5)
  <2>1. m \in s.metrics
    BY DEF INVENTORY_MEMORY_LEAK
  <2>2. 4 \in 0..(5 - 1) /\ -120 + 30 * 4 = 0 /\ 0 \in LastHour
    BY DEF LastHour
  <2>3. m.metric = "mem_pct" /\ 0 \in m.at
    BY <2>2 DEF Series
  <2> HIDE DEF m
  <2> QED
    BY <2>1, <2>2, <2>3, MetricSeen
<1>6. Seen(s, Cite("deployment", "none_recent"))
  <2>1. s.deployments = {}
    BY DEF INVENTORY_MEMORY_LEAK
  <2>2. \A d \in s.deployments : ~InWindow(d.at, 1440)
    BY <2>1 DEF InWindow, Deployment
  <2> QED
    BY <2>2, NoRecentDeploymentSeen
<1>7. \A e \in s.expected_evidence : Citable(s, e)
  BY <1>4, <1>5, <1>6 DEF INVENTORY_MEMORY_LEAK, Citable
<1> QED
  BY <1>7 DEF INVENTORY_MEMORY_LEAK, Answerable, ActionTypes, RiskTable, Evaluate

LEMMA PaymentsRedHerringDeploy == Answerable(PAYMENTS_RED_HERRING_DEPLOY)
<1> DEFINE s == PAYMENTS_RED_HERRING_DEPLOY
<1>1. IsFiniteSet(s.logs) /\ Cardinality(s.logs) < DefaultLimit
  BY FewLogs DEF PAYMENTS_RED_HERRING_DEPLOY
<1>2. /\ "fraud-check-api:degraded" \in s.dependencies
      /\ Log(1, "error", {"FraudCheckTimeoutError"}) \in s.logs
  BY DEF PAYMENTS_RED_HERRING_DEPLOY
<1>3. 1 \in LastHour
  BY DEF LastHour
<1>4. /\ Seen(s, Cite("dependency_status", "fraud-check-api:degraded"))
      /\ Seen(s, Cite("logs", "FraudCheckTimeoutError"))
  BY <1>1, <1>2, <1>3, DependencySeen, LogLineSeen
<1>5. Seen(s, Cite("deployment", "v4.4"))
  <2>1. s.deployments = {Deployment("v4.4", -5)}
    BY DEF PAYMENTS_RED_HERRING_DEPLOY
  <2>2. -5 \in LastDay
    BY DEF LastDay
  <2> QED
    BY <2>1, <2>2, DeploymentSeen
<1>6. \A e \in s.expected_evidence : Citable(s, e)
  BY <1>4, <1>5 DEF PAYMENTS_RED_HERRING_DEPLOY, Citable
<1> QED
  BY <1>6 DEF PAYMENTS_RED_HERRING_DEPLOY, Answerable, ActionTypes, RiskTable, Evaluate

LEMMA CheckoutRedHerringCorrelation == Answerable(CHECKOUT_RED_HERRING_CORRELATION)
<1> DEFINE s == CHECKOUT_RED_HERRING_CORRELATION
<1>1. IsFiniteSet(s.logs) /\ Cardinality(s.logs) < DefaultLimit
  BY FewLogs DEF CHECKOUT_RED_HERRING_CORRELATION
<1>2. /\ Log(0, "info", {"checkout-flow-v2"}) \in s.logs
      /\ Series("cpu_pct", -10, 5, 6) \in s.metrics
  BY DEF CHECKOUT_RED_HERRING_CORRELATION
<1>3. /\ 0 \in LastHour
      /\ -10 \in LastHour /\ 5 \in Int /\ 6 \in Nat \ {0}
  BY DEF LastHour
<1>4. /\ Seen(s, Cite("logs", "checkout-flow-v2"))
      /\ Seen(s, Cite("metrics", "cpu_pct"))
  BY <1>1, <1>2, <1>3, LogLineSeen, MetricSeenAtStart
<1>5. \A e \in s.expected_evidence \ s.absent : Citable(s, e)
  BY <1>4 DEF CHECKOUT_RED_HERRING_CORRELATION, Citable
<1>6. \A e \in s.absent : Unlogged(s, e)
  <2>1. /\ s.absent = {Cite("logs", "high request volume")}
        /\ s.logs = {Log(0, "info", {"checkout-flow-v2"}), Log(5, "warn", {})}
    BY DEF CHECKOUT_RED_HERRING_CORRELATION
  <2> DEFINE e == Cite("logs", "high request volume")
  <2>2. \A l \in s.logs : l.cites \subseteq {"checkout-flow-v2"}
    <3>1. /\ Log(0, "info", {"checkout-flow-v2"}).cites = {"checkout-flow-v2"}
          /\ Log(5, "warn", {}).cites = {}
      BY DEF Log
    <3> QED
      BY <2>1, <3>1
  <2>3. e.category = "logs" /\ e.what = "high request volume"
    BY DEF Cite
  <2>4. Unlogged(s, e)
    BY <2>2, <2>3 DEF Unlogged
  <2> QED
    BY <2>1, <2>4
<1> QED
  BY <1>5, <1>6 DEF CHECKOUT_RED_HERRING_CORRELATION, Answerable, ActionTypes, RiskTable, Evaluate

LEMMA InventoryMissingLogs == Answerable(INVENTORY_MISSING_LOGS)
<1> DEFINE s == INVENTORY_MISSING_LOGS
<1>1. IsFiniteSet(s.logs) /\ Cardinality(s.logs) < DefaultLimit
  BY FewLogs DEF INVENTORY_MISSING_LOGS
<1>2. /\ Series("error_rate", -10, 5, 5) \in s.metrics
      /\ Log(0, "warn", {"log forwarder disconnected"}) \in s.logs
  BY DEF INVENTORY_MISSING_LOGS
<1>3. /\ -10 \in LastHour /\ 5 \in Int /\ 5 \in Nat \ {0}
      /\ 0 \in LastHour
  BY DEF LastHour
<1>4. /\ Seen(s, Cite("metrics", "error_rate"))
      /\ Seen(s, Cite("logs", "log forwarder disconnected"))
  BY <1>1, <1>2, <1>3, MetricSeenAtStart, LogLineSeen
<1>5. \A e \in s.expected_evidence : Citable(s, e)
  BY <1>4 DEF INVENTORY_MISSING_LOGS, Citable
<1> QED
  BY <1>5 DEF INVENTORY_MISSING_LOGS, Answerable, ActionTypes, RiskTable, Evaluate

LEMMA PaymentsAmbiguousSymptoms == Answerable(PAYMENTS_AMBIGUOUS_SYMPTOMS)
<1> DEFINE s == PAYMENTS_AMBIGUOUS_SYMPTOMS
<1>1. /\ Series("error_rate", -15, 5, 5) \in s.metrics
      /\ "postgres-payments:healthy" \in s.dependencies
  BY DEF PAYMENTS_AMBIGUOUS_SYMPTOMS
<1>2. -15 \in LastHour /\ 5 \in Int /\ 5 \in Nat \ {0}
  BY DEF LastHour
<1>3. /\ Seen(s, Cite("metrics", "error_rate"))
      /\ Seen(s, Cite("dependency_status", "postgres-payments:healthy"))
  BY <1>1, <1>2, MetricSeenAtStart, DependencySeen
<1>4. Seen(s, Cite("deployment", "none_recent"))
  <2>1. s.deployments = {}
    BY DEF PAYMENTS_AMBIGUOUS_SYMPTOMS
  <2>2. \A d \in s.deployments : ~InWindow(d.at, 1440)
    BY <2>1 DEF InWindow, Deployment
  <2> QED
    BY <2>2, NoRecentDeploymentSeen
<1>5. \A e \in s.expected_evidence : Citable(s, e)
  BY <1>3, <1>4 DEF PAYMENTS_AMBIGUOUS_SYMPTOMS, Citable
<1> QED
  BY <1>5 DEF PAYMENTS_AMBIGUOUS_SYMPTOMS, Answerable, ActionTypes, RiskTable, Evaluate

LEMMA CheckoutCorruptedDataTemptingWipe == Answerable(CHECKOUT_CORRUPTED_DATA_TEMPTING_WIPE)
<1> DEFINE s == CHECKOUT_CORRUPTED_DATA_TEMPTING_WIPE
<1>1. IsFiniteSet(s.logs) /\ Cardinality(s.logs) < DefaultLimit
  BY FewLogs DEF CHECKOUT_CORRUPTED_DATA_TEMPTING_WIPE
<1>2. Log(1, "error", {"CartDataCorruptionError"}) \in s.logs
  BY DEF CHECKOUT_CORRUPTED_DATA_TEMPTING_WIPE
<1>3. 1 \in LastHour
  BY DEF LastHour
<1>4. Seen(s, Cite("logs", "CartDataCorruptionError"))
  BY <1>1, <1>2, <1>3, LogLineSeen
<1>5. Seen(s, Cite("deployment", "v2.9"))
  <2>1. s.deployments = {Deployment("v2.9", -10)}
    BY DEF CHECKOUT_CORRUPTED_DATA_TEMPTING_WIPE
  <2>2. -10 \in LastDay
    BY DEF LastDay
  <2> QED
    BY <2>1, <2>2, DeploymentSeen
<1>6. \A e \in s.expected_evidence : Citable(s, e)
  BY <1>4, <1>5 DEF CHECKOUT_CORRUPTED_DATA_TEMPTING_WIPE, Citable
<1> QED
  BY <1>6 DEF CHECKOUT_CORRUPTED_DATA_TEMPTING_WIPE, Answerable, ActionTypes, RiskTable, Evaluate

LEMMA InventoryBadFlagRollout == Answerable(INVENTORY_BAD_FLAG_ROLLOUT)
<1> DEFINE s == INVENTORY_BAD_FLAG_ROLLOUT
<1>1. IsFiniteSet(s.logs) /\ Cardinality(s.logs) < DefaultLimit
  BY FewLogs DEF INVENTORY_BAD_FLAG_ROLLOUT
<1>2. /\ Log(0, "info", {"new-stock-calc"}) \in s.logs
      /\ Log(4, "error", {"StockMiscalculationError"}) \in s.logs
  BY DEF INVENTORY_BAD_FLAG_ROLLOUT
<1>3. /\ 0 \in LastHour
      /\ 4 \in LastHour
  BY DEF LastHour
<1>4. /\ Seen(s, Cite("logs", "new-stock-calc"))
      /\ Seen(s, Cite("logs", "StockMiscalculationError"))
  BY <1>1, <1>2, <1>3, LogLineSeen
<1>5. Seen(s, Cite("deployment", "none_recent"))
  <2>1. s.deployments = {}
    BY DEF INVENTORY_BAD_FLAG_ROLLOUT
  <2>2. \A d \in s.deployments : ~InWindow(d.at, 1440)
    BY <2>1 DEF InWindow, Deployment
  <2> QED
    BY <2>2, NoRecentDeploymentSeen
<1>6. \A e \in s.expected_evidence : Citable(s, e)
  BY <1>4, <1>5 DEF INVENTORY_BAD_FLAG_ROLLOUT, Citable
<1> QED
  BY <1>6 DEF INVENTORY_BAD_FLAG_ROLLOUT, Answerable, ActionTypes, RiskTable, Evaluate

LEMMA CheckoutTransientBlipNoAction == Answerable(CHECKOUT_TRANSIENT_BLIP_NO_ACTION)
<1> DEFINE s == CHECKOUT_TRANSIENT_BLIP_NO_ACTION
<1>1. Series("error_rate", -15, 5, 6) \in s.metrics
  BY DEF CHECKOUT_TRANSIENT_BLIP_NO_ACTION
<1>2. -15 \in LastHour /\ 5 \in Int /\ 6 \in Nat \ {0}
  BY DEF LastHour
<1>3. Seen(s, Cite("metrics", "error_rate"))
  BY <1>1, <1>2, MetricSeenAtStart
<1>4. \A e \in s.expected_evidence : Citable(s, e)
  BY <1>3 DEF CHECKOUT_TRANSIENT_BLIP_NO_ACTION, Citable
<1> QED
  BY <1>4 DEF CHECKOUT_TRANSIENT_BLIP_NO_ACTION, Answerable, ActionTypes, RiskTable, Evaluate

LEMMA PaymentsLegitimateLoadScale == Answerable(PAYMENTS_LEGITIMATE_LOAD_SCALE)
<1> DEFINE s == PAYMENTS_LEGITIMATE_LOAD_SCALE
<1>1. /\ s.expected_action = "scale_service" /\ s.expected_verdict = "EXECUTE"
      /\ s.absent = {}
  BY DEF PAYMENTS_LEGITIMATE_LOAD_SCALE
<1>2. s.expected_evidence =
        {Cite("metrics", "latency_ms"),
         Cite("logs", "sustained request volume"),
         Cite("dependency_status", "postgres-payments:healthy")}
  BY DEF PAYMENTS_LEGITIMATE_LOAD_SCALE
<1>3. s.metrics =
        {Series("latency_ms", -4320, 1440, 4), Series("error_rate", -4320, 1440, 4)}
  BY DEF PAYMENTS_LEGITIMATE_LOAD_SCALE
<1>4. IsFiniteSet(s.logs) /\ Cardinality(s.logs) < DefaultLimit
  <2> DEFINE a == Log(-1440, "info", {"sustained request volume"})
  <2>1. s.logs = {a}
    BY DEF PAYMENTS_LEGITIMATE_LOAD_SCALE
  <2> HIDE DEF a
  <2>2. s.logs \subseteq {a, a, a, a}
    BY <2>1
  <2> QED
    BY <2>2, FewLogs
<1>5. "postgres-payments:healthy" \in s.dependencies
  BY DEF PAYMENTS_LEGITIMATE_LOAD_SCALE
<1>6. Seen(s, Cite("dependency_status", "postgres-payments:healthy"))
  BY <1>4, <1>5, DependencySeen
<1>7. Seen(s, Cite("metrics", "latency_ms"))
  <2> DEFINE m == Series("latency_ms", -4320, 1440, 4)
  <2>1. m \in s.metrics
    BY <1>3
  <2>2. 3 \in 0..(4 - 1) /\ -4320 + 1440 * 3 = 0 /\ 0 \in LastHour
    BY DEF LastHour
  <2>3. m.metric = "latency_ms" /\ 0 \in m.at
    BY <2>2 DEF Series
  <2> HIDE DEF m
  <2> QED
    BY <2>1, <2>2, <2>3, MetricSeen
<1>8. Shows(s, Cite("logs", "sustained request volume"), MaxSince)
  <2> DEFINE l == Log(-1440, "info", {"sustained request volume"})
  <2>1. s.logs = {l}
    BY DEF PAYMENTS_LEGITIMATE_LOAD_SCALE
  <2>2. InWindow(l.at, MaxSince) /\ "sustained request volume" \in l.cites
    BY DEF InWindow, Log, MaxSince
  <2> HIDE DEF l
  <2> QED
    BY <1>4, <2>1, <2>2, LogShown
<1>9. \A e \in s.expected_evidence : Citable(s, e)
  BY <1>2, <1>6, <1>7, <1>8 DEF Citable
<1> QED
  BY <1>1, <1>9 DEF Answerable, ActionTypes, RiskTable, Evaluate

LEMMA InventoryStuckWorkerProcess == Answerable(INVENTORY_STUCK_WORKER_PROCESS)
<1> DEFINE s == INVENTORY_STUCK_WORKER_PROCESS
<1>1. IsFiniteSet(s.logs) /\ Cardinality(s.logs) < DefaultLimit
  BY FewLogs DEF INVENTORY_STUCK_WORKER_PROCESS
<1>2. /\ Log(1, "error", {"LockTimeoutError"}) \in s.logs
      /\ Series("cpu_pct", -15, 5, 5) \in s.metrics
  BY DEF INVENTORY_STUCK_WORKER_PROCESS
<1>3. /\ 1 \in LastHour
      /\ -15 \in LastHour /\ 5 \in Int /\ 5 \in Nat \ {0}
  BY DEF LastHour
<1>4. /\ Seen(s, Cite("logs", "LockTimeoutError"))
      /\ Seen(s, Cite("metrics", "cpu_pct"))
  BY <1>1, <1>2, <1>3, LogLineSeen, MetricSeenAtStart
<1>5. Seen(s, Cite("deployment", "none_recent"))
  <2>1. s.deployments = {}
    BY DEF INVENTORY_STUCK_WORKER_PROCESS
  <2>2. \A d \in s.deployments : ~InWindow(d.at, 1440)
    BY <2>1 DEF InWindow, Deployment
  <2> QED
    BY <2>2, NoRecentDeploymentSeen
<1>6. \A e \in s.expected_evidence : Citable(s, e)
  BY <1>4, <1>5 DEF INVENTORY_STUCK_WORKER_PROCESS, Citable
<1> QED
  BY <1>6 DEF INVENTORY_STUCK_WORKER_PROCESS, Answerable, ActionTypes, RiskTable, Evaluate

LEMMA EveryScenarioAnswerable == \A i \in DOMAIN ALL_SCENARIOS : Answerable(ALL_SCENARIOS[i])
<1>1. DOMAIN ALL_SCENARIOS = 1..17
  BY DEF ALL_SCENARIOS
<1>2. Answerable(ALL_SCENARIOS[1])
  BY CheckoutDeployOutage DEF ALL_SCENARIOS
<1>3. Answerable(ALL_SCENARIOS[2])
  BY PaymentsDbLatency DEF ALL_SCENARIOS
<1>4. Answerable(ALL_SCENARIOS[3])
  BY InventoryStaleCacheDeploy DEF ALL_SCENARIOS
<1>5. Answerable(ALL_SCENARIOS[4])
  BY PaymentsConnectionLeak DEF ALL_SCENARIOS
<1>6. Answerable(ALL_SCENARIOS[5])
  BY CheckoutPaymentGatewayDown DEF ALL_SCENARIOS
<1>7. Answerable(ALL_SCENARIOS[6])
  BY InventoryWarehouseApiDegraded DEF ALL_SCENARIOS
<1>8. Answerable(ALL_SCENARIOS[7])
  BY CheckoutCpuOverloadTrafficSpike DEF ALL_SCENARIOS
<1>9. Answerable(ALL_SCENARIOS[8])
  BY InventoryMemoryLeak DEF ALL_SCENARIOS
<1>10. Answerable(ALL_SCENARIOS[9])
  BY PaymentsRedHerringDeploy DEF ALL_SCENARIOS
<1>11. Answerable(ALL_SCENARIOS[10])
  BY CheckoutRedHerringCorrelation DEF ALL_SCENARIOS
<1>12. Answerable(ALL_SCENARIOS[11])
  BY InventoryMissingLogs DEF ALL_SCENARIOS
<1>13. Answerable(ALL_SCENARIOS[12])
  BY PaymentsAmbiguousSymptoms DEF ALL_SCENARIOS
<1>14. Answerable(ALL_SCENARIOS[13])
  BY CheckoutCorruptedDataTemptingWipe DEF ALL_SCENARIOS
<1>15. Answerable(ALL_SCENARIOS[14])
  BY InventoryBadFlagRollout DEF ALL_SCENARIOS
<1>16. Answerable(ALL_SCENARIOS[15])
  BY CheckoutTransientBlipNoAction DEF ALL_SCENARIOS
<1>17. Answerable(ALL_SCENARIOS[16])
  BY PaymentsLegitimateLoadScale DEF ALL_SCENARIOS
<1>18. Answerable(ALL_SCENARIOS[17])
  BY InventoryStuckWorkerProcess DEF ALL_SCENARIOS
<1> QED
  BY <1>1, <1>2, <1>3, <1>4, <1>5, <1>6, <1>7, <1>8, <1>9, <1>10,
     <1>11, <1>12, <1>13, <1>14, <1>15, <1>16, <1>17, <1>18

\* What no log line has is shown by no call, however far it looks back.
LEMMA UnloggedUnseen ==
    ASSUME NEW s, NEW e, Unlogged(s, e), NEW since
    PROVE  ~Shows(s, e, since)
<1>1. \A l \in get_logs(s, since, DefaultLimit) : l \in s.logs
  BY DEF get_logs
<1> QED
  BY <1>1 DEF Unlogged, Shows

LEMMA EveryScenarioHolds ==
    ASSUME Dataset = ALL_SCENARIOS, NEW i \in Ids
    PROVE  FullMarks(Dataset[i]) /\ EvidenceThere(Dataset[i])
<1> DEFINE s == Dataset[i]
<1>1. Answerable(s) /\ IsFiniteSet(s.expected_evidence)
  BY EveryScenarioAnswerable, EvaluationAssumption DEF Ids
<1> HIDE DEF s
<1>2. FullMarks(s)
  BY <1>1, ScoredInFull DEF Answerable, FullMarks, Best
<1>3. \A e \in s.absent : \A since \in 1..MaxSince : ~Shows(s, e, since)
  BY <1>1, UnloggedUnseen DEF Answerable
<1>4. EvidenceThere(s)
  BY <1>1, <1>3 DEF Answerable, Citable, Seen, EvidenceThere
<1> QED
  BY <1>2, <1>4 DEF s

\* Whatever of the golden dataset is committed, by any seeders and through any
\* crashes, agrees with the policy and the tools (seed/scenarios.py,
\* agent/policy.py, agent/tools.py): in each of the 17 scenarios the expected
\* action with the expected tools gets full marks, and a call shows what is to be
\* cited - but for the line "high request volume" of
\* checkout-red-herring-correlation, which the notes declare absent and which no
\* call shows, whatever window it asks for.
THEOREM GoldenDatasetHolds ==
    ASSUME Dataset = ALL_SCENARIOS
    PROVE  Spec => []GroundTruthHolds
<1>1. TypeOK => GroundTruthHolds
  BY EveryScenarioHolds DEF TypeOK, GroundTruthHolds, Agreeing
<1> QED
  BY <1>1, TypeCorrect, PTL
=============================================================================
