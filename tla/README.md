# A TLA+ verification of OpsPilot

OpsPilot investigates incidents of a simulated service landscape: a language
model gathers evidence with read-only tools and submits a diagnosis; code decides
what may be done about it, asks a human where one is needed, performs the
remediation and writes everything down. These modules model the parts of it that
decide, remember and recover, check them with TLC and prove theorems about them
with TLAPS. Paths below are relative to `src/src/opspilot/` unless they say
otherwise.

## 1. The system

| Component | Where | State it keeps | Operations |
| --- | --- | --- | --- |
| Incident API | `routers/incidents.py` | table `incidents` (status, pending approval, awaiting since, diagnosis), table `audit_log_entries` | create, run, approve or deny, get, list, timeline; the approval SLA, applied lazily by whoever reads |
| Approval gate | `agent/policy.py`, `agent/nodes.py` | none (tables) | `evaluate`, `evaluate_policy`, `_resolve_verdict` |
| Investigation graph | `agent/graph.py`, `agent/nodes.py`, `agent/state.py`, `agent/loop.py` | `GraphState` of one LangGraph thread | `gather_context`, `hypothesize`, `classify_risk`, `evaluate_policy`, `decide`; run and resume |
| Model provider client | `agent/client.py` | attempts of one call | call with bounded retries |
| Remediation ledger | `agent/idempotency.py`, `agent/remediation_tools.py` | table `remediation_executions` | `execute_idempotently` |
| Checkpointer | `agent/checkpointer.py` | the checkpoints of each thread, in PostgreSQL | written by LangGraph after every node |
| Service memory | `memory.py`, `routers/memory.py` | table `service_memory` | confirm and consolidate at close, retrieve, list, delete |
| Data model | `models.py`, `db.py`, `process_identity.py`, `schemas.py` | sessions, the process identity | commit, rollback at the end of a request |
| Authentication and rate limit | `auth.py` | a deque of request times per key, in memory | check the key, then the limit |
| Timeline | `routers/incidents.py` | none (reads the audit log) | `get_timeline` |
| Evaluation harness | `eval/`, `routers/eval_runs.py` | one result file per label | run the scenarios, score, judge, aggregate, save, compare two runs, list |
| Evidence tools | `agent/tools.py`, `agent/support.py` | none (read the fixtures) | five read-only queries, truncation |
| Scenario seed | `seed/`, `routers/inspect.py` | the fixture tables | seed at every start of the container, inspect |
| Tracing | `agent/tracing.py` | none | spans |
| Application shell | `main.py`, `config.py`, `logging_config.py` | settings | start, health |
| Dashboard | `src/web` | none | renders the API, posts decisions |
| Migrations | `src/alembic` | schema version | upgrade |

How they meet. A request is served by a thread of one uvicorn process; the
handler loads its ORM row, may invoke the graph, and applies the result in one
commit. The graph writes a checkpoint after each node through a connection of its
own; the ledger commits through a third. So one request writes three stores that
are never committed together, and any of these writes may be the last before a
crash. But for the rate limiter's deque, the only shared memory is the database:
there is no lock, no version column and no queue, and a request acts on the copies
it loaded. Seeders and evaluations are processes of their own: a seeder is one
transaction over the whole dataset, an evaluation reads what was seeded, calls the
same investigation the API calls, and meets other evaluations in the files it saves.

What makes it hard, and what correctness means for each part:

* **Incident API.** Status checks and the commits they protect are far apart (an
  investigation lies between them); two requests, a request and the lazy SLA, or
  a crash and its retry meet on one incident. Correct: nothing is run twice, the
  record agrees with what the graph did, a closed incident stays closed, a pause
  resolves.
* **Approval gate and ledger.** Correct: a gated remediation runs only after a
  human approved those parameters, and once.
* **Investigation graph.** The model may answer anything, several tool uses at a
  time. Correct: the ceilings hold, the transcript stays acceptable to the
  provider, the evidence trail is complete, every end is explained.
* **Service memory.** Closing incidents of one service merge the same rows.
  Correct: confirmations are counted once, patterns are neither forgotten nor
  left in several rows, and every close ends.
* **Rate limit.** A plain function on the threads of a pool tests, pops, counts and
  appends to one deque without a lock. Correct: exact when nothing overlaps, over
  by less than the number of threads when something does, and every check ends.
* **Timeline.** Derived from audit rows of several requests and processes. Correct:
  a crash that struck a remediation can be seen in it, and a remediation is said to
  be a repetition only where there was a restart or a retry.
* **Seed and evaluation.** Containers that start together seed together; a run is
  saved before its baseline is read; means are rounded, taken over changing sets,
  and compared with a threshold. Correct: the dataset is there as a whole or not at
  all, its ground truth agrees with the fixtures, the tools and the policy, and a
  run that got worse is reported as a regression.

`PROJECT.json` lists the hazards at the lines where they bite.

## 2. Plan

In order of importance.

1. `Policy`, `ApprovalGate`, `IncidentLifecycle`: the incident with its three
   stores, threads, crashes and the SLA; abstract specification: the gate.
2. `IncidentLifecycle_proofs`: types, and the refinement of the gate.
3. `Gathering`, `Investigation`: the loop that the lifecycle takes as one step,
   round by round; abstract specification: that step.
4. `Investigation_proofs`: types, ceilings, recursion limit, transcript, explained
   end, the refinement.
5. `ServiceMemory`: concurrent consolidation at the level of SQL statements.
6. `Timeline`: what the lifecycle's audit log shows, composed with it.
7. `RateLimiter`, `RateLimiter_proofs`: the deque shared by threads.
8. `GoldenDataset`, `Evidence`, `Scoring`, `Evaluation`: the dataset, the queries
   that show it, the scores, and the processes that seed and evaluate;
   `Scoring_proofs`, `Evaluation_proofs`.
9. `IncidentPhases`, `IncidentPhases_proofs`: the four phases of an incident that
   is run once, and from them the invariants of `IncidentLifecycle`; then
   `ServiceMemory_proofs`, the exact limit of `RateLimiter`, the trail of
   `Investigation` and the types of `Evaluation`; `Timeline_proofs`.
10. What the components owe each other and their schedulers: the lifecycle's thread
    implements `Gathering` as `Investigation` does, every request and investigation
    is bounded, nobody waits for ever on a lock, and the ground truth of the dataset
    that ships agrees with its fixtures. Memory retrieval and evaluations that share a label were considered and
    left out (section 6).

## 3. Modules

### `Policy`, `ApprovalGate`

`Policy` holds the code's tables: the verdict per action type, failing closed, and
the executor tables of `evaluate_policy`. `ApprovalGate` is what a reader should
be able to rely on: variables `granted` and `performed`, and a remediation is
performed only when it needs no human and has no parameters, or its parameters
were granted before. It promises nothing about how often.

### `IncidentLifecycle`

One incident. Its variables are the stores (`incident`, `audit`, `memory`,
`thread`, `ledger`), the outside world (`performed`: calls of each remediation
tool), the process identity, and per worker thread where its handler stands (`pc`)
and its locals (`req`: the row it loaded, its graph state, the decision it
carries, the audit rows it counted). `posted`, `runs` and `lost` are history.

| Code | Actions |
| --- | --- |
| `run_incident` | `LoadForRun`, `StartRun` (commit of "running"), `Invoke` |
| `decide_approval` | `PostApproval`, `AdmitAfterTimeout`, `Resume` |
| `_maybe_apply_approval_timeout` | `TimeOut` inside `PostApproval` and `ReadIncident`, with `Raise` for the exception it swallows |
| the graph | `GatherContext` (the whole loop), `Interrupt`, `EvaluatePolicyNoExecution`, `ExecuteIdempotently`, `Claim`, `CheckpointPolicy`, `Decide` |
| `_apply_result` | `CountAudit`, `CommitPause`, `CommitClose` |
| environment | `SlaElapses`, `Fail` (an exception anywhere), `Crash` (with restart) |

A handler is split where another thread or a crash can come between: commits,
checkpoint writes, and the tool call. Details that matter and are modelled:
SQLAlchemy's UPDATE names only the columns that differ from the loaded row
(`Flushed`); the answer to an interrupt is stored with the checkpoint and wins
over a later one (`Resume`); a second `invoke` of a thread appends to its evidence
(`Invoke`); the unique key of the ledger raises for the loser (`Claim`).
Abstracted: parameters and tool calls are values; `awaiting_since` is only fresh
or overdue; the audit log is a sequence of evidence, request and answer rows; a
diagnosis is its action and whether it clears the memory's confidence floor.

### `IncidentPhases`

What an incident looks like at any moment, provided that it is run once: one
`POST /run` finds it open, or requests do not overlap (`OneRun`). It is `Open`;
`Running`, with one handler that owns it, or none after a crash; `Settled`, closed
without a human; or `Asked`, when any number of approvals, timeouts and reads may
race, before and after the first of them closes it. Each phase says what the row,
the checkpoint, the audit log, the approvals given and every handler's copies hold.
The module adds no behaviour: it is the vocabulary of the proofs.

### `Gathering`, `Investigation`

`Investigation` is one investigation with the code's `GraphState`: `GatherContext`
is one model call with its round of tool uses (answered, refused, diagnosis,
invalid diagnosis, in any order), `RetryCall`, `GiveUp` and `RaiseProviderError`
are the client's outcomes, `Route` the edge after the round, and `Ready` and
`Goto` LangGraph's superstep counter: where the recursion limit is reached, no node
runs. The model's answers are the
constant `Responses`. `Gathering` is the abstract view: the evidence collected
once, a diagnosis or none, and only a diagnosis reaches the gate - the step
`IncidentLifecycle!GatherContext` takes. While the loop goes round, the refinement
mapping shows nothing; when it is left, everything at once.

### `ServiceMemory`

The rows of one service, under closing transactions at READ COMMITTED and the
admin's delete. `WriteConfirmedMemory` inserts a row. `Select` reads the committed
rows of the service, of every pattern, and its own; each pattern it sees two rows of
is merged into its newest one (`Survivors`, `Stale`, `Total`), so a close also writes
rows that other closes left of patterns it did not confirm. The flush is taken one
row at a time, in the unit of work's order: all UPDATEs (`UpdateSurvivor`), then all
DELETEs (`DeleteStale`). A survivor that is gone raises StaleDataError
(`SurvivorGone`), at once or, since SQLAlchemy counts the rows of a batch of UPDATEs
at its end, after the UPDATEs that follow; the close is lost with its whole
transaction (`Rollback`). A stale row that is gone is no error. Row locks are held to
the end; `BreakDeadlock` is PostgreSQL's.

Rows are named by the incident that inserted them. Ids, and with them `created_at`,
grow in the order of the inserts. A close that is tried again after it failed inserts
another row, and counts as another of the `Closes`.

### `Timeline`

`get_timeline` as a function of the audit log `IncidentLifecycle` keeps:
`PauseProcess` is the loop's variable `pause_process_id`, `RowEntry` the branches of
the loop, `DecisionEntry` the three marks a decision may carry. It extends
`IncidentLifecycle`, so its property is checked on every log that crashes, retries
and timeouts can produce, not on hand-made rows.

### `RateLimiter`

The bucket of the one valid key and, per thread, its next access to it: `Test`
(`bucket[0] < window_start`), `Pop`, `Count`, `Admit`, with `now` taken in `Receive`.
Two threads may pop on the strength of one test (the second pops a fresh entry or
raises `IndexError`), count before either appends, or append out of order. `Tick`
is the monotonic clock. `admitted`, `overlapped` and `calls` are history and bounds.

### `GoldenDataset`, `Evidence`, `Scoring`, `Evaluation`

`GoldenDataset` transcribes the 17 scenarios: minutes from the incident's start,
the expected citations each log line contains, the expected action and verdict, and
which citation the notes declare absent on purpose (one, "high request volume" of
`checkout-red-herring-correlation`: `scenarios.py:802` lists it, `scenarios.py:812`
says that its absence tells the scenario from the traffic spike).
`Evidence` is the queries of `agent/tools.py` with their windows and limits;
`Shows` says whether a call shows a citation. `Scoring` is `score_deterministic`,
`_aggregate` and `compare_runs` in integers (units of 1/10000, rounded where the
code rounds), and `Degraded`, which says without means and thresholds what a run
that got worse is. `Evaluation` runs them:

| Code | Actions |
| --- | --- |
| `seed/__main__.py`, `seed_all` | `StartSeeding`, `Look`, `InsertScenario` (waits for another transaction's unique key, the service's name or the scenario's own, fails when it committed), `CommitSeed`, `CrashSeeder` |
| `run_eval`, `run_scenario` | `StartEvaluation`, `ScenarioMissing` (`.one()` raises), `RunScenario`, `RaiseError` |
| `save_run` | `TruncateFile`, `WriteFile` |
| `--compare-to` | `CompareRuns` |
| environment | `CrashEvaluation` |

What the investigation and the judge make of a scenario is the constant
`Investigated`. `Look` passes the scenarios that are already there in one step:
nothing deletes a scenario, so a seeder that looked at them one by one would see the
same. The judge's four scores are treated alike by the code and stand as one.

## 4. Runs

`MCIncident`, `MCInvestigation`, `MCServiceMemory`, `MCRateLimiter` and
`MCEvaluation` give the constants values.

| Run | Question and answer |
| --- | --- |
| `serial` | One request at a time, two crashes and one exception at any point, all five kinds of outcome. A gated remediation is performed only after its approval (`ImplementsGate`); it is repeated only after a crash or exception between tool and ledger; the row records the decision the thread acted on; the closed record, memory included, is sealed; a crash that struck a remediation shows in the timeline; the checkpointed thread implements `Gathering`; a run cut short stays lost; a pause resolves. |
| `races` | Two threads that overlap in every way. The gate, the truth and order of the audit log and the closed status survive, and every step of a handler brings its response nearer, whatever the other does. |
| `race_twice` | *Violation of "at most once":* two approvals of one pause call the tool twice. (So does a crash between the tool's return and the ledger's commit: `RepeatedOnlyAfterLoss` in `serial` allows exactly these repetitions, and `serial` has states that use the allowance.) |
| `run_twice` | *Violation:* two `POST /run` both find the incident open. |
| `unaudited` | *Violation:* tool, crash, then a denial or timeout: a performed remediation that no audit row mentions. |
| `stuck` | *Violation:* a crash during a run leaves "running" for ever, although the documentation says an in-flight investigation survives. |
| `investigation` | Every investigation of up to three rounds: ceilings, transcript, evidence, explained end, the refinement of `Gathering`, and termination, also as a measure that every step lowers. |
| `grounding` | *Violation:* the grounding check reads a trail that already contains the diagnosis it checks, so a citation of something never looked at counts as grounded. |
| `memory` | Five closes, of two patterns, that overlap in every way and merge each other's duplicates, and one deletion: exact counts without overlap, no pattern forgotten with it, closes in flight never all wait outside a cycle, and every close ends. |
| `pile_up` | *Violation:* two overlapping closes leave two rows for one pattern. |
| `rate_limit` | Two threads, a limit of two, six requests in a sliding window: the overrun is at most one, the limit is exact while checks do not overlap (no refusal without a full window, no admission beyond it, no `IndexError`), every check ends. |
| `evaluation` | All 17 scenarios, two seeders and two evaluations with one crash between them: the seed is atomic, no seeder waits for one that waits, the ground truth agrees with the policy and the tools (the expected action with the expected tools gets full marks in each scenario, and a call shows each expected citation, except the one line declared absent, which no call shows), a degradation against another label is reported, evaluations and seeders end. |

A property that one theorem proves for both is checked in one of `serial` and
`races`: `ApprovedBeforePerformed`, `DecisionRowsTrue` and `AuditMatchesEvidence`
in `races`, where more can go wrong, and proved under `OneRun`, which serial
requests satisfy. `ConfirmedAtMostOnce` is proved outright (`SerialConfirmsOnce`),
and `RunAtMostOnce`, which `run_twice` refutes, is proved under `OneRun`.

The properties the findings refute are each stated in the words of the line they
come from, which `PROJECT.json` quotes.

### Bounds

* `MaxCrashes` 2, `MaxFailures` 1 (`serial`): the second crash strikes the recovery
  from the first; the exception strikes a handler that a crash has already
  interrupted. `MaxRunCalls` 2: a second run of an incident would be admitted if
  the status let it.
* `Workers` 2 (`races`): every conflict in the code is between two copies of one
  row or thread; `races` allows one `POST /run`, because two are the finding of
  `run_twice` and everything after them inherits it.
* `Params` has two values, of which one action's schema accepts both and the
  other's one: the smallest set in which a decision can be admissible for one
  action and not for the other, and two approvals can differ.
* `MaxEvidence` 1 or 2: audit offsets are sums of evidence and approval rows, and
  differ already with one of each; 2 makes a partial copy distinguishable.
* `investigation`: three steps let a run loop twice and end at the ceiling; costs
  of 0 or 2 against a budget of 3 exceed it on the second dear call; two tool uses
  per round give every pair of kinds in each order.
* `memory`: two overlapping closes of each of two patterns leave duplicates of both,
  and the fifth close merges the two groups in one flush; or three closes of one
  pattern and two of the other merge with different survivors and wait for each
  other's rows in cycles, also across patterns. The 48 823 states have flushes with
  two survivors, closes that wait for, deadlock over or lose themselves to rows of
  a pattern they did not confirm, and batches that go on after a lost survivor.
* `rate_limit`: a limit of two lets a window be full, half empty and slide past an
  entry; six requests fill it twice and overlap once more; the clock outlasts four
  windows.
* `evaluation`: two seeders are one race for the unique key, and a third would only
  wait as the second does; two evaluations are a baseline and a candidate; the
  crash strikes any of the four. Selecting two scenarios, one to be approved and
  one to be escalated, gives runs that lose a diagnosis, an action or a verdict, or
  trade one for another; the threshold's arithmetic for other numbers is proved.

Symmetry of the threads is used in `races` only, which has no liveness property.
`CHECK_DEADLOCK FALSE` is set everywhere, because each system may rightly stop:
a closed incident nobody reads, an ended investigation, a service with all its
incidents closed.

### Fairness

* `IncidentLifecycle!FairSpec`: a handler that was admitted goes on (weak fairness
  of `Progress` per thread; uvicorn's threads are scheduled and a model call times
  out); somebody keeps reading the incident (`ReadIncident`; the dashboard and
  `GET /incidents` do, and the code relies on it: there is no scheduler); time
  passes (`SlaElapses`). No fairness for `POST` requests, failures or crashes;
  the latter two are bounded, which says that they stop eventually.
* `Investigation!FairSpec`: the graph runs on. Nobody has to answer a pause.
* `RateLimiter!FairSpec`: the pool's threads are scheduled. Nothing makes requests
  arrive or the clock run.
* `Evaluation!FairSpec`: a seeder or evaluation that was started goes on; a seeder
  that waits for a key is not enabled, and goes on when the other's transaction
  ends. Nothing has to start, and crashes are bounded.
* `ServiceMemory!FairSpec`: PostgreSQL executes what is not waiting for a lock and
  breaks deadlocks.

## 5. Proofs

The theorems hold for all values of the constants under the named assumption of
their module (`ConstantsAssumption`, `InvestigationAssumption`, `RateAssumption`,
`MemoryAssumption`, `EvaluationAssumption`), which TLC evaluates in every run of that module.

* `TypeCorrect` (`Spec => []TypeOK` of `IncidentLifecycle`). `TypeOK` is not
  inductive: `KeyOf` is a ledger key only for a state that executes, so the
  invariant adds that a worker between the tool call and its claim holds such a
  state (`Claiming`). The step is proved by groups of actions: requests, nodes,
  result, environment.
* `LifecycleImplementsGate` (`Spec => Gate!Spec`). An approval travels from the
  request's locals to the RESUME write stored with the checkpoint, and from there
  to the value `interrupt()` returns to any invocation of the thread; `GateInv`
  says that in each of these places it was granted before. Then
  `ExecuteIdempotently` is `Perform`, `Admit` is `Grant`, and everything else
  stutters, for any number of threads, crashes, failures and runs.
* `OneRunStartsOnce`, `OneRunIsApproved`, `OneRunPausesCleanly`,
  `OneRunKeepsEvidence`, `OneRunDecisionsTrue`, `OneRunClosesForGood`. Under
  `OneRun`, `Phases` of `IncidentPhases` is inductive together with `TypeOK` and
  `LedgerTrue` (a claimed or claiming remediation was performed): each action leads
  from a phase to the same or a later one (`OpenStep`, `RunningStep`, `SettledStep`,
  `AskedStep`), for any number of threads, crashes and exceptions. None of the six
  is inductive alone, since a handler writes from copies it took long before: what
  the copies hold is in the phase. The hypothesis cannot be dropped: with two
  overlapping `POST /run`, the run `run_twice` refutes the first.
* `SerialRepeatsOnlyLosses`, `SerialRecordsTheDecision`, `SerialConfirmsOnce`,
  `SerialSealsTheRecord`. When requests do not overlap (`Serial`), handlers work on
  what the stores hold. `LossesCounted`: every call of a remediation but one was
  paid for with a loss, and the one is in the ledger or about to be. `ClosedOnce`:
  an incident that awaits has no answer row and has confirmed nothing; one that is
  closed has one, with the thread's decision. Both break when two approvals race
  (`race_twice`), whence the hypothesis.
* `FaultlessIsAudited`. The finding of `unaudited` needs a crash or an exception:
  without either, and however approvals and reads race, a performed gated remediation
  is in the audit log, or a handler carries its approval there (`NothingLost`). It
  takes that the ledger's key admits one claim, and that the loser's exception - the
  one that happens without a fault - leaves the winner to write the row.
* `CrashAlwaysVisible` (`Timeline`), under `Serial`. The timeline is a function of the
  log, but a crash leaves nothing in the log when it strikes: what it loses must be
  remembered until the answer's row is written, by whichever process. `TraceInv` adds
  to the phases that a run's own losses leave it running for ever, so the request's
  row finds nothing lost; that a loss which was no exception has since changed the
  process (`Traced`); and that a gated remediation in the ledger is the present
  handler's own (`Carrying`) or was put there before a restart or an exception. The
  answer's row then differs from the request's in its process, which the timeline
  compares, or says "executed". It rests on `LossesCounted` for the claim that
  nothing in the ledger is executed again without being found.
* `SerialThreadImplementsGathering` (`Spec => Thread!Spec`), under `Serial`. With
  `InvestigationImplementsGathering` it ties the two models together: what
  `IncidentLifecycle` takes as one step is the same abstract `Gathering` that the
  loop implements round by round. The checkpoint is overwritten by handlers from
  their copies, so the invariant adds to the phases that a handler at work in a node
  is at the node the checkpoint leads to (`InStep`); two racing approvals break it
  (one writes `decide` over the other's `end`), whence the hypothesis.
* `EveryRequestAlwaysEnds`, for any races. `StepsLeft` counts what a handler has
  still to do, twice the way through the graph for an approval that first has to
  apply the timeout. Its own step lowers it, an exception too - also one that the
  timeout swallows - and nobody else's raises it. With weak fairness of `Progress`
  this is why a request is answered after at most twenty steps.
* `OneRunLostStaysLost`. The phase `Running` without a handler is closed under every
  action: what the run `stuck` shows in one trace holds after every crash or
  exception of a run, for any number of threads.
* `SerialPerformsOnce`. The ledger's promise, which `race_twice` refutes, in the
  scope where it holds: requests that do not overlap, up to the first crash or
  exception (`lost` is bounded by their number).
* `CeilingsAlwaysHold`, `RecursionLimitUnreached` (`Investigation`). Both rest on
  `CountInv`: whenever the loop goes round, neither ceiling is reached, nothing
  has failed, there is no diagnosis and the supersteps equal the steps
  (`Looping`); a later node was entered at a bounded distance (`SuperstepsOf`).
  The ceilings alone are not inductive, because a round adds before it asks.
* `InvestigationImplementsGathering`. With `CountInv` and the type of the evidence
  trail: a round that goes on is a stutter; the one that leaves the loop is
  `Gather`, and a diagnosis came from a tool use of the round, which the trail
  records.
* `EndIsAlwaysExplained`. `EndInv` says which findings a run has at each node: there
  is a diagnosis exactly when the evidence trail records a submission, each node
  past the loop has added its own finding (grounding, risk, verdict) and nothing
  else, and `decide` is reached without a diagnosis only through a provider error or
  a ceiling. The end alone is not inductive: it is decided by what earlier nodes left.
* `TranscriptAlwaysAnswered`. The transcript grows by whole rounds, an assistant turn
  and the user turn that answers it, so its length is even between steps
  (`TranscriptInv`) and a new pair never changes what an old turn is answered by.
* `EvidenceIsAlwaysTranscript`. `RoundsInv`: each assistant turn's uses are recorded
  side by side, from some offset on, under the turn's own step; and while the loop goes
  round there are two messages for every step, so the records of a new round bear the
  step of no earlier one.
* `EveryStepAlwaysCounts`. `StepsLeft` is made of the calls that ceilings and retries
  leave, the nodes up to the end and the one exception. A round pays for the
  retries it gives back, and the diagnosis, once submitted, is not asked for again;
  it rests on `CountInv` and on the bounds of `attempt` (`AttemptInv`).
* `TypeCorrect` (`Investigation`). The tier and the verdict have their types only
  while there is a diagnosis to take them from, so it rests on `EndInv`.
* `TypeCorrect` (`RateLimiter`). By the thread's program counter alone.
* `OverrunAlwaysBounded` (`RateLimiter`). `OverrunBounded` alone says nothing of the
  threads that have counted and not yet appended; `RoomInv` counts them with the
  entries. A thread joins them only when it finds fewer entries than the limit, and
  then the others are at most all the other threads.
* `SequentialChecksAreExact` (`RateLimiter`). `Sequential`: until two checks overlap,
  the deque is a suffix of the admissions, which are in order; what was popped is older
  than the window of any check to come; and the one check at work has found its test
  still true. Then any `MaxRequests + 1` admissions in a row span more than a window.
* `DegradationIsARegression` (`Scoring`). If no outcome is better and one is worse:
  either a diagnosis was lost, and the completion rate falls by at least 1/n; or the
  same scenarios were diagnosed, so the verdict or action accuracy is a mean over
  the same set and one of them falls by at least 1/n. With n at most 20 the rounded
  fall reaches the threshold (`RateDrop`); with 21 it does not. The dataset has 17.
* `DegradationAlwaysReported` (`Evaluation`). `EvalInv`: an evaluation overwrites
  only its own label's file, so what it loads as the baseline of another label is
  what was there when it started.
* `SeedingIsAtomic`. `HoldsPrefix` ties a seeder's uncommitted rows to its place in
  the dataset: while nothing is committed it holds exactly the scenarios before it,
  so what it commits is the whole dataset; the unique key keeps two seeders' rows
  apart; and an evaluation with one result started on a committed dataset. It is a
  claim about the data: of two seeders that overlap one fails with IntegrityError, and
  its start of the container with it (`docker-entrypoint.sh`), although the docstring
  calls seeding safe at every startup.
* `SeedersNeverDeadlock`. From `HoldsPrefix`: what a seeder holds begins with the
  first scenario of the dataset, so no two hold anything at once, and the one that
  another waits for waits for nobody. The order of the inserts is all that protects
  them: the mutant that looks for any missing scenario deadlocks.
* `GoldenDatasetHolds`. `GroundTruthHolds` under the assumption that the dataset is
  the one that ships (`ALL_SCENARIOS`): for each of the 17 scenarios the expected
  action is one that the policy answers with the expected verdict, and a call is named
  that shows each expected citation (`Answerable`) - but for "high request volume" of
  `checkout-red-herring-correlation`, declared absent, of which it is proved that no
  log line has it and no call shows it. The harness scores the tools called, not the
  citations, so that scenario too gets full marks; a grader who matched the list of
  expected evidence against what an agent saw could not give them.
* `TypeCorrect` (`Evaluation`). Scores come from the results of `Scoring`, so the
  types of saved files rest on the results an evaluation collected.
* `TypeCorrect`, `PatternsAreRemembered` (`ServiceMemory`). `MemInv`: a transaction
  that merges saw its own row, and what its flush has still to write are survivors,
  then stale rows, of what it saw. `HeldInv`: the rows a transaction sees and the
  table holds come from closes that committed, and from its UPDATE on a survivor is
  a row that is there and locked by the flush that wrote it (`Done`). A commit that
  deletes a pattern's rows therefore finds their survivor still in the table, and
  the rows it deletes are survivors of no other flush that has passed its UPDATE. It
  makes no difference whether the closer confirmed that pattern or another
  (`CommitRemembers`): this is where closes of other patterns enter the proof.
* `SerialClosesAreExact` (`ServiceMemory`). `SerialInv`: as long as nothing
  overlapped, one transaction at most is at work, for the newest incident, and no lock
  is held by another (`Alone`); what it saw is still so, and the rows are one per
  pattern (`Consolidated`), whence the only group it merges is its own; and the rows
  sum up to the closes (`Counted`). The sum over the rows is a recursive function;
  `SumChanged` says what changing its terms does, by induction over the naturals for
  which it holds.
* `SomebodyAlwaysGoesOn` (`ServiceMemory`). `LocksHeld`: whoever holds a row is in
  flight. So the closes that wait point at closes in flight; if all of them wait, a
  smallest non-empty set of closes that point into itself is a cycle, because the
  closes it points at are such a set too. This is the safety behind `ClosesEnd`.

Every safety property the passing runs check is stated by a theorem, some of them
under `OneRun`, `Serial` or the absence of faults, as said above. Only model-checked:
liveness (`AwaitingResolves`, `EndsWithStatus`, `ClosesEnd`, `ChecksEnd`,
`EvaluationsAndSeedersEnd`), since TLAPS has no support for `ENABLED` and fairness
here. No module that is proved about declares a recursive operator; the one recursive
function is `SumOf`.

## 6. Not modelled

`routers/inspect.py`, `routers/eval_runs.py` and the scorecard read and format.
`get_runbook` matches keywords as substrings, and `agent/support.py` shortens
results by characters: both are text, and the ground truth never cites a runbook.
Tracing has no effect on behaviour. The dashboard and the migrations keep no state
the properties are about; the dashboard's reads appear as the fairness of
`ReadIncident`. Of the evaluation, one process at a time is modelled; two that share
a label may also write into each other's file. Costs, tokens and latencies are
summed and printed but never compared. A judge call that breaks (`JudgeError`)
is modelled as a missing mark, and no property is stated about it: `eval/judge.py:31`
wants it to surface, `eval/runner.py:136` records it in the saved run and goes on, and
the means and the comparison pass over it - a baseline mark of 0 that the candidate's
judge fails to give again reads as an improvement. A tie that Python rounds to the even
neighbour is rounded up here; no ratio of counts up to 17 has one at the fourth
place, so only the means of tool and judge scores can differ, by 1/10000. The
timeline is computed from one state; the code reads the incident and its audit rows
in two statements, so a commit between them can show rows newer than the final
status. Inside the modelled components, the wording of errors and labels,
the length of the retry backoff, connection pools and serialisation, and the
wording of retrieved memory are left out. Real PostgreSQL failover, several server
processes at once and clock changes are outside the deployment the code describes.
