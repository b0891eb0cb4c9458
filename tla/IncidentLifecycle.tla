------------------------- MODULE IncidentLifecycle -------------------------
(***************************************************************************)
(* One incident of the opspilot API, from POST /incidents to its closing:  *)
(* the request handlers of routers/incidents.py run by the worker threads  *)
(* of one server process, over three durable stores - the incident's rows  *)
(* (incident, audit log, service memory), the LangGraph checkpoint of its  *)
(* thread, and the ledger of executed remediations - with crashes and      *)
(* restarts, transient failures and the lazy approval SLA.                 *)
(*                                                                         *)
(* A handler is split where another thread can observe or change what it   *)
(* works on: at every commit, checkpoint write and call of a remediation   *)
(* tool.  A worker's private copies (its ORM row, its graph state) are     *)
(* kept apart from the stores, so that stale copies behave as in the code. *)
(***************************************************************************)
EXTENDS Integers, Sequences, Policy

CONSTANTS
    Workers,        \* threads that serve HTTP requests
    Params,         \* parameter values a human may approve an action with
    NoParams,       \* the empty parameters {}
    ParamsOf,       \* per approvable action, the values its schema accepts
    Diagnoses,      \* actions the model may recommend in this instance
    MaxEvidence,    \* bound: tool calls recorded by one gathering loop
    MaxRunCalls,    \* bound: POST /run requests that find the incident open
    MaxCrashes,     \* bound: crashes, each followed by a restart
    MaxFailures     \* bound: exceptions raised inside a handler

ASSUME ConstantsAssumption ==
    /\ NoParams \notin Params
    /\ ParamsOf \in [Approvable -> SUBSET Params]
    /\ Diagnoses \subseteq ActionTypes
    /\ MaxEvidence \in Nat
    /\ MaxRunCalls \in Nat
    /\ MaxCrashes \in Nat
    /\ MaxFailures \in Nat

VARIABLES
    incident,       \* the row of table incidents
    audit,          \* the incident's rows of audit_log_entries, by id
    memory,         \* the service's rows of service_memory, by fix_applied
    thread,         \* the latest checkpoint of LangGraph thread incident-<id>
    ledger,         \* keys of table remediation_executions
    performed,      \* calls made of each remediation (the outside world)
    process,        \* PROCESS_INSTANCE_ID: which process is up
    pc,             \* per worker: where its handler stands
    req,            \* per worker: the handler's local variables
    \* history and bounds
    posted,         \* approvals humans gave: <<action asked, params>>
    runs,           \* calls of run_investigation that started
    lost,           \* crashes and exceptions between a tool call and its claim
    calls,          \* POST /run requests that found the incident open
    failures        \* exceptions so far

stores  == <<incident, audit, memory, thread, ledger, performed>>
history == <<posted, runs, lost, calls, failures>>
vars    == <<stores, process, pc, req, history>>

-----------------------------------------------------------------------------
(* Data.  "none" is Python's None.                                         *)

None == "none"

\* ApprovalDecision, the SLA path's own decision, and no decision yet.
Decisions  == [verb : {"approved", "denied", "timed_out"}, params : Params \cup {NoParams}]
NoDecision == [verb |-> None, params |-> NoParams]
TimedOut   == [verb |-> "timed_out", params |-> NoParams]

Decision == Decisions \cup {NoDecision}

\* idempotency key: the thread and its target service are this incident's own.
Keys == [action : ActionTypes, params : Params \cup {NoParams}]

Statuses  == {"open", "running", "awaiting_approval", "diagnosed", "incomplete"}
Closed(s) == s \in {"diagnosed", "incomplete"}

\* "since" abstracts awaiting_since to which side of the SLA it lies on.
Rows == [status : Statuses, pending : ActionTypes \cup {None},
         since : {None, "fresh", "overdue"}, diagnosis : ActionTypes \cup {None}]
OpenRow == [status |-> "open", pending |-> None, since |-> None, diagnosis |-> None]

\* A tool call record: who gathered it, and which one it is.
Evidence == [kind : {"evidence"}, by : Workers, n : Nat]
Requests == [kind : {"approval_requested"}, action : ActionTypes \cup {None}, process : Nat]
Answers  == [kind : {"approval_decision"}, decision : Decision,
             remediation : {None, "executed", "deduplicated"}, process : Nat]

\* GraphState, the node the checkpoint leads to, and - in "answer" - the
\* RESUME write stored with the checkpoint, or the value that interrupt()
\* returns to the invocation working on this copy.
GraphStates ==
    [next : {None, "gather_context", "evaluate_policy", "decide", "end"},
     evidence : Seq(Evidence), action : ActionTypes \cup {None}, confident : BOOLEAN,
     decision : Decision, remediation : {None, "executed", "deduplicated"},
     answer : Decision]
NoThread ==
    [next |-> None, evidence |-> <<>>, action |-> None, confident |-> FALSE,
     decision |-> NoDecision, remediation |-> None, answer |-> NoDecision]

\* A handler's locals: which resume it is in, the human's decision it carries,
\* its copy of the incident row and of the graph state, and how many audit
\* rows it counted.
Handlers == [path : {None, "run", "timeout", "human"}, body : Decision, seen : Rows,
             local : GraphStates, counted : Nat]
IdleHandler == [path |-> None, body |-> NoDecision, seen |-> OpenRow,
                local |-> NoThread, counted |-> 0]

Points == {"idle", "start", "invoke", "resume", "admit", "node", "claim", "checkpoint",
           "count", "commit"}

Memories == [count : Nat, outcome : {None, "blocked", "executed", "approved_and_executed",
                                     "denied"}]

TypeOK ==
    /\ incident \in Rows
    /\ audit \in Seq(Evidence \cup Requests \cup Answers)
    /\ memory \in [ActionTypes -> Memories]
    /\ thread \in GraphStates
    /\ ledger \subseteq Keys
    /\ performed \in [Keys -> Nat]
    /\ process \in Nat
    /\ pc \in [Workers -> Points]
    /\ req \in [Workers -> Handlers]
    /\ posted \subseteq (ActionTypes \cup {None}) \X Params
    /\ runs \in Nat /\ lost \in Nat /\ calls \in Nat /\ failures \in Nat

-----------------------------------------------------------------------------
(* Steps shared by the handlers.                                           *)

Local(w) == req[w].local

\* Go to point p with the given graph state.
Continue(w, p, g) ==
    /\ pc' = [pc EXCEPT ![w] = p]
    /\ req' = [req EXCEPT ![w].local = g]

\* The response is sent (or lost): the thread is free again.
Release(w) ==
    /\ pc' = [pc EXCEPT ![w] = "idle"]
    /\ req' = [req EXCEPT ![w] = IdleHandler]

\* A node returned: LangGraph stores the state as the thread's new head.
Save(w, p, g) ==
    /\ thread' = g
    /\ Continue(w, p, g)

\* Mutant: the except clause of the timeout check covers the whole endpoint.
MutantRaiseCaught(w) ==
    IF req[w].body # NoDecision
    THEN /\ pc' = [pc EXCEPT ![w] = "admit"]
         /\ UNCHANGED req
    ELSE Release(w)

\* An exception leaves the handler, except inside resume_investigation of
\* the timeout path, which swallows it and lets the endpoint go on with the
\* row it loaded before.
Raise(w) ==
    IF /\ req[w].path = "timeout"
       /\ pc[w] \in {"resume", "node", "claim", "checkpoint"}
       /\ req[w].body # NoDecision
    THEN /\ pc' = [pc EXCEPT ![w] = "admit"]
         /\ UNCHANGED req
    ELSE Release(w)

-----------------------------------------------------------------------------
(* POST /incidents/{id}/run                                                *)

\* The row is loaded and found open; any other status is a 409.
LoadForRun(w) ==
    /\ pc[w] = "idle"
    /\ incident.status = "open"
    /\ calls < MaxRunCalls
    /\ calls' = calls + 1
    /\ pc' = [pc EXCEPT ![w] = "start"]
    /\ req' = [req EXCEPT ![w] = [IdleHandler EXCEPT !.path = "run", !.seen = incident]]
    /\ UNCHANGED <<stores, process, posted, runs, lost, failures>>

\* status = "running" is committed, whatever the row holds by now.
StartRun(w) ==
    /\ pc[w] = "start"
    /\ incident' = [incident EXCEPT !.status = "running"]
    /\ pc' = [pc EXCEPT ![w] = "invoke"]
    /\ req' = [req EXCEPT ![w].seen = incident']
    /\ UNCHANGED <<audit, memory, thread, ledger, performed, process, history>>

\* run_investigation invokes the graph on initial_state(): scalars are reset,
\* and the evidence list, whose reducer is operator.add, keeps what the
\* thread already holds.
Invoke(w) ==
    /\ pc[w] = "invoke"
    /\ runs' = runs + 1
    /\ Save(w, "node", [NoThread EXCEPT !.next = "gather_context",
                                        !.evidence = thread.evidence])
    /\ UNCHANGED <<incident, audit, memory, ledger, performed, process, posted, lost, calls, failures>>

-----------------------------------------------------------------------------
(* Nodes of the graph.                                                     *)

Gathered(w, n) == [i \in 1..n |-> [kind |-> "evidence", by |-> w, n |-> i]]

\* The gather_context loop from its first model call to its last, with
\* hypothesize and classify_risk (module Investigation models them round by
\* round): it ends in a diagnosis, itself a recorded tool call, or in one of
\* the give-up statuses.
GatherContext(w) ==
    /\ pc[w] = "node" /\ Local(w).next = "gather_context"
    /\ \E n \in 0..MaxEvidence, a \in Diagnoses \cup {None}, c \in BOOLEAN :
        /\ a # None => n > 0
        /\ a = None => ~c
        /\ Save(w, "node", [Local(w) EXCEPT
                !.next = IF a = None THEN "decide" ELSE "evaluate_policy",
                !.evidence = @ \o Gathered(w, n),
                !.action = a,
                !.confident = c])
    /\ UNCHANGED <<incident, audit, memory, ledger, performed, process, history>>

AtPolicy(w) == pc[w] = "node" /\ Local(w).next = "evaluate_policy"

\* interrupt() with no answer to return: the invocation ends, and the
\* checkpoint still leads to evaluate_policy.
Interrupt(w) ==
    /\ AtPolicy(w)
    /\ Gated(Local(w).action) /\ Local(w).answer = NoDecision
    /\ pc' = [pc EXCEPT ![w] = "count"]
    /\ UNCHANGED <<stores, process, req, history>>

\* Mutant: "is not None" and no second validation in place of approved.
MutantExecutesUnlessDenied(g) ==
    \/ g.action \in AutoExecutable /\ Evaluate(g.action) = "EXECUTE"
    \/ Gated(g.action) /\ g.action \in Approvable /\ g.answer.verb # "denied"

\* _resolve_verdict runs a tool on verdict EXECUTE, and on an approval whose
\* parameters the action's schema accepts.
Executes(g) ==
    \/ g.action \in AutoExecutable /\ Evaluate(g.action) = "EXECUTE"
    \/ /\ Gated(g.action) /\ g.action \in Approvable
       /\ g.answer.verb = "approved"
       /\ g.answer.params \in ParamsOf[g.action]

KeyOf(g) == [action |-> g.action,
             params |-> IF Gated(g.action) THEN g.answer.params ELSE NoParams]

EvaluatePolicyNoExecution(w) ==
    /\ AtPolicy(w)
    /\ Gated(Local(w).action) => Local(w).answer # NoDecision
    /\ ~Executes(Local(w))
    /\ pc' = [pc EXCEPT ![w] = "checkpoint"]
    /\ UNCHANGED <<stores, process, req, history>>

\* execute_idempotently: the key is looked up; a recorded key returns the
\* recorded result, a new one calls the tool.
ExecuteIdempotently(w) ==
    LET g == Local(w)
        k == KeyOf(g)
    IN  /\ AtPolicy(w)
        /\ Executes(g)
        /\ IF k \in ledger
           THEN /\ Continue(w, "checkpoint", [g EXCEPT !.remediation = "deduplicated"])
                /\ UNCHANGED performed
           ELSE /\ Continue(w, "claim", [g EXCEPT !.remediation = "executed"])
                /\ performed' = [performed EXCEPT ![k] = @ + 1]
        /\ UNCHANGED <<incident, audit, memory, thread, ledger, process, history>>

\* Mutant: the claim is left to a session whose commit never comes.
MutantUnclaimed(w) ==
    /\ pc[w] = "claim"
    /\ pc' = [pc EXCEPT ![w] = "checkpoint"]
    /\ UNCHANGED <<stores, process, req, history>>

\* Its commit: the unique key lets the first insert through and raises in
\* any other.
Claim(w) ==
    LET k == KeyOf(Local(w))
    IN  /\ pc[w] = "claim"
        /\ IF k \in ledger
           THEN Raise(w)
           ELSE /\ pc' = [pc EXCEPT ![w] = "checkpoint"]
                /\ UNCHANGED req
        /\ ledger' = ledger \cup {k}
        /\ UNCHANGED <<incident, audit, memory, thread, performed, process, history>>

\* evaluate_policy returned.
CheckpointPolicy(w) ==
    LET g == Local(w)
    IN  /\ pc[w] = "checkpoint"
        /\ Save(w, "node", [g EXCEPT
                !.next = "decide",
                !.decision = IF Gated(g.action) THEN g.answer ELSE NoDecision,
                !.answer = NoDecision])
        /\ UNCHANGED <<incident, audit, memory, ledger, performed, process, history>>

Decide(w) ==
    /\ pc[w] = "node" /\ Local(w).next = "decide"
    /\ Save(w, "count", [Local(w) EXCEPT !.next = "end"])
    /\ UNCHANGED <<incident, audit, memory, ledger, performed, process, history>>

-----------------------------------------------------------------------------
(* _apply_result                                                           *)

\* _persist_new_evidence counts every audit row the incident has.
CountAudit(w) ==
    /\ pc[w] = "count"
    /\ pc' = [pc EXCEPT ![w] = "commit"]
    /\ req' = [req EXCEPT ![w].counted = Len(audit)]
    /\ UNCHANGED <<stores, process, history>>

\* SQLAlchemy's UPDATE names only the columns the handler changed with
\* respect to the row it loaded; a new timestamp always differs.
Column(old, new, f) == IF new[f] = old[f] /\ new[f] # "fresh" THEN incident[f] ELSE new[f]
Flushed(old, new) ==
    [status    |-> Column(old, new, "status"),  pending   |-> Column(old, new, "pending"),
     since     |-> Column(old, new, "since"),   diagnosis |-> Column(old, new, "diagnosis")]

\* Mutant: the EXECUTE case is missing.
MutantOutcomeUnknown(g) ==
    CASE Evaluate(g.action) = "BLOCK" -> "blocked"
      [] Gated(g.action) -> IF g.decision.verb = "approved" THEN "approved_and_executed" ELSE "denied"
      [] OTHER -> "unknown"

DerivedOutcome(g) ==
    CASE Evaluate(g.action) = "BLOCK"   -> "blocked"
      [] Evaluate(g.action) = "EXECUTE" -> "executed"
      [] OTHER -> IF g.decision.verb = "approved" THEN "approved_and_executed" ELSE "denied"

\* write_confirmed_memory and consolidate_service_memory: one row per pattern,
\* the newest confirmation with the sum of the counts.
Remember(g) ==
    IF g.action \in {None, "escalate"} \/ ~g.confident
    THEN UNCHANGED memory
    ELSE memory' = [memory EXCEPT ![g.action] =
                        [count |-> @.count + 1, outcome |-> DerivedOutcome(g)]]

\* Once a timeout it applied itself is committed, decide_approval goes on with
\* the refreshed row; every other handler is done.
Respond(w) ==
    IF req[w].path = "timeout" /\ req[w].body # NoDecision
    THEN /\ pc' = [pc EXCEPT ![w] = "admit"]
         /\ req' = [req EXCEPT ![w].seen = incident']
    ELSE Release(w)

\* Mutant: the cumulative trail is persisted wholesale.
MutantAllEvidence(w) == Local(w).evidence

NewEvidence(w) == SubSeq(Local(w).evidence, req[w].counted + 1, Len(Local(w).evidence))

\* Mutant: awaiting_since is not set.
MutantPausedNoAnchor(w) == [req[w].seen EXCEPT !.status = "awaiting_approval",
                                               !.pending = Local(w).action]

PausedRow(w) == [req[w].seen EXCEPT !.status = "awaiting_approval",
                                    !.pending = Local(w).action, !.since = "fresh"]

RequestRows(w) ==
    << [kind |-> "approval_requested", action |-> Local(w).action, process |-> process] >>

\* The graph paused.
CommitPause(w) ==
    /\ pc[w] = "commit" /\ Local(w).next = "evaluate_policy"
    /\ incident' = Flushed(req[w].seen, PausedRow(w))
    /\ audit' = audit \o NewEvidence(w) \o RequestRows(w)
    /\ Respond(w)
    /\ UNCHANGED <<memory, thread, ledger, performed, process, history>>

\* Mutants: the pause is not cleared; a denial opens the incident again.
MutantClosedStillPending(g) == [status |-> IF g.action = None THEN "incomplete" ELSE "diagnosed",
                                pending |-> g.action, since |-> None, diagnosis |-> g.action]
MutantDeniedReopens(g) ==
    [status |-> IF g.decision.verb = "denied" THEN "open"
                ELSE IF g.action = None THEN "incomplete" ELSE "diagnosed",
     pending |-> None, since |-> None, diagnosis |-> g.action]

ClosedRow(g) == [status |-> IF g.action = None THEN "incomplete" ELSE "diagnosed",
                 pending |-> None, since |-> None, diagnosis |-> g.action]

\* Mutant: judged by the row as it is now.
MutantResolvingNow(w) == incident.status = "awaiting_approval"

\* "A pause is being resolved", judged by the row the handler loaded.
Resolving(w) == req[w].seen.status = "awaiting_approval"

\* Mutant: the row records the request's own decision, not the graph's.
MutantAnswerFromRequest(w) == [kind |-> "approval_decision", decision |-> req[w].body,
                               remediation |-> Local(w).remediation, process |-> process]

AnswerRow(w) == [kind |-> "approval_decision", decision |-> Local(w).decision,
                 remediation |-> Local(w).remediation, process |-> process]

\* The graph ended.
CommitClose(w) ==
    /\ pc[w] = "commit" /\ Local(w).next = "end"
    /\ incident' = Flushed(req[w].seen, ClosedRow(Local(w)))
    /\ audit' = audit \o NewEvidence(w) \o (IF Resolving(w) THEN <<AnswerRow(w)>> ELSE <<>>)
    /\ Remember(Local(w))
    /\ Respond(w)
    /\ UNCHANGED <<thread, ledger, performed, process, history>>

-----------------------------------------------------------------------------
(* The approval endpoint and the lazy SLA check.                           *)

\* Mutant: any incident that was run takes a decision.
MutantAwaitingAnyRun(row) == row.status # "open"

Awaiting(row) == row.status = "awaiting_approval"

\* Mutant: the parameters are left to the node's validation.
MutantAdmitsAnyParams(row, d) == d.verb \in {"approved", "denied"}

\* The API boundary validates the parameters of an approval (else a 422).
Admissible(row, d) ==
    /\ d.verb \in {"approved", "denied"}
    /\ d.verb = "approved" => row.pending \in Approvable /\ d.params \in ParamsOf[row.pending]

\* decide_approval hands the decision to resume_investigation.
Admit(w, row, d) ==
    /\ pc' = [pc EXCEPT ![w] = "resume"]
    /\ req' = [req EXCEPT ![w] = [IdleHandler EXCEPT !.path = "human", !.body = d, !.seen = row]]
    /\ posted' = IF d.verb = "approved" THEN posted \cup {<<row.pending, d.params>>} ELSE posted

\* Any handler that loads an overdue row resumes the graph on the SLA's behalf.
TimeOut(w, d) ==
    /\ Awaiting(incident) /\ incident.since = "overdue"
    /\ pc' = [pc EXCEPT ![w] = "resume"]
    /\ req' = [req EXCEPT ![w] = [IdleHandler EXCEPT !.path = "timeout", !.body = d,
                                                     !.seen = incident]]
    /\ UNCHANGED posted

\* POST /incidents/{id}/approvals (a row not awaiting approval is a 409).
PostApproval(w) ==
    /\ pc[w] = "idle"
    /\ \E d \in Decisions :
        /\ d.verb \in {"approved", "denied"} /\ (d.verb = "denied" => d.params = NoParams)
        /\ \/ TimeOut(w, d)
           \/ /\ Awaiting(incident) /\ incident.since # "overdue"
              /\ Admissible(incident, d)
              /\ Admit(w, incident, d)
    /\ UNCHANGED <<stores, process, runs, lost, calls, failures>>

\* The same endpoint once its timeout check is over: with the refreshed row, or,
\* when the check raised and was swallowed, with the row it had loaded.
AdmitAfterTimeout(w) ==
    LET row == req[w].seen
        d == req[w].body
    IN  /\ pc[w] = "admit"
        /\ IF Awaiting(row) /\ Admissible(row, d)
           THEN Admit(w, row, d)
           ELSE Release(w) /\ UNCHANGED posted
        /\ UNCHANGED <<stores, process, runs, lost, calls, failures>>

\* GET /incidents, /incidents/{id} and /incidents/{id}/timeline.
ReadIncident(w) ==
    /\ pc[w] = "idle"
    /\ TimeOut(w, NoDecision)
    /\ UNCHANGED <<stores, process, runs, lost, calls, failures>>

\* Mutant: the graph is invoked on initial_state() again.
MutantResumeRestarts(w) ==
    /\ pc[w] = "resume"
    /\ Save(w, "node", [NoThread EXCEPT !.next = "gather_context",
                                        !.evidence = thread.evidence])
    /\ UNCHANGED <<incident, audit, memory, ledger, performed, process, history>>

\* resume_investigation invokes the graph on Command(resume=decision).  A
\* finished thread returns its final state.  An interrupted one re-enters
\* its node: interrupt() returns the RESUME write stored with the
\* checkpoint if there is one, else this decision, which may or may not be
\* stored by the time another invocation, or a crash, comes.
Resume(w) ==
    LET d == IF req[w].path = "timeout" THEN TimedOut ELSE req[w].body
        answer == IF thread.answer # NoDecision THEN thread.answer ELSE d
    IN  /\ pc[w] = "resume"
        /\ IF thread.next = "evaluate_policy"
           THEN /\ Continue(w, "node", [thread EXCEPT !.answer = answer])
                /\ \E stored \in {thread.answer, answer} :
                        thread' = [thread EXCEPT !.answer = stored]
           ELSE /\ Continue(w, IF thread.next = "end" THEN "count" ELSE "node", thread)
                /\ UNCHANGED thread
        /\ UNCHANGED <<incident, audit, memory, ledger, performed, process, history>>

-----------------------------------------------------------------------------
(* The environment.                                                        *)

SlaElapses ==
    /\ incident.since = "fresh"
    /\ incident' = [incident EXCEPT !.since = "overdue"]
    /\ UNCHANGED <<audit, memory, thread, ledger, performed, process, pc, req, history>>

\* A database, checkpointer or non-retriable provider error.
Fail(w) ==
    /\ pc[w] \notin {"idle", "admit"}
    /\ failures < MaxFailures
    /\ failures' = failures + 1
    /\ lost' = IF pc[w] = "claim" THEN lost + 1 ELSE lost
    /\ Raise(w)
    /\ UNCHANGED <<stores, process, posted, runs, calls>>

\* The process dies with every request in flight, and is started again.
Crash ==
    /\ process < MaxCrashes
    /\ process' = process + 1
    /\ lost' = IF \E w \in Workers : pc[w] = "claim" THEN lost + 1 ELSE lost
    /\ pc' = [w \in Workers |-> "idle"]
    /\ req' = [w \in Workers |-> IdleHandler]
    /\ UNCHANGED <<stores, posted, runs, calls, failures>>

-----------------------------------------------------------------------------

\* POST /incidents committed an open row; nothing else exists yet.
Init ==
    /\ incident = OpenRow
    /\ audit = <<>>
    /\ memory = [a \in ActionTypes |-> [count |-> 0, outcome |-> None]]
    /\ thread = NoThread
    /\ ledger = {}
    /\ performed = [k \in Keys |-> 0]
    /\ process = 0
    /\ pc = [w \in Workers |-> "idle"]
    /\ req = [w \in Workers |-> IdleHandler]
    /\ posted = {}
    /\ runs = 0 /\ lost = 0 /\ calls = 0 /\ failures = 0

\* What a handler does once it has been admitted.
Progress(w) ==
    \/ StartRun(w) \/ Invoke(w) \/ Resume(w) \/ AdmitAfterTimeout(w)
    \/ GatherContext(w) \/ Interrupt(w) \/ EvaluatePolicyNoExecution(w)
    \/ ExecuteIdempotently(w) \/ Claim(w) \/ CheckpointPolicy(w) \/ Decide(w)
    \/ CountAudit(w) \/ CommitPause(w) \/ CommitClose(w)

Next ==
    \/ \E w \in Workers :
        \/ LoadForRun(w) \/ PostApproval(w) \/ ReadIncident(w)
        \/ Progress(w)
        \/ Fail(w)
    \/ SlaElapses
    \/ Crash

Spec == Init /\ [][Next]_vars

\* Threads run, time passes and the dashboard keeps reading the incident.
FairSpec ==
    /\ Spec
    /\ \A w \in Workers : WF_vars(Progress(w)) /\ WF_vars(ReadIncident(w))
    /\ WF_vars(SlaElapses)
-----------------------------------------------------------------------------
(* Properties.                                                             *)

DecisionRows == {row \in {audit[i] : i \in DOMAIN audit} : row.kind = "approval_decision"}
Quiet == \A w \in Workers : pc[w] = "idle"

\* A remediation behind the approval gate was performed only if a human had
\* approved that very action with those very parameters, after any crash,
\* retry or race of requests (policy.py, nodes.py _resolve_verdict).
ApprovedBeforePerformed ==
    \A k \in Keys : performed[k] > 0 /\ Gated(k.action) => <<k.action, k.params>> \in posted

\* The parameters humans approved, with whatever action they were shown.
Granted == {approval[2] : approval \in posted}

\* The lifecycle implements the abstract gate (nodes.py _resolve_verdict): no
\* step performs a remediation the gate does not permit at that moment.
Gate == INSTANCE ApprovalGate WITH
            Free     <- AutoExecutable,
            NeedsYes <- Approvable,
            granted  <- Granted
ImplementsGate == Gate!Spec

\* What GatherContext takes as one step is the loop that Investigation models
\* round by round: both implement the abstract Gathering, here through pauses,
\* resumes, crashes and failures.  The evidence is collected once, a resumed
\* thread goes on where it was, and only a diagnosis reaches the policy gate
\* (graph.py resume_investigation, _route_after_gather).
Stage == IF thread.next = None THEN "gather_context" ELSE thread.next
Thread == INSTANCE Gathering WITH
            Actions  <- Diagnoses,
            None     <- None,
            next     <- Stage,
            evidence <- Len(thread.evidence),
            action   <- thread.action
ThreadImplementsGathering == Thread!Spec

\* idempotency.py:53 "Runs `executor()` at most once per (thread_id,
\* action_type, target, params) tuple, ever."
PerformedAtMostOnce == \A k \in Keys : performed[k] <= 1

\* What the ledger does guarantee when requests do not overlap: a remediation
\* is performed again only for a crash or an exception that struck between
\* the call of the tool and the commit of its key.
RepeatedOnlyAfterLoss == \A k \in Keys : performed[k] <= 1 + lost

\* An approval in the audit log is backed by a remediation that was performed
\* (or found already performed), a denial or timeout by none in its own row.
DecisionRowsTrue ==
    \A row \in DecisionRows :
        /\ (row.decision.verb = "approved") <=> (row.remediation # None)
        /\ row.decision.verb = "approved" =>
            \E k \in Keys : k.params = row.decision.params /\ Gated(k.action) /\ k \in ledger
                          /\ performed[k] > 0

\* Once no request is in flight, every gated remediation that was performed
\* has an approval with its parameters in the audit log.  idempotency.py:23
\* promises a crash-and-resume "is visible in the incident's audit trail".
PerformedIsAudited ==
    Quiet /\ Closed(incident.status) =>
        \A k \in Keys : performed[k] > 0 /\ Gated(k.action) =>
            \E row \in DecisionRows :
                row.decision = [verb |-> "approved", params |-> k.params]

\* incidents.py:6 "`POST /incidents/{id}/run` refuses to run an Incident twice".
RunAtMostOnce == runs <= 1

\* The audit log holds the thread's evidence, each record once, in order and
\* before any approval row, although _persist_new_evidence skips as many
\* records as there are rows of any kind, approval rows included.
AuditMatchesEvidence ==
    incident.status = "awaiting_approval" \/ Closed(incident.status) =>
        /\ Len(thread.evidence) <= Len(audit)
        /\ \A i \in DOMAIN audit :
            IF i <= Len(thread.evidence) THEN audit[i] = thread.evidence[i]
                                         ELSE audit[i].kind # "evidence"

\* The incident records the decision its graph acted on, and only one.
DecisionMatchesThread ==
    Closed(incident.status) =>
        /\ \A row \in DecisionRows : row.decision = thread.decision
        /\ DecisionRows = {} <=> thread.decision = NoDecision
        /\ \A i, j \in DOMAIN audit :
            audit[i].kind = "approval_decision" /\ audit[j].kind = "approval_decision" => i = j

\* models.py:149: pending_approval and awaiting_since are set exactly while the
\* incident awaits approval.
PendingIffAwaiting ==
    /\ incident.status = "awaiting_approval" <=> incident.pending # None
    /\ incident.status = "awaiting_approval" <=> incident.since # None

\* "Call once, at incident close": an incident confirms at most one pattern,
\* once (memory.py write_confirmed_memory).
ConfirmedAtMostOnce ==
    \A a, b \in ActionTypes :
        /\ memory[a].count <= 1
        /\ memory[a].count > 0 /\ memory[b].count > 0 => a = b

\* A closed incident never leaves its final status, whatever stale copy a
\* racing handler writes back.
ClosedIsFinal == [][Closed(incident.status) => incident'.status = incident.status]_vars

\* Without overlapping requests the whole record of a closed incident is sealed.
ClosedIsSealed == [][Closed(incident.status) => UNCHANGED <<incident, audit, memory>>]_vars

\* How many steps a handler has left at most.  An approval that finds the pause
\* overdue goes through the graph twice: as the timeout, and then, should that
\* have failed, as the decision.
TimesOutFirst(w) == req[w].path = "timeout" /\ req[w].body # NoDecision /\ pc[w] # "admit"

StepsFrom(p, next) ==
    CASE p = "admit"  -> 10
      [] p = "start"  -> 10
      [] p = "invoke" -> 9
      [] p = "resume" -> 9
      [] p = "node"   -> (CASE next = "gather_context"  -> 8
                            [] next = "evaluate_policy" -> 7
                            [] OTHER                    -> 4)
      [] p = "claim"      -> 6
      [] p = "checkpoint" -> 5
      [] p = "count"      -> 3
      [] p = "commit"     -> 2
      [] OTHER            -> 0

StepsLeft(w) == StepsFrom(pc[w], Local(w).next) + (IF TimesOutFirst(w) THEN 10 ELSE 0)

\* No request is served for ever: whatever other threads, crashes, exceptions
\* and a second pass through the graph do to it, every step of a handler
\* brings its response nearer (incidents.py decide_approval).
EveryRequestEnds ==
    [][\A w \in Workers :
            /\ Progress(w) => StepsLeft(w)' < StepsLeft(w)
            /\ pc[w] # "idle" => StepsLeft(w)' <= StepsLeft(w)]_vars

\* A run cut short is lost: POST /run answers 409, and approvals and the SLA
\* need a pause, so no request ever takes the incident up again.  (What run
\* stuck refutes of graph.py:18, as the safety property behind it.)
LostRunStaysLost ==
    [][incident.status = "running" /\ Quiet => UNCHANGED stores /\ Quiet']_vars

\* incidents.py:13 "A paused incident that nobody decides on in time resolves
\* itself", through crashes and failed resumes.
AwaitingResolves == incident.status = "awaiting_approval" ~> Closed(incident.status)

\* graph.py:18 "a paused or in-flight investigation survives a restart".
InFlightSurvives == incident.status = "running" ~> incident.status # "running"
=============================================================================
