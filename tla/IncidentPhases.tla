--------------------------- MODULE IncidentPhases ---------------------------
(***************************************************************************)
(* The phases of an incident that is run once: either a single POST /run   *)
(* reaches it, or requests do not overlap.  However many approvals, reads  *)
(* and SLA checks then race, and wherever crashes and exceptions strike,   *)
(* every state is in one of four phases, and what the properties of        *)
(* IncidentLifecycle say of any state is read off its phase.               *)
(***************************************************************************)
EXTENDS IncidentLifecycle

\* One request at a time.
Serial == \A v, w \in Workers : v = w

\* A single POST /run, or one request at a time.
OneRun == MaxRunCalls <= 1 \/ Serial

RunningRow == [OpenRow EXCEPT !.status = "running"]

\* Where a handler works on its own copy of the graph state.
Working == {"node", "claim", "checkpoint", "count", "commit"}

Alone(w) == \A v \in Workers \ {w} : pc[v] = "idle"

NoGatedPerformed == \A k \in Keys : performed[k] > 0 => ~Gated(k.action)

\* The ledger holds only what was performed.
LedgerTrue ==
    /\ \A k \in ledger : performed[k] > 0
    /\ \A w \in Workers : pc[w] = "claim" => performed[KeyOf(Local(w))] > 0

\* Called, and not claimed yet.
Unclaimed(k) == \E w \in Workers : pc[w] = "claim" /\ KeyOf(Local(w)) = k

\* Every call of a remediation but one was paid for with a loss; the one is
\* in the ledger, or about to be.
LossesCounted ==
    /\ \A k \in Keys :
        /\ performed[k] <= 1 + lost
        /\ k \notin ledger /\ ~Unclaimed(k) => performed[k] <= lost
    /\ \A k \in ledger : ~Unclaimed(k)

-----------------------------------------------------------------------------
(* Before the run, and while it has not reported.                          *)

Open ==
    /\ incident = OpenRow /\ thread = NoThread
    /\ audit = <<>> /\ posted = {} /\ runs = 0
    /\ NoGatedPerformed
    /\ \A w \in Workers : pc[w] # "idle" =>
        pc[w] = "start" /\ req[w].path = "run" /\ calls > 0 /\ Alone(w)

\* The one handler of the run: what it holds is what it last saved, but for
\* the remediation it executed since.
Runs(w) ==
    /\ Alone(w) /\ req[w].path = "run" /\ req[w].seen = RunningRow
    /\ pc[w] \in {"invoke"} \cup Working
    /\ pc[w] = "invoke" => runs = 0 /\ thread = NoThread
    /\ pc[w] \in {"node", "count", "commit"} => Local(w) = thread
    /\ pc[w] \in {"claim", "checkpoint"} =>
        /\ Local(w) = [thread EXCEPT !.remediation = Local(w).remediation]
        /\ thread.next = "evaluate_policy" /\ ~Gated(thread.action)
    /\ pc[w] \in {"count", "commit"} =>
        thread.next = "end" \/ (thread.next = "evaluate_policy" /\ Gated(thread.action))
    /\ pc[w] = "commit" => req[w].counted = 0

Running ==
    /\ incident = RunningRow
    /\ audit = <<>> /\ posted = {} /\ runs <= 1
    /\ NoGatedPerformed
    /\ thread.decision = NoDecision /\ thread.answer = NoDecision
    /\ thread.next \in {"gather_context", "evaluate_policy"} => thread.remediation = None
    /\ \A w \in Workers : pc[w] # "idle" => Runs(w)

-----------------------------------------------------------------------------
(* The run ended without asking a human: nobody touches the incident again. *)

Settled ==
    /\ Closed(incident.status) /\ incident.pending = None /\ incident.since = None
    /\ audit = thread.evidence /\ posted = {} /\ runs <= 1
    /\ NoGatedPerformed
    /\ thread.decision = NoDecision
    /\ \A w \in Workers : pc[w] = "idle"

-----------------------------------------------------------------------------
(* The run asked a human: approvals, timeouts and reads may race, before    *)
(* and after the first of them closes the incident.                        *)

\* An approval names parameters a human approved the pending action with.
Sound(d) == d.verb = "approved" =>
    /\ thread.action \in Approvable /\ d.params \in ParamsOf[thread.action]
    /\ <<thread.action, d.params>> \in posted

\* A decision that went through the policy node: approved exactly if the
\* remediation was performed, and then in the ledger.
Acted(d, remediation) ==
    /\ d # NoDecision
    /\ d.verb = "approved" <=> remediation # None
    /\ d.verb = "approved" => [action |-> thread.action, params |-> d.params] \in ledger

\* A graph state of the paused thread between two nodes, in the checkpoint or
\* in a handler.
Between(g) ==
    /\ g.next \in {"evaluate_policy", "decide", "end"}
    /\ g.action = thread.action /\ g.evidence = thread.evidence
    /\ Sound(g.answer)
    /\ g.next = "evaluate_policy" => g.remediation = None
    /\ g.next \in {"decide", "end"} => Acted(g.decision, g.remediation)

\* A row as it was while the incident awaits approval or once it is closed.
PausedOrClosed(row) ==
    \/ row.status = "awaiting_approval" /\ row.pending = thread.action /\ row.since # None
    \/ row.status = "diagnosed" /\ row.pending = None /\ row.since = None

\* A handler that resumes the thread.
Resumes(w) ==
    /\ req[w].path \in {"timeout", "human"}
    /\ req[w].path = "human" => Sound(req[w].body) /\ req[w].body # NoDecision
    /\ PausedOrClosed(req[w].seen)
    /\ pc[w] \in {"resume", "admit"} \cup Working
    /\ pc[w] # "admit" => req[w].seen.status = "awaiting_approval"
    /\ pc[w] \in {"node", "count", "commit"} => Between(Local(w))
    /\ pc[w] = "node" /\ Local(w).next = "evaluate_policy" => Local(w).answer # NoDecision
    /\ pc[w] \in {"node", "claim", "checkpoint"} => Local(w).next # "end"
    /\ pc[w] \in {"count", "commit"} => Local(w).next = "end"
    /\ pc[w] \in {"claim", "checkpoint"} =>
        /\ Local(w).next = "evaluate_policy" /\ Local(w).action = thread.action
        /\ Local(w).evidence = thread.evidence /\ Sound(Local(w).answer)
    /\ pc[w] = "claim" => Local(w).remediation # None
    /\ pc[w] = "checkpoint" => Acted(Local(w).answer, Local(w).remediation)
    /\ pc[w] = "commit" => req[w].counted > Len(thread.evidence)

Asked ==
    /\ PausedOrClosed(incident)
    /\ Gated(thread.action) /\ Between(thread) /\ runs <= 1
    /\ Len(thread.evidence) < Len(audit)
    /\ \A i \in DOMAIN audit :
        IF i <= Len(thread.evidence) THEN audit[i] = thread.evidence[i]
                                     ELSE audit[i].kind # "evidence"
    /\ \A row \in DecisionRows : Acted(row.decision, row.remediation)
    /\ \A approval \in posted : approval[1] = thread.action
    /\ ApprovedBeforePerformed
    /\ \A w \in Workers : pc[w] # "idle" => Resumes(w)

Phases == Open \/ Running \/ Settled \/ Asked

\* The run has just asked.
JustAsked ==
    /\ Asked /\ incident.status = "awaiting_approval" /\ DecisionRows = {}
    /\ NoGatedPerformed
    /\ \A w \in Workers : pc[w] = "idle"

-----------------------------------------------------------------------------
(* Requests that do not overlap: a handler works on what the stores hold,  *)
(* and closes the incident once.                                           *)

Unconfirmed == \A a \in ActionTypes : memory[a].count = 0

\* One approval row, with the decision the thread acted on.
OneAnswer == \E i \in DOMAIN audit :
    /\ audit[i].kind = "approval_decision" /\ audit[i].decision = thread.decision
    /\ \A j \in DOMAIN audit : audit[j].kind = "approval_decision" => j = i

\* The node a handler works in is the one the checkpoint leads to.
InStep == \A w \in Workers :
    pc[w] \in {"node", "claim", "checkpoint"} => Local(w).next = thread.next

UpToDate(w) ==
    /\ req[w].seen.status = incident.status
    /\ pc[w] \in {"count", "commit"} => Local(w) = thread

ClosedOnce ==
    /\ ~Closed(incident.status) => Unconfirmed
    /\ ConfirmedAtMostOnce
    /\ Asked =>
        /\ \A w \in Workers : pc[w] # "idle" => UpToDate(w)
        /\ incident.status = "awaiting_approval" => DecisionRows = {}
        /\ incident.status = "diagnosed" => thread.next = "end" /\ OneAnswer

-----------------------------------------------------------------------------
(* Without crashes and exceptions: a remediation that was performed is in  *)
(* the audit log, or a handler is on its way to write it there.            *)

Approval(k) == [verb |-> "approved", params |-> k.params]

Carries(w, k) ==
    \/ pc[w] = "claim" /\ k \notin ledger /\ Local(w).answer = Approval(k)
    \/ pc[w] = "checkpoint" /\ Local(w).answer = Approval(k)
    \/ /\ pc[w] \in {"node", "count", "commit"} /\ Local(w).next \in {"decide", "end"}
       /\ Local(w).decision = Approval(k)

InAudit(k) == \E row \in DecisionRows : row.decision = Approval(k)

NothingLost ==
    Asked => \A k \in Keys : performed[k] > 0 /\ Gated(k.action) =>
                InAudit(k) \/ \E w \in Workers : Carries(w, k)
=============================================================================
