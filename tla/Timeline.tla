----------------------------- MODULE Timeline -----------------------------
(***************************************************************************)
(* What GET /incidents/{id}/timeline makes of the audit log of an incident *)
(* (get_timeline of routers/incidents.py): a pure function of the rows.    *)
(* Rows of one run are in the same order by step as by id, and the kinds   *)
(* of gathered evidence are one.                                           *)
(***************************************************************************)
EXTENDS IncidentLifecycle, FiniteSetsExt

NoProcess == -1

\* Mutant: the process that serves the timeline in place of the one that paused.
MutantPauseProcess(j) == process

\* pause_process_id when row j is reached.
PauseProcess(j) ==
    LET requests == {i \in 1..(j - 1) : audit[i].kind = "approval_requested"}
    IN  IF requests = {} THEN NoProcess ELSE audit[Max(requests)].process

Entry(kind) == [kind |-> kind, label |-> None, deduplicated |-> FALSE, restarted |-> FALSE]

DecisionEntry(j) ==
    [kind         |-> "approval_decided",
     label        |-> IF audit[j].decision.verb \in {"timed_out", "approved"}
                      THEN audit[j].decision.verb ELSE "denied",
     deduplicated |-> audit[j].remediation = "deduplicated",
     restarted    |-> PauseProcess(j) \notin {NoProcess, audit[j].process}]

RowEntry(j) ==
    CASE audit[j].kind = "approval_requested" -> Entry("approval_requested")
      [] audit[j].kind = "approval_decision"  -> DecisionEntry(j)
      [] OTHER -> Entry("evidence_gathered")

get_timeline ==
    <<Entry("incident_started")>> \o [j \in DOMAIN audit |-> RowEntry(j)]
        \o IF Closed(incident.status) THEN <<Entry("final_status")>> ELSE <<>>

Entries == {get_timeline[i] : i \in DOMAIN get_timeline}

\* idempotency.py:23, incidents.py:383: a crash that struck between the call of
\* a remediation and its ledger row shows in the timeline of the closed incident,
\* whatever was decided afterwards and by whichever process: some entry says that
\* a restarted process resumed it.  And a remediation is only said to have been
\* found executed where a restart shows as well, or an exception was retried.
CrashIsVisible ==
    Quiet /\ Closed(incident.status) =>
        /\ lost > failures => \E e \in Entries : e.restarted
        /\ \A e \in Entries : e.deduplicated => e.restarted \/ failures > 0
=============================================================================
