--------------------------- MODULE Timeline_proofs ---------------------------
(***************************************************************************)
(* The timeline of an incident whose requests do not overlap shows every   *)
(* crash that struck a remediation, for any number of crashes, exceptions, *)
(* retries and approvals.                                                  *)
(***************************************************************************)
EXTENDS Timeline, IncidentPhases_proofs

\* The pause was asked for by a process that is gone, or something was retried.
Restarted(r) == process > audit[r].process \/ failures > 0

\* A handler on its way to report the remediation it executed.
Carrying(w) ==
    pc[w] \in {"checkpoint", "node", "count", "commit"} /\ Local(w).remediation # None

\* Row r is the only request; whatever follows it tells of the losses.
Traced(r) ==
    /\ audit[r].kind = "approval_requested" /\ audit[r].process <= process
    /\ \A i \in DOMAIN audit :
        /\ audit[i].kind = "approval_requested" => i = r
        /\ audit[i].kind = "approval_decision" => r < i
    /\ lost > failures => process > audit[r].process
    /\ incident.status = "awaiting_approval" => \A k \in ledger :
        Gated(k.action) => Restarted(r) \/ \E w \in Workers : Carrying(w)
    /\ thread.remediation = "deduplicated" => Restarted(r)
    /\ \A w \in Workers :
        pc[w] # "idle" /\ Local(w).remediation = "deduplicated" => Restarted(r)
    /\ \A i \in DOMAIN audit : audit[i].kind = "approval_decision" =>
        /\ lost > failures => audit[i].process > audit[r].process
        /\ audit[i].remediation = "deduplicated" =>
            audit[i].process > audit[r].process \/ failures > 0

\* A loss before the pause leaves the incident running for ever.
TraceInv ==
    /\ Open \/ Settled => lost = 0
    /\ Running => lost = 0 \/ Quiet
    /\ Asked => \E r \in DOMAIN audit : Traced(r)

-----------------------------------------------------------------------------
(* What is lost.                                                           *)

\* Losses that are no exceptions are crashes, each followed by a new process.
LEMMA Losses ==
    ASSUME TypeOK, [Next]_vars
    PROVE  /\ {process, process', failures, failures', lost, lost'} \subseteq Nat
           /\ process <= process' /\ failures <= failures'
           /\ lost' > failures' => lost > failures \/ process < process'
           /\ (\A w \in Workers : pc[w] # "claim") => lost' = lost
<1> USE DEF stores, history
<1>0. process \in Nat /\ failures \in Nat /\ lost \in Nat
  BY DEF TypeOK
<1>1. CASE \E w \in Workers : Fail(w)
  BY <1>0, <1>1 DEF Fail
<1>2. CASE Crash
  BY <1>0, <1>2 DEF Crash
<1>3. CASE ~Crash /\ \A w \in Workers : ~Fail(w)
  <2>1. ASSUME NEW w \in Workers, LoadForRun(w) \/ PostApproval(w) \/ ReadIncident(w)
        PROVE  UNCHANGED <<process, failures, lost>>
    BY <2>1 DEF LoadForRun, PostApproval, ReadIncident
  <2>2. ASSUME NEW w \in Workers, Progress(w)
        PROVE  UNCHANGED <<process, failures, lost>>
    BY <2>2 DEF Progress, StartRun, Invoke, Resume, AdmitAfterTimeout, GatherContext, Interrupt,
                EvaluatePolicyNoExecution, ExecuteIdempotently, Claim, CheckpointPolicy, Decide,
                CountAudit, CommitPause, CommitClose
  <2>3. UNCHANGED <<process, failures, lost>>
    BY <1>3, <2>1, <2>2 DEF Next, vars, SlaElapses
  <2> QED
    BY <1>0, <2>3
<1> QED
  BY <1>1, <1>2, <1>3

-----------------------------------------------------------------------------
(* Until a human is asked.                                                 *)

\* The phases tell themselves apart.
LEMMA Apart ==
    /\ Open => ~Running /\ ~Settled /\ ~Asked
    /\ Running => ~Settled /\ ~Asked
    /\ Settled => ~Asked
  BY DEF Open, Running, RunningRow, OpenRow, Settled, Asked, PausedOrClosed, Closed

\* The run ends with a commit, or is lost with its handler.
LEMMA RunEnds ==
    ASSUME TypeInv, Running, [Next]_vars, NEW w \in Workers, Runs(w), pc[w] # "idle"
    PROVE  \/ CommitPause(w) \/ CommitClose(w)
           \/ incident' = incident /\ (lost' = lost \/ Quiet')
<1> USE DEF stores, history
<1>0. /\ TypeOK /\ incident.status = "running" /\ incident.since = None
      /\ \A v \in Workers \ {w} : pc[v] = "idle"
  BY DEF TypeInv, Running, RunningRow, OpenRow, Runs, Alone
<1>1. ASSUME NEW v \in Workers, LoadForRun(v) \/ PostApproval(v) \/ ReadIncident(v)
      PROVE  FALSE
  BY <1>0, <1>1 DEF LoadForRun, PostApproval, ReadIncident, TimeOut, Awaiting
<1>2. ~SlaElapses
  BY <1>0 DEF SlaElapses, None
<1>3. ASSUME NEW v \in Workers, Progress(v) \/ Fail(v)
      PROVE  v = w
  BY <1>0, <1>3, ByPoint DEF Fail, Working
<1>4. CASE Fail(w)
  <2>1. Raise(w) /\ incident' = incident /\ req[w].path = "run"
    BY <1>4 DEF Fail, Runs
  <2>2. Quiet'
    BY <1>0, <2>1, Raised DEF Others, Quiet
  <2> QED
    BY <2>1, <2>2
<1>5. CASE Progress(w)
  <2>1. pc[w] \in {"invoke"} \cup Working
    BY DEF Runs
  <2>2. \/ Invoke(w) \/ GatherContext(w) \/ Interrupt(w) \/ EvaluatePolicyNoExecution(w)
        \/ ExecuteIdempotently(w) \/ Claim(w) \/ CheckpointPolicy(w) \/ Decide(w) \/ CountAudit(w)
        \/ CommitPause(w) \/ CommitClose(w)
    BY <1>5, <2>1, ByPoint DEF Working
  <2> QED
    BY <2>2 DEF Invoke, GatherContext, Interrupt, EvaluatePolicyNoExecution, ExecuteIdempotently,
                Claim, CheckpointPolicy, Decide, CountAudit
<1>6. CASE Crash
  BY <1>6 DEF Crash, Quiet
<1>7. CASE UNCHANGED vars
  BY <1>7 DEF vars
<1> QED
  BY <1>1, <1>2, <1>3, <1>4, <1>5, <1>6, <1>7 DEF Next

\* The request is a row of its own, and nothing was lost or executed before it.
LEMMA PauseIsTraced ==
    ASSUME TypeInv, LedgerTrue', TypeInv', Running, lost = 0, NEW w \in Workers, Runs(w),
           CommitPause(w)
    PROVE  \E r \in DOMAIN audit' : Traced(r)'
<1> USE DEF stores, history
<1> DEFINE row == [kind |-> "approval_requested", action |-> thread.action, process |-> process]
           n == Len(thread.evidence)
           r == n + 1
<1>0. /\ thread.evidence \in Seq(Evidence) /\ process \in Nat /\ failures' \in Nat /\ n \in Nat
      /\ ledger' \subseteq Keys
  BY DEF TypeInv, TypeOK, GraphStates
<1>1. audit' = thread.evidence \o <<row>>
  BY PauseRows
<1>2. /\ DOMAIN audit' = 1..(n + 1) /\ audit'[r] = row
      /\ \A i \in 1..n : audit'[i] = thread.evidence[i]
  <2> HIDE DEF row
  <2> QED
    BY <1>0, <1>1
<1>3. \A i \in 1..n : audit'[i].kind = "evidence"
  <2>1. \A i \in 1..n : thread.evidence[i] \in Evidence
    BY <1>0
  <2> QED
    BY <1>2, <2>1 DEF Evidence
<1>4. \A i \in DOMAIN audit' : /\ audit'[i].kind = "approval_requested" => i = r
                               /\ audit'[i].kind # "approval_decision"
  <2> SUFFICES ASSUME NEW i \in DOMAIN audit'
               PROVE  /\ audit'[i].kind = "approval_requested" => i = r
                      /\ audit'[i].kind # "approval_decision"
    OBVIOUS
  <2>1. i \in 1..n \/ i = r
    <3> HIDE DEF n, row
    <3> QED
      BY <1>0, <1>2
  <2>2. row.kind = "approval_requested"
    OBVIOUS
  <2> HIDE DEF n, r, row
  <2> QED
    BY <1>2, <1>3, <2>1, <2>2
<1>5. /\ audit'[r].kind = "approval_requested" /\ audit'[r].process = process
      /\ UNCHANGED <<process, lost, thread>>
  <2>1. UNCHANGED <<process, lost, thread>>
    BY DEF CommitPause
  <2>2. row.kind = "approval_requested" /\ row.process = process
    OBVIOUS
  <2> HIDE DEF n, r, row
  <2> QED
    BY <1>2, <2>1, <2>2
<1>6. JustAsked'
  BY RunPauses
<1>7. \A k \in ledger' : ~Gated(k.action)
  BY <1>0, <1>6 DEF JustAsked, NoGatedPerformed, LedgerTrue
<1>8. thread.remediation # "deduplicated"
  BY DEF CommitPause, Runs, Running, None
<1>9. \A v \in Workers : pc'[v] = "idle"
  BY <1>6 DEF JustAsked
<1>10. r \in DOMAIN audit'
  BY <1>0, <1>2
<1>11. PICK last \in DOMAIN audit' : last = r
  BY <1>10
<1> HIDE DEF row, n, r
<1>12. Traced(last)'
  BY <1>0, <1>4, <1>5, <1>7, <1>8, <1>9, <1>11 DEF Traced
<1> QED
  BY <1>12

LEMMA TraceBegins ==
    ASSUME OneRun, OneRunInv, TraceInv, ~Asked, [Next]_vars
    PROVE  TraceInv'
<1>0. TypeInv /\ TypeOK /\ OneRunInv' /\ (Open \/ Running \/ Settled)
  BY OneRunStep DEF OneRunInv, Phases, TypeInv
<1>1. CASE Open
  <2>1. (Open' \/ Running') /\ \A w \in Workers : pc[w] # "claim"
    BY <1>0, <1>1, OpenStep DEF Open
  <2>2. lost' = 0
    BY <1>0, <1>1, <2>1, Losses DEF TraceInv
  <2>3. ~Asked'
    BY <2>1, Apart DEF Open, Running, RunningRow, OpenRow, Asked, PausedOrClosed
  <2> QED
    BY <2>2, <2>3 DEF TraceInv
<1>2. CASE Settled
  <2>1. Settled' /\ \A w \in Workers : pc[w] # "claim"
    BY <1>0, <1>2, SettledStep DEF Settled
  <2>2. lost' = 0
    BY <1>0, <1>2, <2>1, Losses DEF TraceInv
  <2>3. ~Asked'
    BY <2>1 DEF Settled, Asked
  <2> QED
    BY <2>2, <2>3 DEF TraceInv
<1>3. CASE Running
  <2>1. ASSUME incident' = incident
        PROVE  ~Open' /\ ~Settled' /\ ~Asked'
    BY <1>3, <2>1 DEF Running, RunningRow, OpenRow, Open, Settled, Asked, PausedOrClosed, Closed
  <2>2. CASE Quiet
    <3>1. Quiet' /\ incident' = incident
      BY <1>0, <1>3, <2>2, RunStaysLost DEF stores
    <3> QED
      BY <2>1, <3>1 DEF TraceInv
  <2>3. CASE ~Quiet
    <3>1. PICK w \in Workers : pc[w] # "idle"
      BY <2>3 DEF Quiet
    <3>2. Runs(w) /\ lost = 0
      BY <1>3, <2>3, <3>1 DEF Running, TraceInv
    <3>3. CASE incident' = incident /\ (lost' = lost \/ Quiet')
      BY <2>1, <3>2, <3>3 DEF TraceInv
    <3>4. CASE CommitPause(w)
      <4>1. \E r \in DOMAIN audit' : Traced(r)'
        BY <1>0, <1>3, <3>2, <3>4, PauseIsTraced DEF OneRunInv
      <4>2. Asked'
        BY <1>0, <1>3, <3>2, <3>4, RunPauses DEF JustAsked
      <4>3. ~Open' /\ ~Running' /\ ~Settled'
        BY <4>2 DEF Open, Running, RunningRow, OpenRow, Settled, Asked, PausedOrClosed, Closed
      <4> QED
        BY <4>1, <4>3 DEF TraceInv
    <3>5. CASE CommitClose(w)
      <4>1. lost' = 0
        BY <3>2, <3>5 DEF CommitClose, history
      <4>2. Settled'
        BY <1>0, <1>3, <3>2, <3>5, RunCloses
      <4>3. ~Asked'
        BY <4>2 DEF Settled, Asked
      <4> QED
        BY <4>1, <4>3 DEF TraceInv
    <3> QED
      BY <1>0, <1>3, <3>1, <3>2, <3>3, <3>4, <3>5, RunEnds
  <2> QED
    BY <2>2, <2>3
<1> QED
  BY <1>0, <1>1, <1>2, <1>3

-----------------------------------------------------------------------------
(* While the incident awaits approval.                                     *)

\* A step that restarts or retries explains whatever follows.
LEMMA RestartTraces ==
    ASSUME TypeOK, TypeOK', [Next]_vars, NEW r \in DOMAIN audit, Traced(r),
           UNCHANGED audit, DecisionRows = {}, Restarted(r)'
    PROVE  Traced(r)'
<1>1. /\ {process, process', failures, failures', lost, lost'} \subseteq Nat
      /\ process <= process' /\ failures <= failures'
      /\ lost' > failures' => lost > failures \/ process < process'
  BY Losses
<1>2. audit[r].process \in Nat
  <2>1. audit[r] \in Evidence \cup Requests \cup Answers
    BY DEF TypeOK
  <2> QED
    BY <2>1 DEF Traced, Evidence, Requests, Answers
<1>3. \A i \in DOMAIN audit : audit[i].kind # "approval_decision"
  BY DEF DecisionRows
<1> QED
  BY <1>1, <1>2, <1>3 DEF Traced

\* What a handler found executed, or has executed, while nothing is explained yet.
Clean(w) ==
    /\ thread.remediation # "deduplicated"
    /\ pc[w] # "idle" => Local(w).remediation # "deduplicated"
    /\ \A k \in ledger : Gated(k.action) => Carrying(w)

LEMMA CleanTraces ==
    ASSUME Serial, TypeOK, TypeOK', [Next]_vars, NEW r \in DOMAIN audit, Traced(r),
           UNCHANGED audit, DecisionRows = {}, NEW w \in Workers, Clean(w)'
    PROVE  Traced(r)'
<1>1. CASE Restarted(r)'
  BY <1>1, RestartTraces
<1>2. CASE ~Restarted(r)'
  <2>1. /\ {process, process', failures, failures', lost, lost'} \subseteq Nat
        /\ process <= process' /\ failures <= failures'
        /\ lost' > failures' => lost > failures \/ process < process'
    BY Losses
  <2>2. audit[r].process \in Nat
    <3>1. audit[r] \in Evidence \cup Requests \cup Answers
      BY DEF TypeOK
    <3> QED
      BY <3>1 DEF Traced, Evidence, Requests, Answers
  <2>3. \A i \in DOMAIN audit : audit[i].kind # "approval_decision"
    BY DEF DecisionRows
  <2>4. \A v \in Workers : v = w
    BY DEF Serial
  <2> QED
    BY <2>1, <2>2, <2>3, <2>4 DEF Traced, Clean
<1> QED
  BY <1>1, <1>2

LEMMA Unrestarted ==
    ASSUME Serial, Asked, incident.status = "awaiting_approval", NEW r \in DOMAIN audit,
           Traced(r), ~Restarted(r), NEW w \in Workers
    PROVE  Clean(w)
  BY DEF Serial, Traced, Clean

\* The steps of the one handler at work keep it clean: it finds in the ledger
\* only what an earlier handler, since lost, has put there.
LEMMA CleanActs ==
    ASSUME Serial, TypeInv, Asked, LossesCounted, NEW w \in Workers, Clean(w), Progress(w),
           ~CommitClose(w)
    PROVE  Clean(w)'
<1> USE DEF stores, history
<1>0. /\ TypeOK /\ Local(w) \in GraphStates /\ thread \in GraphStates /\ ledger \subseteq Keys
      /\ pc \in [Workers -> Points] /\ req \in [Workers -> Handlers]
  BY LocalType DEF TypeInv, TypeOK
<1>1. Resumes(w) /\ pc[w] # "idle"
  BY AskedActs
<1>2. Local(w).remediation # "deduplicated"
  BY <1>1 DEF Clean
<1>3. CASE Resume(w)
  <2>1. UNCHANGED ledger /\ pc[w] = "resume"
    BY <1>3 DEF Resume
  <2>2. \A k \in ledger : ~Gated(k.action)
    BY <2>1 DEF Clean, Carrying
  <2>3. PICK p, g : /\ Continue(w, p, g) /\ g.remediation = thread.remediation
                    /\ thread'.remediation = thread.remediation
    <3>1. \A d : [thread EXCEPT !.answer = d].remediation = thread.remediation
      BY <1>0 DEF GraphStates
    <3> QED
      BY <1>3, <3>1 DEF Resume
  <2>4. Local(w)' = g
    BY <1>0, <2>3, Continued
  <2> QED
    BY <2>1, <2>2, <2>3, <2>4 DEF Clean
<1>4. CASE AdmitAfterTimeout(w)
  <2>1. UNCHANGED <<ledger, thread>> /\ pc[w] = "admit"
    BY <1>4 DEF AdmitAfterTimeout
  <2>2. \A k \in ledger : ~Gated(k.action)
    BY <2>1 DEF Clean, Carrying
  <2>3. req'[w].local = NoThread
    <3>1. Release(w) \/ Admit(w, req[w].seen, req[w].body)
      BY <1>4 DEF AdmitAfterTimeout
    <3>2. CASE Release(w)
      BY <1>0, <3>2, Released DEF IdleHandler
    <3>3. CASE Admit(w, req[w].seen, req[w].body)
      <4>1. req'[w] = [IdleHandler EXCEPT !.path = "human", !.body = req[w].body,
                                          !.seen = req[w].seen]
        BY <1>0, <3>3 DEF Admit
      <4> QED
        BY <4>1 DEF IdleHandler
    <3> QED
      BY <3>1, <3>2, <3>3
  <2>4. Local(w)'.remediation = None
    BY <2>3 DEF Local, NoThread
  <2> QED
    BY <2>1, <2>2, <2>4 DEF Clean, None
<1>5. CASE EvaluatePolicyNoExecution(w)
  <2>1. UNCHANGED <<ledger, thread>> /\ pc[w] = "node" /\ Local(w).next = "evaluate_policy"
    BY <1>5 DEF EvaluatePolicyNoExecution, AtPolicy
  <2>2. \A k \in ledger : ~Gated(k.action)
    BY <1>1, <2>1 DEF Clean, Carrying, Resumes, Between
  <2>3. Local(w)' = Local(w)
    BY <1>5 DEF EvaluatePolicyNoExecution, Local
  <2> QED
    BY <1>2, <2>1, <2>2, <2>3 DEF Clean
<1>6. CASE ExecuteIdempotently(w)
  <2>1. UNCHANGED <<ledger, thread>> /\ pc[w] = "node" /\ Local(w).next = "evaluate_policy"
    BY <1>6 DEF ExecuteIdempotently, AtPolicy
  <2>2. /\ \A k \in ledger : ~Gated(k.action)
        /\ Gated(Local(w).action)
    BY <1>1, <2>1 DEF Clean, Carrying, Resumes, Between, Asked
  <2>3. KeyOf(Local(w)) \notin ledger
    BY <2>2 DEF KeyOf
  <2>4. Local(w)' = [Local(w) EXCEPT !.remediation = "executed"]
    BY <1>6, <2>3, Executed
  <2>5. Local(w)'.remediation = "executed"
    BY <1>0, <2>4 DEF GraphStates
  <2> QED
    BY <2>1, <2>2, <2>5 DEF Clean
<1>7. CASE Claim(w)
  <2>1. pc[w] = "claim" /\ UNCHANGED thread
    BY <1>7 DEF Claim
  <2>2. Unclaimed(KeyOf(Local(w)))
    BY <2>1 DEF Unclaimed
  <2>3. KeyOf(Local(w)) \notin ledger
    BY <2>2 DEF LossesCounted
  <2>4. pc'[w] = "checkpoint" /\ req'[w] = req[w]
    BY <1>7, <2>3, Claimed
  <2>5. Local(w)' = Local(w) /\ Local(w).remediation # None
    BY <1>1, <2>1, <2>4 DEF Resumes, Local
  <2> QED
    BY <1>2, <2>1, <2>4, <2>5 DEF Clean, Carrying
<1>8. CASE CheckpointPolicy(w) \/ Decide(w)
  <2>1. PICK p \in {"node", "count"} : \E g :
            /\ Continue(w, p, g) /\ thread' = g /\ g.remediation = Local(w).remediation
            /\ pc[w] \in {"checkpoint", "node"}
    <3>1. \A n, d, e : /\ [Local(w) EXCEPT !.next = n].remediation = Local(w).remediation
                       /\ [Local(w) EXCEPT !.next = n, !.decision = d, !.answer = e].remediation
                            = Local(w).remediation
      BY <1>0 DEF GraphStates
    <3>2. CASE Decide(w)
      BY <3>1, <3>2 DEF Decide, Save
    <3>3. CASE CheckpointPolicy(w)
      <4> DEFINE d == IF Gated(Local(w).action) THEN Local(w).answer ELSE NoDecision
                 g == [Local(w) EXCEPT !.next = "decide", !.decision = d,
                                       !.answer = NoDecision]
      <4>1. Continue(w, "node", g) /\ thread' = g
        BY <3>3 DEF CheckpointPolicy, Save
      <4>2. g.remediation = Local(w).remediation
        <5> HIDE DEF d
        <5> QED
          BY <3>1
      <4> HIDE DEF d, g
      <4> QED
        BY <3>3, <4>1, <4>2 DEF CheckpointPolicy
    <3> QED
      BY <1>8, <3>2, <3>3
  <2>2. PICK g : /\ Continue(w, p, g) /\ thread' = g
                 /\ g.remediation = Local(w).remediation
    BY <2>1
  <2>3. Local(w)' = g /\ pc'[w] = p
    BY <1>0, <2>2, Continued
  <2>4. UNCHANGED ledger
    BY <1>8 DEF CheckpointPolicy, Decide
  <2> QED
    BY <1>2, <2>1, <2>2, <2>3, <2>4 DEF Clean, Carrying
<1>9. CASE CountAudit(w)
  <2>1. UNCHANGED <<ledger, thread>> /\ pc[w] = "count" /\ pc'[w] = "commit"
    BY <1>0, <1>9 DEF CountAudit
  <2>2. Local(w)' = Local(w)
    BY <1>0, <1>9 DEF CountAudit, Local, Handlers
  <2> QED
    BY <1>2, <2>1, <2>2 DEF Clean, Carrying
<1> QED
  BY <1>3, <1>4, <1>5, <1>6, <1>7, <1>8, <1>9, AskedActs


\* Whatever follows the request is told apart until somebody decides: a loss by
\* the restart or the exception it takes, a repetition by the loss before it.
LEMMA TraceAwaits ==
    ASSUME Serial, OneRunInv, OneRunInv', Asked, LossesCounted, ClosedOnce,
           incident.status = "awaiting_approval", [Next]_vars,
           \A w \in Workers : ~CommitClose(w), NEW r \in DOMAIN audit, Traced(r)
    PROVE  UNCHANGED audit /\ Traced(r)'
<1> USE DEF stores, history
<1>0. TypeInv /\ LedgerTrue /\ TypeOK /\ TypeOK' /\ DecisionRows = {}
  BY DEF OneRunInv, TypeInv, ClosedOnce
<1>1. /\ process \in Nat /\ failures \in Nat /\ audit[r].process \in Nat
      /\ audit[r].process <= process
  <2>1. audit[r] \in Evidence \cup Requests \cup Answers
    BY <1>0 DEF TypeOK
  <2> QED
    BY <1>0, <2>1 DEF TypeOK, Traced, Evidence, Requests, Answers
<1>2. CASE UNCHANGED vars
  BY <1>2 DEF vars, Traced, Restarted, Carrying, Local
<1>3. CASE SlaElapses
  <2>1. /\ incident'.status = incident.status
        /\ UNCHANGED <<audit, thread, ledger, process, pc, req, lost, failures>>
    BY <1>0, <1>3 DEF SlaElapses, TypeOK, Rows
  <2> QED
    BY <2>1 DEF Traced, Restarted, Carrying, Local
<1>4. CASE Crash
  <2>1. process' = process + 1 /\ UNCHANGED audit
    BY <1>4 DEF Crash
  <2>2. Restarted(r)'
    BY <1>1, <2>1 DEF Restarted
  <2> QED
    BY <1>0, <2>1, <2>2, RestartTraces
<1>5. ASSUME NEW w \in Workers, Fail(w)
      PROVE  UNCHANGED audit /\ Traced(r)'
  <2>1. failures' = failures + 1 /\ UNCHANGED audit
    BY <1>5 DEF Fail
  <2>2. Restarted(r)'
    BY <1>1, <2>1 DEF Restarted
  <2> QED
    BY <1>0, <2>1, <2>2, RestartTraces
<1>6. ASSUME NEW w \in Workers, LoadForRun(w)
      PROVE  FALSE
  BY <1>6 DEF LoadForRun
<1>7. ASSUME NEW w \in Workers, Progress(w) \/ PostApproval(w) \/ ReadIncident(w)
      PROVE  UNCHANGED audit /\ Traced(r)'
  <2>1. /\ UNCHANGED <<audit, process, failures>>
    <3>1. UNCHANGED audit
      BY <1>0, <1>7, UpToDateKept DEF ClosedOnce
    <3>2. CASE Progress(w)
      <4>1. \/ Resume(w) \/ AdmitAfterTimeout(w) \/ EvaluatePolicyNoExecution(w)
            \/ ExecuteIdempotently(w) \/ Claim(w) \/ CheckpointPolicy(w) \/ Decide(w)
            \/ CountAudit(w) \/ CommitClose(w)
        BY <3>2, AskedActs
      <4> QED
        BY <3>1, <4>1 DEF Resume, AdmitAfterTimeout, EvaluatePolicyNoExecution,
                          ExecuteIdempotently, Claim, CheckpointPolicy, Decide, CountAudit,
                          CommitClose
    <3> QED
      BY <1>7, <3>1, <3>2 DEF PostApproval, ReadIncident
  <2>2. CASE Restarted(r)
    <3>1. Restarted(r)'
      BY <2>1, <2>2 DEF Restarted
    <3> QED
      BY <1>0, <2>1, <3>1, RestartTraces
  <2>3. CASE ~Restarted(r)
    <3>1. Clean(w)
      BY <2>3, Unrestarted
    <3>2. CASE Progress(w)
      <4>1. Clean(w)'
        BY <1>0, <3>1, <3>2, CleanActs
      <4> QED
        BY <1>0, <2>1, <4>1, CleanTraces
    <3>3. CASE PostApproval(w) \/ ReadIncident(w)
      <4>1. pc[w] = "idle" /\ UNCHANGED <<thread, ledger>>
        BY <3>3 DEF PostApproval, ReadIncident
      <4>2. \A k \in ledger : ~Gated(k.action)
        BY <3>1, <4>1 DEF Clean, Carrying
      <4>3. req'[w].local = NoThread
        <5>1. PICK d : TimeOut(w, d) \/ Admit(w, incident, d)
          BY <3>3 DEF PostApproval, ReadIncident
        <5>2. \/ req' = [req EXCEPT ![w] = [IdleHandler EXCEPT !.path = "timeout", !.body = d,
                                                               !.seen = incident]]
              \/ req' = [req EXCEPT ![w] = [IdleHandler EXCEPT !.path = "human", !.body = d,
                                                               !.seen = incident]]
          BY <5>1 DEF TimeOut, Admit
        <5>3. PICK path \in {"timeout", "human"} :
                req' = [req EXCEPT ![w] = [IdleHandler EXCEPT !.path = path, !.body = d,
                                                              !.seen = incident]]
          BY <5>2
        <5>4. req \in [Workers -> Handlers]
          BY <1>0 DEF TypeOK
        <5>5. req'[w] = [IdleHandler EXCEPT !.path = path, !.body = d, !.seen = incident]
          BY <5>3, <5>4
        <5> QED
          BY <5>5 DEF IdleHandler
      <4>4. Local(w)'.remediation = None
        BY <4>3 DEF Local, NoThread
      <4>5. Clean(w)'
        BY <3>1, <4>1, <4>2, <4>4 DEF Clean, None
      <4> QED
        BY <1>0, <2>1, <4>5, CleanTraces
    <3> QED
      BY <1>7, <3>2, <3>3
  <2> QED
    BY <2>1, <2>2, <2>3
<1> QED
  BY <1>2, <1>3, <1>4, <1>5, <1>6, <1>7 DEF Next


-----------------------------------------------------------------------------
(* Once somebody decided.                                                  *)

\* The answer's row says who wrote it, and whether it found the remediation
\* executed: after a crash, a later process than the one that asked.
LEMMA AnswerIsTraced ==
    ASSUME Serial, OneRunInv, OneRunInv', Asked, LossesCounted, ClosedOnce,
           incident.status = "awaiting_approval", NEW w \in Workers, CommitClose(w),
           NEW r \in DOMAIN audit, Traced(r)
    PROVE  r \in DOMAIN audit' /\ Traced(r)'
<1> USE DEF stores, history
<1> DEFINE row == AnswerRow(w)
           S == Evidence \cup Requests \cup Answers
<1>0. /\ TypeInv /\ TypeOK /\ DecisionRows = {} /\ audit \in Seq(S)
      /\ process \in Nat /\ audit[r].process \in Nat /\ Len(audit) \in Nat
  <2>1. TypeInv /\ TypeOK /\ DecisionRows = {} /\ audit \in Seq(S)
    BY DEF OneRunInv, TypeInv, TypeOK, ClosedOnce
  <2>2. audit[r] \in S
    BY <2>1
  <2> QED
    BY <2>1, <2>2 DEF TypeOK, Traced, Evidence, Requests, Answers
<1>1. Resumes(w) /\ UpToDate(w) /\ pc[w] = "commit"
  BY DEF Asked, ClosedOnce, CommitClose
<1>2. /\ audit' = audit \o <<>> \o <<row>> /\ row \in S /\ row.kind = "approval_decision"
      /\ row.process = process /\ row.remediation = thread.remediation
      /\ incident'.status = "diagnosed"
  BY <1>0, <1>1, ResumeCloses DEF AnswerRow, UpToDate
<1> HIDE DEF row, S
<1>3. /\ \A i \in DOMAIN audit' : audit'[i] = IF i <= Len(audit) THEN audit[i] ELSE row
      /\ DOMAIN audit' = 1..(Len(audit) + 1) /\ DOMAIN audit = 1..Len(audit)
  BY <1>0, <1>2, OneMoreRow
<1>4. r \in DOMAIN audit' /\ r \in Nat /\ audit'[r] = audit[r]
  BY <1>0, <1>3
<1>5. UNCHANGED <<process, failures, lost, thread>>
  BY DEF CommitClose
<1>6. \A v \in Workers : pc'[v] # "idle" => Local(v)'.remediation = thread.remediation
  <2> SUFFICES ASSUME NEW v \in Workers, pc'[v] # "idle"
               PROVE  Local(v)'.remediation = thread.remediation
    OBVIOUS
  <2>1. v = w /\ req'[w] = [req[w] EXCEPT !.seen = incident']
    BY <1>0, Released DEF Serial, CommitClose, Respond, TypeOK
  <2>2. req'[w].local = req[w].local
    BY <1>0, <2>1 DEF TypeOK, Handlers
  <2> QED
    BY <1>1, <2>1, <2>2 DEF Local, UpToDate
<1>7. \A i \in DOMAIN audit' :
        \/ i \in DOMAIN audit /\ audit'[i] = audit[i] /\ audit[i].kind # "approval_decision"
        \/ i = Len(audit) + 1 /\ audit'[i] = row
  <2>1. \A i \in DOMAIN audit : audit[i].kind # "approval_decision"
    BY <1>0 DEF DecisionRows
  <2> QED
    BY <1>0, <1>3, <2>1
<1>8. r < Len(audit) + 1
  BY <1>0, <1>3
<1>9. row.kind # "approval_requested"
  BY <1>2
<1> QED
  BY <1>0, <1>2, <1>4, <1>5, <1>6, <1>7, <1>8, <1>9 DEF Traced, Restarted

LEMMA TraceStep ==
    ASSUME Serial, OneRunInv, LossesCounted, ClosedOnce, TraceInv, [Next]_vars
    PROVE  TraceInv'
<1>0. OneRun /\ OneRunInv' /\ TypeInv /\ LedgerTrue /\ TypeOK
  BY OneRunStep DEF OneRun, OneRunInv, TypeInv
<1>1. CASE ~Asked
  BY <1>0, <1>1, TraceBegins
<1>2. CASE Asked
  <2>1. PICK r \in DOMAIN audit : Traced(r)
    BY <1>2 DEF TraceInv
  <2>2. r \in DOMAIN audit' /\ Traced(r)'
    <3>1. CASE incident.status = "diagnosed"
      <4>1. /\ UNCHANGED <<incident, audit, thread>>
            /\ (\A w \in Workers : pc'[w] = "idle") \/ UNCHANGED <<pc, req>>
        BY <1>0, <1>2, <3>1, AnsweredStep
      <4>2. \A w \in Workers : pc[w] # "claim"
        BY <1>2, <3>1 DEF Asked, Resumes, ClosedOnce, UpToDate
      <4>3. /\ {process, process', failures, failures', lost, lost'} \subseteq Nat
            /\ process <= process' /\ failures <= failures' /\ lost' = lost
        BY <1>0, <4>2, Losses
      <4>4. audit[r].process \in Nat
        <5>1. audit[r] \in Evidence \cup Requests \cup Answers
          BY <1>0 DEF TypeOK
        <5> QED
          BY <2>1, <5>1 DEF Traced, Evidence, Requests, Answers
      <4>5. Restarted(r) => Restarted(r)'
        BY <4>1, <4>3, <4>4 DEF Restarted
      <4>6. lost' > failures' => lost > failures
        BY <4>3
      <4>7. failures > 0 => failures' > 0
        BY <4>3
      <4>8. audit[r].process <= process' /\ (process > audit[r].process => process' > audit[r].process)
        BY <2>1, <4>3, <4>4 DEF Traced
      <4> QED
        BY <2>1, <3>1, <4>1, <4>5, <4>6, <4>7, <4>8 DEF Traced, Local
    <3>2. CASE incident.status = "awaiting_approval" /\ \A w \in Workers : ~CommitClose(w)
      BY <1>0, <1>2, <2>1, <3>2, TraceAwaits
    <3>3. CASE incident.status = "awaiting_approval" /\ \E w \in Workers : CommitClose(w)
      BY <1>0, <1>2, <2>1, <3>3, AnswerIsTraced
    <3> QED
      BY <1>2, <3>1, <3>2, <3>3 DEF Asked, PausedOrClosed
  <2>3. Asked'
    BY <1>0, <1>2, AskedStep
  <2>4. ~Open' /\ ~Running' /\ ~Settled'
    BY <2>3 DEF Open, Running, RunningRow, OpenRow, Settled, Asked, PausedOrClosed, Closed
  <2>5. PICK p \in DOMAIN audit' : p = r
    BY <2>2
  <2>6. Traced(p)'
    BY <2>2, <2>5
  <2> QED
    BY <2>3, <2>4, <2>6 DEF TraceInv
<1> QED
  BY <1>1, <1>2


-----------------------------------------------------------------------------
(* The timeline made of these rows.                                        *)

\* What the timeline shows: the rows' entries, the start and the final status.
LEMMA TimelineEntries ==
    ASSUME TypeOK
    PROVE  /\ \A j \in DOMAIN audit : RowEntry(j) \in Entries
           /\ \A e \in Entries : \/ e \in {Entry("incident_started"), Entry("final_status")}
                                 \/ \E j \in DOMAIN audit : e = RowEntry(j)
<1> DEFINE first == <<Entry("incident_started")>>
           rows == [j \in DOMAIN audit |-> RowEntry(j)]
           final == IF Closed(incident.status) THEN <<Entry("final_status")>> ELSE <<>>
           ends == {Entry("incident_started"), Entry("final_status")}
           S == ends \cup {RowEntry(j) : j \in DOMAIN audit}
           n == Len(audit)
<1>1. /\ first \in Seq(S) /\ Len(first) = 1 /\ final \in Seq(S)
      /\ \A i \in 1..Len(first) : first[i] \in ends
      /\ \A i \in 1..Len(final) : final[i] \in ends
      /\ Len(final) \in Nat
  <2>1. ends \subseteq S
    OBVIOUS
  <2>2. \A x \in ends : /\ <<x>> \in Seq(S) /\ Len(<<x>>) = 1
                         /\ \A i \in 1..1 : <<x>>[i] \in ends
    <3> HIDE DEF ends, S
    <3> QED
      BY <2>1
  <2>3. first = <<Entry("incident_started")>> /\ Entry("incident_started") \in ends
    OBVIOUS
  <2>4. (final = <<Entry("final_status")>> /\ Entry("final_status") \in ends) \/ final = <<>>
    OBVIOUS
  <2> HIDE DEF first, final, S, ends
  <2>5. <<>> \in Seq(S) /\ Len(<<>>) = 0 /\ 1..0 = {}
    OBVIOUS
  <2>6. final \in Seq(S) /\ (\A i \in 1..Len(final) : final[i] \in ends) /\ Len(final) \in Nat
    BY <2>2, <2>4, <2>5
  <2> QED
    BY <2>2, <2>3, <2>6
<1>2. n \in Nat /\ DOMAIN audit = 1..n
  BY DEF TypeOK
<1>3. rows \in Seq(S) /\ Len(rows) = n /\ \A j \in DOMAIN audit : rows[j] = RowEntry(j)
  <2>1. rows \in [1..n -> S] /\ \A j \in DOMAIN audit : rows[j] = RowEntry(j)
    BY <1>2
  <2>2. \A f \in [1..n -> S] : f \in Seq(S) /\ Len(f) = n
    BY <1>2
  <2> HIDE DEF rows, S, n
  <2> QED
    BY <2>1, <2>2
<1>4. get_timeline = (first \o rows) \o final
  BY DEF get_timeline
<1> HIDE DEF first, rows, final, ends, S, n
<1> DEFINE middle == first \o rows
<1>5. /\ middle \in Seq(S) /\ Len(middle) = 1 + n
      /\ \A i \in 1..(1 + n) : middle[i] = IF i <= 1 THEN first[i] ELSE rows[i - 1]
  <2>1. /\ middle \in Seq(S) /\ Len(middle) = Len(first) + Len(rows)
        /\ \A i \in 1..Len(first) + Len(rows) :
              middle[i] = IF i <= Len(first) THEN first[i] ELSE rows[i - Len(first)]
    <3>1. first \in Seq(S) /\ rows \in Seq(S)
      BY <1>1, <1>3
    <3> QED
      BY <3>1, ConcatProperties, Zenon
  <2> HIDE DEF middle
  <2> QED
    BY <1>1, <1>3, <2>1
<1> HIDE DEF middle
<1>6. /\ get_timeline \in Seq(S) /\ Len(get_timeline) = 1 + n + Len(final)
      /\ \A i \in 1..(1 + n + Len(final)) :
            get_timeline[i] = IF i <= 1 + n THEN middle[i] ELSE final[i - (1 + n)]
  BY <1>1, <1>4, <1>5, ConcatProperties DEF middle
<1>7. DOMAIN get_timeline = 1..(1 + n + Len(final))
  BY <1>6
<1>8. ASSUME NEW j \in DOMAIN audit
      PROVE  RowEntry(j) \in Entries
  <2>1. j + 1 \in DOMAIN get_timeline /\ j \in 1..n
    BY <1>1, <1>2, <1>7
  <2>2. get_timeline[j + 1] = RowEntry(j)
    <3>1. get_timeline[j + 1] = middle[j + 1]
      BY <1>1, <1>2, <1>6, <2>1
    <3>2. middle[j + 1] = rows[j]
      BY <1>2, <1>5, <2>1
    <3> QED
      BY <1>3, <3>1, <3>2
  <2> QED
    BY <2>1, <2>2 DEF Entries
<1>9. ASSUME NEW i \in DOMAIN get_timeline
      PROVE  get_timeline[i] \in ends \/ \E j \in DOMAIN audit : get_timeline[i] = RowEntry(j)
  <2>1. CASE i = 1
    BY <1>1, <1>2, <1>5, <1>6, <1>7, <2>1
  <2>2. CASE 1 < i /\ i <= 1 + n
    <3>1. i - 1 \in DOMAIN audit /\ get_timeline[i] = rows[i - 1]
      BY <1>1, <1>2, <1>5, <1>6, <1>7, <2>2
    <3> QED
      BY <1>3, <3>1
  <2>3. CASE 1 + n < i
    <3>1. i - (1 + n) \in 1..Len(final) /\ get_timeline[i] = final[i - (1 + n)]
      BY <1>1, <1>2, <1>6, <1>7, <2>3
    <3> QED
      BY <1>1, <3>1
  <2> QED
    BY <1>1, <1>2, <1>7, <2>1, <2>2, <2>3
<1> QED
  BY <1>8, <1>9 DEF Entries, ends

\* The one request is what a decision's entry is compared with.
LEMMA PausedBy ==
    ASSUME TypeOK, NEW r \in DOMAIN audit, NEW i \in DOMAIN audit, r < i, Traced(r)
    PROVE  PauseProcess(i) = audit[r].process
<1> DEFINE requests == {j \in 1..(i - 1) : audit[j].kind = "approval_requested"}
<1>1. DOMAIN audit = 1..Len(audit) /\ Len(audit) \in Nat
  BY DEF TypeOK
<1>2. \A j \in 1..(i - 1) : j \in DOMAIN audit
  BY <1>1
<1>3. r \in 1..(i - 1)
  BY <1>1
<1>4. requests = {r}
  BY <1>2, <1>3 DEF Traced
<1>5. Max({r}) = r
  BY <1>1 DEF Max
<1> QED
  BY <1>4, <1>5 DEF PauseProcess

LEMMA TracedIsVisible ==
    ASSUME OneRunInv, ClosedOnce, TraceInv
    PROVE  CrashIsVisible
<1> SUFFICES ASSUME Closed(incident.status)
             PROVE  /\ lost > failures => \E e \in Entries : e.restarted
                    /\ \A e \in Entries : e.deduplicated => e.restarted \/ failures > 0
  BY DEF CrashIsVisible
<1>0. TypeOK /\ failures \in Nat /\ ~Open /\ ~Running
  BY DEF OneRunInv, TypeInv, TypeOK, Open, Running, RunningRow, OpenRow, Closed
<1>1. \A k : Entry(k).deduplicated = FALSE
  BY DEF Entry
<1>2. \A j : audit[j].kind = "approval_decision" => RowEntry(j) = DecisionEntry(j)
  BY DEF RowEntry
<1>3. \A j : audit[j].kind # "approval_decision" => ~RowEntry(j).deduplicated
  BY <1>1 DEF RowEntry
<1>4. ASSUME NEW e \in Entries, e.deduplicated
      PROVE  \E j \in DOMAIN audit : audit[j].kind = "approval_decision" /\ e = DecisionEntry(j)
  BY <1>0, <1>1, <1>2, <1>3, <1>4, TimelineEntries
<1>5. CASE Settled
  <2>1. thread.evidence \in Seq(Evidence)
    BY <1>0 DEF TypeOK, GraphStates
  <2>2. \A j \in DOMAIN audit : audit[j] \in Evidence
    BY <1>5, <2>1 DEF Settled
  <2>3. \A j \in DOMAIN audit : audit[j].kind # "approval_decision"
    BY <2>2 DEF Evidence
  <2> QED
    BY <1>0, <1>4, <1>5, <2>3 DEF TraceInv
<1>6. CASE Asked
  <2>1. PICK r \in DOMAIN audit : Traced(r)
    BY <1>6 DEF TraceInv
  <2>2. incident.status = "diagnosed"
    BY <1>6 DEF Asked, PausedOrClosed, Closed
  <2>3. PICK i \in DOMAIN audit : audit[i].kind = "approval_decision"
    BY <1>6, <2>2 DEF ClosedOnce, OneAnswer
  <2>4. ASSUME NEW j \in DOMAIN audit, audit[j].kind = "approval_decision",
               audit[j].process > audit[r].process
        PROVE  DecisionEntry(j).restarted
    <3>1. PauseProcess(j) = audit[r].process
      BY <1>0, <2>1, <2>4, PausedBy DEF Traced
    <3>2. audit[r].process \in Nat /\ audit[j].process \in Nat
      <4>1. audit[r] \in Evidence \cup Requests \cup Answers
        BY <1>0 DEF TypeOK
      <4>2. audit[j] \in Evidence \cup Requests \cup Answers
        BY <1>0 DEF TypeOK
      <4> QED
        BY <2>1, <2>4, <4>1, <4>2 DEF Traced, Evidence, Requests, Answers
    <3>3. PauseProcess(j) \notin {NoProcess, audit[j].process}
      BY <2>4, <3>1, <3>2 DEF NoProcess
    <3> QED
      BY <3>3, Zenon DEF DecisionEntry
  <2>5. lost > failures => \E e \in Entries : e.restarted
    <3>1. RowEntry(i) \in Entries /\ RowEntry(i) = DecisionEntry(i)
      BY <1>0, <1>2, <2>3, TimelineEntries
    <3>2. lost > failures => DecisionEntry(i).restarted
      BY <2>1, <2>3, <2>4 DEF Traced
    <3> QED
      BY <3>1, <3>2
  <2>6. ASSUME NEW e \in Entries, e.deduplicated
        PROVE  e.restarted \/ failures > 0
    <3>1. PICK j \in DOMAIN audit : audit[j].kind = "approval_decision" /\ e = DecisionEntry(j)
      BY <1>4, <2>6
    <3>2. audit[j].remediation = "deduplicated"
      BY <2>6, <3>1 DEF DecisionEntry
    <3> QED
      BY <2>1, <2>4, <3>1, <3>2 DEF Traced
  <2> QED
    BY <2>5, <2>6
<1> QED
  BY <1>0, <1>5, <1>6 DEF OneRunInv, Phases

LEMMA TraceInit == Init => TraceInv
<1> SUFFICES ASSUME Init PROVE TraceInv
  OBVIOUS
<1>1. Open /\ lost = 0
  BY PhasesInit DEF Init
<1> QED
  BY <1>1, Apart DEF TraceInv

\* idempotency.py:23, incidents.py:383: a crash between the call of a remediation
\* and its ledger row shows in the timeline of the closed incident as a resume by
\* a restarted process, and nothing is said to have been found executed without
\* such a resume or a retried exception - however many crashes, exceptions,
\* denials and timeouts there were, as long as requests do not overlap.
THEOREM CrashAlwaysVisible ==
    ASSUME Serial
    PROVE  Spec => []CrashIsVisible
<1> DEFINE Inv == OneRunInv /\ LossesCounted /\ ClosedOnce /\ TraceInv
<1>1. Init => Inv
  <2>1. Init => LossesCounted
    BY DEF Init, LossesCounted, Unclaimed
  <2> QED
    BY <2>1, OneRunInit, ClosedOnceInit, TraceInit
<1>2. Inv /\ [Next]_vars => Inv'
  BY OneRunStep, LossesStep, ClosedOnceStep, TraceStep DEF OneRun, OneRunInv
<1>3. Inv => CrashIsVisible
  BY TracedIsVisible
<1> QED
  BY <1>1, <1>2, <1>3, PTL DEF Spec
=============================================================================
