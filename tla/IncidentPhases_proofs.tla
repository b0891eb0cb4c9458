------------------------ MODULE IncidentPhases_proofs ------------------------
(***************************************************************************)
(* Theorems about an incident that is run once, for any number of threads, *)
(* approvals, reads, SLA checks, crashes and exceptions: OneRun is assumed *)
(* throughout, and every state is shown to be in a phase.                  *)
(***************************************************************************)
EXTENDS IncidentPhases, IncidentLifecycle_proofs

LEMMA Gating ==
    /\ \A a : Gated(a) <=> a \in Approvable
    /\ ~Gated(None)
  BY DEF Gated, Evaluate, ActionTypes, RiskTable, Approvable, None

-----------------------------------------------------------------------------
(* What the shared steps of the handlers leave behind.                     *)

\* A step of one handler leaves the others where they are.
Others(w) == \A v \in Workers \ {w} : pc'[v] = pc[v] /\ req'[v] = req[v]

LEMMA Continued ==
    ASSUME TypeOK, NEW w \in Workers, NEW p, NEW g, Continue(w, p, g)
    PROVE  /\ pc'[w] = p /\ req'[w].local = g /\ Local(w)' = g
           /\ req'[w].path = req[w].path /\ req'[w].body = req[w].body
           /\ req'[w].seen = req[w].seen /\ req'[w].counted = req[w].counted
           /\ Others(w)
<1>1. /\ pc' = [pc EXCEPT ![w] = p] /\ req' = [req EXCEPT ![w].local = g]
      /\ pc \in [Workers -> Points] /\ req \in [Workers -> Handlers]
  BY DEF Continue, TypeOK
<1> QED
  BY <1>1 DEF Handlers, Local, Others

LEMMA Released ==
    ASSUME TypeOK, NEW w \in Workers, Release(w)
    PROVE  pc'[w] = "idle" /\ req'[w] = IdleHandler /\ Others(w)
  BY DEF Release, TypeOK, Others

LEMMA Raised ==
    ASSUME TypeOK, NEW w \in Workers, Raise(w)
    PROVE  /\ Others(w)
           /\ \/ pc'[w] = "idle" /\ req'[w] = IdleHandler
              \/ /\ pc'[w] = "admit" /\ req'[w] = req[w]
                 /\ req[w].path = "timeout" /\ req[w].body # NoDecision
  BY DEF Raise, Release, TypeOK, Others

LEMMA Responded ==
    ASSUME TypeOK, NEW w \in Workers, Respond(w)
    PROVE  /\ Others(w)
           /\ \/ pc'[w] = "idle" /\ req'[w] = IdleHandler
              \/ /\ pc'[w] = "admit" /\ req'[w].path = "timeout" /\ req[w].path = "timeout"
                 /\ req'[w].seen = incident' /\ req'[w].body = req[w].body
                 /\ req[w].body # NoDecision
<1>1. CASE req[w].path = "timeout" /\ req[w].body # NoDecision
  <2>1. /\ pc' = [pc EXCEPT ![w] = "admit"] /\ req' = [req EXCEPT ![w].seen = incident']
        /\ pc \in [Workers -> Points] /\ req \in [Workers -> Handlers]
    BY <1>1 DEF Respond, TypeOK
  <2> QED
    BY <1>1, <2>1 DEF Handlers, Others
<1>2. CASE ~(req[w].path = "timeout" /\ req[w].body # NoDecision)
  BY <1>2, Released DEF Respond
<1> QED
  BY <1>1, <1>2

\* Moving on without touching the locals.
LEMMA Moved ==
    ASSUME TypeOK, NEW w \in Workers, NEW p, pc' = [pc EXCEPT ![w] = p], UNCHANGED req
    PROVE  pc'[w] = p /\ req'[w] = req[w] /\ Local(w)' = Local(w) /\ Others(w)
  BY DEF TypeOK, Others, Local

-----------------------------------------------------------------------------
(* The ledger.                                                             *)

LEMMA LedgerInit == Init => LedgerTrue
  BY DEF Init, LedgerTrue

\* A remediation is performed, never undone.
PerformedGrows == \A k \in Keys : performed[k] > 0 => performed'[k] > 0

LEMMA LedgerKept ==
    ASSUME TypeInv, LedgerTrue, PerformedGrows,
           ledger' = ledger,
           \A w \in Workers : pc'[w] = "claim" =>
                pc[w] = "claim" /\ Local(w)' = Local(w)
    PROVE  LedgerTrue'
<1>1. \A k \in ledger : performed'[k] > 0
  BY DEF PerformedGrows, LedgerTrue, TypeInv, TypeOK
<1>2. ASSUME NEW w \in Workers, pc'[w] = "claim"
      PROVE  performed'[KeyOf(Local(w))'] > 0
  <2>1. KeyOf(Local(w)) \in Keys /\ performed[KeyOf(Local(w))] > 0
    BY <1>2, KeyType, LocalType DEF TypeInv, Claiming, LedgerTrue
  <2>2. KeyOf(Local(w))' = KeyOf(Local(w))
    BY <1>2 DEF KeyOf
  <2> QED
    BY <2>1, <2>2 DEF PerformedGrows
<1> QED
  BY <1>1, <1>2 DEF LedgerTrue

LEMMA RequestSteps ==
    ASSUME TypeInv, NEW w \in Workers,
           LoadForRun(w) \/ StartRun(w) \/ PostApproval(w) \/ AdmitAfterTimeout(w)
           \/ ReadIncident(w)
    PROVE  Others(w) /\ pc'[w] \in {"start", "invoke", "resume", "idle"}
<1>0. TypeOK /\ pc \in [Workers -> Points] /\ req \in [Workers -> Handlers]
  BY DEF TypeInv, TypeOK
<1>1. CASE LoadForRun(w) \/ StartRun(w)
  BY <1>0, <1>1 DEF LoadForRun, StartRun, Others
<1>2. ASSUME NEW row, NEW d, Admit(w, row, d)
      PROVE  Others(w) /\ pc'[w] = "resume"
  BY <1>0, <1>2 DEF Admit, Others
<1>3. ASSUME NEW d, TimeOut(w, d)
      PROVE  Others(w) /\ pc'[w] = "resume"
  BY <1>0, <1>3 DEF TimeOut, Others
<1>4. CASE PostApproval(w)
  BY <1>2, <1>3, <1>4 DEF PostApproval
<1>5. CASE AdmitAfterTimeout(w)
  <2>1. Release(w) \/ Admit(w, req[w].seen, req[w].body)
    BY <1>5 DEF AdmitAfterTimeout
  <2> QED
    BY <1>0, <1>2, <2>1, Released
<1>6. CASE ReadIncident(w)
  BY <1>3, <1>6 DEF ReadIncident
<1> QED
  BY <1>1, <1>4, <1>5, <1>6

LEMMA GraphSteps ==
    ASSUME TypeInv, NEW w \in Workers,
           Invoke(w) \/ Resume(w) \/ GatherContext(w) \/ Interrupt(w)
           \/ EvaluatePolicyNoExecution(w) \/ CheckpointPolicy(w) \/ Decide(w) \/ CountAudit(w)
    PROVE  Others(w) /\ pc'[w] \in {"node", "checkpoint", "count", "commit"}
<1> USE DEF stores
<1>0. TypeOK /\ pc \in [Workers -> Points] /\ req \in [Workers -> Handlers]
  BY DEF TypeInv, TypeOK
<1>1. CASE \E p \in {"node", "count"} : \E g : Continue(w, p, g)
  BY <1>0, <1>1, Continued
<1>2. CASE Invoke(w) \/ GatherContext(w) \/ CheckpointPolicy(w) \/ Decide(w)
  BY <1>1, <1>2 DEF Invoke, GatherContext, CheckpointPolicy, Decide, Save
<1>3. CASE Resume(w)
  BY <1>1, <1>3 DEF Resume
<1>4. CASE Interrupt(w) \/ EvaluatePolicyNoExecution(w)
  BY <1>0, <1>4 DEF Interrupt, EvaluatePolicyNoExecution, Others
<1>5. CASE CountAudit(w)
  BY <1>0, <1>5 DEF CountAudit, Others
<1> QED
  BY <1>2, <1>3, <1>4, <1>5

\* What a call of a tool does: it is counted once, and then waits for its claim.
LEMMA Executed ==
    ASSUME TypeInv, NEW w \in Workers, ExecuteIdempotently(w)
    PROVE  LET k == KeyOf(Local(w))
           IN  /\ Others(w) /\ PerformedGrows /\ k \in Keys /\ KeyOf(Local(w))' = k
               /\ \A j \in Keys \ {k} : performed'[j] = performed[j]
               /\ \/ /\ k \in ledger /\ pc'[w] = "checkpoint" /\ performed' = performed
                     /\ Local(w)' = [Local(w) EXCEPT !.remediation = "deduplicated"]
                  \/ /\ k \notin ledger /\ pc'[w] = "claim" /\ performed'[k] = performed[k] + 1
                     /\ Local(w)' = [Local(w) EXCEPT !.remediation = "executed"]
<1> DEFINE l == Local(w)
           k == KeyOf(l)
<1>0. TypeOK /\ l \in GraphStates /\ performed \in [Keys -> Nat]
  BY LocalType DEF TypeInv, TypeOK
<1>1. k \in Keys
  BY <1>0, KeyType DEF ExecuteIdempotently
<1>2. ASSUME NEW r, NEW p, Continue(w, p, [l EXCEPT !.remediation = r])
      PROVE  /\ pc'[w] = p /\ Others(w) /\ Local(w)' = [l EXCEPT !.remediation = r]
             /\ KeyOf(Local(w))' = k
  <2> DEFINE g == [l EXCEPT !.remediation = r]
  <2>1. g.action = l.action /\ g.answer = l.answer
    BY <1>0 DEF GraphStates
  <2> HIDE DEF l, g
  <2>2. pc'[w] = p /\ Others(w) /\ Local(w)' = g
    BY <1>0, <1>2, Continued DEF g
  <2>3. KeyOf(g) = KeyOf(l)
    BY <2>1 DEF KeyOf
  <2>4. KeyOf(Local(w))' = KeyOf(g)
    BY <2>2 DEF KeyOf
  <2> QED
    BY <2>2, <2>3, <2>4 DEF g, l
<1>3. CASE k \in ledger
  BY <1>1, <1>2, <1>3 DEF ExecuteIdempotently, PerformedGrows
<1>4. CASE k \notin ledger
  <2>1. /\ performed' = [performed EXCEPT ![k] = @ + 1]
        /\ Continue(w, "claim", [l EXCEPT !.remediation = "executed"])
    BY <1>4 DEF ExecuteIdempotently
  <2>2. /\ performed'[k] = performed[k] + 1 /\ PerformedGrows
        /\ \A j \in Keys \ {k} : performed'[j] = performed[j]
    <3> HIDE DEF k
    <3> QED
      BY <1>0, <1>1, <2>1 DEF PerformedGrows
  <2> QED
    BY <1>1, <1>2, <1>4, <2>1, <2>2
<1> QED
  BY <1>3, <1>4

LEMMA Claimed ==
    ASSUME TypeInv, NEW w \in Workers, Claim(w)
    PROVE  LET k == KeyOf(Local(w))
           IN  /\ Others(w) /\ k \in Keys /\ ledger' = ledger \cup {k}
               /\ \/ k \in ledger /\ pc'[w] = "idle" /\ req'[w] = IdleHandler
                  \/ /\ k \in ledger /\ pc'[w] = "admit" /\ req'[w] = req[w]
                     /\ req[w].path = "timeout" /\ req[w].body # NoDecision
                  \/ k \notin ledger /\ pc'[w] = "checkpoint" /\ req'[w] = req[w]
<1>1. TypeOK /\ KeyOf(Local(w)) \in Keys
  BY KeyType, LocalType DEF TypeInv, Claiming, Claim
<1>2. CASE KeyOf(Local(w)) \in ledger
  BY <1>1, <1>2, Raised DEF Claim
<1>3. CASE KeyOf(Local(w)) \notin ledger
  BY <1>1, <1>3, Moved DEF Claim
<1> QED
  BY <1>1, <1>2, <1>3 DEF Claim

LEMMA LedgerStep == TypeInv /\ LedgerTrue /\ [Next]_vars => LedgerTrue'
<1> SUFFICES ASSUME TypeInv, LedgerTrue, [Next]_vars PROVE LedgerTrue'
  OBVIOUS
<1> USE DEF stores, history
<1>0. TypeOK
  BY DEF TypeInv
<1>1. ASSUME NEW w \in Workers, Others(w), UNCHANGED <<ledger, performed>>, pc'[w] # "claim"
      PROVE  LedgerTrue'
  BY <1>1, LedgerKept DEF PerformedGrows, Others, Local
<1>2. CASE UNCHANGED vars
  BY <1>2, LedgerKept DEF vars, PerformedGrows, Local
<1>3. ASSUME NEW w \in Workers,
             LoadForRun(w) \/ StartRun(w) \/ PostApproval(w) \/ AdmitAfterTimeout(w)
             \/ ReadIncident(w)
      PROVE  LedgerTrue'
  <2>1. UNCHANGED <<ledger, performed>>
    BY <1>3 DEF LoadForRun, StartRun, PostApproval, AdmitAfterTimeout, ReadIncident
  <2> QED
    BY <1>1, <1>3, <2>1, RequestSteps
<1>4. ASSUME NEW w \in Workers,
             Invoke(w) \/ Resume(w) \/ GatherContext(w) \/ Interrupt(w)
             \/ EvaluatePolicyNoExecution(w) \/ CheckpointPolicy(w) \/ Decide(w) \/ CountAudit(w)
      PROVE  LedgerTrue'
  <2>1. UNCHANGED <<ledger, performed>>
    BY <1>4 DEF Invoke, Resume, GatherContext, Interrupt, EvaluatePolicyNoExecution,
                CheckpointPolicy, Decide, CountAudit
  <2> QED
    BY <1>1, <1>4, <2>1, GraphSteps
<1>5. ASSUME NEW w \in Workers, CommitPause(w) \/ CommitClose(w)
      PROVE  LedgerTrue'
  <2>1. UNCHANGED <<ledger, performed>> /\ Respond(w)
    BY <1>5 DEF CommitPause, CommitClose
  <2> QED
    BY <1>0, <1>1, <2>1, Responded
<1>6. ASSUME NEW w \in Workers, Fail(w)
      PROVE  LedgerTrue'
  <2>1. UNCHANGED <<ledger, performed>> /\ Raise(w)
    BY <1>6 DEF Fail
  <2> QED
    BY <1>0, <1>1, <2>1, Raised
<1>7. CASE SlaElapses
  BY <1>7, LedgerKept DEF SlaElapses, PerformedGrows, Local
<1>8. CASE Crash
  BY <1>8, LedgerKept DEF Crash, PerformedGrows
<1>9. ASSUME NEW w \in Workers, ExecuteIdempotently(w)
      PROVE  LedgerTrue'
  <2> DEFINE k == KeyOf(Local(w))
  <2>1. /\ Others(w) /\ PerformedGrows /\ k \in Keys /\ KeyOf(Local(w))' = k
        /\ pc'[w] = "claim" => performed'[k] = performed[k] + 1
    BY <1>9, Executed
  <2>2. ledger' = ledger
    BY <1>9 DEF ExecuteIdempotently
  <2>3. \A j \in ledger : performed'[j] > 0
    BY <1>0, <2>1 DEF PerformedGrows, LedgerTrue, TypeOK
  <2>4. ASSUME NEW v \in Workers, pc'[v] = "claim"
        PROVE  performed'[KeyOf(Local(v))'] > 0
    <3>1. CASE v = w
      <4>1. performed[k] \in Nat
        BY <1>0, <2>1 DEF TypeOK
      <4> HIDE DEF k
      <4> QED
        BY <2>1, <2>4, <3>1, <4>1
    <3>2. CASE v # w
      <4>1. pc[v] = "claim" /\ KeyOf(Local(v))' = KeyOf(Local(v))
        BY <2>1, <2>4, <3>2 DEF Others, KeyOf, Local
      <4>2. KeyOf(Local(v)) \in Keys
        BY <4>1, KeyType, LocalType DEF TypeInv, Claiming
      <4> QED
        BY <2>1, <4>1, <4>2 DEF PerformedGrows, LedgerTrue
    <3> QED
      BY <3>1, <3>2
  <2> QED
    BY <2>2, <2>3, <2>4 DEF LedgerTrue
<1>10. ASSUME NEW w \in Workers, Claim(w)
       PROVE  LedgerTrue'
  <2> DEFINE k == KeyOf(Local(w))
  <2>1. Others(w) /\ ledger' = ledger \cup {k} /\ pc'[w] # "claim"
    BY <1>10, Claimed
  <2>2. performed' = performed /\ performed[k] > 0
    BY <1>10 DEF Claim, LedgerTrue
  <2>3. \A j \in ledger' : performed'[j] > 0
    <3> HIDE DEF k
    <3> QED
      BY <2>1, <2>2 DEF LedgerTrue
  <2>4. ASSUME NEW v \in Workers, pc'[v] = "claim"
        PROVE  performed'[KeyOf(Local(v))'] > 0
    BY <2>1, <2>2, <2>4 DEF Others, KeyOf, Local, LedgerTrue
  <2> QED
    BY <2>3, <2>4 DEF LedgerTrue
<1> QED
  BY <1>2, <1>3, <1>4, <1>5, <1>6, <1>7, <1>8, <1>9, <1>10 DEF Next, Progress

-----------------------------------------------------------------------------
(* Phase by phase: every step stays in its phase or goes on to the next.   *)

LEMMA PhasesInit == Init => Open
  BY DEF Init, Open, NoGatedPerformed

\* The steps a handler can take where it stands.
LEMMA ByPoint ==
    ASSUME NEW w \in Workers, Progress(w)
    PROVE  /\ pc[w] = "start" => StartRun(w)
           /\ pc[w] = "invoke" => Invoke(w)
           /\ pc[w] = "resume" => Resume(w)
           /\ pc[w] = "admit" => AdmitAfterTimeout(w)
           /\ pc[w] = "node" => GatherContext(w) \/ Interrupt(w) \/ EvaluatePolicyNoExecution(w)
                                \/ ExecuteIdempotently(w) \/ Decide(w)
           /\ pc[w] = "claim" => Claim(w)
           /\ pc[w] = "checkpoint" => CheckpointPolicy(w)
           /\ pc[w] = "count" => CountAudit(w)
           /\ pc[w] = "commit" => CommitPause(w) \/ CommitClose(w)
           /\ pc[w] \in {"start", "invoke", "resume", "admit"} \cup Working
<1>1. /\ StartRun(w) => pc[w] = "start"
      /\ Invoke(w) => pc[w] = "invoke"
      /\ Resume(w) => pc[w] = "resume"
      /\ AdmitAfterTimeout(w) => pc[w] = "admit"
  BY DEF StartRun, Invoke, Resume, AdmitAfterTimeout
<1>2. GatherContext(w) \/ Interrupt(w) \/ EvaluatePolicyNoExecution(w)
      \/ ExecuteIdempotently(w) \/ Decide(w) => pc[w] = "node"
  BY DEF GatherContext, Interrupt, EvaluatePolicyNoExecution, ExecuteIdempotently, Decide, AtPolicy
<1>3. /\ Claim(w) => pc[w] = "claim"
      /\ CheckpointPolicy(w) => pc[w] = "checkpoint"
      /\ CountAudit(w) => pc[w] = "count"
      /\ CommitPause(w) \/ CommitClose(w) => pc[w] = "commit"
  BY DEF Claim, CheckpointPolicy, CountAudit, CommitPause, CommitClose
<1> QED
  BY <1>1, <1>2, <1>3 DEF Progress, Working

LEMMA OpenStep ==
    ASSUME OneRun, TypeInv, Open, [Next]_vars
    PROVE  Open' \/ Running'
<1> USE DEF stores, history
<1>0. TypeOK /\ incident.status = "open" /\ \A w \in Workers : pc[w] \in {"idle", "start"}
  BY DEF TypeInv, Open, OpenRow
<1>1. CASE UNCHANGED vars
  BY <1>1 DEF vars, Open, NoGatedPerformed, Alone
<1>2. ASSUME NEW w \in Workers, LoadForRun(w)
      PROVE  Open'
  <2>1. pc'[w] = "start" /\ req'[w].path = "run" /\ Others(w) /\ calls' > 0
    <3>1. req' = [req EXCEPT ![w] = [IdleHandler EXCEPT !.path = "run", !.seen = incident]]
      BY <1>2 DEF LoadForRun
    <3>2. [IdleHandler EXCEPT !.path = "run", !.seen = incident].path = "run"
      BY DEF IdleHandler
    <3> QED
      BY <1>0, <1>2, <3>1, <3>2 DEF LoadForRun, TypeOK, Others
  <2>2. \A v \in Workers \ {w} : pc[v] = "idle"
    <3> SUFFICES ASSUME NEW v \in Workers \ {w}, pc[v] # "idle" PROVE FALSE
      OBVIOUS
    <3>1. calls > 0 /\ calls < MaxRunCalls /\ v # w
      BY <1>2 DEF Open, LoadForRun
    <3> QED
      BY <1>0, <3>1, ConstantsAssumption DEF OneRun, Serial, TypeOK
  <2>3. UNCHANGED <<stores, posted, runs>>
    BY <1>2 DEF LoadForRun
  <2> QED
    BY <2>1, <2>2, <2>3 DEF Open, NoGatedPerformed, Alone, Others
<1>3. ASSUME NEW w \in Workers, StartRun(w)
      PROVE  Running'
  <2>1. pc[w] = "start" /\ Alone(w) /\ req[w].path = "run" /\ incident' = RunningRow
    BY <1>3 DEF StartRun, Open, RunningRow
  <2>2. /\ pc'[w] = "invoke" /\ Others(w)
        /\ req'[w].seen = RunningRow /\ req'[w].path = "run"
    BY <1>0, <1>3, <2>1 DEF StartRun, TypeOK, Others, Handlers
  <2>3. UNCHANGED <<audit, thread, performed, posted, runs>>
    BY <1>3 DEF StartRun
  <2>4. Runs(w)'
    BY <2>1, <2>2, <2>3 DEF Runs, Open, Alone, Others, Working
  <2>5. \A v \in Workers : pc'[v] # "idle" => v = w
    BY <2>1, <2>2 DEF Alone, Others
  <2> QED
    BY <2>1, <2>3, <2>4, <2>5 DEF Running, Open, NoGatedPerformed, NoThread
<1>4. ASSUME NEW w \in Workers, Fail(w)
      PROVE  Open'
  <2>1. pc[w] = "start" /\ req[w].path = "run" /\ Alone(w) /\ Raise(w)
    BY <1>0, <1>4 DEF Open, Fail
  <2>2. \A v \in Workers : pc'[v] = "idle"
    BY <1>0, <2>1, Raised DEF Others, Alone
  <2>3. UNCHANGED <<stores, posted, runs>>
    BY <1>4 DEF Fail
  <2> QED
    BY <2>2, <2>3 DEF Open, NoGatedPerformed
<1>5. CASE Crash
  BY <1>5 DEF Crash, Open, NoGatedPerformed
<1>6. CASE SlaElapses
  BY <1>6 DEF SlaElapses, Open, OpenRow, None
<1>7. ASSUME NEW w \in Workers, PostApproval(w) \/ ReadIncident(w)
      PROVE  FALSE
  BY <1>0, <1>7 DEF PostApproval, ReadIncident, TimeOut, Awaiting
<1>8. ASSUME NEW w \in Workers, Progress(w)
      PROVE  StartRun(w)
  BY <1>0, <1>8, ByPoint DEF Working
<1>9. CASE Next
  BY <1>2, <1>3, <1>4, <1>5, <1>6, <1>7, <1>8, <1>9 DEF Next
<1> QED
  BY <1>1, <1>9

\* A step of the run's handler that does not report keeps the phase.
LEMMA KeepsRunning ==
    ASSUME Running, NEW w \in Workers, Runs(w), Others(w),
           UNCHANGED <<incident, audit, posted>>, runs' <= 1, NoGatedPerformed',
           thread'.decision = NoDecision, thread'.answer = NoDecision,
           thread'.next \in {"gather_context", "evaluate_policy"} => thread'.remediation = None,
           pc'[w] = "idle" \/ Runs(w)'
    PROVE  Running'
<1>1. \A v \in Workers \ {w} : pc'[v] = "idle"
  BY DEF Runs, Alone, Others
<1> QED
  BY <1>1 DEF Running

LEMMA RunningSaves ==
    ASSUME TypeInv, Running, NEW w \in Workers, Runs(w), NEW p, NEW g \in GraphStates, Save(w, p, g),
           UNCHANGED <<incident, audit, posted, performed>>, runs' <= 1,
           g.decision = NoDecision, g.answer = NoDecision,
           g.next \in {"gather_context", "evaluate_policy"} => g.remediation = None,
           p = "node" \/ (p = "count" /\ g.next = "end")
    PROVE  Running'
<1>1. /\ thread' = g /\ pc'[w] = p /\ Local(w)' = g /\ Others(w)
      /\ req'[w].path = "run" /\ req'[w].seen = RunningRow
  BY Continued DEF Save, TypeInv, Runs
<1>2. Alone(w)'
  BY <1>1 DEF Runs, Alone, Others
<1>3. Runs(w)'
  BY <1>1, <1>2 DEF Runs, Working
<1>4. NoGatedPerformed'
  BY DEF Running, NoGatedPerformed
<1> QED
  BY <1>1, <1>3, <1>4, KeepsRunning

LEMMA RunningNodes ==
    ASSUME TypeInv, Running, NEW w \in Workers, Runs(w),
           Invoke(w) \/ GatherContext(w) \/ Interrupt(w) \/ EvaluatePolicyNoExecution(w)
           \/ ExecuteIdempotently(w) \/ Claim(w) \/ CheckpointPolicy(w) \/ Decide(w) \/ CountAudit(w)
    PROVE  Running'
<1> USE DEF stores, history
<1>0. /\ TypeOK /\ thread \in GraphStates /\ Local(w) \in GraphStates
      /\ pc \in [Workers -> Points] /\ req \in [Workers -> Handlers]
  BY LocalType DEF TypeInv, TypeOK
<1>1. /\ thread.decision = NoDecision /\ thread.answer = NoDecision /\ runs <= 1
      /\ NoGatedPerformed /\ audit = <<>>
      /\ thread.next \in {"gather_context", "evaluate_policy"} => thread.remediation = None
  BY DEF Running
<1>2. ASSUME pc[w] = "node"
      PROVE  Local(w) = thread
  BY <1>2 DEF Runs
<1>3. CASE Invoke(w)
  <2> DEFINE g == [NoThread EXCEPT !.next = "gather_context", !.evidence = thread.evidence]
  <2>1. /\ g \in GraphStates /\ g.decision = NoDecision /\ g.answer = NoDecision
        /\ g.remediation = None
    BY <1>0, Defaults DEF GraphStates, NoThread
  <2>2. runs' = 1
    BY <1>3 DEF Invoke, Runs
  <2>3. Save(w, "node", g) /\ UNCHANGED <<incident, audit, posted, performed>>
    BY <1>3 DEF Invoke
  <2> HIDE DEF g
  <2> QED
    BY <2>1, <2>2, <2>3, RunningSaves
<1>4. CASE GatherContext(w)
  <2>1. PICK n \in 0..MaxEvidence, a \in Diagnoses \cup {None}, c \in BOOLEAN :
          Save(w, "node", [Local(w) EXCEPT
                !.next = IF a = None THEN "decide" ELSE "evaluate_policy",
                !.evidence = @ \o Gathered(w, n),
                !.action = a,
                !.confident = c])
    BY <1>4 DEF GatherContext
  <2> DEFINE g == [Local(w) EXCEPT
                !.next = IF a = None THEN "decide" ELSE "evaluate_policy",
                !.evidence = @ \o Gathered(w, n),
                !.action = a,
                !.confident = c]
  <2>2. Local(w) = thread /\ thread.next = "gather_context"
    BY <1>2, <1>4 DEF GatherContext
  <2>3. g.decision = NoDecision /\ g.answer = NoDecision /\ g.remediation = None
    BY <1>0, <1>1, <2>2 DEF GraphStates
  <2>4. UNCHANGED <<incident, audit, posted, performed>> /\ runs' <= 1
    BY <1>1, <1>4 DEF GatherContext
  <2> HIDE DEF g
  <2>5. Save(w, "node", g)
    BY <2>1 DEF g
  <2>6. g \in GraphStates
    <3>1. TypeInv'
      BY <1>4, TypeNodes
    <3> QED
      BY <2>5, <3>1 DEF Save, TypeInv, TypeOK
  <2> QED
    BY <2>3, <2>4, <2>5, <2>6, RunningSaves
<1>5. CASE Interrupt(w)
  <2>1. pc'[w] = "count" /\ req' = req /\ thread' = thread /\ Others(w)
    BY <1>0, <1>5, Moved DEF Interrupt
  <2>2. thread.next = "evaluate_policy" /\ Gated(thread.action) /\ Local(w) = thread
    BY <1>2, <1>5 DEF Interrupt, AtPolicy
  <2>3. Runs(w)'
    BY <2>1, <2>2 DEF Runs, Working, Alone, Others, Local
  <2>4. NoGatedPerformed'
    BY <1>1, <1>5 DEF Interrupt, NoGatedPerformed
  <2> QED
    BY <1>1, <1>5, <2>1, <2>3, <2>4, KeepsRunning DEF Interrupt
<1>6. CASE EvaluatePolicyNoExecution(w)
  <2>1. pc'[w] = "checkpoint" /\ req' = req /\ thread' = thread /\ Others(w)
    BY <1>0, <1>6, Moved DEF EvaluatePolicyNoExecution
  <2>2. thread.next = "evaluate_policy" /\ ~Gated(thread.action) /\ Local(w) = thread
    BY <1>1, <1>2, <1>6 DEF EvaluatePolicyNoExecution, AtPolicy
  <2>3. Local(w) = [thread EXCEPT !.remediation = Local(w).remediation]
    BY <1>0, <2>2 DEF GraphStates
  <2>4. Runs(w)'
    BY <2>1, <2>2, <2>3 DEF Runs, Working, Alone, Others, Local
  <2>5. NoGatedPerformed'
    BY <1>1, <1>6 DEF EvaluatePolicyNoExecution, NoGatedPerformed
  <2> QED
    BY <1>1, <1>6, <2>1, <2>4, <2>5, KeepsRunning DEF EvaluatePolicyNoExecution
<1>7. CASE ExecuteIdempotently(w)
  <2> DEFINE k == KeyOf(Local(w))
  <2>1. thread.next = "evaluate_policy" /\ Executes(thread) /\ Local(w) = thread /\ pc[w] = "node"
    BY <1>2, <1>7 DEF ExecuteIdempotently, AtPolicy
  <2>2. ~Gated(thread.action) /\ k.action = thread.action
    BY <1>1, <2>1 DEF Executes, NoDecision, None, Gated, KeyOf
  <2>3. /\ Others(w) /\ pc'[w] \in {"claim", "checkpoint"} /\ k \in Keys
        /\ \E r \in {"deduplicated", "executed"} : Local(w)' = [thread EXCEPT !.remediation = r]
        /\ \A j \in Keys \ {k} : performed'[j] = performed[j]
    BY <1>7, <2>1, Executed
  <2>4. Local(w)' = [thread EXCEPT !.remediation = Local(w)'.remediation]
    BY <1>0, <2>3 DEF GraphStates
  <2>5. req'[w].path = req[w].path /\ req'[w].seen = req[w].seen
    <3>1. \E g, p : Continue(w, p, g)
      BY <1>7 DEF ExecuteIdempotently
    <3> QED
      BY <1>0, <3>1, Continued
  <2>6. UNCHANGED <<incident, audit, thread, posted, runs>>
    BY <1>7 DEF ExecuteIdempotently
  <2>7. Runs(w)'
    BY <2>1, <2>2, <2>3, <2>4, <2>5, <2>6 DEF Runs, Working, Alone, Others
  <2>8. NoGatedPerformed'
    BY <1>1, <2>2, <2>3 DEF NoGatedPerformed
  <2> QED
    BY <1>1, <2>3, <2>6, <2>7, <2>8, KeepsRunning
<1>8. CASE Claim(w)
  <2>1. UNCHANGED <<incident, audit, thread, posted, runs, performed>> /\ NoGatedPerformed'
    BY <1>1, <1>8 DEF Claim, NoGatedPerformed
  <2>2. Others(w) /\ (pc'[w] = "idle" \/ (pc'[w] = "checkpoint" /\ req'[w] = req[w]))
    BY <1>8, Claimed DEF Runs
  <2>3. pc'[w] = "idle" \/ Runs(w)'
    <3>1. pc[w] = "claim"
      BY <1>8 DEF Claim
    <3> QED
      BY <2>1, <2>2, <3>1 DEF Runs, Working, Alone, Others, Local
  <2> QED
    BY <1>1, <2>1, <2>2, <2>3, KeepsRunning
<1>9. CASE CheckpointPolicy(w)
  <2> DEFINE l == Local(w)
             g == [l EXCEPT !.next = "decide",
                            !.decision = IF Gated(l.action) THEN l.answer ELSE NoDecision,
                            !.answer = NoDecision]
  <2>1. l.answer = NoDecision
    <3>1. l = [thread EXCEPT !.remediation = l.remediation]
      BY <1>9 DEF CheckpointPolicy, Runs
    <3> QED
      BY <1>0, <1>1, <3>1 DEF GraphStates
  <2>2. /\ g \in GraphStates /\ g.decision = NoDecision /\ g.answer = NoDecision
        /\ g.next = "decide"
    BY <1>0, <2>1, Defaults DEF GraphStates
  <2>3. Save(w, "node", g) /\ UNCHANGED <<incident, audit, posted, performed, runs>>
    BY <1>9 DEF CheckpointPolicy
  <2> HIDE DEF g
  <2> QED
    BY <1>1, <2>2, <2>3, RunningSaves
<1>10. CASE Decide(w)
  <2> DEFINE g == [Local(w) EXCEPT !.next = "end"]
  <2>1. Local(w) = thread
    BY <1>2, <1>10 DEF Decide
  <2>2. /\ g \in GraphStates /\ g.decision = NoDecision /\ g.answer = NoDecision
        /\ g.next = "end"
    BY <1>0, <1>1, <2>1 DEF GraphStates
  <2>3. Save(w, "count", g) /\ UNCHANGED <<incident, audit, posted, performed, runs>>
    BY <1>10 DEF Decide
  <2> HIDE DEF g
  <2> QED
    BY <1>1, <2>2, <2>3, RunningSaves
<1>11. CASE CountAudit(w)
  <2>1. /\ pc[w] = "count" /\ pc'[w] = "commit" /\ Others(w)
        /\ req'[w].path = req[w].path /\ req'[w].seen = req[w].seen
        /\ Local(w)' = Local(w) /\ req'[w].counted = 0
    BY <1>0, <1>1, <1>11 DEF CountAudit, Others, Handlers, Local
  <2>2. UNCHANGED <<incident, audit, thread, posted, runs, performed>> /\ NoGatedPerformed'
    BY <1>1, <1>11 DEF CountAudit, NoGatedPerformed
  <2>3. Runs(w)'
    BY <2>1, <2>2 DEF Runs, Working, Alone, Others
  <2> QED
    BY <1>1, <2>1, <2>2, <2>3, KeepsRunning
<1> QED
  BY <1>3, <1>4, <1>5, <1>6, <1>7, <1>8, <1>9, <1>10, <1>11

-----------------------------------------------------------------------------
(* What the handler of the run reports.                                    *)

LEMMA WholeTrail ==
    ASSUME NEW S, NEW trail \in Seq(S)
    PROVE  <<>> \o SubSeq(trail, 0 + 1, Len(trail)) = trail
<1> DEFINE sub == SubSeq(trail, 0 + 1, Len(trail))
<1>1. /\ sub \in Seq(S) /\ Len(sub) = Len(trail)
      /\ \A i \in 1..Len(trail) : sub[i] = trail[i]
  BY SubSeqProperties
<1> HIDE DEF sub
<1>2. sub = trail
  BY <1>1
<1> QED
  BY <1>2 DEF sub

\* The rows of a trail followed by rows that are no evidence.
LEMMA TrailThenRow ==
    ASSUME NEW trail \in Seq(Evidence), NEW row \in Requests
    PROVE  LET log == trail \o <<row>>
           IN  /\ Len(trail) < Len(log)
               /\ \A i \in DOMAIN log :
                    /\ i <= Len(trail) => log[i] = trail[i]
                    /\ i > Len(trail) => log[i].kind = "approval_requested"
                    /\ log[i].kind # "approval_decision"
<1> DEFINE log == trail \o <<row>>
<1>1. /\ Len(trail) \in Nat /\ Len(log) = Len(trail) + 1 /\ DOMAIN log = 1..(Len(trail) + 1)
      /\ \A i \in 1..Len(trail) : log[i] = trail[i]
      /\ log[Len(trail) + 1] = row
  OBVIOUS
<1>2. \A i \in 1..Len(trail) : trail[i].kind = "evidence"
  <2>1. \A i \in 1..Len(trail) : trail[i] \in Evidence
    OBVIOUS
  <2> QED
    BY <2>1 DEF Evidence
<1>3. row.kind = "approval_requested"
  BY DEF Requests
<1> HIDE DEF log
<1>4. \A i \in DOMAIN log : i \in 1..Len(trail) \/ i = Len(trail) + 1
  BY <1>1
<1> QED
  BY <1>1, <1>2, <1>3, <1>4 DEF log

\* The log of a run that asks: its evidence, and the request.
LEMMA PauseRows ==
    ASSUME TypeInv, Running, NEW w \in Workers, Runs(w), CommitPause(w)
    PROVE  LET row == [kind |-> "approval_requested", action |-> thread.action,
                       process |-> process]
           IN  row \in Requests /\ audit' = thread.evidence \o <<row>>
<1> DEFINE row == [kind |-> "approval_requested", action |-> thread.action, process |-> process]
<1>0. /\ TypeOK /\ thread \in GraphStates /\ thread.evidence \in Seq(Evidence)
      /\ process \in Nat
  BY DEF TypeInv, TypeOK, GraphStates
<1>1. Local(w) = thread /\ req[w].counted = 0
  BY DEF CommitPause, Runs
<1>2. row \in Requests
  BY <1>0 DEF Requests, GraphStates
<1>3. audit' = audit \o NewEvidence(w) \o RequestRows(w)
  BY DEF CommitPause
<1>4. audit \o NewEvidence(w) = thread.evidence
  BY <1>0, <1>1, WholeTrail DEF Running, NewEvidence
<1>5. RequestRows(w) = <<row>>
  BY <1>1 DEF RequestRows
<1> QED
  BY <1>2, <1>3, <1>4, <1>5

LEMMA RunPauses ==
    ASSUME TypeInv, Running, NEW w \in Workers, Runs(w), CommitPause(w)
    PROVE  JustAsked'
<1> USE DEF stores, history
<1>0. /\ TypeOK /\ thread \in GraphStates /\ thread.evidence \in Seq(Evidence)
      /\ process \in Nat
  BY DEF TypeInv, TypeOK, GraphStates
<1>1. /\ Local(w) = thread /\ thread.next = "evaluate_policy" /\ Gated(thread.action)
      /\ req[w].counted = 0 /\ req[w].seen = RunningRow /\ req[w].path = "run"
  BY DEF CommitPause, Runs
<1>2. thread.action \in ActionTypes /\ thread.action # None
  BY <1>1, Gating, Actions DEF Approvable
<1>3. UNCHANGED <<thread, ledger, performed, posted, runs>>
  BY DEF CommitPause
<1>4. \A v \in Workers : pc'[v] = "idle"
  BY <1>0, <1>1, Responded DEF CommitPause, Runs, Alone, Others
<1>5. /\ incident'.status = "awaiting_approval" /\ incident'.pending = thread.action
      /\ incident'.since = "fresh"
  <2>1. incident' = Flushed(RunningRow, [RunningRow EXCEPT !.status = "awaiting_approval",
                                            !.pending = thread.action, !.since = "fresh"])
    BY <1>1 DEF CommitPause, PausedRow
  <2> QED
    BY <1>2, <2>1 DEF Flushed, Column, RunningRow, OpenRow
<1> DEFINE row == [kind |-> "approval_requested", action |-> thread.action, process |-> process]
<1>6. row \in Requests /\ audit' = thread.evidence \o <<row>>
  BY PauseRows
<1> HIDE DEF row
<1>7. /\ Len(thread.evidence) < Len(audit')
      /\ \A i \in DOMAIN audit' :
            /\ i <= Len(thread.evidence) => audit'[i] = thread.evidence[i]
            /\ i > Len(thread.evidence) => audit'[i].kind = "approval_requested"
            /\ audit'[i].kind # "approval_decision"
  BY <1>0, <1>6, TrailThenRow
<1>8. \A i \in DOMAIN audit' :
        IF i <= Len(thread.evidence) THEN audit'[i] = thread.evidence[i]
                                     ELSE audit'[i].kind # "evidence"
  <2>1. \A i \in DOMAIN audit' : i \in Nat
    BY <1>0, <1>6
  <2>2. Len(thread.evidence) \in Nat
    BY <1>0
  <2> QED
    BY <1>7, <2>1, <2>2
<1>9. DecisionRows' = {}
  BY <1>7 DEF DecisionRows
<1>10. Between(thread)'
  <2>1. thread.answer.verb # "approved" /\ thread.remediation = None
    BY <1>1 DEF Running, NoDecision, None
  <2> QED
    BY <1>1, <1>3, <2>1 DEF Between, Sound
<1>11. ApprovedBeforePerformed' /\ NoGatedPerformed' /\ posted' = {} /\ runs' <= 1
  BY <1>3 DEF Running, NoGatedPerformed, ApprovedBeforePerformed
<1>12. PausedOrClosed(incident)'
  BY <1>3, <1>5 DEF PausedOrClosed, None
<1> QED
  BY <1>1, <1>3, <1>4, <1>5, <1>7, <1>8, <1>9, <1>10, <1>11, <1>12 DEF Asked, JustAsked

LEMMA RunCloses ==
    ASSUME TypeInv, Running, NEW w \in Workers, Runs(w), CommitClose(w)
    PROVE  Settled'
<1> USE DEF stores, history
<1>0. /\ TypeOK /\ thread \in GraphStates /\ thread.evidence \in Seq(Evidence)
  BY DEF TypeInv, TypeOK, GraphStates
<1>1. /\ Local(w) = thread
      /\ req[w].counted = 0 /\ req[w].seen = RunningRow /\ req[w].path = "run"
  BY DEF CommitClose, Runs
<1>2. UNCHANGED <<thread, ledger, performed, posted, runs>>
  BY DEF CommitClose
<1>3. \A v \in Workers : pc'[v] = "idle"
  BY <1>0, <1>1, Responded DEF CommitClose, Runs, Alone, Others
<1>4. Closed(incident'.status) /\ incident'.pending = None /\ incident'.since = None
  <2>1. incident' = Flushed(RunningRow, ClosedRow(thread)) /\ incident = RunningRow
    BY <1>1 DEF CommitClose, Running
  <2> QED
    BY <2>1 DEF Flushed, Column, RunningRow, OpenRow, ClosedRow, Closed, None
<1>5. audit' = thread.evidence
  <2>1. audit' = audit \o NewEvidence(w) \o <<>>
    BY <1>1 DEF CommitClose, Resolving, RunningRow, OpenRow
  <2>2. audit \o NewEvidence(w) = thread.evidence
    BY <1>0, <1>1, WholeTrail DEF Running, NewEvidence
  <2> QED
    BY <1>0, <2>1, <2>2, ConcatEmptySeq
<1> QED
  BY <1>2, <1>3, <1>4, <1>5 DEF Settled, Running, NoGatedPerformed

LEMMA RunningStep ==
    ASSUME TypeInv, Running, [Next]_vars
    PROVE  Running' \/ JustAsked' \/ Settled'
<1> USE DEF stores, history
<1>0. TypeOK /\ incident.status = "running" /\ incident.since = None
  BY DEF TypeInv, Running, RunningRow, OpenRow
<1>1. CASE UNCHANGED vars
  BY <1>1 DEF vars, Running, Runs, NoGatedPerformed, Alone, Local
<1>2. ASSUME NEW w \in Workers, LoadForRun(w) \/ PostApproval(w) \/ ReadIncident(w)
      PROVE  FALSE
  BY <1>0, <1>2 DEF LoadForRun, PostApproval, ReadIncident, TimeOut, Awaiting
<1>3. ASSUME NEW w \in Workers, Progress(w)
      PROVE  Running' \/ JustAsked' \/ Settled'
  <2>1. pc[w] # "idle"
    BY <1>3, ByPoint DEF Working
  <2>2. Runs(w)
    BY <2>1 DEF Running
  <2>3. pc[w] \in {"invoke"} \cup Working
    BY <2>2 DEF Runs
  <2>4. \/ Invoke(w) \/ GatherContext(w) \/ Interrupt(w) \/ EvaluatePolicyNoExecution(w)
        \/ ExecuteIdempotently(w) \/ Claim(w) \/ CheckpointPolicy(w) \/ Decide(w) \/ CountAudit(w)
        \/ CommitPause(w) \/ CommitClose(w)
    BY <1>3, <2>3, ByPoint DEF Working
  <2> QED
    BY <2>2, <2>4, RunningNodes, RunPauses, RunCloses
<1>4. ASSUME \A w \in Workers : pc'[w] = "idle",
             UNCHANGED <<incident, audit, thread, performed, posted, runs>>
      PROVE  Running'
  BY <1>4 DEF Running, NoGatedPerformed
<1>5. ASSUME NEW w \in Workers, Fail(w)
      PROVE  Running'
  <2>1. pc[w] # "idle" /\ Raise(w)
    BY <1>5 DEF Fail
  <2>2. Alone(w) /\ req[w].path = "run"
    BY <2>1 DEF Running, Runs
  <2>3. \A v \in Workers : pc'[v] = "idle"
    BY <1>0, <2>1, <2>2, Raised DEF Others, Alone
  <2> QED
    BY <1>4, <1>5, <2>3 DEF Fail
<1>6. CASE Crash
  BY <1>4, <1>6 DEF Crash
<1>7. CASE SlaElapses
  BY <1>0, <1>7 DEF SlaElapses, None
<1> QED
  BY <1>1, <1>2, <1>3, <1>5, <1>6, <1>7 DEF Next

LEMMA SettledStep ==
    ASSUME TypeInv, Settled, [Next]_vars
    PROVE  Settled' /\ UNCHANGED <<incident, audit, memory>>
<1> USE DEF stores, history
<1>0. Closed(incident.status) /\ incident.since = None
  BY DEF Settled
<1>1. ASSUME UNCHANGED <<stores, posted, runs>>, \A w \in Workers : pc'[w] = "idle"
      PROVE  Settled' /\ UNCHANGED <<incident, audit, memory>>
  BY <1>1 DEF Settled, NoGatedPerformed
<1>2. CASE UNCHANGED vars
  BY <1>1, <1>2 DEF vars, Settled
<1>3. CASE Crash
  BY <1>1, <1>3 DEF Crash
<1>4. CASE SlaElapses
  BY <1>0, <1>4 DEF SlaElapses, None
<1>5. ASSUME NEW w \in Workers, LoadForRun(w) \/ PostApproval(w) \/ ReadIncident(w)
      PROVE  FALSE
  BY <1>0, <1>5 DEF LoadForRun, PostApproval, ReadIncident, TimeOut, Awaiting, Closed
<1>6. ASSUME NEW w \in Workers, Progress(w) \/ Fail(w)
      PROVE  FALSE
  BY <1>6, ByPoint DEF Settled, Fail, Working
<1> QED
  BY <1>2, <1>3, <1>4, <1>5, <1>6 DEF Next

-----------------------------------------------------------------------------
(* Once a human was asked.  The action and the evidence stay what they are, *)
(* approvals and ledger only grow, and so every other handler keeps what    *)
(* it relies on.                                                           *)

Frame ==
    /\ thread'.action = thread.action /\ thread'.evidence = thread.evidence
    /\ posted \subseteq posted' /\ ledger \subseteq ledger'

LEMMA Kept ==
    ASSUME Frame
    PROVE  /\ \A d : Sound(d) => Sound(d)'
           /\ \A d, r : Acted(d, r) => Acted(d, r)'
           /\ \A g : Between(g) => Between(g)'
           /\ \A row : PausedOrClosed(row) <=> PausedOrClosed(row)'
<1>1. \A d : Sound(d) => Sound(d)'
  BY DEF Frame, Sound
<1>2. \A d, r : Acted(d, r) => Acted(d, r)'
  BY DEF Frame, Acted
<1>3. \A g : Between(g) => Between(g)'
  <2> SUFFICES ASSUME NEW g, Between(g) PROVE Between(g)'
    OBVIOUS
  <2>1. Sound(g.answer)'
    BY DEF Frame, Sound, Between
  <2>2. g.next \in {"decide", "end"} => Acted(g.decision, g.remediation)'
    BY DEF Frame, Acted, Between
  <2> QED
    BY <2>1, <2>2 DEF Frame, Between
<1>4. \A row : PausedOrClosed(row) <=> PausedOrClosed(row)'
  BY DEF Frame, PausedOrClosed
<1> QED
  BY <1>1, <1>2, <1>3, <1>4

LEMMA ResumesKept ==
    ASSUME Frame, NEW v \in Workers, Resumes(v), pc'[v] = pc[v], req'[v] = req[v]
    PROVE  Resumes(v)'
<1>1. Local(v)' = Local(v)
  BY DEF Local
<1>2. Sound(req[v].body) => Sound(req[v].body)'
  BY DEF Frame, Sound
<1>3. PausedOrClosed(req[v].seen)'
  BY DEF Frame, PausedOrClosed, Resumes
<1>4. Between(Local(v)) => Between(Local(v))'
  <2>1. \A g : g = Local(v) => (Between(g) => Between(g)')
    BY Kept
  <2>2. PICK g : g = Local(v)
    OBVIOUS
  <2> QED
    BY <1>1, <2>1, <2>2 DEF Between, Sound, Acted
<1>5. Sound(Local(v).answer) => Sound(Local(v).answer)'
  BY <1>1 DEF Frame, Sound
<1>6. Acted(Local(v).answer, Local(v).remediation) => Acted(Local(v).answer, Local(v).remediation)'
  BY <1>1 DEF Frame, Acted
<1> QED
  BY <1>1, <1>2, <1>3, <1>4, <1>5, <1>6 DEF Frame, Resumes, Working

\* What a step of one handler has to show to keep the phase.
LEMMA KeepsAsked ==
    ASSUME Asked, Frame, NEW w \in Workers, Others(w),
           UNCHANGED <<audit, runs>>, PausedOrClosed(incident)', Between(thread)',
           \A approval \in posted' : approval[1] = thread.action,
           ApprovedBeforePerformed', pc'[w] = "idle" \/ Resumes(w)'
    PROVE  Asked'
<1>1. \A v \in Workers : pc'[v] # "idle" => Resumes(v)'
  <2> SUFFICES ASSUME NEW v \in Workers, pc'[v] # "idle" PROVE Resumes(v)'
    OBVIOUS
  <2>1. CASE v = w
    BY <2>1
  <2>2. CASE v # w
    BY <2>2, ResumesKept DEF Asked, Others
  <2> QED
    BY <2>1, <2>2
<1>2. \A row \in DecisionRows' : Acted(row.decision, row.remediation)'
  BY Kept DEF Asked, DecisionRows
<1> QED
  BY <1>1, <1>2 DEF Asked, Frame

\* A handler that only moves on leaves the stores and the approvals alone.
LEMMA AskedMoves ==
    ASSUME Asked, NEW w \in Workers, Others(w), UNCHANGED <<stores, posted, runs>>,
           pc'[w] = "idle" \/ Resumes(w)'
    PROVE  Asked'
<1>1. Frame
  BY DEF Frame, stores
<1>2. PausedOrClosed(incident)' /\ Between(thread)'
  BY DEF Asked, PausedOrClosed, Between, Sound, Acted, stores
<1>3. ApprovedBeforePerformed'
  BY DEF Asked, ApprovedBeforePerformed, stores
<1> QED
  BY <1>1, <1>2, <1>3, KeepsAsked DEF Asked, stores

LEMMA AskedAdmits ==
    ASSUME TypeInv, Asked, NEW w \in Workers, NEW row, NEW d \in Decision,
           PausedOrClosed(row), Awaiting(row), Admissible(row, d), Admit(w, row, d),
           UNCHANGED <<stores, runs>>
    PROVE  Asked'
<1> USE DEF stores
<1>0. pc \in [Workers -> Points] /\ req \in [Workers -> Handlers] /\ row.pending = thread.action
  BY DEF TypeInv, TypeOK, PausedOrClosed, Awaiting
<1>1. /\ pc'[w] = "resume" /\ Others(w)
      /\ req'[w].path = "human" /\ req'[w].body = d /\ req'[w].seen = row
  BY <1>0 DEF Admit, IdleHandler, Others
<1>2. Frame
  BY DEF Frame, Admit
<1>3. \A approval \in posted' : approval[1] = thread.action
  <2>1. \A approval \in posted' : approval \in posted \/ approval = <<row.pending, d.params>>
    BY DEF Admit
  <2>2. <<row.pending, d.params>>[1] = thread.action
    BY <1>0
  <2> QED
    BY <2>1, <2>2 DEF Asked
<1>4. Sound(d)' /\ d # NoDecision
  BY <1>0 DEF Sound, Admit, Admissible, NoDecision, None
<1>5. Resumes(w)'
  BY <1>1, <1>2, <1>4, Kept DEF Resumes, Awaiting, Working, Sound
<1>6. PausedOrClosed(incident)' /\ Between(thread)'
  <2>1. Between(thread) /\ thread' = thread
    BY DEF Asked
  <2>2. Sound(thread.answer)'
    BY <1>2, <2>1 DEF Frame, Sound, Between
  <2> QED
    BY <2>1, <2>2 DEF Asked, PausedOrClosed, Between, Acted
<1>7. ApprovedBeforePerformed'
  BY <1>2 DEF Asked, ApprovedBeforePerformed, Frame
<1> QED
  BY <1>1, <1>2, <1>3, <1>5, <1>6, <1>7, KeepsAsked

LEMMA AskedRequests ==
    ASSUME TypeInv, Asked, NEW w \in Workers,
           PostApproval(w) \/ ReadIncident(w) \/ AdmitAfterTimeout(w)
    PROVE  Asked' /\ UNCHANGED incident
<1> USE DEF stores, history
<1>0. /\ pc \in [Workers -> Points] /\ req \in [Workers -> Handlers] /\ PausedOrClosed(incident)
      /\ TypeOK
  BY DEF TypeInv, TypeOK, Asked
<1>1. UNCHANGED <<stores, runs>>
  BY DEF PostApproval, ReadIncident, AdmitAfterTimeout
<1>2. ASSUME NEW d, TimeOut(w, d)
      PROVE  Asked'
  <2>1. /\ pc'[w] = "resume" /\ Others(w) /\ UNCHANGED posted
        /\ req'[w].path = "timeout" /\ req'[w].seen = incident
    BY <1>0, <1>2 DEF TimeOut, IdleHandler, Others
  <2>2. PausedOrClosed(req[w].seen)'
    BY <1>0, <1>1, <2>1 DEF PausedOrClosed
  <2>3. Resumes(w)'
    BY <1>2, <2>1, <2>2 DEF Resumes, TimeOut, Awaiting, Working
  <2> QED
    BY <1>1, <2>1, <2>3, AskedMoves
<1>3. CASE ReadIncident(w)
  BY <1>1, <1>2, <1>3 DEF ReadIncident
<1>4. CASE PostApproval(w)
  <2>1. PICK d \in Decision :
          \/ TimeOut(w, d)
          \/ Awaiting(incident) /\ Admissible(incident, d) /\ Admit(w, incident, d)
    BY <1>4 DEF PostApproval, Decision
  <2> QED
    BY <1>0, <1>1, <1>2, <2>1, AskedAdmits
<1>5. CASE AdmitAfterTimeout(w)
  <2> DEFINE row == req[w].seen
             d == req[w].body
  <2>1. d \in Decision
    BY <1>0 DEF Handlers
  <2>2. PausedOrClosed(row)
    BY <1>5 DEF AdmitAfterTimeout, Asked, Resumes
  <2>3. \/ Awaiting(row) /\ Admissible(row, d) /\ Admit(w, row, d)
        \/ Release(w) /\ UNCHANGED posted
    BY <1>5 DEF AdmitAfterTimeout
  <2>4. CASE Awaiting(row) /\ Admissible(row, d) /\ Admit(w, row, d)
    <3> HIDE DEF row, d
    <3> QED
      BY <1>1, <2>1, <2>2, <2>4, AskedAdmits
  <2>5. CASE Release(w) /\ UNCHANGED posted
    BY <1>0, <1>1, <2>5, Released, AskedMoves
  <2> QED
    BY <2>3, <2>4, <2>5
<1> QED
  BY <1>1, <1>3, <1>4, <1>5

LEMMA AskedResumes ==
    ASSUME TypeInv, Asked, NEW w \in Workers, Resumes(w), Resume(w)
    PROVE  Asked' /\ UNCHANGED incident
<1> USE DEF stores, history
<1> DEFINE d == IF req[w].path = "timeout" THEN TimedOut ELSE req[w].body
           answer == IF thread.answer # NoDecision THEN thread.answer ELSE d
<1>0. /\ TypeOK /\ thread \in GraphStates /\ pc[w] = "resume"
      /\ UNCHANGED <<incident, audit, ledger, performed, posted, runs>>
  BY DEF TypeInv, TypeOK, Resume
<1>1. Between(thread) /\ PausedOrClosed(incident)
  BY DEF Asked
<1>2. Sound(d) /\ d # NoDecision
  BY DEF Resumes, Sound, TimedOut, NoDecision, None
<1>3. Sound(answer) /\ answer # NoDecision
  BY <1>1, <1>2 DEF Between
<1> HIDE DEF answer, d
<1>4. ASSUME NEW p \in {"node", "count"}, NEW g, Continue(w, p, g), Between(g),
             g.next = "evaluate_policy" => g.answer # NoDecision,
             g.next = "end" <=> p = "count", Frame
      PROVE  Resumes(w)' /\ Others(w)
  <2>1. /\ pc'[w] = p /\ Local(w)' = g /\ Others(w) /\ req'[w].path = req[w].path
        /\ req'[w].body = req[w].body /\ req'[w].seen = req[w].seen
    BY <1>0, <1>4, Continued
  <2>2. Between(Local(w))'
    <3>1. Between(g)'
      BY <1>4, Kept
    <3> QED
      BY <2>1, <3>1 DEF Between, Sound, Acted
  <2>3. Sound(req[w].body) => Sound(req[w].body)'
    BY <1>4, <2>1 DEF Frame, Sound
  <2>4. PausedOrClosed(req[w].seen)'
    BY <1>4, <2>1 DEF Frame, Resumes, PausedOrClosed
  <2>5. req[w].seen.status = "awaiting_approval"
    BY <1>0 DEF Resumes
  <2> QED
    BY <1>0, <1>4, <2>1, <2>2, <2>3, <2>4, <2>5 DEF Resumes, Working
<1>5. ASSUME Frame, Between(thread)', Others(w), Resumes(w)'
      PROVE  Asked'
  <2>1. PausedOrClosed(incident)' /\ ApprovedBeforePerformed'
    BY <1>0, <1>5 DEF Asked, Frame, PausedOrClosed, ApprovedBeforePerformed
  <2> QED
    BY <1>0, <1>5, <2>1, KeepsAsked DEF Asked, Frame
<1>6. CASE thread.next = "evaluate_policy"
  <2> DEFINE g == [thread EXCEPT !.answer = answer]
  <2>1. PICK stored \in {thread.answer, answer} : thread' = [thread EXCEPT !.answer = stored]
    BY <1>6 DEF Resume, answer, d
  <2>2. /\ thread'.answer = stored /\ thread'.next = thread.next
        /\ thread'.action = thread.action /\ thread'.evidence = thread.evidence
        /\ thread'.remediation = thread.remediation
    BY <1>0, <2>1 DEF GraphStates
  <2>3. Sound(stored)
    BY <1>1, <1>3 DEF Between
  <2>4. Frame
    BY <1>0, <2>2 DEF Frame
  <2>5. Between(thread)'
    <3>1. Sound(thread.answer)'
      BY <1>0, <2>2, <2>3 DEF Sound
    <3> QED
      BY <1>1, <1>6, <2>2, <3>1 DEF Between
  <2>6. Between(g) /\ g.answer # NoDecision /\ g.next = "evaluate_policy"
    <3>1. /\ g.answer = answer /\ g.next = thread.next /\ g.action = thread.action
          /\ g.evidence = thread.evidence /\ g.remediation = thread.remediation
      BY <1>0 DEF GraphStates
    <3> HIDE DEF g
    <3> QED
      BY <1>1, <1>3, <1>6, <3>1 DEF Between
  <2>7. Continue(w, "node", g)
    BY <1>6 DEF Resume, answer, d
  <2> HIDE DEF g
  <2> QED
    BY <1>0, <1>4, <1>5, <2>4, <2>5, <2>6, <2>7
<1>7. CASE thread.next # "evaluate_policy"
  <2>1. Continue(w, IF thread.next = "end" THEN "count" ELSE "node", thread) /\ thread' = thread
    BY <1>7 DEF Resume
  <2>2. Frame
    BY <1>0, <2>1 DEF Frame
  <2>3. Between(thread)'
    BY <1>0, <1>1, <2>1 DEF Between, Sound, Acted
  <2>4. Resumes(w)' /\ Others(w)
    BY <1>1, <1>4, <1>7, <2>1, <2>2
  <2> QED
    BY <1>0, <1>5, <2>2, <2>3, <2>4
<1> QED
  BY <1>6, <1>7

\* A node that returns stores its state: what it holds between two nodes.
LEMMA AskedSaves ==
    ASSUME TypeInv, Asked, NEW w \in Workers, Resumes(w), NEW p \in {"node", "count"}, NEW g,
           pc[w] # "admit", Save(w, p, g), Between(g), g.next = "end" <=> p = "count",
           g.next # "evaluate_policy",
           UNCHANGED <<incident, audit, ledger, performed, posted, runs>>
    PROVE  Asked'
<1>1. /\ thread' = g /\ pc'[w] = p /\ Local(w)' = g /\ Others(w) /\ req'[w].path = req[w].path
      /\ req'[w].body = req[w].body /\ req'[w].seen = req[w].seen
  BY Continued DEF Save, TypeInv
<1>2. Frame
  BY <1>1 DEF Frame, Between
<1>3. Between(g)'
  BY <1>2, Kept
<1>4. Between(thread)' /\ Between(Local(w))'
  BY <1>1, <1>3 DEF Between, Sound, Acted
<1>5. Sound(req[w].body) => Sound(req[w].body)'
  BY <1>1, <1>2 DEF Frame, Sound
<1>6. PausedOrClosed(req[w].seen)' /\ PausedOrClosed(incident)'
  BY <1>1, <1>2 DEF Frame, Resumes, PausedOrClosed, Asked
<1>7. Resumes(w)'
  BY <1>1, <1>4, <1>5, <1>6 DEF Resumes, Working
<1>8. ApprovedBeforePerformed'
  BY DEF Asked, ApprovedBeforePerformed
<1> QED
  BY <1>1, <1>2, <1>4, <1>6, <1>7, <1>8, KeepsAsked DEF Asked

LEMMA AskedExecutes ==
    ASSUME TypeInv, LedgerTrue, Asked, NEW w \in Workers, Resumes(w),
           EvaluatePolicyNoExecution(w) \/ ExecuteIdempotently(w) \/ Claim(w)
    PROVE  Asked' /\ UNCHANGED incident
<1> USE DEF stores, history
<1> DEFINE l == Local(w)
           k == KeyOf(l)
<1>0. /\ TypeOK /\ l \in GraphStates /\ thread.action \in Approvable /\ Gated(thread.action)
      /\ performed \in [Keys -> Nat]
  BY LocalType, Gating DEF TypeInv, TypeOK, Asked
<1>1. /\ l.next = "evaluate_policy" /\ l.action = thread.action /\ l.evidence = thread.evidence
      /\ Sound(l.answer) /\ pc[w] \in {"node", "claim"}
      /\ pc[w] = "node" => l.answer # NoDecision /\ l.remediation = None
  <2>1. CASE EvaluatePolicyNoExecution(w) \/ ExecuteIdempotently(w)
    <3>1. pc[w] = "node" /\ l.next = "evaluate_policy"
      BY <2>1 DEF EvaluatePolicyNoExecution, ExecuteIdempotently, AtPolicy
    <3>2. Between(l)
      BY <3>1 DEF Resumes
    <3> QED
      BY <3>1, <3>2 DEF Resumes, Between
  <2>2. CASE Claim(w)
    BY <2>2 DEF Claim, Resumes
  <2> QED
    BY <2>1, <2>2
<1>2. Executes(l) <=> l.answer.verb = "approved"
  BY <1>0, <1>1, Gating DEF Executes, Sound, Gated
<1>3. k = [action |-> thread.action, params |-> l.answer.params]
  BY <1>0, <1>1 DEF KeyOf
<1>4. /\ UNCHANGED <<incident, audit, thread, posted, runs>>
  BY DEF EvaluatePolicyNoExecution, ExecuteIdempotently, Claim
<1>s. req[w].seen.status = "awaiting_approval"
  BY <1>1 DEF Resumes
<1>5. ASSUME Others(w), Frame, ApprovedBeforePerformed', Resumes(w)' \/ pc'[w] = "idle"
      PROVE  Asked'
  <2>1. PausedOrClosed(incident)' /\ Between(thread)'
    <3>1. Sound(thread.answer)'
      BY <1>4 DEF Asked, Between, Sound
    <3>2. thread.next \in {"decide", "end"} => Acted(thread.decision, thread.remediation)'
      BY <1>4, <1>5 DEF Asked, Between, Acted, Frame
    <3> QED
      BY <1>4, <3>1, <3>2 DEF Asked, PausedOrClosed, Between
  <2> QED
    BY <1>4, <1>5, <2>1, KeepsAsked DEF Asked
<1> HIDE DEF k
\* The handler goes on to claim or to the checkpoint.
<1>6. ASSUME Frame, Others(w), pc'[w] \in {"claim", "checkpoint"},
             req'[w].path = req[w].path, req'[w].body = req[w].body, req'[w].seen = req[w].seen,
             Local(w)'.next = l.next, Local(w)'.action = l.action,
             Local(w)'.evidence = l.evidence, Local(w)'.answer = l.answer,
             pc'[w] = "claim" => Local(w)'.remediation # None,
             pc'[w] = "checkpoint" =>
                /\ l.answer # NoDecision
                /\ l.answer.verb = "approved" <=> Local(w)'.remediation # None
                /\ l.answer.verb = "approved" => k \in ledger'
      PROVE  Resumes(w)'
  <2>1. Sound(req[w].body) => Sound(req[w].body)'
    BY <1>6 DEF Frame, Sound
  <2>2. PausedOrClosed(req[w].seen)'
    BY <1>6 DEF Frame, Resumes, PausedOrClosed
  <2>3. Sound(Local(w).answer)'
    BY <1>1, <1>6 DEF Frame, Sound
  <2>4. pc'[w] = "checkpoint" => Acted(Local(w).answer, Local(w).remediation)'
    BY <1>3, <1>4, <1>6 DEF Acted
  <2> QED
    BY <1>1, <1>4, <1>6, <1>s, <2>1, <2>2, <2>3, <2>4 DEF Resumes, Working
<1>7. CASE EvaluatePolicyNoExecution(w)
  <2>1. pc'[w] = "checkpoint" /\ req'[w] = req[w] /\ Local(w)' = l /\ Others(w)
    BY <1>0, <1>7, Moved DEF EvaluatePolicyNoExecution
  <2>2. UNCHANGED <<ledger, performed>> /\ ~Executes(l) /\ pc[w] = "node"
    BY <1>7 DEF EvaluatePolicyNoExecution, AtPolicy
  <2>3. Frame /\ ApprovedBeforePerformed'
    BY <1>4, <2>2 DEF Frame, Asked, ApprovedBeforePerformed
  <2>4. Resumes(w)'
    BY <1>1, <1>2, <1>6, <2>1, <2>2, <2>3
  <2> QED
    BY <1>4, <1>5, <2>1, <2>3, <2>4
<1>8. CASE ExecuteIdempotently(w)
  <2>1. l.answer.verb = "approved" /\ pc[w] = "node" /\ ledger' = ledger
    BY <1>2, <1>8 DEF ExecuteIdempotently, AtPolicy
  <2>2. /\ Others(w) /\ k \in Keys /\ \A j \in Keys \ {k} : performed'[j] = performed[j]
        /\ \/ k \in ledger /\ pc'[w] = "checkpoint"
              /\ Local(w)' = [l EXCEPT !.remediation = "deduplicated"]
           \/ pc'[w] = "claim" /\ Local(w)' = [l EXCEPT !.remediation = "executed"]
    BY <1>8, Executed DEF k
  <2>3. /\ Local(w)'.next = l.next /\ Local(w)'.action = l.action
        /\ Local(w)'.evidence = l.evidence /\ Local(w)'.answer = l.answer
        /\ Local(w)'.remediation # None
    <3> HIDE DEF l
    <3> QED
      BY <1>0, <2>2 DEF GraphStates, None
  <2>4. /\ req'[w].path = req[w].path /\ req'[w].body = req[w].body
        /\ req'[w].seen = req[w].seen
    <3>1. \E p, g : Continue(w, p, g)
      BY <1>8 DEF ExecuteIdempotently
    <3> QED
      BY <1>0, <3>1, Continued
  <2>5. Frame
    BY <1>4, <2>1 DEF Frame
  <2>6. ApprovedBeforePerformed'
    <3>1. <<k.action, k.params>> \in posted
      BY <1>1, <1>3, <2>1 DEF Sound
    <3> QED
      BY <1>4, <2>2, <3>1 DEF Asked, ApprovedBeforePerformed
  <2>7. Resumes(w)'
    BY <1>1, <1>6, <2>1, <2>2, <2>3, <2>4, <2>5
  <2> QED
    BY <1>4, <1>5, <2>2, <2>5, <2>6, <2>7
<1>9. CASE Claim(w)
  <2>1. /\ Others(w) /\ ledger' = ledger \cup {k} /\ performed' = performed /\ pc[w] = "claim"
        /\ \/ pc'[w] = "idle"
           \/ pc'[w] = "admit" /\ req'[w] = req[w]
           \/ pc'[w] = "checkpoint" /\ req'[w] = req[w]
    BY <1>9, Claimed DEF Claim, k
  <2>2. Frame /\ ApprovedBeforePerformed'
    BY <1>4, <2>1 DEF Frame, Asked, ApprovedBeforePerformed
  <2>3. l.answer.verb = "approved" /\ l.answer # NoDecision /\ l.remediation # None
    BY <1>2, <2>1 DEF TypeInv, Claiming, NoDecision, None, Resumes
  <2>4. CASE pc'[w] = "admit" /\ req'[w] = req[w]
    <3>1. Sound(req[w].body) => Sound(req[w].body)'
      BY <2>2, <2>4 DEF Frame, Sound
    <3>2. PausedOrClosed(req[w].seen)'
      BY <2>2, <2>4 DEF Frame, Resumes, PausedOrClosed
    <3>3. Resumes(w)'
      BY <2>4, <3>1, <3>2 DEF Resumes, Working
    <3> QED
      BY <1>4, <1>5, <2>1, <2>2, <3>3
  <2>5. CASE pc'[w] = "checkpoint" /\ req'[w] = req[w]
    <3>1. Local(w)' = l
      BY <2>5 DEF Local
    <3>2. Resumes(w)'
      BY <1>6, <2>1, <2>2, <2>3, <2>5, <3>1
    <3> QED
      BY <1>4, <1>5, <2>1, <2>2, <3>2
  <2> QED
    BY <1>4, <1>5, <2>1, <2>2, <2>4, <2>5
<1> QED
  BY <1>7, <1>8, <1>9

LEMMA AskedNodes ==
    ASSUME TypeInv, Asked, NEW w \in Workers, Resumes(w),
           CheckpointPolicy(w) \/ Decide(w) \/ CountAudit(w)
    PROVE  Asked' /\ UNCHANGED incident
<1> USE DEF stores, history
<1> DEFINE l == Local(w)
<1>0. /\ TypeOK /\ l \in GraphStates /\ Gated(thread.action)
      /\ pc \in [Workers -> Points] /\ req \in [Workers -> Handlers]
  BY LocalType DEF TypeInv, TypeOK, Asked
<1>1. CASE CheckpointPolicy(w)
  <2> DEFINE g == [l EXCEPT !.next = "decide",
                            !.decision = IF Gated(l.action) THEN l.answer ELSE NoDecision,
                            !.answer = NoDecision]
  <2>1. /\ pc[w] = "checkpoint" /\ l.action = thread.action /\ l.evidence = thread.evidence
        /\ Acted(l.answer, l.remediation)
    BY <1>1 DEF CheckpointPolicy, Resumes
  <2>2. /\ g.next = "decide" /\ g.action = l.action /\ g.evidence = l.evidence
        /\ g.decision = l.answer /\ g.remediation = l.remediation /\ g.answer = NoDecision
    BY <1>0, <2>1 DEF GraphStates
  <2>3. Save(w, "node", g) /\ UNCHANGED <<incident, audit, ledger, performed, posted, runs>>
    BY <1>1 DEF CheckpointPolicy
  <2> HIDE DEF g, l
  <2>4. Between(g)
    BY <2>1, <2>2 DEF Between, Sound, NoDecision, None
  <2> QED
    BY <2>1, <2>2, <2>3, <2>4, AskedSaves
<1>2. CASE Decide(w)
  <2> DEFINE g == [l EXCEPT !.next = "end"]
  <2>1. pc[w] = "node" /\ l.next = "decide" /\ Between(l)
    BY <1>2 DEF Decide, Resumes
  <2>2. /\ g.next = "end" /\ g.action = l.action /\ g.evidence = l.evidence
        /\ g.decision = l.decision /\ g.remediation = l.remediation /\ g.answer = l.answer
    BY <1>0 DEF GraphStates
  <2>3. Save(w, "count", g) /\ UNCHANGED <<incident, audit, ledger, performed, posted, runs>>
    BY <1>2 DEF Decide
  <2> HIDE DEF g, l
  <2>4. Between(g)
    BY <2>1, <2>2 DEF Between
  <2> QED
    BY <2>1, <2>2, <2>3, <2>4, AskedSaves
<1>3. CASE CountAudit(w)
  <2>1. /\ pc[w] = "count" /\ pc'[w] = "commit" /\ Others(w)
        /\ req'[w].path = req[w].path /\ req'[w].body = req[w].body
        /\ req'[w].seen = req[w].seen /\ Local(w)' = l /\ req'[w].counted = Len(audit)
    BY <1>0, <1>3 DEF CountAudit, Others, Handlers, Local
  <2>2. UNCHANGED <<stores, posted, runs>>
    BY <1>3 DEF CountAudit
  <2>3. Len(audit) > Len(thread.evidence)
    <3>1. Len(audit) \in Nat /\ Len(thread.evidence) \in Nat
      BY <1>0 DEF TypeOK, GraphStates
    <3> QED
      BY <3>1 DEF Asked
  <2>4. Between(Local(w))' /\ PausedOrClosed(req[w].seen)'
        /\ (Sound(req[w].body) => Sound(req[w].body)')
    BY <2>1, <2>2 DEF Resumes, Between, Sound, Acted, PausedOrClosed
  <2>5. Resumes(w)'
    BY <2>1, <2>2, <2>3, <2>4 DEF Resumes, Working
  <2> QED
    BY <2>1, <2>2, <2>5, AskedMoves
<1> QED
  BY <1>1, <1>2, <1>3

\* One more row after a log that goes beyond its evidence.
LEMMA OneMoreRow ==
    ASSUME NEW S, NEW log \in Seq(S), NEW row \in S, NEW new, new = log \o <<>> \o <<row>>
    PROVE  /\ Len(new) = Len(log) + 1
           /\ \A i \in DOMAIN new : new[i] = IF i <= Len(log) THEN log[i] ELSE row
           /\ DOMAIN new = 1..(Len(log) + 1) /\ DOMAIN log = 1..Len(log)
<1>1. log \o <<>> = log /\ Len(log) \in Nat /\ DOMAIN log = 1..Len(log)
  BY ConcatEmptySeq
<1>2. /\ Len(new) = Len(log) + 1 /\ DOMAIN new = 1..(Len(log) + 1)
      /\ \A i \in 1..Len(log) : new[i] = log[i]
      /\ new[Len(log) + 1] = row
  BY <1>1
<1>3. \A i \in DOMAIN new : i \in 1..Len(log) \/ i = Len(log) + 1
  BY <1>1, <1>2
<1>4. \A i \in DOMAIN new : new[i] = IF i <= Len(log) THEN log[i] ELSE row
  BY <1>1, <1>2, <1>3
<1> QED
  BY <1>1, <1>2, <1>4

\* The result of a resume: the row of the pause is overwritten as a whole, no
\* evidence is written twice, and the answer's row is true.
LEMMA ResumeCloses ==
    ASSUME TypeInv, Asked, NEW w \in Workers, Resumes(w), CommitClose(w)
    PROVE  /\ incident'.status = "diagnosed" /\ incident'.pending = None /\ incident'.since = None
           /\ audit' = audit \o <<>> \o <<AnswerRow(w)>>
           /\ AnswerRow(w) \in Answers
           /\ AnswerRow(w).decision = Local(w).decision
           /\ AnswerRow(w).remediation = Local(w).remediation
           /\ Acted(Local(w).decision, Local(w).remediation)
<1> USE DEF stores, history
<1> DEFINE l == Local(w)
           row == req[w].seen
<1>0. /\ TypeOK /\ l \in GraphStates /\ l.evidence \in Seq(Evidence) /\ process \in Nat
      /\ req[w].counted \in Nat
  BY LocalType DEF TypeInv, TypeOK, GraphStates, Handlers
<1>1. /\ pc[w] = "commit" /\ l.next = "end" /\ Between(l) /\ l.action = thread.action
      /\ req[w].counted > Len(thread.evidence) /\ l.evidence = thread.evidence
  BY DEF CommitClose, Resumes, Between
<1>2. /\ row.status = "awaiting_approval" /\ row.pending = thread.action /\ row.since # None
  BY <1>1 DEF Resumes, PausedOrClosed
<1>3. thread.action # None
  BY Gating DEF Asked
<1> HIDE DEF l, row
<1>4. incident'.status = "diagnosed" /\ incident'.pending = None /\ incident'.since = None
  <2>1. ClosedRow(l) = [status |-> "diagnosed", pending |-> None, since |-> None,
                        diagnosis |-> l.action]
    BY <1>1, <1>3 DEF ClosedRow
  <2>2. incident' = Flushed(row, ClosedRow(l))
    BY DEF CommitClose, l, row
  <2> QED
    BY <1>2, <1>3, <2>1, <2>2 DEF Flushed, Column
<1>5. NewEvidence(w) = <<>>
  <2>1. Len(l.evidence) \in Nat /\ Len(l.evidence) < req[w].counted + 1
    BY <1>0, <1>1
  <2>2. SubSeq(l.evidence, req[w].counted + 1, Len(l.evidence)) = <<>>
    BY <1>0, <2>1, SubSeqEmpty
  <2> QED
    BY <2>2 DEF NewEvidence, l
<1>6. audit' = audit \o <<>> \o <<AnswerRow(w)>>
  <2>1. Resolving(w)
    BY <1>2 DEF Resolving, row
  <2> QED
    BY <1>5, <2>1 DEF CommitClose
<1>7. AnswerRow(w) \in Answers
  BY <1>0 DEF AnswerRow, Answers, GraphStates, l
<1>8. Acted(l.decision, l.remediation)
  BY <1>1 DEF Between
<1> QED
  BY <1>4, <1>6, <1>7, <1>8 DEF AnswerRow, l

LEMMA AskedCloses ==
    ASSUME TypeInv, Asked, NEW w \in Workers, Resumes(w), CommitClose(w)
    PROVE  Asked' /\ incident'.status = "diagnosed"
<1> USE DEF stores, history
<1> DEFINE row == AnswerRow(w)
           S == Evidence \cup Requests \cup Answers
<1>0. TypeOK /\ audit \in Seq(S) /\ Len(audit) \in Nat /\ Len(thread.evidence) \in Nat
  BY DEF TypeInv, TypeOK, GraphStates
<1>1. /\ incident'.status = "diagnosed" /\ incident'.pending = None /\ incident'.since = None
      /\ audit' = audit \o <<>> \o <<row>> /\ row \in S /\ row.kind = "approval_decision"
      /\ Acted(row.decision, row.remediation)
  <2>1. row.kind = "approval_decision"
    BY DEF AnswerRow
  <2> QED
    BY <2>1, ResumeCloses
<1> HIDE DEF row, S
<1>2. /\ Len(audit') = Len(audit) + 1
      /\ \A i \in DOMAIN audit' : audit'[i] = IF i <= Len(audit) THEN audit[i] ELSE row
      /\ DOMAIN audit' = 1..(Len(audit) + 1) /\ DOMAIN audit = 1..Len(audit)
  BY <1>0, <1>1, OneMoreRow
<1>3. UNCHANGED <<thread, ledger, performed, posted, runs>>
  BY DEF CommitClose
<1>4. Frame /\ ApprovedBeforePerformed' /\ PausedOrClosed(incident)'
  BY <1>1, <1>3 DEF Frame, Asked, ApprovedBeforePerformed, PausedOrClosed
<1>5. Between(thread)'
  BY <1>3 DEF Asked, Between, Sound, Acted
<1>6. Len(thread'.evidence) < Len(audit')
  BY <1>0, <1>2, <1>3 DEF Asked
<1>7. \A i \in DOMAIN audit' :
        IF i <= Len(thread'.evidence) THEN audit'[i] = thread'.evidence[i]
                                      ELSE audit'[i].kind # "evidence"
  <2> SUFFICES ASSUME NEW i \in DOMAIN audit'
               PROVE  IF i <= Len(thread.evidence) THEN audit'[i] = thread.evidence[i]
                                                   ELSE audit'[i].kind # "evidence"
    BY <1>3
  <2>1. CASE i <= Len(audit)
    <3>1. i \in DOMAIN audit /\ audit'[i] = audit[i]
      BY <1>0, <1>2, <2>1
    <3> QED
      BY <3>1 DEF Asked
  <2>2. CASE i > Len(audit)
    BY <1>0, <1>1, <1>2, <2>2 DEF Asked
  <2> QED
    BY <1>0, <1>2, <2>1, <2>2
<1>8. \A r \in DecisionRows' : Acted(r.decision, r.remediation)'
  <2> SUFFICES ASSUME NEW r \in DecisionRows' PROVE Acted(r.decision, r.remediation)'
    OBVIOUS
  <2>1. r \in DecisionRows \/ r = row
    <3>1. PICK i \in DOMAIN audit' : audit'[i] = r
      BY DEF DecisionRows
    <3>2. r.kind = "approval_decision"
      BY DEF DecisionRows
    <3>3. CASE i <= Len(audit)
      BY <1>0, <1>2, <3>1, <3>2, <3>3 DEF DecisionRows
    <3>4. CASE ~(i <= Len(audit))
      BY <1>2, <3>1, <3>4
    <3> QED
      BY <3>3, <3>4
  <2>2. Acted(r.decision, r.remediation)
    BY <1>1, <2>1 DEF Asked
  <2> QED
    BY <1>3, <2>2 DEF Acted
<1>9. \A v \in Workers : pc'[v] # "idle" => Resumes(v)'
  <2> SUFFICES ASSUME NEW v \in Workers, pc'[v] # "idle" PROVE Resumes(v)'
    OBVIOUS
  <2>1. /\ Others(w)
        /\ \/ pc'[w] = "idle"
           \/ pc'[w] = "admit" /\ req'[w].path = "timeout" /\ req'[w].seen = incident'
    BY <1>0, Responded DEF CommitClose
  <2>2. CASE v = w
    <3>1. PausedOrClosed(req[w].seen)'
      BY <1>4, <2>1, <2>2 DEF PausedOrClosed
    <3> QED
      BY <2>1, <2>2, <3>1 DEF Resumes, Working
  <2>3. CASE v # w
    <3>1. pc'[v] = pc[v] /\ req'[v] = req[v] /\ Resumes(v)
      BY <2>1, <2>3 DEF Others, Asked
    <3> QED
      BY <1>4, <3>1, ResumesKept
  <2> QED
    BY <2>2, <2>3
<1> QED
  BY <1>1, <1>3, <1>4, <1>5, <1>6, <1>7, <1>8, <1>9 DEF Asked

\* The steps of a handler while the incident is asked about.
LEMMA AskedActs ==
    ASSUME Asked, NEW w \in Workers, Progress(w)
    PROVE  /\ Resumes(w) /\ pc[w] # "idle"
           /\ \/ Resume(w) \/ AdmitAfterTimeout(w) \/ EvaluatePolicyNoExecution(w)
              \/ ExecuteIdempotently(w) \/ Claim(w) \/ CheckpointPolicy(w) \/ Decide(w)
              \/ CountAudit(w) \/ CommitClose(w)
<1>1. pc[w] # "idle"
  BY ByPoint DEF Working
<1>2. Resumes(w)
  BY <1>1 DEF Asked
<1>3. ~Interrupt(w) /\ ~GatherContext(w)
  <2>1. pc[w] = "node" => Between(Local(w))
    BY <1>2 DEF Resumes
  <2> QED
    BY <1>2, <2>1 DEF Interrupt, GatherContext, AtPolicy, Resumes, Between
<1>4. ~CommitPause(w)
  BY <1>2 DEF CommitPause, Resumes
<1>5. pc[w] \in {"resume", "admit"} \cup Working
  BY <1>2 DEF Resumes
<1> QED
  BY <1>1, <1>2, <1>3, <1>4, <1>5, ByPoint DEF Working

LEMMA AskedStep ==
    ASSUME TypeInv, LedgerTrue, Asked, [Next]_vars
    PROVE  Asked' /\ (Closed(incident.status) => incident'.status = incident.status)
<1> USE DEF stores, history
<1>0. TypeOK /\ (Closed(incident.status) <=> incident.status = "diagnosed")
  BY DEF TypeInv, Asked, PausedOrClosed, Closed
<1>1. CASE UNCHANGED vars
  <2>1. UNCHANGED <<incident, audit, memory, thread, ledger, performed, pc, req, posted, runs>>
    BY <1>1 DEF vars
  <2>2. (\A w \in Workers : pc[w] # "idle" => Resumes(w))'
    <3> SUFFICES ASSUME NEW w \in Workers, pc[w] # "idle" PROVE Resumes(w)'
      BY <2>1
    <3>1. Resumes(w)
      BY DEF Asked
    <3> QED
      BY <2>1, <3>1 DEF Resumes, PausedOrClosed, Between, Sound, Acted, Local
  <2>3. (PausedOrClosed(incident) /\ Between(thread))'
    BY <2>1 DEF Asked, PausedOrClosed, Between, Sound, Acted
  <2> QED
    BY <2>1, <2>2, <2>3 DEF Asked, Acted, DecisionRows, ApprovedBeforePerformed
<1>2. ASSUME NEW w \in Workers, LoadForRun(w)
      PROVE  FALSE
  BY <1>2 DEF LoadForRun, Asked, PausedOrClosed
<1>3. ASSUME NEW w \in Workers, Progress(w)
      PROVE  Asked' /\ (incident' = incident \/ incident'.status = "diagnosed")
  BY <1>3, AskedActs, AskedResumes, AskedRequests, AskedExecutes, AskedNodes, AskedCloses
<1>4. ASSUME NEW w \in Workers, Fail(w)
      PROVE  Asked' /\ incident' = incident
  <2>1. pc[w] # "idle" /\ Raise(w) /\ UNCHANGED <<stores, posted, runs>>
    BY <1>4 DEF Fail
  <2>2. Others(w) /\ (pc'[w] = "idle" \/ (pc'[w] = "admit" /\ req'[w] = req[w]))
    BY <1>0, <2>1, Raised
  <2>3. pc'[w] = "idle" \/ Resumes(w)'
    <3>1. Resumes(w)
      BY <2>1 DEF Asked
    <3> QED
      BY <2>1, <2>2, <3>1 DEF Resumes, Sound, PausedOrClosed, Working
  <2> QED
    BY <2>1, <2>2, <2>3, AskedMoves
<1>5. CASE Crash
  BY <1>5 DEF Crash, Asked, PausedOrClosed, Between, Sound, Acted, DecisionRows,
              ApprovedBeforePerformed
<1>6. CASE SlaElapses
  <2>1. /\ incident'.status = incident.status /\ incident'.pending = incident.pending
        /\ incident'.since = "overdue" /\ incident.since # None
    BY <1>0, <1>6 DEF SlaElapses, TypeOK, Rows, None
  <2>2. PausedOrClosed(incident)'
    BY <1>6, <2>1 DEF SlaElapses, Asked, PausedOrClosed, None
  <2>3. UNCHANGED <<audit, thread, ledger, performed, pc, req, posted, runs>>
    BY <1>6 DEF SlaElapses
  <2>4. Asked'
    <3>1. (\A w \in Workers : pc[w] # "idle" => Resumes(w))'
      <4> SUFFICES ASSUME NEW w \in Workers, pc[w] # "idle" PROVE Resumes(w)'
        BY <2>3
      <4>1. Resumes(w)
        BY DEF Asked
      <4> QED
        BY <2>3, <4>1 DEF Resumes, PausedOrClosed, Between, Sound, Acted, Local
    <3>2. Between(thread)'
      BY <2>3 DEF Asked, Between, Sound, Acted
    <3> QED
      BY <2>2, <2>3, <3>1, <3>2 DEF Asked, Acted, DecisionRows, ApprovedBeforePerformed
  <2> QED
    BY <2>1, <2>4
<1>7. ASSUME NEW w \in Workers, PostApproval(w) \/ ReadIncident(w)
      PROVE  Asked' /\ incident' = incident
  BY <1>7, AskedRequests
<1> QED
  BY <1>0, <1>1, <1>2, <1>3, <1>4, <1>5, <1>6, <1>7 DEF Next

-----------------------------------------------------------------------------
(* The phases are inductive, and the properties are read off them.          *)

OneRunInv == TypeInv /\ LedgerTrue /\ Phases

LEMMA OneRunInit == Init => OneRunInv
  BY TypeInit, LedgerInit, PhasesInit DEF OneRunInv, Phases

LEMMA OneRunStep ==
    ASSUME OneRun, OneRunInv, [Next]_vars
    PROVE  OneRunInv'
<1>1. TypeInv' /\ LedgerTrue'
  BY TypeStep, LedgerStep DEF OneRunInv
<1>2. Phases'
  BY OpenStep, RunningStep, SettledStep, AskedStep DEF OneRunInv, Phases, JustAsked
<1> QED
  BY <1>1, <1>2 DEF OneRunInv

LEMMA OneRunAlways ==
    ASSUME OneRun
    PROVE  Spec => []OneRunInv
<1>1. OneRunInv /\ [Next]_vars => OneRunInv'
  BY OneRunStep
<1> QED
  BY <1>1, OneRunInit, PTL DEF Spec

\* An incident that is run once starts one investigation, whatever is retried
\* after a crash (incidents.py:6 "refuses to run an Incident twice").
THEOREM OneRunStartsOnce ==
    ASSUME OneRun
    PROVE  Spec => []RunAtMostOnce
<1>1. OneRunInv => RunAtMostOnce
  BY DEF OneRunInv, Phases, Open, Running, Settled, Asked, RunAtMostOnce
<1> QED
  BY <1>1, OneRunAlways, PTL

\* What a remediation behind the gate was performed for is exactly what a human
\* approved: that action, with those parameters.
THEOREM OneRunIsApproved ==
    ASSUME OneRun
    PROVE  Spec => []ApprovedBeforePerformed
<1>1. NoGatedPerformed => ApprovedBeforePerformed
  BY DEF NoGatedPerformed, ApprovedBeforePerformed
<1>2. OneRunInv => ApprovedBeforePerformed
  BY <1>1 DEF OneRunInv, Phases, Open, Running, Settled, Asked
<1> QED
  BY <1>2, OneRunAlways, PTL

\* The pause columns are set exactly while a human is awaited, whichever stale
\* row a racing approval or SLA check writes back.
THEOREM OneRunPausesCleanly ==
    ASSUME OneRun
    PROVE  Spec => []PendingIffAwaiting
<1>1. OneRunInv => PendingIffAwaiting
  <2> SUFFICES ASSUME OneRunInv PROVE PendingIffAwaiting
    OBVIOUS
  <2>1. CASE Open
    BY <2>1 DEF Open, OpenRow, PendingIffAwaiting
  <2>2. CASE Running
    BY <2>2 DEF Running, RunningRow, OpenRow, PendingIffAwaiting
  <2>3. CASE Settled
    BY <2>3 DEF Settled, Closed, PendingIffAwaiting
  <2>4. CASE Asked
    <3>1. thread.action # None
      BY <2>4, Gating DEF Asked
    <3> QED
      BY <2>4, <3>1 DEF Asked, PausedOrClosed, PendingIffAwaiting
  <2> QED
    BY <2>1, <2>2, <2>3, <2>4 DEF OneRunInv, Phases
<1> QED
  BY <1>1, OneRunAlways, PTL

\* _persist_new_evidence, which skips as many records as there are audit rows,
\* never loses, repeats or reorders the evidence of a thread that is run once.
THEOREM OneRunKeepsEvidence ==
    ASSUME OneRun
    PROVE  Spec => []AuditMatchesEvidence
<1>1. OneRunInv => AuditMatchesEvidence
  <2> SUFFICES ASSUME OneRunInv PROVE AuditMatchesEvidence
    OBVIOUS
  <2>1. CASE Open
    BY <2>1 DEF Open, OpenRow, Closed, AuditMatchesEvidence
  <2>2. CASE Running
    BY <2>2 DEF Running, RunningRow, OpenRow, Closed, AuditMatchesEvidence
  <2>3. CASE Settled
    <3>1. thread.evidence \in Seq(Evidence)
      BY DEF OneRunInv, TypeInv, TypeOK, GraphStates
    <3>2. /\ Len(thread.evidence) \in Nat
          /\ \A i \in DOMAIN thread.evidence : i <= Len(thread.evidence)
      BY <3>1
    <3> QED
      BY <2>3, <3>2 DEF Settled, AuditMatchesEvidence
  <2>4. CASE Asked
    <3>1. Len(thread.evidence) <= Len(audit)
      BY <2>4 DEF Asked, OneRunInv, TypeInv, TypeOK, GraphStates
    <3> QED
      BY <2>4, <3>1 DEF Asked, AuditMatchesEvidence
  <2> QED
    BY <2>1, <2>2, <2>3, <2>4 DEF OneRunInv, Phases
<1> QED
  BY <1>1, OneRunAlways, PTL

\* Every approval in the audit log was performed and its key is in the ledger;
\* no denial and no timeout carries a remediation.
THEOREM OneRunDecisionsTrue ==
    ASSUME OneRun
    PROVE  Spec => []DecisionRowsTrue
<1>1. OneRunInv => DecisionRowsTrue
  <2> SUFFICES ASSUME OneRunInv PROVE DecisionRowsTrue
    OBVIOUS
  <2>1. CASE Open \/ Running
    BY <2>1 DEF Open, Running, DecisionRowsTrue, DecisionRows
  <2>2. CASE Settled
    <3>1. thread.evidence \in Seq(Evidence)
      BY DEF OneRunInv, TypeInv, TypeOK, GraphStates
    <3>2. \A i \in DOMAIN thread.evidence : thread.evidence[i] \in Evidence
      BY <3>1
    <3>3. DecisionRows = {}
      BY <2>2, <3>2 DEF Settled, DecisionRows, Evidence
    <3> QED
      BY <3>3 DEF DecisionRowsTrue
  <2>3. CASE Asked
    <3> SUFFICES ASSUME NEW row \in DecisionRows
                 PROVE  /\ (row.decision.verb = "approved") <=> (row.remediation # None)
                        /\ row.decision.verb = "approved" =>
                            \E k \in Keys : /\ k.params = row.decision.params
                                            /\ Gated(k.action) /\ k \in ledger
                                            /\ performed[k] > 0
      BY DEF DecisionRowsTrue
    <3>1. Acted(row.decision, row.remediation) /\ Gated(thread.action)
      BY <2>3 DEF Asked
    <3> DEFINE k == [action |-> thread.action, params |-> row.decision.params]
    <3>2. row.decision.verb = "approved" => k \in ledger
      BY <3>1 DEF Acted
    <3>3. ledger \subseteq Keys /\ \A key \in ledger : performed[key] > 0
      BY DEF OneRunInv, TypeInv, TypeOK, LedgerTrue
    <3>4. k.params = row.decision.params /\ Gated(k.action)
      BY <3>1
    <3> HIDE DEF k
    <3> QED
      BY <3>1, <3>2, <3>3, <3>4 DEF Acted
  <2> QED
    BY <2>1, <2>2, <2>3 DEF OneRunInv, Phases
<1> QED
  BY <1>1, OneRunAlways, PTL

\* No racing approval, SLA check or read takes a closed incident out of its
\* final status.
THEOREM OneRunClosesForGood ==
    ASSUME OneRun
    PROVE  Spec => ClosedIsFinal
<1>1. OneRunInv /\ [Next]_vars =>
        [Closed(incident.status) => incident'.status = incident.status]_vars
  <2> SUFFICES ASSUME OneRunInv, [Next]_vars, Closed(incident.status)
               PROVE  incident'.status = incident.status
    OBVIOUS
  <2>1. ~Open /\ ~Running
    BY DEF Open, Running, RunningRow, OpenRow, Closed
  <2> QED
    BY <2>1, SettledStep, AskedStep DEF OneRunInv, Phases
<1> QED
  BY <1>1, OneRunAlways, PTL DEF Spec, ClosedIsFinal

-----------------------------------------------------------------------------
(* Requests that do not overlap: the ledger.                               *)

\* No call waits for its claim any more, and one that did is lost.
LEMMA LossesKept ==
    ASSUME TypeInv, LossesCounted, UNCHANGED <<ledger, performed>>,
           \A w \in Workers : pc'[w] # "claim",
           lost' = lost \/ lost' = lost + 1,
           lost' = lost => \A w \in Workers : pc[w] # "claim"
    PROVE  LossesCounted'
<1>1. performed \in [Keys -> Nat] /\ lost \in Nat
  BY DEF TypeInv, TypeOK
<1>2. \A k : ~Unclaimed(k)'
  BY DEF Unclaimed
<1>3. lost' = lost => \A k : ~Unclaimed(k)
  BY DEF Unclaimed
<1>4. \A k \in Keys : performed[k] <= lost' \/ (k \in ledger /\ performed[k] <= 1 + lost')
  BY <1>1, <1>3 DEF LossesCounted
<1> QED
  BY <1>1, <1>2, <1>4 DEF LossesCounted

LEMMA LossesExecute ==
    ASSUME Serial, TypeInv, LossesCounted, NEW w \in Workers, ExecuteIdempotently(w)
    PROVE  LossesCounted'
<1> DEFINE k == KeyOf(Local(w))
<1>1. /\ Others(w) /\ k \in Keys /\ KeyOf(Local(w))' = k
      /\ \A j \in Keys \ {k} : performed'[j] = performed[j]
      /\ \/ k \in ledger /\ pc'[w] = "checkpoint" /\ performed' = performed
         \/ k \notin ledger /\ pc'[w] = "claim" /\ performed'[k] = performed[k] + 1
  BY Executed
<1>2. /\ pc[w] = "node" /\ ledger' = ledger /\ lost' = lost
      /\ lost \in Nat /\ performed \in [Keys -> Nat]
  BY DEF ExecuteIdempotently, AtPolicy, history, TypeInv, TypeOK
<1>3. \A v \in Workers : v = w
  BY DEF Serial
<1>4. \A j : ~Unclaimed(j)
  BY <1>2, <1>3 DEF Unclaimed
<1> HIDE DEF k
<1>5. CASE k \in ledger
  <2>1. \A j : ~Unclaimed(j)'
    BY <1>1, <1>3, <1>5 DEF Unclaimed
  <2> QED
    BY <1>1, <1>2, <1>4, <1>5, <2>1 DEF LossesCounted
<1>6. CASE k \notin ledger
  <2>1. \A j : Unclaimed(j)' <=> j = k
    BY <1>1, <1>3, <1>6 DEF Unclaimed
  <2>2. performed[k] \in Nat /\ performed[k] <= lost
    BY <1>1, <1>2, <1>4, <1>6 DEF LossesCounted
  <2>3. \A j \in Keys : /\ performed'[j] <= 1 + lost
                        /\ j \notin ledger /\ j # k => performed'[j] <= lost
    BY <1>1, <1>2, <1>4, <1>6, <2>2 DEF LossesCounted
  <2> QED
    BY <1>2, <1>6, <2>1, <2>3 DEF LossesCounted
<1> QED
  BY <1>5, <1>6

LEMMA LossesClaim ==
    ASSUME Serial, TypeInv, LossesCounted, NEW w \in Workers, Claim(w)
    PROVE  LossesCounted'
<1> DEFINE k == KeyOf(Local(w))
<1>1. k \in Keys /\ ledger' = ledger \cup {k} /\ pc'[w] # "claim"
  BY Claimed
<1>2. performed' = performed /\ lost' = lost /\ lost \in Nat /\ performed \in [Keys -> Nat]
  BY DEF Claim, history, TypeInv, TypeOK
<1>3. \A v \in Workers : v = w
  BY DEF Serial
<1>4. \A j : Unclaimed(j) => j = k
  BY <1>3 DEF Unclaimed
<1>5. \A j : ~Unclaimed(j)'
  BY <1>1, <1>3 DEF Unclaimed
<1> HIDE DEF k
<1> QED
  BY <1>1, <1>2, <1>4, <1>5 DEF LossesCounted

LEMMA LossesStep ==
    ASSUME Serial, TypeInv, LossesCounted, [Next]_vars
    PROVE  LossesCounted'
<1> USE DEF stores, history
<1>0. TypeOK /\ \A v, w \in Workers : v = w
  BY DEF TypeInv, Serial
<1>1. ASSUME NEW w \in Workers, pc'[w] # "claim", pc[w] # "claim",
             UNCHANGED <<ledger, performed, lost>>
      PROVE  LossesCounted'
  <2>1. \A v \in Workers : pc'[v] # "claim" /\ pc[v] # "claim"
    BY <1>0, <1>1
  <2> QED
    BY <1>1, <2>1, LossesKept
<1>2. CASE UNCHANGED vars
  BY <1>2 DEF vars, LossesCounted, Unclaimed, Local
<1>3. ASSUME NEW w \in Workers,
             LoadForRun(w) \/ StartRun(w) \/ PostApproval(w) \/ AdmitAfterTimeout(w)
             \/ ReadIncident(w)
      PROVE  LossesCounted'
  <2>1. UNCHANGED <<ledger, performed, lost>> /\ pc[w] \in {"idle", "start", "admit"}
    BY <1>3 DEF LoadForRun, StartRun, PostApproval, AdmitAfterTimeout, ReadIncident
  <2> QED
    BY <1>1, <1>3, <2>1, RequestSteps
<1>4. ASSUME NEW w \in Workers,
             Invoke(w) \/ Resume(w) \/ GatherContext(w) \/ Interrupt(w)
             \/ EvaluatePolicyNoExecution(w) \/ CheckpointPolicy(w) \/ Decide(w) \/ CountAudit(w)
      PROVE  LossesCounted'
  <2>1. /\ UNCHANGED <<ledger, performed, lost>>
        /\ pc[w] \in {"invoke", "resume", "node", "checkpoint", "count"}
    BY <1>4 DEF Invoke, Resume, GatherContext, Interrupt, EvaluatePolicyNoExecution,
                CheckpointPolicy, Decide, CountAudit, AtPolicy
  <2> QED
    BY <1>1, <1>4, <2>1, GraphSteps
<1>5. ASSUME NEW w \in Workers, CommitPause(w) \/ CommitClose(w)
      PROVE  LossesCounted'
  <2>1. UNCHANGED <<ledger, performed, lost>> /\ Respond(w) /\ pc[w] = "commit"
    BY <1>5 DEF CommitPause, CommitClose
  <2> QED
    BY <1>0, <1>1, <2>1, Responded
<1>6. ASSUME NEW w \in Workers, Fail(w)
      PROVE  LossesCounted'
  <2>1. /\ UNCHANGED <<ledger, performed>> /\ Raise(w)
        /\ lost' = IF pc[w] = "claim" THEN lost + 1 ELSE lost
    BY <1>6 DEF Fail
  <2>2. lost \in Nat
    BY <1>0 DEF TypeOK
  <2>3. \A v \in Workers : pc'[v] # "claim"
    BY <1>0, <2>1, Raised
  <2>4. lost' = lost => \A v \in Workers : pc[v] # "claim"
    BY <1>0, <2>1, <2>2
  <2> QED
    BY <2>1, <2>3, <2>4, LossesKept
<1>7. CASE SlaElapses
  BY <1>7 DEF SlaElapses, LossesCounted, Unclaimed, Local
<1>8. CASE Crash
  <2>1. /\ UNCHANGED <<ledger, performed>> /\ \A v \in Workers : pc'[v] # "claim"
        /\ lost' = IF \E w \in Workers : pc[w] = "claim" THEN lost + 1 ELSE lost
    BY <1>8 DEF Crash
  <2>2. lost \in Nat
    BY <1>0 DEF TypeOK
  <2>3. lost' = lost => \A v \in Workers : pc[v] # "claim"
    BY <2>1, <2>2
  <2> QED
    BY <2>1, <2>3, LossesKept
<1> QED
  BY <1>2, <1>3, <1>4, <1>5, <1>6, <1>7, <1>8, LossesExecute, LossesClaim DEF Next, Progress

\* Without overlapping requests a remediation is performed again only for a
\* crash or an exception between the tool's call and the commit of its key,
\* however often the request is repeated (idempotency.py, execute_idempotently).
THEOREM SerialRepeatsOnlyLosses ==
    ASSUME Serial
    PROVE  Spec => []RepeatedOnlyAfterLoss
<1>1. Init => LossesCounted
  BY DEF Init, LossesCounted, Unclaimed
<1>2. TypeInv /\ LossesCounted /\ [Next]_vars => (TypeInv /\ LossesCounted)'
  BY TypeStep, LossesStep
<1>3. LossesCounted => RepeatedOnlyAfterLoss
  BY DEF LossesCounted, RepeatedOnlyAfterLoss
<1> QED
  BY <1>1, <1>2, <1>3, TypeInit, PTL DEF Spec

-----------------------------------------------------------------------------
(* Requests that do not overlap: the record of a closed incident.          *)

\* Patterns are confirmed by the commit of a result, and nowhere else.
LEMMA MemoryKept ==
    ASSUME [Next]_vars, \A w \in Workers : ~CommitClose(w)
    PROVE  memory' = memory
<1> USE DEF stores, history
<1>1. CASE UNCHANGED vars
  BY <1>1 DEF vars
<1>2. ASSUME NEW w \in Workers, LoadForRun(w) \/ PostApproval(w) \/ ReadIncident(w) \/ Fail(w)
      PROVE  memory' = memory
  BY <1>2 DEF LoadForRun, PostApproval, ReadIncident, Fail
<1>3. ASSUME NEW w \in Workers, Progress(w)
      PROVE  memory' = memory
  BY <1>3 DEF Progress, StartRun, Invoke, Resume, AdmitAfterTimeout, GatherContext, Interrupt,
              EvaluatePolicyNoExecution, ExecuteIdempotently, Claim, CheckpointPolicy, Decide,
              CountAudit, CommitPause
<1>4. CASE SlaElapses \/ Crash
  BY <1>4 DEF SlaElapses, Crash
<1> QED
  BY <1>1, <1>2, <1>3, <1>4 DEF Next

LEMMA ConfirmedOnce ==
    ASSUME TypeInv, Unconfirmed, NEW g, Remember(g)
    PROVE  ConfirmedAtMostOnce'
<1>1. memory \in [ActionTypes -> Memories] /\ \A a \in ActionTypes : memory[a].count = 0
  BY DEF TypeInv, TypeOK, Unconfirmed
<1>2. CASE memory' = memory
  BY <1>1, <1>2 DEF ConfirmedAtMostOnce
<1>3. CASE memory' = [memory EXCEPT ![g.action] =
                            [count |-> @.count + 1, outcome |-> DerivedOutcome(g)]]
  <2>1. \A a \in ActionTypes : memory'[a].count = IF a = g.action THEN 1 ELSE 0
    BY <1>1, <1>3
  <2> QED
    BY <2>1 DEF ConfirmedAtMostOnce
<1> QED
  BY <1>2, <1>3 DEF Remember

\* What a handler that asks on behalf of a row that still awaits can do.
LEMMA UpToDateKept ==
    ASSUME TypeInv, LedgerTrue, Asked, NEW w \in Workers,
           pc[w] # "idle" => UpToDate(w),
           Progress(w) \/ Fail(w) \/ PostApproval(w) \/ ReadIncident(w),
           ~CommitClose(w)
    PROVE  /\ pc'[w] = "idle" \/ UpToDate(w)'
           /\ UNCHANGED <<incident, audit>>
<1> USE DEF stores, history
<1>0. TypeOK /\ pc \in [Workers -> Points] /\ req \in [Workers -> Handlers]
  BY DEF TypeInv, TypeOK
<1>1. ASSUME NEW row, NEW d, row.status = incident.status, UNCHANGED incident,
             Admit(w, row, d) \/ TimeOut(w, d)
      PROVE  UpToDate(w)'
  <2>1. /\ pc' = [pc EXCEPT ![w] = "resume"]
        /\ \/ req' = [req EXCEPT ![w] = [IdleHandler EXCEPT !.path = "human", !.body = d,
                                                            !.seen = row]]
           \/ req' = [req EXCEPT ![w] = [IdleHandler EXCEPT !.path = "timeout", !.body = d,
                                                            !.seen = incident]]
    BY <1>1 DEF Admit, TimeOut
  <2>2. pc'[w] = "resume" /\ req'[w].seen \in {row, incident}
    BY <1>0, <2>1 DEF IdleHandler
  <2> QED
    BY <1>1, <2>2 DEF UpToDate
<1>2. CASE PostApproval(w)
  BY <1>1, <1>2 DEF PostApproval
<1>3. CASE ReadIncident(w)
  BY <1>1, <1>3 DEF ReadIncident
<1>4. CASE Fail(w)
  BY <1>0, <1>4, Raised DEF Fail, UpToDate
<1>5. CASE Progress(w)
  <2>1. UpToDate(w)
    BY <1>5, AskedActs
  <2>2. ASSUME NEW p, NEW g, Continue(w, p, g), UNCHANGED incident,
               p \in {"count", "commit"} => thread' = g
        PROVE  UpToDate(w)'
    BY <1>0, <2>1, <2>2, Continued DEF UpToDate
  <2>4. CASE Resume(w)
    <3>1. PICK p, g : Continue(w, p, g) /\ (p = "node" \/ (g = thread /\ UNCHANGED thread))
      BY <2>4 DEF Resume
    <3> QED
      BY <2>2, <2>4, <3>1 DEF Resume
  <2>5. CASE CheckpointPolicy(w) \/ Decide(w)
    BY <2>2, <2>5 DEF CheckpointPolicy, Decide, Save
  <2>6. CASE ExecuteIdempotently(w)
    BY <2>2, <2>6 DEF ExecuteIdempotently
  <2>7. CASE EvaluatePolicyNoExecution(w)
    <3>1. pc'[w] = "checkpoint" /\ req' = req /\ UNCHANGED <<incident, audit>>
      BY <1>0, <2>7 DEF EvaluatePolicyNoExecution
    <3> QED
      BY <2>1, <3>1 DEF UpToDate
  <2>8. CASE Claim(w)
    <3>1. UNCHANGED <<incident, audit>>
      BY <2>8 DEF Claim
    <3> QED
      BY <2>1, <2>8, <3>1, Claimed DEF UpToDate, Local
  <2>9. CASE CountAudit(w)
    <3>1. /\ pc'[w] = "commit" /\ req'[w].seen = req[w].seen /\ req'[w].local = req[w].local
          /\ pc[w] = "count" /\ UNCHANGED <<thread, incident, audit>>
      BY <1>0, <2>9 DEF CountAudit, Handlers
    <3> QED
      BY <2>1, <3>1 DEF UpToDate, Local
  <2>10. CASE AdmitAfterTimeout(w)
    <3>1. Release(w) \/ Admit(w, req[w].seen, req[w].body)
      BY <2>10 DEF AdmitAfterTimeout
    <3> QED
      BY <1>0, <1>1, <2>1, <2>10, <3>1, Released DEF AdmitAfterTimeout, UpToDate
  <2> QED
    BY <1>5, <2>4, <2>5, <2>6, <2>7, <2>8, <2>9, <2>10, AskedActs
<1> QED
  BY <1>2, <1>3, <1>4, <1>5

\* The result of a resume that no other request overlaps closes the record.
LEMMA ResumeClosesOnce ==
    ASSUME Serial, TypeInv, Asked, ClosedOnce, NEW w \in Workers, CommitClose(w)
    PROVE  ClosedOnce'
<1> USE DEF stores, history
<1> DEFINE row == AnswerRow(w)
           S == Evidence \cup Requests \cup Answers
<1>0. TypeOK /\ audit \in Seq(S) /\ pc[w] = "commit" /\ Len(audit) \in Nat
  BY DEF TypeInv, TypeOK, CommitClose
<1>1. Resumes(w) /\ UpToDate(w)
  BY <1>0 DEF Asked, ClosedOnce
<1>2. incident.status = "awaiting_approval" /\ Local(w) = thread
  BY <1>0, <1>1 DEF Resumes, UpToDate
<1>3. DecisionRows = {} /\ Unconfirmed
  BY <1>2 DEF ClosedOnce, Closed
<1>4. /\ incident'.status = "diagnosed" /\ audit' = audit \o <<>> \o <<row>> /\ row \in S
      /\ row.decision = thread.decision /\ row.kind = "approval_decision"
  BY <1>1, <1>2, ResumeCloses DEF AnswerRow
<1> HIDE DEF row, S
<1>5. /\ Len(audit') = Len(audit) + 1
      /\ \A i \in DOMAIN audit' : audit'[i] = IF i <= Len(audit) THEN audit[i] ELSE row
      /\ DOMAIN audit' = 1..(Len(audit) + 1) /\ DOMAIN audit = 1..Len(audit)
  BY <1>0, <1>4, OneMoreRow
<1>6. UNCHANGED thread /\ thread.next = "end" /\ Remember(Local(w)) /\ Respond(w)
  BY <1>2 DEF CommitClose
<1>7. ConfirmedAtMostOnce'
  BY <1>3, <1>6, ConfirmedOnce
<1>8. OneAnswer'
  <2> DEFINE i == Len(audit) + 1
  <2>1. i \in DOMAIN audit' /\ audit'[i] = row
    BY <1>0, <1>5
  <2>2. ASSUME NEW j \in DOMAIN audit', audit'[j].kind = "approval_decision"
        PROVE  j = i
    <3>1. CASE j <= Len(audit)
      <4>1. j \in DOMAIN audit /\ audit[j].kind = "approval_decision"
        BY <1>0, <1>5, <2>2, <3>1
      <4> QED
        BY <1>3, <4>1 DEF DecisionRows
    <3>2. CASE ~(j <= Len(audit))
      BY <1>0, <1>5, <3>2
    <3> QED
      BY <3>1, <3>2
  <2> HIDE DEF i
  <2> QED
    BY <1>4, <1>6, <2>1, <2>2 DEF OneAnswer
<1>9. ASSUME NEW v \in Workers, pc'[v] # "idle"
      PROVE  UpToDate(v)'
  <2>1. v = w
    BY DEF Serial
  <2>2. pc'[w] = "admit" /\ req'[w].seen = incident'
    BY <1>0, <1>6, <1>9, <2>1, Responded
  <2> QED
    BY <2>1, <2>2 DEF UpToDate
<1> QED
  BY <1>4, <1>6, <1>7, <1>8, <1>9 DEF ClosedOnce, Closed

\* The handler that closes the incident may still answer its own request; nobody
\* else has business with it.
LEMMA AnsweredStep ==
    ASSUME Serial, TypeInv, Asked, ClosedOnce, incident.status = "diagnosed", [Next]_vars
    PROVE  /\ UNCHANGED <<incident, audit, memory, thread>>
           /\ \/ \A w \in Workers : pc'[w] = "idle"
              \/ UNCHANGED <<pc, req>>
<1> USE DEF stores, history
<1>0. TypeOK /\ incident.since = None
  BY DEF TypeInv, Asked, PausedOrClosed
<1>1. CASE UNCHANGED vars
  BY <1>1 DEF vars
<1>2. ASSUME NEW w \in Workers, LoadForRun(w) \/ PostApproval(w) \/ ReadIncident(w)
      PROVE  FALSE
  BY <1>2 DEF LoadForRun, PostApproval, ReadIncident, TimeOut, Awaiting
<1>3. ASSUME NEW w \in Workers, pc[w] # "idle"
      PROVE  pc[w] = "admit" /\ ~Awaiting(req[w].seen)
  BY <1>3 DEF Asked, Resumes, ClosedOnce, UpToDate, Awaiting
<1>4. ASSUME NEW w \in Workers, Progress(w)
      PROVE  UNCHANGED stores /\ \A v \in Workers : pc'[v] = "idle"
  <2>1. AdmitAfterTimeout(w)
    BY <1>3, <1>4, AskedActs, ByPoint
  <2>2. Release(w) /\ UNCHANGED stores
    BY <1>3, <2>1 DEF AdmitAfterTimeout
  <2> QED
    BY <1>0, <2>2, Released DEF Serial
<1>5. ASSUME NEW w \in Workers, Fail(w)
      PROVE  FALSE
  BY <1>3, <1>5 DEF Fail
<1>6. CASE SlaElapses
  BY <1>0, <1>6 DEF SlaElapses, None
<1>7. CASE Crash
  BY <1>7 DEF Crash
<1> QED
  BY <1>1, <1>2, <1>4, <1>5, <1>6, <1>7 DEF Next

LEMMA ClosedOnceInit == Init => ClosedOnce
  BY DEF Init, ClosedOnce, Unconfirmed, ConfirmedAtMostOnce, Asked, PausedOrClosed, OpenRow,
         Closed

LEMMA AskedOnceStep ==
    ASSUME Serial, TypeInv, LedgerTrue, Asked, ClosedOnce, [Next]_vars
    PROVE  ClosedOnce'
<1> USE DEF stores, history
<1>0. TypeOK /\ Asked' /\ (Closed(incident.status) => incident'.status = incident.status)
  BY AskedStep DEF TypeInv
<1>1. CASE incident.status = "diagnosed"
  <2>1. UNCHANGED <<incident, audit, memory, thread>>
    BY <1>1, AnsweredStep
  <2>2. OneAnswer' /\ thread'.next = "end" /\ ConfirmedAtMostOnce'
    BY <1>1, <2>1 DEF ClosedOnce, OneAnswer, ConfirmedAtMostOnce
  <2>3. \A w \in Workers : pc'[w] # "idle" => UpToDate(w)'
    BY <1>1, <2>1, AnsweredStep DEF ClosedOnce, UpToDate, Local
  <2> QED
    BY <1>1, <2>1, <2>2, <2>3 DEF ClosedOnce, Closed
<1>2. CASE incident.status = "awaiting_approval" /\ \E w \in Workers : CommitClose(w)
  BY <1>2, ResumeClosesOnce
<1>3. CASE incident.status = "awaiting_approval" /\ \A w \in Workers : ~CommitClose(w)
  <2>1. UNCHANGED memory /\ Unconfirmed /\ DecisionRows = {}
    BY <1>3, MemoryKept DEF ClosedOnce, Closed
  <2>2. /\ UNCHANGED audit /\ incident'.status = incident.status
        /\ \A w \in Workers : pc'[w] # "idle" => UpToDate(w)'
    <3>1. CASE UNCHANGED vars
      BY <3>1 DEF vars, ClosedOnce, UpToDate, Local
    <3>2. ASSUME NEW w \in Workers, LoadForRun(w)
          PROVE  FALSE
      BY <1>3, <3>2 DEF LoadForRun
    <3>3. ASSUME NEW w \in Workers,
                 Progress(w) \/ Fail(w) \/ PostApproval(w) \/ ReadIncident(w)
          PROVE  /\ UNCHANGED <<audit, incident>>
                 /\ \A v \in Workers : pc'[v] # "idle" => UpToDate(v)'
      <4>1. (pc'[w] = "idle" \/ UpToDate(w)') /\ UNCHANGED <<incident, audit>>
        BY <1>3, <3>3, UpToDateKept DEF ClosedOnce
      <4> QED
        BY <4>1 DEF Serial
    <3>4. CASE SlaElapses
      <4>1. incident'.status = incident.status /\ UNCHANGED <<audit, pc, req, thread>>
        BY <1>0, <3>4 DEF SlaElapses, TypeOK, Rows
      <4> QED
        BY <4>1 DEF ClosedOnce, UpToDate, Local
    <3>5. CASE Crash
      BY <3>5 DEF Crash
    <3> QED
      BY <3>1, <3>2, <3>3, <3>4, <3>5 DEF Next
  <2>3. Unconfirmed' /\ ConfirmedAtMostOnce' /\ DecisionRows' = {}
    <3>1. Unconfirmed' /\ DecisionRows' = {}
      BY <2>1, <2>2 DEF Unconfirmed, DecisionRows
    <3>2. ConfirmedAtMostOnce'
      BY <2>1 DEF ClosedOnce, ConfirmedAtMostOnce
    <3> QED
      BY <3>1, <3>2
  <2> QED
    BY <1>3, <2>2, <2>3 DEF ClosedOnce
<1> QED
  BY <1>1, <1>2, <1>3 DEF Asked, PausedOrClosed

LEMMA ClosedOnceStep ==
    ASSUME Serial, OneRunInv, ClosedOnce, [Next]_vars
    PROVE  ClosedOnce'
<1> USE DEF stores, history
<1>0. OneRun /\ TypeInv /\ LedgerTrue
  BY DEF OneRun, OneRunInv
<1>1. CASE Asked
  BY <1>0, <1>1, AskedOnceStep
<1>2. ASSUME \A w \in Workers : ~CommitClose(w)
      PROVE  /\ memory' = memory
             /\ ConfirmedAtMostOnce' /\ (Unconfirmed => Unconfirmed')
  BY <1>2, MemoryKept DEF ClosedOnce, ConfirmedAtMostOnce, Unconfirmed
<1>3. CASE Open
  <2>1. \A w \in Workers : ~CommitClose(w)
    BY <1>3 DEF Open, CommitClose
  <2>2. Open' \/ Running'
    BY <1>0, <1>3, OpenStep
  <2>3. ~Asked'
    BY <2>2 DEF Open, Running, RunningRow, OpenRow, Asked, PausedOrClosed
  <2>4. Unconfirmed
    BY <1>3 DEF Open, OpenRow, ClosedOnce, Closed
  <2> QED
    BY <1>2, <2>1, <2>3, <2>4 DEF ClosedOnce
<1>4. CASE Settled
  <2>1. UNCHANGED <<incident, audit, memory>> /\ Settled'
    BY <1>0, <1>4, SettledStep
  <2>2. ~Asked'
    BY <2>1 DEF Settled, Asked
  <2>3. ConfirmedAtMostOnce'
    BY <2>1 DEF ClosedOnce, ConfirmedAtMostOnce
  <2> QED
    BY <2>1, <2>2, <2>3 DEF ClosedOnce, Settled
<1>5. CASE Running
  <2>1. Unconfirmed
    BY <1>5 DEF Running, RunningRow, OpenRow, ClosedOnce, Closed
  <2>2. ASSUME NEW w \in Workers, CommitClose(w)
        PROVE  ClosedOnce'
    <3>1. Remember(Local(w)) /\ Runs(w)
      BY <1>5, <2>2 DEF CommitClose, Running
    <3>2. ConfirmedAtMostOnce' /\ Settled'
      BY <1>0, <1>5, <2>1, <2>2, <3>1, ConfirmedOnce, RunCloses
    <3>3. ~Asked'
      BY <3>2 DEF Settled, Asked
    <3> QED
      BY <3>2, <3>3 DEF ClosedOnce, Settled
  <2>3. ASSUME \A w \in Workers : ~CommitClose(w)
        PROVE  ClosedOnce'
    <3>1. ConfirmedAtMostOnce' /\ Unconfirmed'
      BY <1>2, <2>1, <2>3
    <3>2. Running' \/ JustAsked' \/ Settled'
      BY <1>0, <1>5, RunningStep
    <3>3. Asked' => JustAsked'
      BY <3>2 DEF Running, RunningRow, OpenRow, Settled, Asked, PausedOrClosed
    <3> QED
      BY <3>1, <3>3 DEF ClosedOnce, JustAsked
  <2> QED
    BY <2>2, <2>3
<1> QED
  BY <1>1, <1>3, <1>4, <1>5 DEF OneRunInv, Phases

LEMMA SerialAlways ==
    ASSUME Serial
    PROVE  Spec => [](OneRunInv /\ ClosedOnce)
<1>1. OneRunInv /\ ClosedOnce /\ [Next]_vars => (OneRunInv /\ ClosedOnce)'
  BY OneRunStep, ClosedOnceStep DEF OneRun
<1> QED
  BY <1>1, OneRunInit, ClosedOnceInit, PTL DEF Spec

\* The incident's approval row carries the decision its graph acted on: one row
\* if a human was asked, none otherwise, whatever timeout, denial or crash came
\* in between.
THEOREM SerialRecordsTheDecision ==
    ASSUME Serial
    PROVE  Spec => []DecisionMatchesThread
<1>1. OneRunInv /\ ClosedOnce => DecisionMatchesThread
  <2> SUFFICES ASSUME OneRunInv, ClosedOnce, Closed(incident.status)
               PROVE  DecisionMatchesThread
    BY DEF DecisionMatchesThread
  <2>1. CASE Open \/ Running
    BY <2>1 DEF Open, Running, RunningRow, OpenRow, Closed
  <2>2. CASE Settled
    <3>1. thread.evidence \in Seq(Evidence)
      BY DEF OneRunInv, TypeInv, TypeOK, GraphStates
    <3>2. \A i \in DOMAIN thread.evidence : thread.evidence[i] \in Evidence
      BY <3>1
    <3>3. \A i \in DOMAIN audit : audit[i].kind # "approval_decision"
      BY <2>2, <3>2 DEF Settled, Evidence
    <3> QED
      BY <2>2, <3>3 DEF Settled, DecisionRows, DecisionMatchesThread
  <2>3. CASE Asked
    <3>1. thread.next = "end" /\ OneAnswer
      BY <2>3 DEF Asked, PausedOrClosed, Closed, ClosedOnce
    <3>2. thread.decision # NoDecision
      BY <2>3, <3>1 DEF Asked, Between, Acted
    <3>3. PICK i \in DOMAIN audit :
            /\ audit[i].kind = "approval_decision" /\ audit[i].decision = thread.decision
            /\ \A j \in DOMAIN audit : audit[j].kind = "approval_decision" => j = i
      BY <3>1 DEF OneAnswer
    <3>4. audit[i] \in DecisionRows /\ \A row \in DecisionRows : row = audit[i]
      BY <3>3 DEF DecisionRows
    <3> QED
      BY <3>2, <3>3, <3>4 DEF DecisionMatchesThread
  <2> QED
    BY <2>1, <2>2, <2>3 DEF OneRunInv, Phases
<1> QED
  BY <1>1, SerialAlways, PTL

\* An incident confirms one pattern at most, once, however often its result is
\* asked for again.
THEOREM SerialConfirmsOnce ==
    ASSUME Serial
    PROVE  Spec => []ConfirmedAtMostOnce
<1>1. ClosedOnce => ConfirmedAtMostOnce
  BY DEF ClosedOnce
<1> QED
  BY <1>1, SerialAlways, PTL

\* Nothing touches the record of a closed incident: its row, its audit log and
\* what it confirmed are final.
THEOREM SerialSealsTheRecord ==
    ASSUME Serial
    PROVE  Spec => ClosedIsSealed
<1>1. OneRunInv /\ ClosedOnce /\ [Next]_vars =>
        [Closed(incident.status) => UNCHANGED <<incident, audit, memory>>]_vars
  <2> SUFFICES ASSUME OneRunInv, ClosedOnce, [Next]_vars, Closed(incident.status)
               PROVE  UNCHANGED <<incident, audit, memory>>
    OBVIOUS
  <2>1. ~Open /\ ~Running
    BY DEF Open, Running, RunningRow, OpenRow, Closed
  <2>2. Asked => incident.status = "diagnosed"
    BY DEF Asked, PausedOrClosed, Closed
  <2> QED
    BY <2>1, <2>2, SettledStep, AnsweredStep DEF OneRunInv, Phases
<1> QED
  BY <1>1, SerialAlways, PTL DEF Spec, ClosedIsSealed

-----------------------------------------------------------------------------
(* Without crashes and exceptions: what was performed is in the audit log.  *)

\* The key of a gated remediation, while the incident is asked about.
ThisAction(k) == k \in Keys /\ k = [action |-> thread.action, params |-> k.params]

LEMMA CarriesOn ==
    ASSUME TypeInv, Asked, NEW w \in Workers, Progress(w), ~CommitClose(w),
           NEW k, ThisAction(k), Carries(w, k)
    PROVE  Carries(w, k)'
<1> DEFINE l == Local(w)
<1>0. TypeOK /\ l \in GraphStates /\ Gated(thread.action) /\ Resumes(w)
  BY AskedActs, LocalType DEF TypeInv, Asked
<1>1. ASSUME NEW p, NEW g, Save(w, p, g)
      PROVE  pc'[w] = p /\ Local(w)' = g
  BY <1>0, <1>1, Continued DEF Save
<1>2. CASE Claim(w)
  <2>1. pc[w] = "claim" /\ k \notin ledger /\ l.answer = Approval(k)
    BY <1>2 DEF Carries, Claim
  <2>2. l.action = thread.action /\ KeyOf(l) = k
    BY <1>0, <2>1 DEF Resumes, KeyOf, ThisAction, Approval
  <2>3. pc'[w] = "checkpoint" /\ req'[w] = req[w]
    BY <1>2, <2>1, <2>2, Claimed
  <2> QED
    BY <2>1, <2>3 DEF Carries, Local, Approval
<1>3. CASE CheckpointPolicy(w)
  <2>1. pc[w] = "checkpoint" /\ l.answer = Approval(k) /\ l.action = thread.action
    BY <1>0, <1>3 DEF Carries, CheckpointPolicy, Resumes
  <2>2. pc'[w] = "node" /\ Local(w)' = [l EXCEPT !.next = "decide", !.decision = l.answer,
                                                 !.answer = NoDecision]
    BY <1>0, <1>1, <1>3, <2>1 DEF CheckpointPolicy
  <2>3. Local(w)'.next = "decide" /\ Local(w)'.decision = Approval(k)
    BY <1>0, <2>1, <2>2 DEF GraphStates
  <2> QED
    BY <2>2, <2>3 DEF Carries, Approval
<1>4. CASE Decide(w)
  <2>1. pc[w] = "node" /\ l.next = "decide" /\ l.decision = Approval(k)
    BY <1>4 DEF Decide, Carries
  <2>2. pc'[w] = "count" /\ Local(w)' = [l EXCEPT !.next = "end"]
    BY <1>1, <1>4 DEF Decide
  <2>3. Local(w)'.next = "end" /\ Local(w)'.decision = Approval(k)
    BY <1>0, <2>1, <2>2 DEF GraphStates
  <2> QED
    BY <2>2, <2>3 DEF Carries, Approval
<1>5. CASE CountAudit(w)
  <2>1. pc[w] = "count" /\ pc'[w] = "commit" /\ req'[w].local = req[w].local
    BY <1>0, <1>5 DEF CountAudit, TypeOK, Handlers
  <2> QED
    BY <2>1 DEF Carries, Local, Approval
<1>6. ~(Resume(w) \/ AdmitAfterTimeout(w) \/ EvaluatePolicyNoExecution(w) \/ ExecuteIdempotently(w))
  BY DEF Carries, Resume, AdmitAfterTimeout, EvaluatePolicyNoExecution, ExecuteIdempotently,
         AtPolicy
<1> QED
  BY <1>2, <1>3, <1>4, <1>5, <1>6, AskedActs

\* A key that was not performed before is carried by the handler that calls its
\* tool; a key that another handler claims is carried by that one.
LEMMA CarriesNew ==
    ASSUME TypeInv, Asked, NEW w \in Workers, NEW k, ThisAction(k),
           \/ ExecuteIdempotently(w) /\ performed'[k] # performed[k]
           \/ Claim(w) /\ k \in ledger' \ ledger
    PROVE  Carries(w, k)'
<1> USE DEF history
<1> DEFINE l == Local(w)
<1>0. /\ TypeOK /\ l \in GraphStates /\ Gated(thread.action) /\ k \in Keys
      /\ l.answer \in Decision
  BY LocalType DEF TypeInv, Asked, ThisAction, GraphStates
<1>1. Resumes(w) /\ Between(thread)
  BY DEF Asked, ExecuteIdempotently, Claim, AtPolicy
<1>2. l.action = thread.action /\ Executes(l)
  <2>1. CASE ExecuteIdempotently(w)
    BY <1>1, <2>1 DEF ExecuteIdempotently, AtPolicy, Resumes, Between
  <2>2. CASE Claim(w)
    BY <1>1, <2>2 DEF Claim, Resumes, TypeInv, Claiming
  <2> QED
    BY <2>1, <2>2
<1>3. l.answer.verb = "approved"
  BY <1>0, <1>2, Gating DEF Executes, Gated
<1>4. KeyOf(l) = k => l.answer = Approval(k)
  <2>1. KeyOf(l) = [action |-> l.action, params |-> l.answer.params]
    BY <1>0, <1>2 DEF KeyOf
  <2>2. l.answer = [verb |-> l.answer.verb, params |-> l.answer.params]
    BY <1>0 DEF Decision, Decisions, NoDecision
  <2> QED
    BY <1>3, <2>1, <2>2 DEF Approval
<1>5. CASE ExecuteIdempotently(w)
  <2>1. /\ KeyOf(l) = k /\ k \notin ledger /\ pc'[w] = "claim" /\ ledger' = ledger
        /\ Local(w)' = [l EXCEPT !.remediation = "executed"]
    BY <1>0, <1>5, Executed DEF ExecuteIdempotently
  <2>2. Local(w)'.answer = l.answer
    BY <1>0, <2>1 DEF GraphStates
  <2> QED
    BY <1>4, <2>1, <2>2 DEF Carries, Approval
<1>6. CASE Claim(w)
  <2>1. KeyOf(l) = k /\ pc'[w] = "checkpoint" /\ req'[w] = req[w]
    BY <1>5, <1>6, Claimed DEF Claim, ExecuteIdempotently, AtPolicy
  <2> QED
    BY <1>4, <2>1 DEF Carries, Local, Approval
<1> QED
  BY <1>5, <1>6

LEMMA AskedFor ==
    ASSUME TypeInv, Asked, NEW k \in Keys, performed[k] > 0, Gated(k.action)
    PROVE  ThisAction(k)
<1>1. <<k.action, k.params>> \in posted /\ \A approval \in posted : approval[1] = thread.action
  BY DEF Asked, ApprovedBeforePerformed
<1>2. k = [action |-> k.action, params |-> k.params]
  BY DEF Keys
<1> QED
  BY <1>1, <1>2 DEF ThisAction

\* Another handler keeps what it carries.
LEMMA OthersCarry ==
    ASSUME NEW w \in Workers, Others(w), NEW v \in Workers, v # w, NEW k, Carries(v, k),
           k \notin ledger' \ ledger
    PROVE  Carries(v, k)'
<1>1. pc'[v] = pc[v] /\ req'[v] = req[v]
  BY DEF Others
<1> QED
  BY <1>1 DEF Carries, Local, Approval

LEMMA ProgressLosesNothing ==
    ASSUME TypeInv, Asked, Asked', NothingLost, NEW w \in Workers, Progress(w),
           ~CommitClose(w)
    PROVE  NothingLost'
<1> USE DEF stores, history
<1>1. /\ Others(w) /\ UNCHANGED audit
      /\ ledger' = ledger \/ Claim(w)
      /\ performed' = performed \/ (ExecuteIdempotently(w) /\ UNCHANGED thread)
  <2>1. CASE AdmitAfterTimeout(w)
    BY <2>1, RequestSteps DEF AdmitAfterTimeout
  <2>2. CASE Resume(w) \/ EvaluatePolicyNoExecution(w) \/ CheckpointPolicy(w) \/ Decide(w)
             \/ CountAudit(w)
    BY <2>2, GraphSteps DEF Resume, EvaluatePolicyNoExecution, CheckpointPolicy, Decide,
                            CountAudit
  <2>3. CASE ExecuteIdempotently(w)
    BY <2>3, Executed DEF ExecuteIdempotently
  <2>4. CASE Claim(w)
    BY <2>4, Claimed DEF Claim
  <2> QED
    BY <2>1, <2>2, <2>3, <2>4, AskedActs
<1> SUFFICES ASSUME NEW k \in Keys, performed'[k] > 0, Gated(k.action)
             PROVE  InAudit(k)' \/ \E v \in Workers : Carries(v, k)'
  BY DEF NothingLost, Approval
<1>3. CASE performed'[k] # performed[k]
  <2>1. ExecuteIdempotently(w) /\ UNCHANGED thread
    BY <1>1, <1>3
  <2>2. <<k.action, k.params>> \in posted' /\ \A approval \in posted' : approval[1] = thread'.action
    BY DEF Asked, ApprovedBeforePerformed
  <2>3. ThisAction(k)
    BY <2>1, <2>2 DEF ThisAction, Keys
  <2> QED
    BY <1>3, <2>1, <2>3, CarriesNew
<1>4. CASE performed'[k] = performed[k]
  <2>1. ThisAction(k)
    BY <1>4, AskedFor
  <2>2. InAudit(k) \/ \E v \in Workers : Carries(v, k)
    BY <1>4 DEF NothingLost
  <2>3. CASE InAudit(k)
    BY <1>1, <2>3 DEF InAudit, DecisionRows, Approval
  <2>4. CASE k \in ledger' \ ledger
    BY <1>1, <2>1, <2>4, CarriesNew
  <2>5. ASSUME NEW v \in Workers, Carries(v, k), k \notin ledger' \ ledger
        PROVE  Carries(v, k)'
    BY <1>1, <2>1, <2>5, CarriesOn, OthersCarry
  <2> QED
    BY <2>2, <2>3, <2>4, <2>5
<1> QED
  BY <1>3, <1>4

LEMMA ClosingLosesNothing ==
    ASSUME TypeInv, Asked, Asked', NothingLost, NEW w \in Workers, CommitClose(w)
    PROVE  NothingLost'
<1> USE DEF stores, history
<1> DEFINE row == AnswerRow(w)
           S == Evidence \cup Requests \cup Answers
<1>0. /\ TypeOK /\ audit \in Seq(S) /\ pc[w] = "commit" /\ Len(audit) \in Nat /\ Resumes(w)
      /\ UNCHANGED <<ledger, performed>> /\ Respond(w)
  BY DEF TypeInv, TypeOK, CommitClose, Asked
<1>1. Others(w)
  BY <1>0, Responded
<1>2. /\ audit' = audit \o <<>> \o <<row>> /\ row \in S
      /\ row.decision = Local(w).decision /\ row.kind = "approval_decision"
  BY <1>0, ResumeCloses DEF AnswerRow
<1> HIDE DEF row, S
<1>3. /\ \A i \in DOMAIN audit' : audit'[i] = IF i <= Len(audit) THEN audit[i] ELSE row
      /\ DOMAIN audit' = 1..(Len(audit) + 1) /\ DOMAIN audit = 1..Len(audit)
  BY <1>0, <1>2, OneMoreRow
<1>4. \A r \in DecisionRows \cup {row} : r \in DecisionRows'
  <2>1. \A i \in DOMAIN audit : i \in DOMAIN audit' /\ audit'[i] = audit[i]
    BY <1>0, <1>3
  <2>2. Len(audit) + 1 \in DOMAIN audit' /\ audit'[Len(audit) + 1] = row
    BY <1>0, <1>3
  <2>3. row \in DecisionRows'
    BY <1>2, <2>2 DEF DecisionRows
  <2>4. \A r \in DecisionRows : r \in DecisionRows'
    BY <2>1 DEF DecisionRows
  <2> QED
    BY <2>3, <2>4
<1> SUFFICES ASSUME NEW k \in Keys, performed'[k] > 0, Gated(k.action)
             PROVE  InAudit(k)' \/ \E v \in Workers : Carries(v, k)'
  BY DEF NothingLost, Approval
<1>5. InAudit(k) \/ \E v \in Workers : Carries(v, k)
  BY <1>0 DEF NothingLost
<1>6. CASE InAudit(k)
  BY <1>4, <1>6 DEF InAudit, Approval
<1>7. CASE Carries(w, k)
  BY <1>0, <1>2, <1>4, <1>7 DEF Carries, InAudit, Approval
<1>8. ASSUME NEW v \in Workers, v # w, Carries(v, k)
      PROVE  Carries(v, k)'
  BY <1>0, <1>1, <1>8, OthersCarry
<1> QED
  BY <1>5, <1>6, <1>7, <1>8

LEMMA NothingLostStep ==
    ASSUME OneRun, MaxCrashes = 0, MaxFailures = 0, OneRunInv, NothingLost, [Next]_vars
    PROVE  NothingLost'
<1> USE DEF stores, history
<1>0. TypeInv /\ LedgerTrue /\ process \in Nat /\ failures \in Nat
  BY DEF OneRunInv, TypeInv, TypeOK
<1>1. ~Crash /\ \A w \in Workers : ~Fail(w)
  BY <1>0 DEF Crash, Fail
<1>2. CASE Asked
  <2>0. Asked'
    BY <1>0, <1>2, AskedStep
  <2>1. ASSUME UNCHANGED <<audit, ledger, performed>>,
               \A w \in Workers : pc[w] # "idle" => pc'[w] = pc[w] /\ req'[w] = req[w]
        PROVE  NothingLost'
    <3>1. \A k \in Keys : InAudit(k) => InAudit(k)'
      BY <2>1 DEF InAudit, DecisionRows, Approval
    <3>2. \A k \in Keys, w \in Workers : Carries(w, k) => Carries(w, k)'
      BY <2>1 DEF Carries, Local, Approval
    <3> QED
      BY <1>2, <2>1, <3>1, <3>2 DEF NothingLost, Approval
  <2>2. CASE UNCHANGED vars
    BY <2>1, <2>2 DEF vars
  <2>3. CASE SlaElapses
    BY <2>1, <2>3 DEF SlaElapses
  <2>4. ASSUME NEW w \in Workers, LoadForRun(w) \/ PostApproval(w) \/ ReadIncident(w)
        PROVE  NothingLost'
    <3>1. pc[w] = "idle" /\ UNCHANGED stores
      BY <2>4 DEF LoadForRun, PostApproval, ReadIncident
    <3>2. Others(w)
      BY <1>0, <2>4, RequestSteps
    <3> QED
      BY <2>1, <3>1, <3>2 DEF Others
  <2>5. ASSUME NEW w \in Workers, Progress(w)
        PROVE  NothingLost'
    BY <1>0, <1>2, <2>0, <2>5, ProgressLosesNothing, ClosingLosesNothing
  <2> QED
    BY <1>1, <2>2, <2>3, <2>4, <2>5 DEF Next
<1>3. CASE ~Asked
  <2>1. Asked' => NoGatedPerformed'
    <3>1. \/ Open' \/ Running' \/ Settled' \/ JustAsked'
      BY <1>0, <1>3, OpenStep, RunningStep, SettledStep DEF OneRunInv, Phases
    <3> QED
      BY <3>1 DEF Open, Running, Settled, JustAsked
  <2> QED
    BY <2>1 DEF NothingLost, NoGatedPerformed
<1> QED
  BY <1>2, <1>3

\* Without crashes and exceptions, every gated remediation that was performed is
\* in the audit log as an approval with its parameters once no request is in
\* flight, whatever approvals, timeouts and reads raced for the pause.
THEOREM FaultlessIsAudited ==
    ASSUME OneRun, MaxCrashes = 0, MaxFailures = 0
    PROVE  Spec => []PerformedIsAudited
<1>1. Init => NothingLost
  BY DEF Init, NothingLost
<1>2. OneRunInv /\ NothingLost /\ [Next]_vars => (OneRunInv /\ NothingLost)'
  BY OneRunStep, NothingLostStep
<1>3. OneRunInv /\ NothingLost => PerformedIsAudited
  <2> SUFFICES ASSUME OneRunInv, NothingLost, Quiet, Closed(incident.status),
                      NEW k \in Keys, performed[k] > 0, Gated(k.action)
               PROVE  InAudit(k)
    BY DEF PerformedIsAudited, InAudit, Approval
  <2>1. Asked
    BY DEF OneRunInv, Phases, Open, Running, RunningRow, OpenRow, Settled, Closed,
           NoGatedPerformed
  <2>2. \A w \in Workers : ~Carries(w, k)
    BY DEF Quiet, Carries
  <2> QED
    BY <2>1, <2>2 DEF NothingLost
<1> QED
  BY <1>1, <1>2, <1>3, OneRunInit, PTL DEF Spec


-----------------------------------------------------------------------------
(* Every request ends, whatever races with it.                              *)

LEMMA StepsBounded ==
    ASSUME NEW p \in Points, NEW n
    PROVE  /\ StepsFrom(p, n) \in 0..10
           /\ p = "idle" => StepsFrom(p, n) = 0
           /\ p # "idle" => StepsFrom(p, n) > 0
<1>1. p = "node" => StepsFrom(p, n) \in {4, 7, 8}
  BY DEF StepsFrom
<1>2. p # "node" => StepsFrom(p, n) \in 0..10 /\ (p # "idle" => StepsFrom(p, n) > 0)
  BY DEF Points, StepsFrom
<1>3. p = "idle" => StepsFrom(p, n) = 0
  BY DEF StepsFrom
<1> QED
  BY <1>1, <1>2, <1>3

\* A handler that goes on with the locals it has.
LEMMA GoesOn ==
    ASSUME TypeOK, NEW w \in Workers, pc[w] # "admit", pc'[w] \in Points \ {"admit"},
           req'[w].path = req[w].path, req'[w].body = req[w].body,
           StepsFrom(pc'[w], Local(w)'.next) < StepsFrom(pc[w], Local(w).next)
    PROVE  StepsLeft(w)' < StepsLeft(w)
<1> DEFINE new == StepsFrom(pc'[w], Local(w)'.next)
           old == StepsFrom(pc[w], Local(w).next)
<1>1. TimesOutFirst(w)' <=> TimesOutFirst(w)
  BY DEF TimesOutFirst
<1>2. new \in 0..10 /\ old \in 0..10
  BY StepsBounded DEF TypeOK
<1>3. /\ StepsLeft(w)' = new + (IF TimesOutFirst(w)' THEN 10 ELSE 0)
      /\ StepsLeft(w) = old + (IF TimesOutFirst(w) THEN 10 ELSE 0)
  BY DEF StepsLeft
<1> HIDE DEF new, old
<1> QED
  BY <1>1, <1>2, <1>3 DEF new, old

\* A handler that responds, or ends its pass as the timeout.
LEMMA EndsPass ==
    ASSUME TypeOK, NEW w \in Workers, pc[w] \notin {"idle", "admit"},
           \/ pc'[w] = "idle" /\ req'[w] = IdleHandler
           \/ pc'[w] = "admit" /\ req[w].path = "timeout" /\ req[w].body # NoDecision
    PROVE  StepsLeft(w)' < StepsLeft(w)
<1> DEFINE old == StepsFrom(pc[w], Local(w).next)
<1>1. old \in 1..10
  <2>1. pc[w] \in Points
    BY DEF TypeOK
  <2> QED
    BY <2>1, StepsBounded
<1>2. StepsLeft(w) = old + (IF TimesOutFirst(w) THEN 10 ELSE 0)
  BY DEF StepsLeft
<1> HIDE DEF old
<1>3. CASE pc'[w] = "idle" /\ req'[w] = IdleHandler
  <2>1. StepsLeft(w)' = 0
    BY <1>3 DEF StepsLeft, StepsFrom, TimesOutFirst, IdleHandler, None
  <2> QED
    BY <1>1, <1>2, <2>1
<1>4. CASE pc'[w] = "admit" /\ req[w].path = "timeout" /\ req[w].body # NoDecision
  <2>1. TimesOutFirst(w) /\ StepsLeft(w)' = 10
    BY <1>4 DEF StepsLeft, StepsFrom, TimesOutFirst
  <2> QED
    BY <1>1, <1>2, <2>1
<1> QED
  BY <1>3, <1>4

LEMMA MovesOn ==
    ASSUME TypeInv, NEW w \in Workers, Progress(w)
    PROVE  StepsLeft(w)' < StepsLeft(w) /\ Others(w)
<1> USE DEF stores, history
<1>0. /\ TypeOK /\ pc \in [Workers -> Points] /\ req \in [Workers -> Handlers]
      /\ pc[w] # "idle" /\ Local(w) \in GraphStates
  BY LocalType, ByPoint DEF TypeInv, TypeOK, Working
<1>1. ASSUME NEW p \in {"node", "count"}, NEW g, Continue(w, p, g), pc[w] # "admit",
             StepsFrom(p, g.next) < StepsFrom(pc[w], Local(w).next)
      PROVE  StepsLeft(w)' < StepsLeft(w) /\ Others(w)
  <2>1. /\ pc'[w] = p /\ Local(w)' = g /\ Others(w)
        /\ req'[w].path = req[w].path /\ req'[w].body = req[w].body
    BY <1>0, <1>1, Continued
  <2> QED
    BY <1>0, <1>1, <2>1, GoesOn DEF Points
<1>2. ASSUME NEW p \in {"checkpoint", "count"}, pc' = [pc EXCEPT ![w] = p], UNCHANGED req,
             pc[w] \in {"node", "claim"},
             pc[w] = "node" => Local(w).next = "evaluate_policy"
      PROVE  StepsLeft(w)' < StepsLeft(w) /\ Others(w)
  <2>1. pc'[w] = p /\ Local(w)' = Local(w) /\ req'[w] = req[w] /\ Others(w)
    BY <1>0, <1>2, Moved
  <2>2. StepsFrom(p, Local(w).next) < StepsFrom(pc[w], Local(w).next)
    BY <1>2 DEF StepsFrom
  <2> QED
    BY <1>0, <1>2, <2>1, <2>2, GoesOn DEF Points
<1>3. CASE StartRun(w)
  <2>1. /\ pc[w] = "start" /\ pc'[w] = "invoke" /\ Others(w)
        /\ req'[w].path = req[w].path /\ req'[w].body = req[w].body
    BY <1>0, <1>3 DEF StartRun, Handlers, Others
  <2>2. StepsFrom(pc'[w], Local(w)'.next) < StepsFrom(pc[w], Local(w).next)
    BY <2>1 DEF StepsFrom
  <2> QED
    BY <1>0, <2>1, <2>2, GoesOn DEF Points
<1>4. CASE Invoke(w)
  <2> DEFINE g == [NoThread EXCEPT !.next = "gather_context", !.evidence = thread.evidence]
  <2>1. pc[w] = "invoke" /\ Continue(w, "node", g)
    BY <1>4 DEF Invoke, Save
  <2>2. g.next = "gather_context"
    BY DEF NoThread
  <2> HIDE DEF g
  <2> QED
    BY <1>1, <2>1, <2>2 DEF StepsFrom
<1>5. CASE Resume(w)
  <2>1. PICK p, g : p \in {"node", "count"} /\ Continue(w, p, g)
    BY <1>5 DEF Resume
  <2>2. pc[w] = "resume"
    BY <1>5 DEF Resume
  <2> QED
    BY <1>1, <2>1, <2>2 DEF StepsFrom
<1>6. CASE GatherContext(w)
  <2>1. PICK n \in 0..MaxEvidence, a \in Diagnoses \cup {None}, c \in BOOLEAN :
          Save(w, "node", [Local(w) EXCEPT
                !.next = IF a = None THEN "decide" ELSE "evaluate_policy",
                !.evidence = @ \o Gathered(w, n),
                !.action = a,
                !.confident = c])
    BY <1>6 DEF GatherContext
  <2> DEFINE g == [Local(w) EXCEPT
                !.next = IF a = None THEN "decide" ELSE "evaluate_policy",
                !.evidence = @ \o Gathered(w, n),
                !.action = a,
                !.confident = c]
  <2>2. g.next \in {"decide", "evaluate_policy"}
    BY <1>0 DEF GraphStates
  <2>3. pc[w] = "node" /\ Local(w).next = "gather_context"
    BY <1>6 DEF GatherContext
  <2> HIDE DEF g
  <2>4. Continue(w, "node", g)
    BY <2>1 DEF Save, g
  <2> QED
    BY <1>1, <2>2, <2>3, <2>4 DEF StepsFrom
<1>7. CASE Interrupt(w) \/ EvaluatePolicyNoExecution(w)
  BY <1>2, <1>7 DEF Interrupt, EvaluatePolicyNoExecution, AtPolicy
<1>8. CASE ExecuteIdempotently(w)
  <2>1. \/ Continue(w, "checkpoint", [Local(w) EXCEPT !.remediation = "deduplicated"])
        \/ Continue(w, "claim", [Local(w) EXCEPT !.remediation = "executed"])
    BY <1>8 DEF ExecuteIdempotently
  <2>2. /\ pc'[w] \in {"claim", "checkpoint"} /\ Others(w)
        /\ req'[w].path = req[w].path /\ req'[w].body = req[w].body
    BY <1>0, <2>1, Continued
  <2>3. pc[w] = "node" /\ Local(w).next = "evaluate_policy"
    BY <1>8 DEF ExecuteIdempotently, AtPolicy
  <2>4. StepsFrom(pc'[w], Local(w)'.next) < StepsFrom(pc[w], Local(w).next)
    BY <2>2, <2>3 DEF StepsFrom
  <2> QED
    BY <1>0, <2>2, <2>3, <2>4, GoesOn DEF Points
<1>9. CASE Claim(w)
  <2>1. CASE Raise(w)
    BY <1>0, <1>9, <2>1, Raised, EndsPass DEF Claim
  <2>2. CASE pc' = [pc EXCEPT ![w] = "checkpoint"] /\ UNCHANGED req
    BY <1>2, <1>9, <2>2 DEF Claim
  <2> QED
    BY <1>9, <2>1, <2>2 DEF Claim
<1>10. CASE CheckpointPolicy(w)
  <2> DEFINE l == Local(w)
             g == [l EXCEPT !.next = "decide",
                            !.decision = IF Gated(l.action) THEN l.answer ELSE NoDecision,
                            !.answer = NoDecision]
  <2>1. pc[w] = "checkpoint" /\ Continue(w, "node", g)
    BY <1>10 DEF CheckpointPolicy, Save
  <2>2. g.next = "decide"
    BY <1>0 DEF GraphStates
  <2> HIDE DEF g
  <2> QED
    BY <1>1, <2>1, <2>2 DEF StepsFrom
<1>11. CASE Decide(w)
  <2>1. /\ pc[w] = "node" /\ Local(w).next = "decide"
        /\ Continue(w, "count", [Local(w) EXCEPT !.next = "end"])
    BY <1>11 DEF Decide, Save
  <2> QED
    BY <1>1, <2>1 DEF StepsFrom
<1>12. CASE CountAudit(w)
  <2>1. /\ pc[w] = "count" /\ pc'[w] = "commit" /\ Others(w)
        /\ req'[w].path = req[w].path /\ req'[w].body = req[w].body
    BY <1>0, <1>12 DEF CountAudit, Others, Handlers
  <2>2. StepsFrom(pc'[w], Local(w)'.next) < StepsFrom(pc[w], Local(w).next)
    BY <2>1 DEF StepsFrom
  <2> QED
    BY <1>0, <2>1, <2>2, GoesOn DEF Points
<1>13. CASE CommitPause(w) \/ CommitClose(w)
  <2>1. pc[w] = "commit" /\ Respond(w)
    BY <1>13 DEF CommitPause, CommitClose
  <2> QED
    BY <1>0, <2>1, Responded, EndsPass
<1>14. CASE AdmitAfterTimeout(w)
  <2>1. pc[w] = "admit"
    BY <1>14 DEF AdmitAfterTimeout
  <2>2. StepsLeft(w) = 10
    BY <2>1 DEF StepsLeft, StepsFrom, TimesOutFirst
  <2>3. CASE Release(w)
    <3>1. pc'[w] = "idle" /\ req'[w] = IdleHandler /\ Others(w)
      BY <1>0, <2>3, Released
    <3>2. StepsLeft(w)' = 0
      BY <3>1 DEF StepsLeft, StepsFrom, TimesOutFirst, IdleHandler, None
    <3> QED
      BY <2>2, <3>1, <3>2
  <2>4. CASE Admit(w, req[w].seen, req[w].body)
    <3>1. pc'[w] = "resume" /\ req'[w].path = "human" /\ Others(w)
      BY <1>0, <2>4 DEF Admit, IdleHandler, Others
    <3>2. StepsLeft(w)' = 9
      BY <3>1 DEF StepsLeft, StepsFrom, TimesOutFirst
    <3> QED
      BY <2>2, <3>1, <3>2
  <2> QED
    BY <1>14, <2>3, <2>4 DEF AdmitAfterTimeout
<1> QED
  BY <1>3, <1>4, <1>5, <1>6, <1>7, <1>8, <1>9, <1>10, <1>11, <1>12, <1>13, <1>14 DEF Progress

LEMMA StaysPut ==
    ASSUME TypeOK, NEW w \in Workers, pc'[w] = pc[w], req'[w] = req[w]
    PROVE  StepsLeft(w)' <= StepsLeft(w)
<1>1. StepsLeft(w)' = StepsLeft(w)
  BY DEF StepsLeft, TimesOutFirst, Local
<1>2. StepsLeft(w) \in Nat
  <2>1. StepsFrom(pc[w], Local(w).next) \in 0..10
    BY StepsBounded DEF TypeOK
  <2> QED
    BY <2>1 DEF StepsLeft
<1> QED
  BY <1>1, <1>2

\* No request is served for ever: however many others race with it, twenty steps
\* after it was admitted at the latest its response is sent, and neither another
\* thread nor an exception or a crash ever sets it back (incidents.py
\* decide_approval, which may go through the graph twice).
THEOREM EveryRequestAlwaysEnds == Spec => EveryRequestEnds
<1>1. TypeInv /\ [Next]_vars =>
        [\A w \in Workers :
            /\ Progress(w) => StepsLeft(w)' < StepsLeft(w)
            /\ pc[w] # "idle" => StepsLeft(w)' <= StepsLeft(w)]_vars
  <2> SUFFICES ASSUME TypeInv, Next, NEW w \in Workers
               PROVE  /\ Progress(w) => StepsLeft(w)' < StepsLeft(w)
                      /\ pc[w] # "idle" => StepsLeft(w)' <= StepsLeft(w)
    OBVIOUS
  <2>0. TypeOK
    BY DEF TypeInv
  <2>1. Progress(w) => StepsLeft(w)' < StepsLeft(w)
    BY MovesOn
  <2>2. ASSUME pc[w] # "idle"
        PROVE  StepsLeft(w)' <= StepsLeft(w)
    <3>1. ASSUME StepsLeft(w)' < StepsLeft(w), pc'[w] \in Points
          PROVE  StepsLeft(w)' <= StepsLeft(w)
      <4>1. /\ StepsFrom(pc[w], Local(w).next) \in 0..10
            /\ StepsFrom(pc'[w], Local(w)'.next) \in 0..10
        BY <2>0, <3>1, StepsBounded DEF TypeOK
      <4>2. StepsLeft(w) \in Nat
        BY <4>1 DEF StepsLeft
      <4>3. StepsLeft(w)' \in Nat
        BY <4>1 DEF StepsLeft
      <4> QED
        BY <3>1, <4>2, <4>3
    <3>2. pc'[w] \in Points
      BY TypeStep DEF TypeInv, TypeOK
    <3>3. ASSUME NEW v \in Workers, Others(v), v # w
          PROVE  StepsLeft(w)' <= StepsLeft(w)
      BY <2>0, <3>3, StaysPut DEF Others
    <3>4. ASSUME NEW v \in Workers, LoadForRun(v) \/ PostApproval(v) \/ ReadIncident(v)
          PROVE  StepsLeft(w)' <= StepsLeft(w)
      <4>1. pc[v] = "idle"
        BY <3>4 DEF LoadForRun, PostApproval, ReadIncident
      <4> QED
        BY <2>2, <3>3, <3>4, <4>1, RequestSteps
    <3>5. ASSUME NEW v \in Workers, Progress(v)
          PROVE  StepsLeft(w)' <= StepsLeft(w)
      BY <3>1, <3>2, <3>3, <3>5, MovesOn
    <3>6. ASSUME NEW v \in Workers, Fail(v)
          PROVE  StepsLeft(w)' <= StepsLeft(w)
      <4>1. pc[v] \notin {"idle", "admit"} /\ Raise(v)
        BY <3>6 DEF Fail
      <4> QED
        BY <2>0, <3>1, <3>2, <3>3, <4>1, Raised, EndsPass
    <3>7. CASE SlaElapses
      BY <2>0, <3>7, StaysPut DEF SlaElapses
    <3>8. CASE Crash
      <4>1. pc'[w] = "idle" /\ req'[w] = IdleHandler
        BY <3>8 DEF Crash
      <4>2. StepsLeft(w)' = 0
        BY <4>1 DEF StepsLeft, StepsFrom, TimesOutFirst, IdleHandler, None
      <4>3. StepsFrom(pc[w], Local(w).next) \in 0..10
        BY <2>0, StepsBounded DEF TypeOK
      <4>4. StepsLeft(w) \in Nat
        BY <4>3 DEF StepsLeft
      <4> QED
        BY <4>2, <4>4
    <3> QED
      BY <3>4, <3>5, <3>6, <3>7, <3>8 DEF Next
  <2> QED
    BY <2>1, <2>2
<1> QED
  BY <1>1, TypeInit, TypeStep, PTL DEF Spec, EveryRequestEnds


-----------------------------------------------------------------------------
(* The thread implements the abstract Gathering.                            *)

LEMMA InStepStep ==
    ASSUME Serial, TypeInv, InStep, [Next]_vars
    PROVE  InStep'
<1> SUFFICES ASSUME NEW w \in Workers, pc'[w] \in {"node", "claim", "checkpoint"}
             PROVE  Local(w)'.next = thread'.next
  BY DEF InStep
<1> USE DEF stores, history
<1>0. /\ TypeOK /\ thread \in GraphStates /\ Local(w) \in GraphStates
      /\ \A v \in Workers : v = w
      /\ pc[w] \in {"node", "claim", "checkpoint"} => Local(w).next = thread.next
  BY LocalType DEF TypeInv, TypeOK, Serial, InStep
<1>1. ASSUME LoadForRun(w) \/ StartRun(w) \/ PostApproval(w) \/ AdmitAfterTimeout(w)
             \/ ReadIncident(w)
      PROVE  FALSE
  BY <1>1, RequestSteps
<1>2. CASE Invoke(w) \/ GatherContext(w) \/ CheckpointPolicy(w) \/ Decide(w)
  <2>1. PICK p, g : Save(w, p, g)
    BY <1>2 DEF Invoke, GatherContext, CheckpointPolicy, Decide
  <2> QED
    BY <1>0, <2>1, Continued DEF Save
<1>3. CASE Resume(w)
  <2>1. CASE thread.next = "evaluate_policy"
    <3>1. PICK a, stored : /\ Continue(w, "node", [thread EXCEPT !.answer = a])
                           /\ thread' = [thread EXCEPT !.answer = stored]
      BY <1>3, <2>1 DEF Resume
    <3>2. Local(w)' = [thread EXCEPT !.answer = a]
      BY <1>0, <3>1, Continued
    <3> QED
      BY <1>0, <3>1, <3>2 DEF GraphStates
  <2>2. CASE thread.next # "evaluate_policy"
    <3>1. thread' = thread /\ \E p : Continue(w, p, thread)
      BY <1>3, <2>2 DEF Resume
    <3> QED
      BY <1>0, <3>1, Continued
  <2> QED
    BY <2>1, <2>2
<1>4. ASSUME Interrupt(w) \/ CountAudit(w)
      PROVE  FALSE
  BY <1>0, <1>4, Moved DEF Interrupt, CountAudit, TypeOK
<1>5. CASE EvaluatePolicyNoExecution(w)
  <2>1. Local(w)' = Local(w) /\ thread' = thread /\ pc[w] = "node"
    BY <1>0, <1>5, Moved DEF EvaluatePolicyNoExecution, AtPolicy
  <2> QED
    BY <1>0, <2>1
<1>6. CASE ExecuteIdempotently(w)
  <2>1. thread' = thread /\ pc[w] = "node"
    BY <1>6 DEF ExecuteIdempotently, AtPolicy
  <2>2. \E r : Local(w)' = [Local(w) EXCEPT !.remediation = r]
    BY <1>6, Executed
  <2> QED
    BY <1>0, <2>1, <2>2 DEF GraphStates
<1>7. CASE Claim(w)
  <2>1. thread' = thread /\ pc[w] = "claim"
    BY <1>7 DEF Claim
  <2>2. Local(w)' = Local(w)
    BY <1>7, Claimed DEF Local
  <2> QED
    BY <1>0, <2>1, <2>2
<1>8. ASSUME CommitPause(w) \/ CommitClose(w)
      PROVE  FALSE
  BY <1>0, <1>8, Responded DEF CommitPause, CommitClose
<1>9. ASSUME Fail(w)
      PROVE  FALSE
  BY <1>0, <1>9, Raised DEF Fail
<1>10. CASE Crash
  BY <1>10 DEF Crash
<1>11. CASE SlaElapses \/ UNCHANGED vars
  BY <1>0, <1>11 DEF SlaElapses, vars, Local
<1> QED
  BY <1>0, <1>1, <1>2, <1>3, <1>4, <1>5, <1>6, <1>7, <1>8, <1>9, <1>10, <1>11 DEF Next, Progress

\* A handler that collects evidence is the one of the run.
LEMMA Collecting ==
    ASSUME OneRunInv, NEW w \in Workers,
           pc[w] = "invoke" \/ (pc[w] = "node" /\ Local(w).next = "gather_context")
    PROVE  /\ pc[w] = "invoke" => thread = NoThread
           /\ pc[w] = "node" => Local(w) = thread
<1>1. ~Open /\ ~Settled
  BY DEF Open, Settled
<1>2. ~Asked
  BY DEF Asked, Resumes, Between, Working
<1> QED
  BY <1>1, <1>2 DEF OneRunInv, Phases, Running, Runs

\* Past the gate a handler holds the evidence and the diagnosis of the thread.
LEMMA SameTrail ==
    ASSUME OneRunInv, NEW w \in Workers, pc[w] \in {"node", "checkpoint"},
           Local(w).next # "gather_context"
    PROVE  Local(w).evidence = thread.evidence /\ Local(w).action = thread.action
<1>1. ~Open /\ ~Settled
  BY DEF Open, Settled
<1>2. CASE Running
  <2>1. Local(w) = thread \/ Local(w) = [thread EXCEPT !.remediation = Local(w).remediation]
    BY <1>2 DEF Running, Runs
  <2>2. thread \in GraphStates
    BY DEF OneRunInv, TypeInv, TypeOK
  <2> QED
    BY <2>1, <2>2 DEF GraphStates
<1>3. CASE Asked
  BY <1>3 DEF Asked, Resumes, Between
<1> QED
  BY <1>1, <1>2, <1>3 DEF OneRunInv, Phases

LEMMA ThreadStep ==
    ASSUME OneRunInv, InStep, [Next]_vars
    PROVE  [Thread!Next]_<<Stage, Len(thread.evidence), thread.action>>
<1> USE DEF stores, history
<1>0. /\ TypeOK /\ thread \in GraphStates
      /\ \A w \in Workers : Local(w) \in GraphStates
  BY LocalType DEF OneRunInv, TypeInv, TypeOK
<1>1. ASSUME thread'.next = thread.next \/ (thread.next = None /\ thread'.next = "gather_context"),
             thread'.evidence = thread.evidence, thread'.action = thread.action
      PROVE  UNCHANGED <<Stage, Len(thread.evidence), thread.action>>
  BY <1>1 DEF Stage
<1>2. ASSUME NEW w \in Workers, Invoke(w)
      PROVE  UNCHANGED <<Stage, Len(thread.evidence), thread.action>>
  <2>1. thread = NoThread
    BY <1>2, Collecting DEF Invoke
  <2>2. thread' = [NoThread EXCEPT !.next = "gather_context", !.evidence = thread.evidence]
    BY <1>2 DEF Invoke, Save
  <2>3. /\ thread'.next = "gather_context" /\ thread.next = None
        /\ thread'.evidence = thread.evidence /\ thread'.action = thread.action
    BY <2>1, <2>2 DEF NoThread
  <2> QED
    BY <1>1, <2>3
<1>3. ASSUME NEW w \in Workers, GatherContext(w)
      PROVE  Thread!Gather
  <2>1. Local(w) = thread /\ thread.next = "gather_context"
    BY <1>3, Collecting DEF GatherContext
  <2>2. PICK n \in 0..MaxEvidence, a \in Diagnoses \cup {None}, c \in BOOLEAN :
          /\ a # None => n > 0
          /\ Save(w, "node", [Local(w) EXCEPT
                !.next = IF a = None THEN "decide" ELSE "evaluate_policy",
                !.evidence = @ \o Gathered(w, n),
                !.action = a,
                !.confident = c])
    BY <1>3 DEF GatherContext
  <2>3. /\ thread'.next = IF a = None THEN "decide" ELSE "evaluate_policy"
        /\ thread'.evidence = thread.evidence \o Gathered(w, n)
        /\ thread'.action = a
    BY <1>0, <2>1, <2>2 DEF Save, GraphStates
  <2>4. n \in Nat /\ Gathered(w, n) \in Seq(Evidence) /\ Len(Gathered(w, n)) = n
    <3>1. n \in Nat
      BY ConstantsAssumption
    <3> QED
      BY <3>1 DEF Gathered, Evidence
  <2>5. /\ thread.evidence \in Seq(Evidence)
        /\ Len(thread'.evidence) = Len(thread.evidence) + n
    <3>1. thread.evidence \in Seq(Evidence)
      BY <1>0 DEF GraphStates
    <3>2. Len(thread.evidence \o Gathered(w, n)) = Len(thread.evidence) + Len(Gathered(w, n))
      BY <2>4, <3>1, ConcatProperties
    <3> QED
      BY <2>3, <2>4, <3>1, <3>2, Zenon
  <2>6. Len(thread.evidence) \in Nat
    BY <2>5
  <2>7. Len(thread'.evidence) \in Nat /\ (a # None => Len(thread'.evidence) > 0)
    BY <2>2, <2>4, <2>5, <2>6
  <2>8. Stage = "gather_context" /\ Stage' = IF a = None THEN "decide" ELSE "evaluate_policy"
    BY <2>1, <2>3 DEF Stage, None
  <2> QED
    BY <2>3, <2>7, <2>8 DEF Thread!Gather
<1>4. ASSUME NEW w \in Workers, CheckpointPolicy(w)
      PROVE  Thread!Pass
  <2>1. pc[w] = "checkpoint" /\ Local(w).next = thread.next
    BY <1>4 DEF CheckpointPolicy, InStep
  <2>2. thread.next = "evaluate_policy"
    <3>1. ~Open /\ ~Settled
      BY <2>1 DEF Open, Settled
    <3>2. Running => thread.next = "evaluate_policy"
      BY <2>1 DEF Running, Runs
    <3>3. Asked => Local(w).next = "evaluate_policy"
      BY <2>1 DEF Asked, Resumes
    <3> QED
      BY <2>1, <3>1, <3>2, <3>3 DEF OneRunInv, Phases
  <2>3. Local(w).evidence = thread.evidence /\ Local(w).action = thread.action
    BY <2>1, <2>2, SameTrail
  <2>4. /\ thread'.next = "decide"
        /\ thread'.evidence = Local(w).evidence /\ thread'.action = Local(w).action
    BY <1>0, <1>4 DEF CheckpointPolicy, Save, GraphStates
  <2> QED
    BY <2>2, <2>3, <2>4 DEF Thread!Pass, Stage, None
<1>5. ASSUME NEW w \in Workers, Decide(w)
      PROVE  Thread!Decide
  <2>1. pc[w] = "node" /\ Local(w).next = "decide" /\ thread.next = "decide"
    BY <1>5 DEF Decide, InStep
  <2>2. Local(w).evidence = thread.evidence /\ Local(w).action = thread.action
    BY <2>1, SameTrail
  <2>3. /\ thread'.next = "end"
        /\ thread'.evidence = Local(w).evidence /\ thread'.action = Local(w).action
    BY <1>0, <1>5 DEF Decide, Save, GraphStates
  <2> QED
    BY <2>1, <2>2, <2>3 DEF Thread!Decide, Stage, None
<1>6. ASSUME NEW w \in Workers, Resume(w)
      PROVE  UNCHANGED <<Stage, Len(thread.evidence), thread.action>>
  <2>1. thread' = thread \/ \E a : thread' = [thread EXCEPT !.answer = a]
    BY <1>6 DEF Resume
  <2>2. /\ thread'.next = thread.next /\ thread'.evidence = thread.evidence
        /\ thread'.action = thread.action
    BY <1>0, <2>1 DEF GraphStates
  <2> QED
    BY <1>1, <2>2
<1>7. ASSUME NEW w \in Workers,
             LoadForRun(w) \/ PostApproval(w) \/ ReadIncident(w) \/ Fail(w) \/ StartRun(w)
             \/ AdmitAfterTimeout(w) \/ Interrupt(w) \/ EvaluatePolicyNoExecution(w)
             \/ ExecuteIdempotently(w) \/ Claim(w) \/ CountAudit(w) \/ CommitPause(w)
             \/ CommitClose(w)
      PROVE  thread' = thread
  BY <1>7 DEF LoadForRun, PostApproval, ReadIncident, Fail, StartRun, AdmitAfterTimeout, Interrupt,
              EvaluatePolicyNoExecution, ExecuteIdempotently, Claim, CountAudit, CommitPause,
              CommitClose
<1>8. SlaElapses \/ Crash \/ UNCHANGED vars => thread' = thread
  BY DEF SlaElapses, Crash, vars
<1> QED
  BY <1>1, <1>2, <1>3, <1>4, <1>5, <1>6, <1>7, <1>8 DEF Next, Progress, Thread!Next

\* What the lifecycle takes as one step of its run is what the investigation
\* does round by round, for it implements the same Gathering: evidence is
\* collected once, a resumed thread goes on behind its gate, and nothing but a
\* diagnosis leads there, through any crashes, failures, timeouts and retries
\* of requests that do not overlap (graph.py resume_investigation).
THEOREM SerialThreadImplementsGathering ==
    ASSUME Serial
    PROVE  Spec => ThreadImplementsGathering
<1>1. Init => Thread!Init /\ InStep
  BY DEF Init, Thread!Init, Stage, NoThread, InStep
<1>2. OneRunInv /\ InStep /\ [Next]_vars => (OneRunInv /\ InStep)'
  BY OneRunStep, InStepStep DEF OneRun, OneRunInv
<1>3. OneRunInv /\ InStep /\ [Next]_vars =>
        [Thread!Next]_<<Stage, Len(thread.evidence), thread.action>>
  BY ThreadStep
<1> QED
  BY <1>1, <1>2, <1>3, OneRunInit, PTL DEF Spec, ThreadImplementsGathering, Thread!Spec


-----------------------------------------------------------------------------
(* A run that was cut short.                                                *)

\* A run that was lost is not taken up again.
LEMMA RunStaysLost ==
    ASSUME TypeInv, Running, Quiet, [Next]_vars
    PROVE  Quiet' /\ UNCHANGED stores
<1> USE DEF stores, history
<1>0. incident.status = "running" /\ incident.since = None
  BY DEF Running, RunningRow, OpenRow
<1>1. ASSUME NEW w \in Workers, LoadForRun(w) \/ PostApproval(w) \/ ReadIncident(w)
      PROVE  FALSE
  BY <1>0, <1>1 DEF LoadForRun, PostApproval, ReadIncident, TimeOut, Awaiting
<1>2. ASSUME NEW w \in Workers, Progress(w) \/ Fail(w)
      PROVE  FALSE
  BY <1>2, ByPoint DEF Quiet, Fail, Working
<1>3. ~SlaElapses
  BY <1>0 DEF SlaElapses, None
<1>4. CASE Crash
  BY <1>4 DEF Crash, Quiet
<1>5. CASE UNCHANGED vars
  BY <1>5 DEF vars, Quiet
<1> QED
  BY <1>1, <1>2, <1>3, <1>4, <1>5 DEF Next

\* A crash or an exception in the middle of an incident's only run is final: no
\* request of any kind touches the row, the audit log, the checkpoint or the
\* ledger again, and the incident says running for good (incidents.py:253 and
\* :292 refuse it, the SLA does not cover it).
THEOREM OneRunLostStaysLost ==
    ASSUME OneRun
    PROVE  Spec => LostRunStaysLost
<1>1. OneRunInv /\ [Next]_vars =>
        [incident.status = "running" /\ Quiet => UNCHANGED stores /\ Quiet']_vars
  <2> SUFFICES ASSUME OneRunInv, [Next]_vars, incident.status = "running", Quiet
               PROVE  UNCHANGED stores /\ Quiet'
    OBVIOUS
  <2>1. Running
    BY DEF OneRunInv, Phases, Open, OpenRow, Settled, Asked, PausedOrClosed, Closed
  <2> QED
    BY <2>1, RunStaysLost DEF OneRunInv
<1> QED
  BY <1>1, OneRunAlways, PTL DEF Spec, LostRunStaysLost

-----------------------------------------------------------------------------
(* Once, unless something is lost.                                          *)

LossesExplained == lost \in Nat /\ lost <= process + failures

LEMMA LossesExplainedStep ==
    ASSUME TypeInv, LossesExplained, [Next]_vars
    PROVE  LossesExplained'
<1> USE DEF stores, history
<1>0. lost \in Nat /\ process \in Nat /\ failures \in Nat /\ lost <= process + failures
  BY DEF TypeInv, TypeOK, LossesExplained
<1>1. CASE Crash
  BY <1>0, <1>1 DEF Crash, LossesExplained
<1>2. ASSUME NEW w \in Workers, Fail(w)
      PROVE  LossesExplained'
  BY <1>0, <1>2 DEF Fail, LossesExplained
<1>3. ASSUME UNCHANGED <<lost, process, failures>>
      PROVE  LossesExplained'
  BY <1>3 DEF LossesExplained
<1>4. CASE SlaElapses \/ UNCHANGED vars
  BY <1>3, <1>4 DEF SlaElapses, vars
<1>5. ASSUME NEW w \in Workers, LoadForRun(w) \/ PostApproval(w) \/ ReadIncident(w) \/ Progress(w)
      PROVE  LossesExplained'
  BY <1>3, <1>5 DEF LoadForRun, PostApproval, ReadIncident, Progress, StartRun, Invoke, Resume,
       AdmitAfterTimeout, GatherContext, Interrupt, EvaluatePolicyNoExecution, ExecuteIdempotently,
       Claim, CheckpointPolicy, Decide, CountAudit, CommitPause, CommitClose
<1> QED
  BY <1>1, <1>2, <1>4, <1>5 DEF Next

\* What idempotency.py:53 promises "ever" does hold up to the first crash or
\* exception of requests that do not overlap, for any sequence of approvals,
\* denials, reads and timeouts; race_twice refutes it for requests that do.
THEOREM SerialPerformsOnce ==
    ASSUME Serial
    PROVE  Spec => [](process = 0 /\ failures = 0 => PerformedAtMostOnce)
<1>1. Init => LossesExplained /\ LossesCounted
  BY DEF Init, LossesExplained, LossesCounted, Unclaimed
<1>2. TypeInv /\ LossesExplained /\ LossesCounted /\ [Next]_vars =>
        (TypeInv /\ LossesExplained /\ LossesCounted)'
  BY TypeStep, LossesExplainedStep, LossesStep
<1>3. TypeInv /\ LossesExplained /\ LossesCounted =>
        (process = 0 /\ failures = 0 => PerformedAtMostOnce)
  <2> SUFFICES ASSUME TypeInv, LossesExplained, LossesCounted, process = 0, failures = 0
               PROVE  PerformedAtMostOnce
    OBVIOUS
  <2>1. lost = 0
    BY DEF LossesExplained
  <2> QED
    BY <2>1 DEF LossesCounted, PerformedAtMostOnce
<1> QED
  BY <1>1, <1>2, <1>3, TypeInit, PTL DEF Spec
=============================================================================
