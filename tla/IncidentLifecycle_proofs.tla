---------------------- MODULE IncidentLifecycle_proofs ----------------------
(***************************************************************************)
(* Theorems about IncidentLifecycle, for any number of threads, requests,  *)
(* crashes and exceptions.                                                 *)
(***************************************************************************)
EXTENDS IncidentLifecycle, SequenceTheorems, TLAPS

LEMMA Actions ==
    /\ ActionTypes = {"no_action", "escalate", "restart_service", "scale_service",
                      "toggle_feature_flag", "rollback_deployment", "delete_data"}
    /\ AutoExecutable \subseteq ActionTypes
    /\ Approvable \subseteq ActionTypes
    /\ None \notin ActionTypes
  BY DEF ActionTypes, RiskTable, AutoExecutable, Approvable, None

LEMMA Defaults ==
    /\ NoDecision \in Decision
    /\ TimedOut \in Decision
    /\ OpenRow \in Rows
    /\ NoThread \in GraphStates
    /\ IdleHandler \in Handlers
<1>1. NoDecision \in Decision /\ TimedOut \in Decision
  BY DEF NoDecision, TimedOut, Decision, Decisions
<1>2. OpenRow \in Rows
  BY DEF OpenRow, Rows, Statuses
<1>3. <<>> \in Seq(Evidence)
  OBVIOUS
<1>4. NoThread \in GraphStates
  BY <1>1, <1>3 DEF NoThread, GraphStates
<1>5. IdleHandler \in Handlers
  BY <1>1, <1>2, <1>4 DEF IdleHandler, Handlers
<1>6. QED
  BY <1>1, <1>2, <1>4, <1>5

-----------------------------------------------------------------------------
(* Type correctness.  TypeOK is not inductive alone: that the claim of a    *)
(* remediation is a key needs that a handler about to claim one executed    *)
(* it.                                                                     *)

Claiming == \A w \in Workers : pc[w] = "claim" => Executes(Local(w))

TypeInv == TypeOK /\ Claiming

LEMMA KeyType ==
    ASSUME NEW g \in GraphStates, Executes(g)
    PROVE  KeyOf(g) \in Keys
<1>1. g.action \in ActionTypes
  BY Actions DEF Executes
<1>2. g.answer.params \in Params \cup {NoParams}
  BY DEF GraphStates, Decision, Decisions, NoDecision
<1>3. QED
  BY <1>1, <1>2 DEF KeyOf, Keys

LEMMA LocalType ==
    ASSUME TypeOK, NEW w \in Workers
    PROVE  /\ req[w] \in Handlers
           /\ Local(w) \in GraphStates
  BY DEF TypeOK, Local, Handlers

LEMMA ContinueType ==
    ASSUME TypeOK, NEW w \in Workers, NEW p \in Points, NEW g \in GraphStates,
           Continue(w, p, g)
    PROVE  pc' \in [Workers -> Points] /\ req' \in [Workers -> Handlers]
  BY DEF Continue, TypeOK, Handlers

LEMMA ReleaseType ==
    ASSUME TypeOK, NEW w \in Workers, Release(w)
    PROVE  pc' \in [Workers -> Points] /\ req' \in [Workers -> Handlers]
  BY Defaults DEF Release, TypeOK, Points

LEMMA RaiseType ==
    ASSUME TypeOK, NEW w \in Workers, Raise(w)
    PROVE  pc' \in [Workers -> Points] /\ req' \in [Workers -> Handlers]
  BY ReleaseType DEF Raise, TypeOK, Points

LEMMA RespondType ==
    ASSUME TypeOK, NEW w \in Workers, Respond(w), incident' \in Rows
    PROVE  pc' \in [Workers -> Points] /\ req' \in [Workers -> Handlers]
<1>1. CASE req[w].path = "timeout" /\ req[w].body # NoDecision
  <2> DEFINE row == incident'
  <2>1. row \in Rows /\ req' = [req EXCEPT ![w].seen = row]
    BY <1>1 DEF Respond
  <2>2. pc' \in [Workers -> Points]
    BY <1>1 DEF Respond, TypeOK, Points
  <2> HIDE DEF row
  <2>3. req' \in [Workers -> Handlers]
    BY <2>1 DEF TypeOK, Handlers
  <2>4. QED
    BY <2>2, <2>3
<1>2. CASE ~(req[w].path = "timeout" /\ req[w].body # NoDecision)
  BY <1>2, ReleaseType DEF Respond
<1>3. QED
  BY <1>1, <1>2

LEMMA AdmitType ==
    ASSUME TypeOK, NEW w \in Workers, NEW row \in Rows, NEW d \in Decision,
           Admissible(row, d), Admit(w, row, d)
    PROVE  /\ pc' \in [Workers -> Points] /\ req' \in [Workers -> Handlers]
           /\ posted' \subseteq (ActionTypes \cup {None}) \X Params
<1>1. pc' \in [Workers -> Points]
  BY DEF Admit, TypeOK, Points
<1>2. [IdleHandler EXCEPT !.path = "human", !.body = d, !.seen = row] \in Handlers
  BY Defaults DEF Handlers
<1>3. req' \in [Workers -> Handlers]
  BY <1>2 DEF Admit, TypeOK
<1>4. CASE d.verb = "approved"
  <2>1. <<row.pending, d.params>> \in (ActionTypes \cup {None}) \X Params
    BY <1>4, ConstantsAssumption DEF Admissible, Rows
  <2>2. QED
    BY <1>1, <1>3, <1>4, <2>1 DEF Admit, TypeOK
<1>5. CASE d.verb # "approved"
  BY <1>1, <1>3, <1>5 DEF Admit, TypeOK
<1>6. QED
  BY <1>4, <1>5

LEMMA TimeOutType ==
    ASSUME TypeOK, NEW w \in Workers, NEW d \in Decision, TimeOut(w, d)
    PROVE  /\ pc' \in [Workers -> Points] /\ req' \in [Workers -> Handlers]
           /\ posted' \subseteq (ActionTypes \cup {None}) \X Params
<1>1. [IdleHandler EXCEPT !.path = "timeout", !.body = d, !.seen = incident] \in Handlers
  BY Defaults DEF Handlers, TypeOK
<1>2. QED
  BY <1>1 DEF TimeOut, TypeOK, Points

LEMMA FlushedType ==
    ASSUME TypeOK, NEW old \in Rows, NEW new \in Rows
    PROVE  Flushed(old, new) \in Rows
  BY DEF Flushed, Column, TypeOK, Rows

LEMMA NewEvidenceType ==
    ASSUME TypeOK, NEW w \in Workers
    PROVE  NewEvidence(w) \in Seq(Evidence)
<1>1. Local(w).evidence \in Seq(Evidence) /\ req[w].counted \in Nat
  BY LocalType DEF GraphStates, Handlers
<1>2. \A i \in req[w].counted + 1 .. Len(Local(w).evidence) : Local(w).evidence[i] \in Evidence
  BY <1>1
<1>3. QED
  BY <1>1, <1>2, SubSeqProperties DEF NewEvidence

LEMMA AuditType ==
    ASSUME TypeOK, NEW w \in Workers, NEW rows \in Seq(Requests \cup Answers)
    PROVE  audit \o NewEvidence(w) \o rows \in Seq(Evidence \cup Requests \cup Answers)
<1> DEFINE S == Evidence \cup Requests \cup Answers
<1>1. NewEvidence(w) \in Seq(S) /\ rows \in Seq(S) /\ audit \in Seq(S)
  BY NewEvidenceType DEF TypeOK
<1> HIDE DEF S
<1>2. audit \o NewEvidence(w) \in Seq(S)
  BY <1>1, ConcatProperties
<1>3. audit \o NewEvidence(w) \o rows \in Seq(S)
  BY <1>1, <1>2, ConcatProperties
<1>4. QED
  BY <1>3 DEF S

LEMMA OutcomeType ==
    ASSUME NEW g \in GraphStates
    PROVE  DerivedOutcome(g) \in {"blocked", "executed", "approved_and_executed", "denied"}
  BY DEF DerivedOutcome

LEMMA TypeInit == Init => TypeInv
<1> SUFFICES ASSUME Init PROVE TypeInv
  OBVIOUS
<1>1. memory \in [ActionTypes -> Memories]
  BY DEF Init, Memories
<1>2. <<>> \in Seq(Evidence \cup Requests \cup Answers)
  OBVIOUS
<1>3. TypeOK
  BY <1>1, <1>2, Defaults DEF Init, TypeOK, Points
<1>4. Claiming
  BY DEF Init, Claiming
<1>5. QED
  BY <1>3, <1>4 DEF TypeInv

\* One lemma per kind of step: the request's own steps, the graph's, the
\* result's and the environment's.
LEMMA TypeRequests ==
    ASSUME TypeInv, NEW w \in Workers,
           LoadForRun(w) \/ StartRun(w) \/ Invoke(w) \/ PostApproval(w) \/ AdmitAfterTimeout(w)
           \/ ReadIncident(w) \/ Resume(w)
    PROVE  TypeInv'
<1> USE DEF stores, history
<1>0. TypeOK /\ Claiming
  BY DEF TypeInv
<1>a. w \in Workers /\ req[w] \in Handlers /\ thread \in GraphStates /\ incident \in Rows
  BY <1>0, LocalType DEF TypeOK
<1>1. CASE LoadForRun(w)
  <2>1. [IdleHandler EXCEPT !.path = "run", !.seen = incident] \in Handlers
    BY <1>a, Defaults DEF Handlers
  <2>2. TypeOK'
    BY <1>0, <1>1, <2>1 DEF LoadForRun, TypeOK, Points
  <2>3. Claiming'
    BY <1>0, <1>1 DEF LoadForRun, TypeOK, Claiming, Local
  <2>4. QED
    BY <2>2, <2>3 DEF TypeInv
<1>2. CASE StartRun(w)
  <2>1. incident' \in Rows
    BY <1>a, <1>2 DEF StartRun, Rows, Statuses
  <2>2. PICK row \in Rows : req' = [req EXCEPT ![w].seen = row]
    BY <1>2, <2>1 DEF StartRun
  <2>3. req' \in [Workers -> Handlers]
    BY <1>0, <2>2 DEF TypeOK, Handlers
  <2>4. TypeOK'
    BY <1>0, <1>2, <2>1, <2>3 DEF StartRun, TypeOK, Points
  <2>5. Claiming'
    BY <1>0, <1>2, <2>2 DEF StartRun, TypeOK, Claiming, Local
  <2>6. QED
    BY <2>4, <2>5 DEF TypeInv
<1>3. CASE Invoke(w)
  <2> DEFINE g == [NoThread EXCEPT !.next = "gather_context", !.evidence = thread.evidence]
  <2>1. g \in GraphStates
    BY <1>a, Defaults DEF GraphStates
  <2> HIDE DEF g
  <2>2. Continue(w, "node", g) /\ thread' = g
    BY <1>3 DEF Invoke, Save, g
  <2>3. TypeOK'
    BY <1>0, <1>3, <2>1, <2>2, ContinueType DEF Invoke, TypeOK, Points
  <2>4. Claiming'
    BY <1>0, <2>2 DEF Continue, TypeOK, Claiming, Local
  <2>5. QED
    BY <2>3, <2>4 DEF TypeInv
<1>4. CASE PostApproval(w)
  <2>1. PICK d \in Decision :
          \/ TimeOut(w, d)
          \/ Admissible(incident, d) /\ Admit(w, incident, d)
    BY <1>4 DEF PostApproval, Decision
  <2>2. /\ pc' \in [Workers -> Points] /\ req' \in [Workers -> Handlers]
        /\ posted' \subseteq (ActionTypes \cup {None}) \X Params
    BY <1>0, <1>a, <2>1, TimeOutType, AdmitType
  <2>3. pc' = [pc EXCEPT ![w] = "resume"] /\ \A v \in Workers \ {w} : req'[v] = req[v]
    BY <1>0, <2>1 DEF TimeOut, Admit, TypeOK
  <2>4. TypeOK'
    BY <1>0, <1>4, <2>2 DEF PostApproval, TypeOK
  <2>5. Claiming'
    BY <1>0, <2>3 DEF TypeOK, Claiming, Local
  <2>6. QED
    BY <2>4, <2>5 DEF TypeInv
<1>5. CASE AdmitAfterTimeout(w)
  <2> DEFINE row == req[w].seen
             d == req[w].body
  <2>1. row \in Rows /\ d \in Decision
    BY <1>a DEF Handlers
  <2>2. \/ Admissible(row, d) /\ Admit(w, row, d)
        \/ Release(w) /\ UNCHANGED posted
    BY <1>5 DEF AdmitAfterTimeout
  <2>3. /\ pc' \in [Workers -> Points] /\ req' \in [Workers -> Handlers]
        /\ posted' \subseteq (ActionTypes \cup {None}) \X Params
    <3>1. CASE Admissible(row, d) /\ Admit(w, row, d)
      <4> HIDE DEF row, d
      <4>1. QED
        BY <1>0, <2>1, <3>1, AdmitType
    <3>2. CASE Release(w) /\ UNCHANGED posted
      BY <1>0, <3>2, ReleaseType DEF TypeOK
    <3>3. QED
      BY <2>2, <3>1, <3>2
  <2>4. /\ \E p \in {"resume", "idle"} : pc' = [pc EXCEPT ![w] = p]
        /\ \A v \in Workers \ {w} : req'[v] = req[v]
    BY <1>0, <2>2 DEF Admit, Release, TypeOK
  <2>5. TypeOK'
    BY <1>0, <1>5, <2>3 DEF AdmitAfterTimeout, TypeOK
  <2>6. Claiming'
    BY <1>0, <2>4 DEF TypeOK, Claiming, Local
  <2>7. QED
    BY <2>5, <2>6 DEF TypeInv
<1>6. CASE ReadIncident(w)
  <2>1. TypeOK'
    BY <1>0, <1>6, TimeOutType, Defaults DEF ReadIncident, TypeOK
  <2>2. Claiming'
    BY <1>0, <1>6 DEF ReadIncident, TimeOut, TypeOK, Claiming, Local
  <2>3. QED
    BY <2>1, <2>2 DEF TypeInv
<1>7. CASE Resume(w)
  <2> DEFINE d == IF req[w].path = "timeout" THEN TimedOut ELSE req[w].body
             answer == IF thread.answer # NoDecision THEN thread.answer ELSE d
  <2>1. answer \in Decision
    BY <1>a, Defaults DEF Handlers, GraphStates
  <2>2. PICK g \in GraphStates, p \in {"count", "node"} : Continue(w, p, g)
    <3>1. [thread EXCEPT !.answer = answer] \in GraphStates
      BY <1>a, <2>1 DEF GraphStates
    <3>2. QED
      BY <1>7, <1>a, <3>1 DEF Resume
  <2>3. thread' \in GraphStates
    <3>1. \A stored \in {thread.answer, answer} : [thread EXCEPT !.answer = stored] \in GraphStates
      BY <1>a, <2>1 DEF GraphStates
    <3>2. QED
      BY <1>7, <1>a, <3>1 DEF Resume
  <2>4. TypeOK'
    BY <1>0, <1>7, <2>2, <2>3, ContinueType DEF Resume, TypeOK, Points
  <2>5. Claiming'
    BY <1>0, <2>2 DEF Continue, TypeOK, Claiming, Local
  <2>6. QED
    BY <2>4, <2>5 DEF TypeInv
<1>8. QED
  BY <1>1, <1>2, <1>3, <1>4, <1>5, <1>6, <1>7

LEMMA TypeNodes ==
    ASSUME TypeInv, NEW w \in Workers,
           GatherContext(w) \/ Interrupt(w) \/ EvaluatePolicyNoExecution(w)
           \/ ExecuteIdempotently(w) \/ Claim(w) \/ CheckpointPolicy(w) \/ Decide(w)
    PROVE  TypeInv'
<1> USE DEF stores, history
<1>0. TypeOK /\ Claiming
  BY DEF TypeInv
<1>a. Local(w) \in GraphStates
  BY <1>0, LocalType
<1>1. CASE GatherContext(w)
  <2>1. PICK n \in 0..MaxEvidence, a \in Diagnoses \cup {None}, c \in BOOLEAN :
          Save(w, "node", [Local(w) EXCEPT
                !.next = IF a = None THEN "decide" ELSE "evaluate_policy",
                !.evidence = @ \o Gathered(w, n),
                !.action = a,
                !.confident = c])
    BY <1>1 DEF GatherContext
  <2> DEFINE g == [Local(w) EXCEPT
                !.next = IF a = None THEN "decide" ELSE "evaluate_policy",
                !.evidence = @ \o Gathered(w, n),
                !.action = a,
                !.confident = c]
  <2>2. Gathered(w, n) \in Seq(Evidence)
    BY ConstantsAssumption DEF Gathered, Evidence
  <2>3. Local(w).evidence \o Gathered(w, n) \in Seq(Evidence)
    BY <1>a, <2>2, ConcatProperties DEF GraphStates
  <2>4. g \in GraphStates
    BY <1>a, <2>3, ConstantsAssumption DEF GraphStates
  <2> HIDE DEF g
  <2>5. Continue(w, "node", g) /\ thread' = g
    BY <2>1 DEF Save, g
  <2>6. TypeOK'
    BY <1>0, <1>1, <2>4, <2>5, ContinueType DEF GatherContext, TypeOK, Points
  <2>7. Claiming'
    BY <1>0, <2>5 DEF Continue, TypeOK, Claiming, Local
  <2>8. QED
    BY <2>6, <2>7 DEF TypeInv
<1>2. CASE Interrupt(w)
  <2>1. TypeOK'
    BY <1>0, <1>2 DEF Interrupt, TypeOK, Points
  <2>2. Claiming'
    BY <1>0, <1>2 DEF Interrupt, TypeOK, Claiming, Local
  <2>3. QED
    BY <2>1, <2>2 DEF TypeInv
<1>3. CASE EvaluatePolicyNoExecution(w)
  <2>1. TypeOK'
    BY <1>0, <1>3 DEF EvaluatePolicyNoExecution, TypeOK, Points
  <2>2. Claiming'
    BY <1>0, <1>3 DEF EvaluatePolicyNoExecution, TypeOK, Claiming, Local
  <2>3. QED
    BY <2>1, <2>2 DEF TypeInv
<1>4. CASE ExecuteIdempotently(w)
  <2>1. PICK r \in {"deduplicated", "executed"}, p \in {"checkpoint", "claim"} :
          Continue(w, p, [Local(w) EXCEPT !.remediation = r])
    BY <1>4 DEF ExecuteIdempotently
  <2> DEFINE g == [Local(w) EXCEPT !.remediation = r]
  <2>2. g \in GraphStates
    BY <1>a DEF GraphStates
  <2>3. Executes(Local(w)) /\ Executes(g)
    BY <1>a, <1>4 DEF ExecuteIdempotently, Executes, GraphStates
  <2> HIDE DEF g
  <2>4. Continue(w, p, g)
    BY <2>1 DEF g
  <2>5. KeyOf(Local(w)) \in Keys
    BY <1>a, <2>3, KeyType
  <2>6. performed' \in [Keys -> Nat]
    <3> DEFINE k == KeyOf(Local(w))
    <3>1. performed' = performed \/ performed' = [performed EXCEPT ![k] = @ + 1]
      BY <1>4 DEF ExecuteIdempotently
    <3> HIDE DEF k
    <3>2. QED
      BY <1>0, <3>1 DEF TypeOK
  <2>7. TypeOK'
    BY <1>0, <1>4, <2>2, <2>4, <2>6, ContinueType DEF ExecuteIdempotently, TypeOK, Points
  <2>8. Local(w)' = g /\ \A v \in Workers \ {w} : Local(v)' = Local(v) /\ pc'[v] = pc[v]
    BY <1>0, <2>4 DEF Continue, TypeOK, Local, Handlers
  <2>9. Claiming'
    BY <1>0, <2>3, <2>8 DEF Claiming
  <2>10. QED
    BY <2>7, <2>9 DEF TypeInv
<1>5. CASE Claim(w)
  <2>1. KeyOf(Local(w)) \in Keys
    BY <1>0, <1>5, <1>a, KeyType DEF Claim, Claiming
  <2>2. CASE Raise(w)
    <3>1. TypeOK'
      BY <1>0, <1>5, <2>1, <2>2, RaiseType DEF Claim, TypeOK
    <3>2. /\ \E p \in {"admit", "idle"} : pc' = [pc EXCEPT ![w] = p]
          /\ \A v \in Workers \ {w} : req'[v] = req[v]
      BY <1>0, <2>2 DEF Raise, Release, TypeOK
    <3>3. Claiming'
      BY <1>0, <3>2 DEF TypeOK, Claiming, Local
    <3>4. QED
      BY <3>1, <3>3 DEF TypeInv
  <2>3. CASE pc' = [pc EXCEPT ![w] = "checkpoint"] /\ UNCHANGED req
    <3>1. TypeOK'
      BY <1>0, <1>5, <2>1, <2>3 DEF Claim, TypeOK, Points
    <3>2. Claiming'
      BY <1>0, <2>3 DEF TypeOK, Claiming, Local
    <3>3. QED
      BY <3>1, <3>2 DEF TypeInv
  <2>4. QED
    BY <1>5, <2>2, <2>3 DEF Claim
<1>6. CASE CheckpointPolicy(w)
  <2> DEFINE l == Local(w)
             g == [l EXCEPT !.next = "decide",
                            !.decision = IF Gated(l.action) THEN l.answer ELSE NoDecision,
                            !.answer = NoDecision]
  <2>1. g \in GraphStates
    BY <1>a, Defaults DEF GraphStates
  <2>2. Continue(w, "node", g) /\ thread' = g
    BY <1>6 DEF CheckpointPolicy, Save
  <2> HIDE DEF g
  <2>3. TypeOK'
    BY <1>0, <1>6, <2>1, <2>2, ContinueType DEF CheckpointPolicy, TypeOK, Points
  <2>4. Claiming'
    BY <1>0, <2>2 DEF Continue, TypeOK, Claiming, Local
  <2>5. QED
    BY <2>3, <2>4 DEF TypeInv
<1>7. CASE Decide(w)
  <2> DEFINE g == [Local(w) EXCEPT !.next = "end"]
  <2>1. g \in GraphStates
    BY <1>a DEF GraphStates
  <2>2. Continue(w, "count", g) /\ thread' = g
    BY <1>7 DEF Decide, Save
  <2> HIDE DEF g
  <2>3. TypeOK'
    BY <1>0, <1>7, <2>1, <2>2, ContinueType DEF Decide, TypeOK, Points
  <2>4. Claiming'
    BY <1>0, <2>2 DEF Continue, TypeOK, Claiming, Local
  <2>5. QED
    BY <2>3, <2>4 DEF TypeInv
<1>8. QED
  BY <1>1, <1>2, <1>3, <1>4, <1>5, <1>6, <1>7

LEMMA TypeResult ==
    ASSUME TypeInv, NEW w \in Workers,
           CountAudit(w) \/ CommitPause(w) \/ CommitClose(w)
    PROVE  TypeInv'
<1> USE DEF stores, history
<1>0. TypeOK /\ Claiming
  BY DEF TypeInv
<1>a. Local(w) \in GraphStates /\ req[w] \in Handlers /\ req[w].seen \in Rows
  BY <1>0, LocalType DEF Handlers
<1>r. ASSUME Respond(w)
      PROVE  Claiming'
  <2>1. /\ \E p \in {"admit", "idle"} : pc' = [pc EXCEPT ![w] = p]
        /\ \A v \in Workers \ {w} : req'[v] = req[v]
    BY <1>0, <1>r DEF Respond, Release, TypeOK
  <2>2. QED
    BY <1>0, <2>1 DEF TypeOK, Claiming, Local
<1>1. CASE CountAudit(w)
  <2>1. Len(audit) \in Nat
    BY <1>0 DEF TypeOK
  <2>2. TypeOK'
    BY <1>0, <1>1, <2>1 DEF CountAudit, TypeOK, Points, Handlers
  <2>3. Claiming'
    BY <1>0, <1>1 DEF CountAudit, TypeOK, Claiming, Local
  <2>4. QED
    BY <2>2, <2>3 DEF TypeInv
<1>2. CASE CommitPause(w)
  <2>1. PausedRow(w) \in Rows
    BY <1>a DEF PausedRow, Rows, Statuses, GraphStates
  <2>2. incident' \in Rows
    BY <1>0, <1>2, <1>a, <2>1, FlushedType DEF CommitPause
  <2>3. RequestRows(w) \in Seq(Requests \cup Answers)
    BY <1>0, <1>a DEF RequestRows, Requests, GraphStates, TypeOK
  <2>4. audit' \in Seq(Evidence \cup Requests \cup Answers)
    BY <1>0, <1>2, <2>3, AuditType DEF CommitPause
  <2>5. pc' \in [Workers -> Points] /\ req' \in [Workers -> Handlers]
    BY <1>0, <1>2, <2>2, RespondType DEF CommitPause
  <2>6. TypeOK'
    BY <1>0, <1>2, <2>2, <2>4, <2>5 DEF CommitPause, TypeOK
  <2>7. QED
    BY <1>2, <1>r, <2>6 DEF CommitPause, TypeInv
<1>3. CASE CommitClose(w)
  <2>1. ClosedRow(Local(w)) \in Rows
    BY <1>a DEF ClosedRow, Rows, Statuses, GraphStates
  <2>2. incident' \in Rows
    BY <1>0, <1>3, <1>a, <2>1, FlushedType DEF CommitClose
  <2>3. AnswerRow(w) \in Answers
    BY <1>0, <1>a DEF AnswerRow, Answers, GraphStates, TypeOK
  <2>4. (IF Resolving(w) THEN <<AnswerRow(w)>> ELSE <<>>) \in Seq(Requests \cup Answers)
    <3>1. <<AnswerRow(w)>> \in Seq(Requests \cup Answers) /\ <<>> \in Seq(Requests \cup Answers)
      BY <2>3
    <3>2. QED
      BY <3>1, Zenon
  <2>5. audit' \in Seq(Evidence \cup Requests \cup Answers)
    <3> DEFINE rows == IF Resolving(w) THEN <<AnswerRow(w)>> ELSE <<>>
    <3>1. rows \in Seq(Requests \cup Answers)
      BY <2>4
    <3>2. audit' = audit \o NewEvidence(w) \o rows
      BY <1>3 DEF CommitClose
    <3> HIDE DEF rows
    <3>3. QED
      BY <1>0, <3>1, <3>2, AuditType
  <2>6. pc' \in [Workers -> Points] /\ req' \in [Workers -> Handlers]
    BY <1>0, <1>3, <2>2, RespondType DEF CommitClose
  <2>7. memory' \in [ActionTypes -> Memories]
    <3>1. Remember(Local(w))
      BY <1>3 DEF CommitClose
    <3>2. DerivedOutcome(Local(w)) \in {"blocked", "executed", "approved_and_executed", "denied"}
      BY <1>a, OutcomeType
    <3>3. CASE UNCHANGED memory
      BY <1>0, <3>3 DEF TypeOK
    <3>4. CASE ~UNCHANGED memory
      <4> DEFINE a == Local(w).action
                 o == DerivedOutcome(Local(w))
      <4>1. memory' = [memory EXCEPT ![a] = [count |-> @.count + 1, outcome |-> o]]
        BY <3>1, <3>4 DEF Remember
      <4>2. a \in ActionTypes
        BY <1>a, <3>1, <3>4 DEF Remember, GraphStates
      <4> HIDE DEF a, o
      <4>3. memory[a].count + 1 \in Nat /\ memory \in [ActionTypes -> Memories]
        BY <1>0, <4>2 DEF TypeOK, Memories
      <4>4. [count |-> memory[a].count + 1, outcome |-> o] \in Memories
        BY <3>2, <4>3 DEF Memories, o
      <4>5. QED
        BY <4>1, <4>2, <4>3, <4>4
    <3>5. QED
      BY <3>3, <3>4
  <2>8. TypeOK'
    BY <1>0, <1>3, <2>2, <2>5, <2>6, <2>7 DEF CommitClose, TypeOK
  <2>9. QED
    BY <1>3, <1>r, <2>8 DEF CommitClose, TypeInv
<1>4. QED
  BY <1>1, <1>2, <1>3

LEMMA TypeEnvironment ==
    ASSUME TypeInv, SlaElapses \/ Crash \/ (\E w \in Workers : Fail(w))
    PROVE  TypeInv'
<1> USE DEF stores, history
<1>0. TypeOK /\ Claiming
  BY DEF TypeInv
<1>1. CASE SlaElapses
  <2>1. TypeOK'
    BY <1>0, <1>1 DEF SlaElapses, TypeOK, Rows
  <2>2. Claiming'
    BY <1>0, <1>1 DEF SlaElapses, Claiming, Local
  <2>3. QED
    BY <2>1, <2>2 DEF TypeInv
<1>2. CASE Crash
  <2>1. TypeOK'
    BY <1>0, <1>2, Defaults DEF Crash, TypeOK, Points
  <2>2. Claiming'
    BY <1>2 DEF Crash, Claiming
  <2>3. QED
    BY <2>1, <2>2 DEF TypeInv
<1>3. ASSUME NEW w \in Workers, Fail(w) PROVE TypeInv'
  <2>1. TypeOK'
    BY <1>0, <1>3, RaiseType DEF Fail, TypeOK
  <2>2. /\ \E p \in {"admit", "idle"} : pc' = [pc EXCEPT ![w] = p]
        /\ \A v \in Workers \ {w} : req'[v] = req[v]
    BY <1>0, <1>3 DEF Fail, Raise, Release, TypeOK
  <2>3. Claiming'
    BY <1>0, <2>2 DEF TypeOK, Claiming, Local
  <2>4. QED
    BY <2>1, <2>3 DEF TypeInv
<1>4. QED
  BY <1>1, <1>2, <1>3

LEMMA TypeStep == TypeInv /\ [Next]_vars => TypeInv'
<1> SUFFICES ASSUME TypeInv, [Next]_vars PROVE TypeInv'
  OBVIOUS
<1>1. CASE UNCHANGED vars
  BY <1>1 DEF vars, stores, history, TypeInv, TypeOK, Claiming, Local
<1>2. CASE Next
  BY <1>2, TypeRequests, TypeNodes, TypeResult, TypeEnvironment DEF Next, Progress
<1>3. QED
  BY <1>1, <1>2

\* The stores and the handlers' locals always hold values of their types, and
\* whoever is about to claim a remediation was entitled to execute it.
THEOREM TypeCorrect == Spec => []TypeOK
<1>1. TypeInv => TypeOK
  BY DEF TypeInv
<1>2. QED
  BY <1>1, TypeInit, TypeStep, PTL DEF Spec

-----------------------------------------------------------------------------
(* The approval gate.  An approval that reaches execute_idempotently came   *)
(* through decide_approval: it is in the request's locals, then in the      *)
(* RESUME write of the checkpoint, then what interrupt() returns, and in    *)
(* each of these places it was granted before.                             *)

IsGranted(d) == d.verb = "approved" => d.params \in Granted

GateInv ==
    /\ \A w \in Workers :
        /\ req[w].path = "human" => IsGranted(req[w].body)
        /\ pc[w] = "resume" => req[w].path \in {"timeout", "human"}
        /\ IsGranted(Local(w).answer)
    /\ IsGranted(thread.answer)

LEMMA NotGranted ==
    /\ IsGranted(NoDecision) /\ IsGranted(TimedOut)
    /\ NoThread.answer = NoDecision /\ IdleHandler.local = NoThread
    /\ IdleHandler.path = None
  BY DEF IsGranted, NoDecision, TimedOut, NoThread, IdleHandler, None

LEMMA GateInit == Init => GateInv
  BY NotGranted DEF Init, GateInv, Local, None

\* Approvals are never withdrawn.
LEMMA GrantedGrows ==
    ASSUME posted \subseteq posted'
    PROVE  /\ Granted \subseteq Granted'
           /\ \A d : IsGranted(d) => IsGranted(d)'
  BY DEF Granted, IsGranted

\* What decide_approval does to the gate: an approval is granted.
LEMMA AdmitGate ==
    ASSUME TypeInv, GateInv, NEW w \in Workers, NEW row \in Rows, NEW d \in Decision,
           Admissible(row, d), Admit(w, row, d), UNCHANGED stores
    PROVE  GateInv' /\ [Gate!Next]_<<Granted, performed>>
<1> USE DEF stores
<1>0. pc \in [Workers -> Points] /\ req \in [Workers -> Handlers]
  BY DEF TypeInv, TypeOK
<1>1. IsGranted(d)'
  <2>1. CASE d.verb = "approved"
    <3> DEFINE approval == <<row.pending, d.params>>
    <3>1. approval \in posted' /\ approval[2] = d.params
      BY <2>1 DEF Admit
    <3>2. d.params \in Granted'
      BY <3>1 DEF Granted
    <3>3. QED
      BY <3>2 DEF IsGranted
  <2>2. CASE d.verb # "approved"
    BY <2>2 DEF IsGranted
  <2>3. QED
    BY <2>1, <2>2
<1>2. posted \subseteq posted'
  BY DEF Admit
<1>3. /\ pc'[w] = "resume" /\ req'[w].path = "human" /\ req'[w].body = d
      /\ req'[w].local = NoThread
      /\ \A v \in Workers \ {w} : pc'[v] = pc[v] /\ req'[v] = req[v]
  BY <1>0 DEF Admit, IdleHandler
<1>4. GateInv'
  <2>1. IsGranted(thread.answer)'
    BY <1>2, GrantedGrows DEF GateInv
  <2>2. ASSUME NEW v \in Workers
        PROVE  /\ req'[v].path = "human" => IsGranted(req[v].body)'
               /\ pc'[v] = "resume" => req'[v].path \in {"timeout", "human"}
               /\ IsGranted(Local(v).answer)'
    <3>1. CASE v = w
      BY <1>1, <1>3, <3>1, NotGranted DEF Local, IsGranted, NoDecision, None
    <3>2. CASE v # w
      BY <1>2, <1>3, <3>2, GrantedGrows DEF GateInv, Local, IsGranted
    <3>3. QED
      BY <3>1, <3>2
  <2>3. QED
    BY <2>1, <2>2 DEF GateInv
<1>5. [Gate!Next]_<<Granted, performed>>
  <2>1. CASE d.verb = "approved"
    <3> DEFINE k == [action |-> "escalate", params |-> d.params]
    <3>1. d.params \in Params
      BY <2>1, ConstantsAssumption DEF Admissible
    <3>2. k \in Keys /\ k.params = d.params
      BY <3>1, Actions DEF Keys
    <3>3. Granted' = Granted \cup {d.params}
      <4> DEFINE approval == <<row.pending, d.params>>
      <4>1. posted' = posted \cup {approval} /\ approval[2] = d.params
        BY <2>1 DEF Admit
      <4> HIDE DEF approval
      <4>2. QED
        BY <4>1 DEF Granted
    <3>4. Gate!Grant(k.params)
      BY <3>2, <3>3 DEF Gate!Grant
    <3> HIDE DEF k
    <3>5. QED
      BY <3>2, <3>4 DEF Gate!Next
  <2>2. CASE d.verb # "approved"
    BY <2>2 DEF Admit, Granted
  <2>3. QED
    BY <2>1, <2>2
<1>6. QED
  BY <1>4, <1>5

\* Any step of a handler that neither grants nor performs, and leaves only
\* granted answers behind, preserves the invariant and does not move the gate.
LEMMA QuietGate ==
    ASSUME TypeInv, GateInv, NEW w \in Workers,
           UNCHANGED posted,
           \A v \in Workers \ {w} : pc'[v] = pc[v] /\ req'[v] = req[v],
           req'[w].path = "human" => IsGranted(req'[w].body),
           pc'[w] = "resume" => req'[w].path \in {"timeout", "human"},
           IsGranted(req'[w].local.answer),
           IsGranted(thread'.answer)
    PROVE  GateInv'
<1>1. \A d : IsGranted(d)' <=> IsGranted(d)
  BY DEF IsGranted, Granted
<1>2. IsGranted(thread.answer)'
  BY DEF IsGranted, Granted
<1>3. ASSUME NEW v \in Workers
      PROVE  /\ req'[v].path = "human" => IsGranted(req[v].body)'
             /\ pc'[v] = "resume" => req'[v].path \in {"timeout", "human"}
             /\ IsGranted(Local(v).answer)'
  <2>1. CASE v = w
    BY <2>1 DEF IsGranted, Granted, Local
  <2>2. CASE v # w
    BY <2>2 DEF GateInv, IsGranted, Granted, Local
  <2>3. QED
    BY <2>1, <2>2
<1>4. QED
  BY <1>2, <1>3 DEF GateInv

LEMMA StillGate ==
    ASSUME UNCHANGED <<posted, performed>>
    PROVE  [Gate!Next]_<<Granted, performed>>
  BY DEF Granted

\* A handler that is free again holds no decision.
LEMMA ReleaseGate ==
    ASSUME TypeInv, GateInv, NEW w \in Workers, Release(w), UNCHANGED <<posted, thread>>
    PROVE  GateInv'
<1>1. /\ pc' = [pc EXCEPT ![w] = "idle"] /\ req' = [req EXCEPT ![w] = IdleHandler]
      /\ pc \in [Workers -> Points] /\ req \in [Workers -> Handlers]
  BY DEF Release, TypeInv, TypeOK
<1>2. IsGranted(thread'.answer)
  BY DEF GateInv
<1>3. QED
  BY <1>1, <1>2, QuietGate, NotGranted DEF None

LEMMA RaiseGate ==
    ASSUME TypeInv, GateInv, NEW w \in Workers, Raise(w), UNCHANGED <<posted, thread>>
    PROVE  GateInv'
<1>1. CASE Release(w)
  BY <1>1, ReleaseGate
<1>2. CASE pc' = [pc EXCEPT ![w] = "admit"] /\ UNCHANGED req
  <2>1. pc \in [Workers -> Points] /\ IsGranted(thread'.answer)
    BY DEF TypeInv, TypeOK, GateInv
  <2>2. QED
    BY <1>2, <2>1, QuietGate DEF GateInv, Local
<1>3. QED
  BY <1>1, <1>2 DEF Raise

LEMMA RespondGate ==
    ASSUME TypeInv, GateInv, NEW w \in Workers, Respond(w), UNCHANGED <<posted, thread>>
    PROVE  GateInv'
<1>1. CASE req[w].path = "timeout" /\ req[w].body # NoDecision
  <2>1. /\ pc' = [pc EXCEPT ![w] = "admit"] /\ req' = [req EXCEPT ![w].seen = incident']
        /\ pc \in [Workers -> Points] /\ req \in [Workers -> Handlers]
    BY <1>1 DEF Respond, TypeInv, TypeOK
  <2>2. /\ req'[w].path = req[w].path /\ req'[w].body = req[w].body
        /\ req'[w].local = req[w].local
    BY <2>1 DEF Handlers
  <2>3. IsGranted(thread'.answer)
    BY DEF GateInv
  <2>4. QED
    BY <2>1, <2>2, <2>3, QuietGate DEF GateInv, Local
<1>2. CASE ~(req[w].path = "timeout" /\ req[w].body # NoDecision)
  BY <1>2, ReleaseGate DEF Respond
<1>3. QED
  BY <1>1, <1>2

LEMMA ContinueGate ==
    ASSUME TypeInv, GateInv, NEW w \in Workers, NEW p \in Points \ {"resume"},
           NEW g \in GraphStates, Continue(w, p, g), IsGranted(g.answer),
           IsGranted(thread'.answer), UNCHANGED posted
    PROVE  GateInv'
<1>1. /\ pc' = [pc EXCEPT ![w] = p] /\ req' = [req EXCEPT ![w].local = g]
      /\ pc \in [Workers -> Points] /\ req \in [Workers -> Handlers]
  BY DEF Continue, TypeInv, TypeOK
<1>2. /\ req'[w].path = req[w].path /\ req'[w].body = req[w].body /\ req'[w].local = g
      /\ pc'[w] = p
  BY <1>1 DEF Handlers
<1>3. QED
  BY <1>1, <1>2, QuietGate DEF GateInv

LEMMA GateRequests ==
    ASSUME TypeInv, GateInv, NEW w \in Workers,
           LoadForRun(w) \/ StartRun(w) \/ Invoke(w) \/ PostApproval(w) \/ AdmitAfterTimeout(w)
           \/ ReadIncident(w) \/ Resume(w)
    PROVE  GateInv' /\ [Gate!Next]_<<Granted, performed>>
<1> USE DEF stores, history
<1>0. /\ pc \in [Workers -> Points] /\ req \in [Workers -> Handlers] /\ thread \in GraphStates
      /\ incident \in Rows /\ IsGranted(thread.answer) /\ req[w] \in Handlers
  BY DEF TypeInv, TypeOK, GateInv
<1>1. CASE LoadForRun(w)
  <2>1. /\ req'[w].path = "run" /\ req'[w].local = NoThread /\ pc'[w] = "start"
        /\ \A v \in Workers \ {w} : pc'[v] = pc[v] /\ req'[v] = req[v]
    BY <1>0, <1>1 DEF LoadForRun, IdleHandler
  <2>2. UNCHANGED <<posted, performed, thread>>
    BY <1>1 DEF LoadForRun
  <2>3. QED
    BY <1>0, <2>1, <2>2, QuietGate, StillGate, NotGranted
<1>2. CASE StartRun(w)
  <2>1. /\ req'[w].path = req[w].path /\ req'[w].body = req[w].body
        /\ req'[w].local = req[w].local /\ pc'[w] = "invoke"
        /\ \A v \in Workers \ {w} : pc'[v] = pc[v] /\ req'[v] = req[v]
    BY <1>0, <1>2 DEF StartRun, Handlers
  <2>2. UNCHANGED <<posted, performed, thread>>
    BY <1>2 DEF StartRun
  <2>3. QED
    BY <1>0, <2>1, <2>2, QuietGate, StillGate DEF GateInv, Local
<1>3. CASE Invoke(w)
  <2> DEFINE g == [NoThread EXCEPT !.next = "gather_context", !.evidence = thread.evidence]
  <2>1. g \in GraphStates /\ g.answer = NoDecision
    BY <1>0, Defaults DEF GraphStates, NoThread
  <2>2. Continue(w, "node", g) /\ thread' = g /\ UNCHANGED <<posted, performed>>
    BY <1>3 DEF Invoke, Save
  <2> HIDE DEF g
  <2>3. QED
    BY <2>1, <2>2, ContinueGate, StillGate, NotGranted DEF Points
<1>4. ASSUME NEW d \in Decision, TimeOut(w, d), UNCHANGED stores
      PROVE  GateInv' /\ [Gate!Next]_<<Granted, performed>>
  <2>1. /\ req'[w].path = "timeout" /\ req'[w].local = NoThread
        /\ \A v \in Workers \ {w} : pc'[v] = pc[v] /\ req'[v] = req[v]
    BY <1>0, <1>4 DEF TimeOut, IdleHandler
  <2>2. UNCHANGED <<posted, performed, thread>>
    BY <1>4 DEF TimeOut
  <2>3. QED
    BY <1>0, <2>1, <2>2, QuietGate, StillGate, NotGranted
<1>5. CASE PostApproval(w)
  <2>1. UNCHANGED stores
    BY <1>5 DEF PostApproval
  <2>2. PICK d \in Decision :
          \/ TimeOut(w, d)
          \/ Admissible(incident, d) /\ Admit(w, incident, d)
    BY <1>5 DEF PostApproval, Decision
  <2>3. CASE TimeOut(w, d)
    BY <1>4, <2>1, <2>3
  <2>4. CASE Admissible(incident, d) /\ Admit(w, incident, d)
    BY <1>0, <2>1, <2>4, AdmitGate
  <2>5. QED
    BY <2>2, <2>3, <2>4
<1>6. CASE AdmitAfterTimeout(w)
  <2> DEFINE row == req[w].seen
             d == req[w].body
  <2>1. row \in Rows /\ d \in Decision
    BY <1>0 DEF Handlers
  <2>2. UNCHANGED stores
    BY <1>6 DEF AdmitAfterTimeout
  <2>3. \/ Admissible(row, d) /\ Admit(w, row, d)
        \/ Release(w) /\ UNCHANGED posted
    BY <1>6 DEF AdmitAfterTimeout
  <2>4. CASE Admissible(row, d) /\ Admit(w, row, d)
    <3> HIDE DEF row, d
    <3>1. QED
      BY <2>1, <2>2, <2>4, AdmitGate
  <2>5. CASE Release(w) /\ UNCHANGED posted
    BY <2>2, <2>5, ReleaseGate, StillGate
  <2>6. QED
    BY <2>3, <2>4, <2>5
<1>7. CASE ReadIncident(w)
  BY <1>4, <1>7, Defaults DEF ReadIncident
<1>8. CASE Resume(w)
  <2> DEFINE d == IF req[w].path = "timeout" THEN TimedOut ELSE req[w].body
             answer == IF thread.answer # NoDecision THEN thread.answer ELSE d
  <2>1. pc[w] = "resume" /\ UNCHANGED <<posted, performed>>
    BY <1>8 DEF Resume
  <2>2. IsGranted(d) /\ d \in Decision
    BY <1>0, <2>1, NotGranted, Defaults DEF GateInv, Handlers
  <2>3. IsGranted(answer) /\ answer \in Decision
    BY <1>0, <2>2 DEF GraphStates
  <2>4. CASE thread.next = "evaluate_policy"
    <3> DEFINE g == [thread EXCEPT !.answer = answer]
    <3>1. /\ Continue(w, "node", g)
          /\ \E stored \in {thread.answer, answer} : thread' = [thread EXCEPT !.answer = stored]
      BY <1>8, <2>4 DEF Resume
    <3> HIDE DEF answer
    <3>2. g \in GraphStates /\ g.answer = answer
      BY <1>0, <2>3 DEF GraphStates
    <3>3. thread'.answer \in {thread.answer, answer}
      BY <1>0, <3>1 DEF GraphStates
    <3> HIDE DEF g
    <3>4. IsGranted(g.answer) /\ IsGranted(thread'.answer)
      BY <1>0, <2>3, <3>2, <3>3
    <3>5. QED
      BY <2>1, <3>1, <3>2, <3>4, ContinueGate, StillGate DEF Points
  <2>5. CASE thread.next # "evaluate_policy"
    <3>1. PICK p \in {"count", "node"} : Continue(w, p, thread)
      BY <1>8, <2>5 DEF Resume
    <3>2. thread' = thread
      BY <1>8, <2>5 DEF Resume
    <3>3. QED
      BY <1>0, <2>1, <3>1, <3>2, ContinueGate, StillGate DEF Points
  <2>6. QED
    BY <2>4, <2>5
<1>9. QED
  BY <1>1, <1>2, <1>3, <1>5, <1>6, <1>7, <1>8

\* The one step that performs a remediation is one the gate permits.
LEMMA ExecuteGate ==
    ASSUME TypeInv, GateInv, NEW w \in Workers, ExecuteIdempotently(w)
    PROVE  GateInv' /\ [Gate!Next]_<<Granted, performed>>
<1> USE DEF stores, history
<1> DEFINE l == Local(w)
           k == KeyOf(l)
<1>0. l \in GraphStates /\ IsGranted(l.answer) /\ IsGranted(thread'.answer) /\ UNCHANGED posted
  BY LocalType DEF TypeInv, GateInv, ExecuteIdempotently
<1>1. Executes(l) /\ k \in Keys
  BY <1>0, KeyType DEF ExecuteIdempotently
<1>2. GateInv'
  <2>1. PICK r \in {"deduplicated", "executed"}, p \in {"checkpoint", "claim"} :
          Continue(w, p, [l EXCEPT !.remediation = r])
    BY DEF ExecuteIdempotently
  <2> DEFINE g == [l EXCEPT !.remediation = r]
  <2>2. g \in GraphStates /\ g.answer = l.answer
    BY <1>0 DEF GraphStates
  <2> HIDE DEF g, l
  <2>3. Continue(w, p, g)
    BY <2>1 DEF g
  <2>4. QED
    BY <1>0, <2>2, <2>3, ContinueGate DEF Points
<1>3. CASE UNCHANGED performed
  BY <1>0, <1>2, <1>3, StillGate
<1>4. CASE performed' = [performed EXCEPT ![k] = @ + 1]
  <2>1. Gate!Permitted(k)
    <3>1. k.action = l.action /\ k.params = IF Gated(l.action) THEN l.answer.params ELSE NoParams
      BY DEF KeyOf
    <3> HIDE DEF k
    <3>2. CASE l.action \in AutoExecutable /\ Evaluate(l.action) = "EXECUTE"
      BY <3>1, <3>2 DEF Gate!Permitted, Gated
    <3>3. CASE Gated(l.action) /\ l.action \in Approvable /\ l.answer.verb = "approved"
      BY <1>0, <3>1, <3>3 DEF Gate!Permitted, IsGranted
    <3>4. QED
      BY <1>1, <3>2, <3>3 DEF Executes
  <2>2. UNCHANGED Granted
    BY <1>0 DEF Granted
  <2> HIDE DEF k
  <2>3. Gate!Perform(k)
    BY <1>4, <2>1, <2>2 DEF Gate!Perform
  <2>4. QED
    BY <1>1, <1>2, <2>3 DEF Gate!Next
<1>5. QED
  BY <1>3, <1>4 DEF ExecuteIdempotently

LEMMA GateNodes ==
    ASSUME TypeInv, GateInv, NEW w \in Workers,
           GatherContext(w) \/ Interrupt(w) \/ EvaluatePolicyNoExecution(w)
           \/ Claim(w) \/ CheckpointPolicy(w) \/ Decide(w) \/ CountAudit(w)
           \/ CommitPause(w) \/ CommitClose(w)
    PROVE  GateInv' /\ [Gate!Next]_<<Granted, performed>>
<1> USE DEF stores, history
<1>0. /\ pc \in [Workers -> Points] /\ req \in [Workers -> Handlers] /\ thread \in GraphStates
      /\ Local(w) \in GraphStates /\ IsGranted(Local(w).answer) /\ IsGranted(thread.answer)
  BY LocalType DEF TypeInv, TypeOK, GateInv
<1>t. TypeInv'
  BY TypeNodes, TypeResult
<1>1. UNCHANGED <<posted, performed>>
  BY DEF GatherContext, Interrupt, EvaluatePolicyNoExecution, Claim, CheckpointPolicy, Decide,
         CountAudit, CommitPause, CommitClose, Save
<1>2. ASSUME NEW p \in {"node", "count"}, NEW g, Save(w, p, g),
             IsGranted(g.answer)
      PROVE  GateInv'
  <2>1. Continue(w, p, g) /\ thread' = g
    BY <1>2 DEF Save
  <2>2. g \in GraphStates
    BY <1>t, <2>1 DEF TypeInv, TypeOK
  <2>3. QED
    BY <1>1, <1>2, <2>1, <2>2, ContinueGate DEF Points
<1>3. CASE GatherContext(w)
  <2>1. PICK n \in 0..MaxEvidence, a \in Diagnoses \cup {None}, c \in BOOLEAN :
          Save(w, "node", [Local(w) EXCEPT
                !.next = IF a = None THEN "decide" ELSE "evaluate_policy",
                !.evidence = @ \o Gathered(w, n),
                !.action = a,
                !.confident = c])
    BY <1>3 DEF GatherContext
  <2> DEFINE g == [Local(w) EXCEPT
                !.next = IF a = None THEN "decide" ELSE "evaluate_policy",
                !.evidence = @ \o Gathered(w, n),
                !.action = a,
                !.confident = c]
  <2>2. g.answer = Local(w).answer
    BY <1>0 DEF GraphStates
  <2> HIDE DEF g
  <2>3. Save(w, "node", g)
    BY <2>1 DEF g
  <2>4. QED
    BY <1>0, <1>2, <2>2, <2>3, <1>1, StillGate
<1>4. CASE Interrupt(w) \/ EvaluatePolicyNoExecution(w)
  <2>1. PICK p \in {"count", "checkpoint"} : pc' = [pc EXCEPT ![w] = p]
    BY <1>4 DEF Interrupt, EvaluatePolicyNoExecution
  <2>2. UNCHANGED <<req, thread>>
    BY <1>4 DEF Interrupt, EvaluatePolicyNoExecution
  <2>3. QED
    BY <1>0, <1>1, <2>1, <2>2, QuietGate, StillGate DEF GateInv, Local
<1>5. CASE Claim(w)
  <2>1. CASE Raise(w)
    BY <1>1, <1>5, <2>1, RaiseGate, StillGate DEF Claim
  <2>2. CASE pc' = [pc EXCEPT ![w] = "checkpoint"] /\ UNCHANGED req
    <3>1. thread' = thread
      BY <1>5 DEF Claim
    <3>2. QED
      BY <1>0, <1>1, <2>2, <3>1, QuietGate, StillGate DEF GateInv, Local
  <2>3. QED
    BY <1>5, <2>1, <2>2 DEF Claim
<1>6. CASE CheckpointPolicy(w)
  <2> DEFINE l == Local(w)
             g == [l EXCEPT !.next = "decide",
                            !.decision = IF Gated(l.action) THEN l.answer ELSE NoDecision,
                            !.answer = NoDecision]
  <2>1. g.answer = NoDecision
    BY <1>0 DEF GraphStates
  <2>2. Save(w, "node", g)
    BY <1>6 DEF CheckpointPolicy
  <2> HIDE DEF g
  <2>3. QED
    BY <1>1, <1>2, <2>1, <2>2, NotGranted, StillGate
<1>7. CASE Decide(w)
  <2> DEFINE g == [Local(w) EXCEPT !.next = "end"]
  <2>1. g.answer = Local(w).answer
    BY <1>0 DEF GraphStates
  <2>2. Save(w, "count", g)
    BY <1>7 DEF Decide
  <2> HIDE DEF g
  <2>3. QED
    BY <1>0, <1>1, <1>2, <2>1, <2>2, StillGate
<1>8. CASE CountAudit(w)
  <2>1. /\ req'[w].path = req[w].path /\ req'[w].body = req[w].body
        /\ req'[w].local = req[w].local /\ pc'[w] = "commit" /\ thread' = thread
        /\ \A v \in Workers \ {w} : pc'[v] = pc[v] /\ req'[v] = req[v]
    BY <1>0, <1>8 DEF CountAudit, Handlers
  <2>2. QED
    BY <1>0, <1>1, <2>1, QuietGate, StillGate DEF GateInv, Local
<1>9. CASE CommitPause(w) \/ CommitClose(w)
  <2>1. Respond(w) /\ thread' = thread
    BY <1>9 DEF CommitPause, CommitClose
  <2>2. QED
    BY <1>1, <2>1, RespondGate, StillGate
<1>10. QED
  BY <1>3, <1>4, <1>5, <1>6, <1>7, <1>8, <1>9

LEMMA GateEnvironment ==
    ASSUME TypeInv, GateInv, SlaElapses \/ Crash \/ (\E w \in Workers : Fail(w))
    PROVE  GateInv' /\ [Gate!Next]_<<Granted, performed>>
<1> USE DEF stores, history
<1>1. CASE SlaElapses
  BY <1>1, StillGate DEF SlaElapses, GateInv, IsGranted, Granted, Local
<1>2. CASE Crash
  <2>1. UNCHANGED <<posted, performed, thread>>
    BY <1>2 DEF Crash
  <2>2. \A w \in Workers : pc'[w] = "idle" /\ req'[w] = IdleHandler
    BY <1>2 DEF Crash
  <2>3. GateInv'
    BY <2>1, <2>2, NotGranted DEF GateInv, IsGranted, Granted, Local, None, NoDecision
  <2>4. QED
    BY <2>1, <2>3, StillGate
<1>3. ASSUME NEW w \in Workers, Fail(w)
      PROVE  GateInv' /\ [Gate!Next]_<<Granted, performed>>
  BY <1>3, RaiseGate, StillGate DEF Fail
<1>4. QED
  BY <1>1, <1>2, <1>3

LEMMA GateStep ==
    ASSUME TypeInv, GateInv, [Next]_vars
    PROVE  GateInv' /\ [Gate!Next]_<<Granted, performed>>
<1>1. CASE UNCHANGED vars
  BY <1>1 DEF vars, stores, history, GateInv, IsGranted, Granted, Local
<1>2. CASE Next
  BY <1>2, GateRequests, ExecuteGate, GateNodes, GateEnvironment DEF Next, Progress
<1>3. QED
  BY <1>1, <1>2

\* Whatever threads race, requests fail or processes crash, every execution of
\* a remediation is a step of the abstract gate: a gated one only with
\* parameters a human approved before, an automatic one only without any,
\* a blocked or escalated one never.
THEOREM LifecycleImplementsGate == Spec => ImplementsGate
<1>1. Init => Gate!Init
  BY DEF Init, Gate!Init, Granted
<1>2. QED
  BY <1>1, TypeInit, TypeStep, GateInit, GateStep, PTL DEF Spec, ImplementsGate, Gate!Spec
=============================================================================
