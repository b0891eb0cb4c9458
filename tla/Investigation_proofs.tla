------------------------ MODULE Investigation_proofs ------------------------
(***************************************************************************)
(* Theorems about Investigation, for any ceilings and any answers of the   *)
(* model.                                                                  *)
(***************************************************************************)
EXTENDS Investigation, SequenceTheorems, WellFoundedInduction, TLAPS

Less == {p \in Nat \X Nat : p[1] < p[2]}

LEMMA LessWellFounded == IsWellFoundedOn(Less, Nat)
  BY NatLessThanWellFounded DEF OpToRel, Less

\* A non-empty set of positions of a sequence has a last one.
LEMMA LastPosition ==
    ASSUME NEW n \in Nat, NEW S, S \subseteq 1..n, S # {}
    PROVE  \E i \in S : \A j \in S : j <= i
<1> DEFINE D == {n - i : i \in S}
<1>1. D \subseteq Nat /\ D # {}
  <2>1. D \subseteq Nat
    OBVIOUS
  <2>2. PICK m \in S : TRUE
    OBVIOUS
  <2>3. n - m \in D
    OBVIOUS
  <2>4. QED
    BY <2>1, <2>3
<1>2. PICK d \in D : \A e \in D : <<e, d>> \notin Less
  <2> HIDE DEF D
  <2>1. QED
    BY <1>1, LessWellFounded, WFMin
<1>3. \A e \in D : ~(e < d)
  BY <1>1, <1>2 DEF Less
<1>4. PICK i \in S : d = n - i
  OBVIOUS
<1>5. \A j \in S : j <= i
  BY <1>3, <1>4
<1>6. QED
  BY <1>5

\* The diagnosis of a round is one of its tool uses, and recommends something.
LEMMA DiagnosisIsUse ==
    ASSUME NEW r \in Responses
    PROVE  LET d == Diagnosis(r.uses)
           IN  /\ d \in Uses \cup {NoUse}
               /\ d # NoUse => d.action \in ActionTypes /\ Len(r.uses) > 0
<1> DEFINE uses == r.uses
           valid == {i \in 1..Len(uses) : uses[i].kind = "diagnosis"}
           last == CHOOSE i \in valid : \A j \in valid : j <= i
<1>1. uses \in Seq(Uses) /\ Len(uses) \in Nat
  BY InvestigationAssumption
<1>2. CASE valid = {}
  BY <1>2 DEF Diagnosis
<1>3. CASE valid # {}
  <2>1. \E i \in valid : \A j \in valid : j <= i
    <3> valid \subseteq 1..Len(uses)
      OBVIOUS
    <3> HIDE DEF valid
    <3>1. QED
      BY <1>1, <1>3, LastPosition
  <2>2. last \in valid
    BY <2>1
  <2>3. Diagnosis(uses) = uses[last]
    BY <1>3 DEF Diagnosis
  <2>4. uses[last].kind = "diagnosis" /\ last \in 1..Len(uses) /\ uses[last] \in Uses
    <3> HIDE DEF last
    <3>1. QED
      BY <1>1, <2>2
  <2>5. uses[last].action \in ActionTypes
    <3> HIDE DEF last
    <3>1. uses[last].action # None
      BY <1>1, <2>4, InvestigationAssumption
    <3>2. QED
      BY <2>4, <3>1 DEF Uses
  <2> HIDE DEF last
  <2>6. QED
    BY <1>1, <2>3, <2>4, <2>5
<1>4. QED
  BY <1>2, <1>3

-----------------------------------------------------------------------------
(* The counters.  CeilingsHold is inductive only with what the loop knows   *)
(* each time it goes round: the ceilings are not reached, nothing failed    *)
(* and there is no diagnosis; and a node after the loop was entered at most *)
(* so many supersteps after it.                                            *)

Looping ==
    node = "gather_context" =>
        /\ steps_used < MaxSteps /\ cost <= MaxCost
        /\ ~provider_error /\ diagnosis = NoUse
        /\ supersteps = steps_used

SuperstepsOf ==
    /\ node = "hypothesize" => supersteps <= MaxSteps
    /\ node = "classify_risk" => supersteps <= MaxSteps + 1
    /\ node \in {"evaluate_policy", "paused"} => supersteps <= MaxSteps + 2
    /\ node = "decide" => supersteps <= MaxSteps + 3

CountInv ==
    /\ node \in Nodes
    /\ steps_used \in Nat /\ cost \in Nat /\ supersteps \in Nat
    /\ steps_used <= MaxSteps
    /\ cost <= MaxCost + MaxCallCost
    /\ Looping
    /\ SuperstepsOf

LEMMA CountInit == Init => CountInv
  BY InvestigationAssumption DEF Init, CountInv, Looping, SuperstepsOf, Nodes, None

\* The loop goes round again only while both ceilings are unreached.
LEMMA RouteCases ==
    ASSUME NEW e, NEW d, NEW c \in Nat, NEW s \in Nat
    PROVE  LET n == Route(e, d, c, s)
           IN  /\ n \in {"gather_context", "hypothesize", "decide"}
               /\ n = "gather_context" => ~e /\ d = NoUse /\ c <= MaxCost /\ s < MaxSteps
               /\ n = "hypothesize" => ~e /\ d # NoUse
               /\ n = "decide" => e \/ d = NoUse
  BY InvestigationAssumption DEF Route

\* A round adds one step and the cost of one call.
LEMMA CountRound ==
    ASSUME CountInv, GatherContext \/ GiveUp
    PROVE  CountInv'
<1>1. /\ node = "gather_context" /\ steps_used < MaxSteps /\ cost <= MaxCost
      /\ supersteps = steps_used /\ steps_used \in Nat /\ cost \in Nat
      /\ MaxSteps \in Nat /\ MaxCost \in Nat /\ MaxCallCost \in Nat
  BY InvestigationAssumption DEF CountInv, Looping, GatherContext, GiveUp, Ready
<1>2. /\ steps_used' = steps_used + 1
      /\ \E c \in 0..MaxCallCost : cost' = cost + c
      /\ supersteps' = supersteps + 1
      /\ raised' = raised
      /\ node' = Route(provider_error', diagnosis', cost', steps_used')
  <2>1. CASE GatherContext
    <3>1. PICK r \in Responses :
            /\ steps_used' = steps_used + 1
            /\ cost' = cost + r.cost
            /\ Goto(Route(provider_error, diagnosis', cost', steps_used'))
      BY <2>1 DEF GatherContext
    <3>2. provider_error' = provider_error
      BY <2>1 DEF GatherContext
    <3>3. r.cost \in 0..MaxCallCost
      BY InvestigationAssumption
    <3>4. QED
      BY <3>1, <3>2, <3>3 DEF Goto
  <2>2. CASE GiveUp
    BY <1>1, <2>2 DEF GiveUp, Goto
  <2>3. QED
    BY <2>1, <2>2
<1>3. /\ steps_used' \in Nat /\ cost' \in Nat /\ supersteps' \in Nat
      /\ steps_used' <= MaxSteps /\ cost' <= MaxCost + MaxCallCost
      /\ supersteps' = steps_used'
  BY <1>1, <1>2
<1>4. /\ node' \in {"gather_context", "hypothesize", "decide"}
      /\ node' = "gather_context" => /\ ~provider_error' /\ diagnosis' = NoUse
                                     /\ cost' <= MaxCost /\ steps_used' < MaxSteps
  BY <1>2, <1>3, RouteCases
<1>5. Looping' /\ SuperstepsOf'
  BY <1>1, <1>3, <1>4 DEF Looping, SuperstepsOf
<1>6. QED
  BY <1>2, <1>3, <1>4, <1>5 DEF CountInv, Nodes

LEMMA CountStep == CountInv /\ [Next]_vars => CountInv'
<1> SUFFICES ASSUME CountInv, [Next]_vars PROVE CountInv'
  OBVIOUS
<1> USE InvestigationAssumption DEF model, checks
<1>1. CASE UNCHANGED vars
  BY <1>1 DEF vars, CountInv, Looping, SuperstepsOf
<1>2. CASE GatherContext \/ GiveUp
  BY <1>2, CountRound
<1>3. CASE RetryCall
  BY <1>3 DEF RetryCall, CountInv, Looping, SuperstepsOf
<1>4. CASE RaiseProviderError
  BY <1>4 DEF RaiseProviderError, CountInv, Looping, SuperstepsOf
<1>5. CASE Hypothesize \/ ClassifyRisk \/ EvaluatePolicy \/ Decide
  <2>1. /\ UNCHANGED <<steps_used, cost, raised>>
        /\ supersteps' = supersteps + 1
        /\ \/ node = "hypothesize" /\ node' = "classify_risk"
           \/ node = "classify_risk" /\ node' = "evaluate_policy"
           \/ node = "evaluate_policy" /\ node' = "decide"
           \/ node = "decide" /\ node' = "end"
    BY <1>5 DEF Hypothesize, ClassifyRisk, EvaluatePolicy, Decide, Ready, Goto
  <2>2. Looping' /\ SuperstepsOf'
    BY <2>1 DEF CountInv, Looping, SuperstepsOf
  <2>3. QED
    BY <2>1, <2>2 DEF CountInv, Nodes
<1>6. CASE Pause
  BY <1>6 DEF Pause, Ready, CountInv, Looping, SuperstepsOf, Nodes
<1>7. CASE Resume
  BY <1>7 DEF Resume, CountInv, Looping, SuperstepsOf, Nodes
<1>8. QED
  BY <1>1, <1>2, <1>3, <1>4, <1>5, <1>6, <1>7 DEF Next, Progress

\* Whatever the model answers and however often the provider fails, an
\* investigation uses at most max_steps rounds and overruns its budget by one
\* call at most.
THEOREM CeilingsAlwaysHold == Spec => []CeilingsHold
<1>1. CountInv => CeilingsHold
  BY DEF CountInv, CeilingsHold
<1>2. QED
  BY <1>1, CountInit, CountStep, PTL DEF Spec

\* A run or a resume always has a superstep left for its next node, within
\* LangGraph's recursion limit of max_steps + 10.
THEOREM RecursionLimitUnreached == Spec => []GuardNeverFires
<1>1. CountInv => GuardNeverFires
  BY InvestigationAssumption
    DEF CountInv, GuardNeverFires, Nodes, Looping, SuperstepsOf, RecursionLimit
<1>2. QED
  BY <1>1, CountInit, CountStep, PTL DEF Spec

-----------------------------------------------------------------------------
(* The loop as one step.                                                   *)

LoopInv == CountInv /\ evidence_trail \in Seq(Records)

LEMMA RecordsType ==
    ASSUME NEW s \in Nat, NEW uses \in Seq(Uses)
    PROVE  RecordsOf(s, uses) \in Seq(Records) /\ Len(RecordsOf(s, uses)) = Len(uses)
<1>1. \A i \in 1..Len(uses) : [step |-> s, use |-> uses[i], error |-> IsError(uses[i])] \in Records
  BY DEF Records, IsError
<1>2. QED
  BY <1>1 DEF RecordsOf

LEMMA LoopInit == Init => LoopInv
  BY CountInit DEF Init, LoopInv

LEMMA LoopStep == LoopInv /\ [Next]_vars => LoopInv'
<1> SUFFICES ASSUME LoopInv, [Next]_vars PROVE evidence_trail' \in Seq(Records)
  BY CountStep DEF LoopInv
<1> USE DEF model, checks
<1>1. CASE GatherContext
  <2>1. PICK r \in Responses :
          evidence_trail' = evidence_trail \o RecordsOf(steps_used + 1, r.uses)
    BY <1>1 DEF GatherContext
  <2>2. r.uses \in Seq(Uses) /\ steps_used + 1 \in Nat
    BY InvestigationAssumption DEF LoopInv, CountInv
  <2>3. QED
    BY <2>1, <2>2, RecordsType, ConcatProperties DEF LoopInv
<1>2. CASE ~GatherContext
  <2>1. UNCHANGED evidence_trail
    BY <1>2 DEF vars, Next, Progress, RetryCall, GiveUp, RaiseProviderError, Hypothesize,
                ClassifyRisk, EvaluatePolicy, Pause, Decide, Resume
  <2>2. QED
    BY <2>1 DEF LoopInv
<1>3. QED
  BY <1>1, <1>2

LEMMA GatherImplements ==
    ASSUME LoopInv, LoopInv', GatherContext \/ GiveUp
    PROVE  [Loop!Next]_<<Stage, Collected, Diagnosed>>
<1>1. /\ node = "gather_context" /\ ~provider_error /\ diagnosis = NoUse
      /\ cost' \in Nat /\ steps_used' \in Nat
      /\ Len(evidence_trail) \in Nat /\ Len(evidence_trail') \in Nat
  BY DEF LoopInv, CountInv, Looping, GatherContext, GiveUp, Ready
<1>2. /\ node' = Route(provider_error', diagnosis', cost', steps_used')
      /\ provider_error' => diagnosis' = NoUse
      /\ diagnosis' = NoUse \/ (diagnosis'.action \in ActionTypes /\ Len(evidence_trail') > 0)
  <2>1. CASE GiveUp
    BY <1>1, <2>1 DEF GiveUp, Goto
  <2>2. CASE GatherContext
    <3>1. PICK r \in Responses :
            /\ evidence_trail' = evidence_trail \o RecordsOf(steps_used + 1, r.uses)
            /\ diagnosis' = Diagnosis(r.uses)
            /\ Goto(Route(provider_error, diagnosis', cost', steps_used'))
      BY <2>2 DEF GatherContext
    <3>2. provider_error' = provider_error
      BY <2>2 DEF GatherContext
    <3>3. r.uses \in Seq(Uses) /\ steps_used + 1 \in Nat
      BY InvestigationAssumption DEF LoopInv, CountInv
    <3>4. Len(evidence_trail') = Len(evidence_trail) + Len(r.uses)
      BY <3>1, <3>3, RecordsType, ConcatProperties DEF LoopInv
    <3>5. diagnosis' # NoUse => diagnosis'.action \in ActionTypes /\ Len(r.uses) > 0
      BY <3>1, DiagnosisIsUse
    <3>6. QED
      BY <1>1, <3>1, <3>2, <3>3, <3>4, <3>5 DEF Goto
  <2>3. QED
    BY <2>1, <2>2
<1>3. None \notin ActionTypes /\ NoUse.action = None
  BY DEF None, ActionTypes, RiskTable, NoUse
<1>4. CASE node' = "gather_context"
  BY <1>1, <1>4 DEF Stage, Collected, Diagnosed
<1>5. CASE node' = "hypothesize"
  <2>1. diagnosis'.action \in ActionTypes /\ Len(evidence_trail') > 0
    BY <1>1, <1>2, <1>5, RouteCases
  <2>2. /\ Stage = "gather_context" /\ Stage' = "evaluate_policy"
        /\ Collected' = Len(evidence_trail') /\ Diagnosed' = diagnosis'.action
    BY <1>1, <1>5 DEF Stage, Collected, Diagnosed
  <2>3. QED
    BY <1>1, <1>3, <2>1, <2>2 DEF Loop!Next, Loop!Gather
<1>6. CASE node' = "decide"
  <2>1. diagnosis' = NoUse
    <3>1. CASE provider_error'
      BY <1>2, <3>1
    <3>2. CASE ~provider_error'
      BY <1>2, <1>6, <3>2 DEF Route
    <3>3. QED
      BY <3>1, <3>2
  <2>2. /\ Stage = "gather_context" /\ Stage' = "decide"
        /\ Collected' = Len(evidence_trail') /\ Diagnosed' = None
    BY <1>1, <1>3, <1>6, <2>1 DEF Stage, Collected, Diagnosed
  <2>3. QED
    BY <1>1, <2>2 DEF Loop!Next, Loop!Gather
<1>7. QED
  BY <1>1, <1>2, <1>4, <1>5, <1>6, RouteCases

LEMMA StepImplements ==
    ASSUME LoopInv, LoopInv', [Next]_vars
    PROVE  [Loop!Next]_<<Stage, Collected, Diagnosed>>
<1> USE DEF model, checks
<1>1. CASE GatherContext \/ GiveUp
  BY <1>1, GatherImplements
<1>2. CASE UNCHANGED vars \/ RetryCall \/ RaiseProviderError
  <2>1. UNCHANGED <<node, evidence_trail, diagnosis>>
    BY <1>2 DEF vars, RetryCall, RaiseProviderError
  <2>2. QED
    BY <2>1 DEF Stage, Collected, Diagnosed
<1>3. CASE Hypothesize \/ ClassifyRisk \/ Pause
  <2>1. /\ UNCHANGED <<evidence_trail, diagnosis>>
        /\ node \in {"hypothesize", "classify_risk", "evaluate_policy"}
        /\ node' \in {"classify_risk", "evaluate_policy", "paused"}
    BY <1>3 DEF Hypothesize, ClassifyRisk, Pause, Ready, Goto
  <2>2. QED
    BY <2>1 DEF Stage, Collected, Diagnosed
<1>4. CASE EvaluatePolicy \/ Resume
  <2>1. /\ UNCHANGED <<evidence_trail, diagnosis>>
        /\ node \in {"evaluate_policy", "paused"} /\ node' = "decide"
    BY <1>4 DEF EvaluatePolicy, Resume, Ready, Goto
  <2>2. QED
    BY <2>1 DEF Stage, Collected, Diagnosed, Loop!Next, Loop!Pass
<1>5. CASE Decide
  <2>1. /\ UNCHANGED <<evidence_trail, diagnosis>>
        /\ node = "decide" /\ node' = "end"
    BY <1>5 DEF Decide, Ready, Goto
  <2>2. QED
    BY <2>1 DEF Stage, Collected, Diagnosed, Loop!Next, Loop!Decide
<1>6. QED
  BY <1>1, <1>2, <1>3, <1>4, <1>5 DEF Next, Progress

\* Seen from outside, the gathering loop of any length is the one step that
\* IncidentLifecycle takes for it: evidence and, only from a recorded tool
\* call, a diagnosis; without one the gate is never reached.
THEOREM InvestigationImplementsGathering == Spec => ImplementsGathering
<1>1. Init => Loop!Init
  BY DEF Init, Loop!Init, Stage, Collected, Diagnosed
<1>2. QED
  BY <1>1, LoopInit, LoopStep, StepImplements, PTL DEF Spec, ImplementsGathering, Loop!Spec

-----------------------------------------------------------------------------
(* The end.  What an ended investigation says is settled earlier: a round   *)
(* leaves a diagnosis exactly when its records hold one, each node after   *)
(* the loop adds its finding, and "decide" is reached without a diagnosis   *)
(* only through an error or a ceiling.                                     *)

Submitted == \E i \in DOMAIN evidence_trail : evidence_trail[i].use.kind = "diagnosis"

Past(nodes) == node \in nodes /\ diagnosis # NoUse

EndInv ==
    /\ provider_error \in BOOLEAN
    /\ diagnosis # NoUse => diagnosis.action \in ActionTypes /\ ~provider_error
    /\ diagnosis # NoUse <=> Submitted
    /\ node \in {"hypothesize", "classify_risk", "evaluate_policy", "paused"} => diagnosis # NoUse
    /\ policy_verdict # None <=> Past({"decide", "end"})
    /\ grounded # None <=> Past({"classify_risk", "evaluate_policy", "paused", "decide", "end"})
    /\ node \in {"decide", "end"} /\ ~provider_error /\ diagnosis = NoUse =>
            cost > MaxCost \/ steps_used = MaxSteps
    /\ node = "end" => status = StatusOf

LEMMA EndInit == Init => EndInv
<1> SUFFICES ASSUME Init PROVE EndInv
  OBVIOUS
<1>1. DOMAIN evidence_trail = {}
  BY DEF Init
<1>2. ~Submitted
  BY <1>1 DEF Submitted
<1>3. /\ node = "gather_context" /\ diagnosis = NoUse /\ provider_error = FALSE
      /\ policy_verdict = None /\ grounded = None
  BY DEF Init
<1> QED
  BY <1>2, <1>3 DEF EndInv, Past

\* A round leaves a diagnosis exactly when one of its tool uses is a valid one.
LEMMA DiagnosisOfRound ==
    ASSUME NEW r \in Responses
    PROVE  Diagnosis(r.uses) # NoUse <=> \E i \in 1..Len(r.uses) : r.uses[i].kind = "diagnosis"
<1> DEFINE valid == {i \in 1..Len(r.uses) : r.uses[i].kind = "diagnosis"}
<1>1. r.uses \in Seq(Uses) /\ Len(r.uses) \in Nat
  BY InvestigationAssumption
<1>2. CASE valid = {}
  BY <1>2 DEF Diagnosis
<1>3. CASE valid # {}
  <2> DEFINE last == CHOOSE i \in valid : \A j \in valid : j <= i
  <2>1. \E i \in valid : \A j \in valid : j <= i
    <3>1. valid \subseteq 1..Len(r.uses)
      OBVIOUS
    <3> HIDE DEF valid
    <3> QED
      BY <1>1, <1>3, <3>1, LastPosition
  <2>2. last \in valid
    BY <2>1
  <2>3. Diagnosis(r.uses) = r.uses[last]
    BY <1>3 DEF Diagnosis
  <2>4. r.uses[last].kind = "diagnosis"
    <3> HIDE DEF last
    <3> QED
      BY <2>2
  <2> HIDE DEF last
  <2>5. Diagnosis(r.uses).kind # NoUse.kind
    BY <2>3, <2>4 DEF NoUse, None
  <2> QED
    BY <1>3, <2>5
<1> QED
  BY <1>2, <1>3

\* The records of a round hold a diagnosis exactly when its tool uses do.
LEMMA SubmittedInRound ==
    ASSUME NEW trail \in Seq(Records), NEW s \in Nat, NEW uses \in Seq(Uses)
    PROVE  (\E i \in DOMAIN (trail \o RecordsOf(s, uses)) :
                (trail \o RecordsOf(s, uses))[i].use.kind = "diagnosis")
           <=> \/ \E i \in DOMAIN trail : trail[i].use.kind = "diagnosis"
               \/ \E i \in 1..Len(uses) : uses[i].kind = "diagnosis"
<1> DEFINE records == RecordsOf(s, uses)
           all == trail \o records
<1>1. records \in Seq(Records) /\ Len(records) = Len(uses) /\ Len(uses) \in Nat
  BY RecordsType
<1>2. \A i \in 1..Len(uses) : records[i].use = uses[i]
  BY DEF RecordsOf
<1> HIDE DEF records
<1>3. /\ DOMAIN all = 1..(Len(trail) + Len(uses)) /\ DOMAIN trail = 1..Len(trail)
      /\ Len(trail) \in Nat
      /\ \A i \in 1..Len(trail) : all[i] = trail[i]
      /\ \A i \in 1..Len(uses) : all[Len(trail) + i] = records[i]
  <2>1. Len(trail) \in Nat /\ DOMAIN trail = 1..Len(trail)
    BY LenProperties
  <2>2. all \in Seq(Records) /\ Len(all) = Len(trail) + Len(uses)
    <3>1. all \in Seq(Records)
      BY <1>1, ConcatProperties, Zenon
    <3>2. Len(all) = Len(trail) + Len(records)
      BY <1>1, ConcatProperties, Zenon
    <3> QED
      BY <1>1, <3>1, <3>2
  <2>3. DOMAIN all = 1..Len(all)
    <3> HIDE DEF all
    <3> QED
      BY <2>2, LenProperties
  <2>4. \A i \in 1..Len(all) : all[i] = IF i <= Len(trail) THEN trail[i]
                                                        ELSE records[i - Len(trail)]
    BY <1>1, ConcatProperties
  <2> HIDE DEF all
  <2>5. \A i \in 1..Len(trail) : all[i] = trail[i]
    <3> TAKE i \in 1..Len(trail)
    <3>1. i \in 1..Len(all) /\ i <= Len(trail)
      BY <1>1, <2>1, <2>2
    <3> QED
      BY <2>4, <3>1
  <2>6. \A i \in 1..Len(uses) : all[Len(trail) + i] = records[i]
    <3> TAKE i \in 1..Len(uses)
    <3>1. /\ Len(trail) + i \in 1..Len(all) /\ ~(Len(trail) + i <= Len(trail))
          /\ Len(trail) + i - Len(trail) = i
      BY <1>1, <2>1, <2>2
    <3> QED
      BY <2>4, <3>1
  <2> QED
    BY <2>1, <2>2, <2>3, <2>5, <2>6
<1> HIDE DEF all
<1>4. ASSUME NEW i \in DOMAIN all, all[i].use.kind = "diagnosis"
      PROVE  \/ \E j \in DOMAIN trail : trail[j].use.kind = "diagnosis"
             \/ \E j \in 1..Len(uses) : uses[j].kind = "diagnosis"
  <2>1. CASE i <= Len(trail)
    BY <1>3, <1>4, <2>1
  <2>2. CASE i > Len(trail)
    <3>1. i - Len(trail) \in 1..Len(uses) /\ i = Len(trail) + (i - Len(trail))
      BY <1>1, <1>3, <2>2
    <3>2. uses[i - Len(trail)].kind = "diagnosis"
      BY <1>2, <1>3, <1>4, <3>1
    <3> QED
      BY <3>1, <3>2
  <2> QED
    BY <1>3, <2>1, <2>2
<1>5. ASSUME NEW i \in DOMAIN trail, trail[i].use.kind = "diagnosis"
      PROVE  \E j \in DOMAIN all : all[j].use.kind = "diagnosis"
  BY <1>1, <1>3, <1>5
<1>6. ASSUME NEW i \in 1..Len(uses), uses[i].kind = "diagnosis"
      PROVE  \E j \in DOMAIN all : all[j].use.kind = "diagnosis"
  <2>1. Len(trail) + i \in DOMAIN all /\ all[Len(trail) + i].use = uses[i]
    BY <1>1, <1>2, <1>3
  <2> QED
    BY <1>6, <2>1
<1> QED
  BY <1>4, <1>5, <1>6 DEF all, records

LEMMA EndOfRound ==
    ASSUME LoopInv, EndInv, GatherContext
    PROVE  EndInv'
<1>1. PICK r \in Responses :
        /\ evidence_trail' = evidence_trail \o RecordsOf(steps_used + 1, r.uses)
        /\ steps_used' = steps_used + 1
        /\ cost' = cost + r.cost
        /\ diagnosis' = Diagnosis(r.uses)
        /\ Goto(Route(provider_error, diagnosis', cost', steps_used'))
  BY DEF GatherContext
<1>2. /\ UNCHANGED <<provider_error, policy_verdict, grounded>>
      /\ node = "gather_context" /\ diagnosis = NoUse /\ provider_error = FALSE
      /\ steps_used \in Nat /\ steps_used < MaxSteps /\ cost \in Nat
  BY DEF GatherContext, Ready, checks, LoopInv, CountInv, Looping, EndInv
<1>3. r.uses \in Seq(Uses) /\ steps_used + 1 \in Nat /\ r.cost \in Nat /\ Len(r.uses) \in Nat
  <2>1. r.uses \in Seq(Uses) /\ r.cost \in 0..MaxCallCost
    BY InvestigationAssumption
  <2> QED
    BY <1>2, <2>1
<1>4. Submitted' <=> diagnosis' # NoUse
  <2>1. ~Submitted
    BY <1>2 DEF EndInv
  <2>2. Submitted' <=> \/ Submitted
                       \/ \E i \in 1..Len(r.uses) : r.uses[i].kind = "diagnosis"
    BY <1>1, <1>3, SubmittedInRound DEF LoopInv, Submitted
  <2> QED
    BY <1>1, <2>1, <2>2, DiagnosisOfRound
<1>5. diagnosis' # NoUse => diagnosis'.action \in ActionTypes
  BY <1>1, DiagnosisIsUse
<1>6. policy_verdict' = None /\ grounded' = None
  BY <1>2 DEF EndInv, Past
<1>7. /\ node' = Route(provider_error, diagnosis', cost', steps_used') /\ ~provider_error
      /\ cost' \in Nat /\ steps_used' \in Nat
  BY <1>1, <1>2, <1>3 DEF Goto
<1>8. /\ node' \in {"gather_context", "hypothesize", "decide"}
      /\ node' = "hypothesize" => diagnosis' # NoUse
      /\ node' = "decide" => diagnosis' = NoUse
  BY <1>7, RouteCases
<1>9. node' = "decide" => cost' > MaxCost \/ steps_used' = MaxSteps
  <2>1. node' = "decide" => cost' > MaxCost \/ steps_used' >= MaxSteps
    BY <1>7, <1>8 DEF Route
  <2> QED
    BY <1>1, <1>2, <2>1, InvestigationAssumption
<1> QED
  BY <1>2, <1>4, <1>5, <1>6, <1>8, <1>9 DEF EndInv, Past

LEMMA EndStep ==
    ASSUME LoopInv, EndInv, [Next]_vars
    PROVE  EndInv'
<1> USE DEF model, checks
<1>1. CASE GatherContext
  BY <1>1, EndOfRound
<1>2. CASE GiveUp
  <2>1. /\ node' = "decide" /\ provider_error' = TRUE
        /\ UNCHANGED <<evidence_trail, diagnosis, policy_verdict, grounded>>
        /\ node = "gather_context" /\ diagnosis = NoUse
    BY <1>2 DEF GiveUp, Goto, Route, Ready, LoopInv, CountInv, Looping
  <2> QED
    BY <2>1 DEF EndInv, Past, Submitted
<1>3. CASE UNCHANGED vars \/ RetryCall \/ RaiseProviderError
  <2>1. UNCHANGED <<node, evidence_trail, steps_used, cost, diagnosis, provider_error, checks,
                    status>>
    BY <1>3 DEF vars, RetryCall, RaiseProviderError
  <2> QED
    BY <2>1 DEF EndInv, Past, Submitted, StatusOf
<1>4. CASE Hypothesize \/ ClassifyRisk \/ Pause
  <2>1. /\ UNCHANGED <<evidence_trail, steps_used, cost, diagnosis, provider_error,
                       policy_verdict>>
        /\ \/ node = "hypothesize" /\ node' = "classify_risk" /\ grounded' \in {"yes", "no"}
           \/ node = "classify_risk" /\ node' = "evaluate_policy" /\ grounded' = grounded
           \/ node = "evaluate_policy" /\ node' = "paused" /\ grounded' = grounded
    BY <1>4 DEF Hypothesize, ClassifyRisk, Pause, Ready, Goto
  <2> QED
    BY <2>1 DEF EndInv, Past, Submitted, None
<1>5. CASE EvaluatePolicy \/ Resume
  <2>1. /\ UNCHANGED <<evidence_trail, steps_used, cost, diagnosis, provider_error, grounded>>
        /\ node \in {"evaluate_policy", "paused"} /\ node' = "decide"
        /\ policy_verdict' = Evaluate(diagnosis.action)
    BY <1>5 DEF EvaluatePolicy, Resume, Ready, Goto
  <2>2. policy_verdict' # None
    BY <2>1 DEF EndInv, Evaluate, ActionTypes, RiskTable, None
  <2> QED
    BY <2>1, <2>2 DEF EndInv, Past, Submitted
<1>6. CASE Decide
  <2>1. /\ UNCHANGED <<evidence_trail, steps_used, cost, diagnosis, provider_error, checks>>
        /\ node = "decide" /\ node' = "end" /\ status' = StatusOf
    BY <1>6 DEF Decide, Ready, Goto
  <2> QED
    BY <2>1 DEF EndInv, Past, Submitted, StatusOf
<1> QED
  BY <1>1, <1>2, <1>3, <1>4, <1>5, <1>6 DEF Next, Progress

\* Whatever the model answers: a status says what happened, a diagnosis that was
\* submitted is never lost to a ceiling, and nothing without one gets past the
\* grounding check and the policy gate.
THEOREM EndIsAlwaysExplained == Spec => []EndIsExplained
<1>1. LoopInv /\ EndInv => EndIsExplained
  <2> SUFFICES ASSUME LoopInv, EndInv, node = "end" PROVE EndIsExplained
    BY DEF EndIsExplained
  <2>1. status = StatusOf
    BY DEF EndInv
  <2>2. status = "diagnosed" <=> diagnosis # NoUse
    BY <2>1 DEF StatusOf, EndInv
  <2>3. status = "incomplete_provider_error" <=> provider_error
    BY <2>1 DEF StatusOf
  <2>4. status = "incomplete_cost_ceiling" => cost > MaxCost
    BY <2>1 DEF StatusOf
  <2>5. status = "incomplete_step_ceiling" => steps_used = MaxSteps /\ cost <= MaxCost
    BY <2>1, InvestigationAssumption DEF StatusOf, EndInv, LoopInv, CountInv
  <2> QED
    BY <2>2, <2>3, <2>4, <2>5 DEF EndIsExplained, EndInv, Submitted, Past
<1>2. Init => LoopInv /\ EndInv
  BY LoopInit, EndInit
<1>3. LoopInv /\ EndInv /\ [Next]_vars => (LoopInv /\ EndInv)'
  BY LoopStep, EndStep
<1> QED
  BY <1>1, <1>2, <1>3, PTL DEF Spec

-----------------------------------------------------------------------------
(* The transcript grows by whole rounds.                                    *)

Answered(transcript) ==
    \A i \in 1..Len(transcript) :
        transcript[i].role = "assistant" =>
            /\ i % 2 = 1 /\ i < Len(transcript)
            /\ transcript[i + 1].role = "user"
            /\ Len(transcript[i + 1].errors) = Len(transcript[i].uses)
            /\ \A j \in DOMAIN transcript[i].uses :
                transcript[i + 1].errors[j] <=> IsError(transcript[i].uses[j])

TranscriptInv ==
    /\ messages \in Seq(Messages)
    /\ Len(messages) % 2 = 0
    /\ Answered(messages)

LEMMA ResultsType ==
    ASSUME NEW uses \in Seq(Uses)
    PROVE  /\ Results(uses) \in Seq(BOOLEAN) /\ Len(Results(uses)) = Len(uses)
           /\ \A j \in DOMAIN uses : Results(uses)[j] <=> IsError(uses[j])
<1>1. Len(uses) \in Nat /\ DOMAIN uses = 1..Len(uses)
  OBVIOUS
<1>2. \A j \in 1..Len(uses) : IsError(uses[j]) \in BOOLEAN
  BY DEF IsError
<1>3. Results(uses) \in [1..Len(uses) -> BOOLEAN]
  BY <1>2 DEF Results
<1>4. Results(uses) \in Seq(BOOLEAN) /\ Len(Results(uses)) = Len(uses)
  BY <1>1, <1>3
<1> QED
  BY <1>1, <1>4 DEF Results

LEMMA TwoMore ==
    ASSUME NEW S, NEW seq \in Seq(S), NEW a \in S, NEW b \in S
    PROVE  /\ seq \o <<a, b>> \in Seq(S)
           /\ Len(seq \o <<a, b>>) = Len(seq) + 2
           /\ \A i \in 1..Len(seq) : (seq \o <<a, b>>)[i] = seq[i]
           /\ (seq \o <<a, b>>)[Len(seq) + 1] = a
           /\ (seq \o <<a, b>>)[Len(seq) + 2] = b
  OBVIOUS

LEMMA TwoMoreIsEven ==
    ASSUME NEW n \in Nat, n % 2 = 0
    PROVE  (n + 2) % 2 = 0 /\ (n + 1) % 2 = 1
  OBVIOUS

\* A round asks and answers, and leaves the rounds before it as they were.
LEMMA RoundOfTranscript ==
    ASSUME NEW old \in Seq(Messages), Len(old) % 2 = 0, Answered(old),
           NEW uses \in Seq(Uses), NEW ask, NEW answer,
           ask.role = "assistant", ask.uses = uses,
           answer.role = "user", answer.errors = Results(uses),
           NEW new \in Seq(Messages), Len(new) = Len(old) + 2,
           \A i \in 1..Len(old) : new[i] = old[i],
           new[Len(old) + 1] = ask, new[Len(old) + 2] = answer
    PROVE  Len(new) % 2 = 0 /\ Answered(new)
<1> DEFINE n == Len(old)
<1>1. n \in Nat /\ n % 2 = 0 /\ Len(new) = n + 2
  <2>1. old \in Seq(Messages)
    OBVIOUS
  <2>2. Len(old) \in Nat
    BY ONLY <2>1
  <2> QED
    BY <2>2
<1>2. Len(new) % 2 = 0 /\ (n + 1) % 2 = 1
  <2> HIDE DEF n
  <2>1. (n + 2) % 2 = 0 /\ (n + 1) % 2 = 1
    BY <1>1, TwoMoreIsEven
  <2> QED
    BY <1>1, <2>1, Zenon
<1>3. ASSUME NEW i \in 1..(n + 2), new[i].role = "assistant"
      PROVE  /\ i % 2 = 1 /\ i < n + 2
             /\ new[i + 1].role = "user"
             /\ Len(new[i + 1].errors) = Len(new[i].uses)
             /\ \A j \in DOMAIN new[i].uses : new[i + 1].errors[j] <=> IsError(new[i].uses[j])
  <2>1. CASE i \in 1..n
    <3>1. new[i] = old[i]
      BY <2>1
    <3>2. /\ i % 2 = 1 /\ i < n /\ old[i + 1].role = "user"
          /\ Len(old[i + 1].errors) = Len(old[i].uses)
          /\ \A j \in DOMAIN old[i].uses : old[i + 1].errors[j] <=> IsError(old[i].uses[j])
      BY <1>3, <2>1, <3>1 DEF Answered
    <3>3. new[i + 1] = old[i + 1]
      <4>1. \A k \in 1..n : new[k] = old[k]
        OBVIOUS
      <4>2. i + 1 \in 1..n
        <5> HIDE DEF n
        <5> QED
          BY <1>1, <2>1, <3>2
      <4> HIDE DEF n
      <4> QED
        BY <4>1, <4>2
    <3>4. i < n + 2
      <4> HIDE DEF n
      <4> QED
        BY <1>1, <2>1
    <3> QED
      BY <3>1, <3>2, <3>3, <3>4
  <2>2. CASE i = n + 1
    <3>1. new[i] = ask /\ new[i + 1] = answer
      BY <1>1, <2>2
    <3>2. i % 2 = 1 /\ i < n + 2
      BY <1>1, <1>2, <2>2
    <3> QED
      BY <3>1, <3>2, ResultsType
  <2>3. CASE i = n + 2
    BY <1>3, <2>3
  <2> QED
    BY <1>1, <2>1, <2>2, <2>3
<1> QED
  BY <1>1, <1>2, <1>3 DEF Answered

LEMMA TranscriptInit == Init => TranscriptInv
<1> SUFFICES ASSUME Init PROVE TranscriptInv
  OBVIOUS
<1>1. messages = <<>> /\ Len(messages) = 0
  BY DEF Init
<1> QED
  BY <1>1 DEF TranscriptInv, Answered

LEMMA TranscriptStep == TranscriptInv /\ [Next]_vars => TranscriptInv'
<1> SUFFICES ASSUME TranscriptInv, [Next]_vars PROVE TranscriptInv'
  OBVIOUS
<1>1. CASE GatherContext
  <2>1. PICK r \in Responses :
          messages' = messages \o << [role |-> "assistant", uses |-> r.uses],
                                     [role |-> "user", errors |-> Results(r.uses)] >>
    BY <1>1 DEF GatherContext
  <2> DEFINE ask == [role |-> "assistant", uses |-> r.uses]
             answer == [role |-> "user", errors |-> Results(r.uses)]
  <2>2. r.uses \in Seq(Uses)
    BY InvestigationAssumption
  <2>3. ask \in Messages /\ answer \in Messages
    BY <2>2, ResultsType DEF Messages
  <2>4. /\ ask.role = "assistant" /\ ask.uses = r.uses
        /\ answer.role = "user" /\ answer.errors = Results(r.uses)
    OBVIOUS
  <2>5. messages' = messages \o <<ask, answer>>
    BY <2>1
  <2> HIDE DEF ask, answer
  <2>6. /\ messages' \in Seq(Messages) /\ Len(messages') = Len(messages) + 2
        /\ \A i \in 1..Len(messages) : messages'[i] = messages[i]
        /\ messages'[Len(messages) + 1] = ask /\ messages'[Len(messages) + 2] = answer
    BY <2>3, <2>5, TwoMore DEF TranscriptInv
  <2>7. Len(messages') % 2 = 0 /\ Answered(messages')
    BY <2>2, <2>4, <2>6, RoundOfTranscript DEF TranscriptInv
  <2> QED
    BY <2>6, <2>7 DEF TranscriptInv
<1>2. CASE ~GatherContext
  <2>1. UNCHANGED messages
    BY <1>2 DEF vars, model, Next, Progress, RetryCall, GiveUp, RaiseProviderError,
                Hypothesize, ClassifyRisk, EvaluatePolicy, Pause, Decide, Resume
  <2> QED
    BY <2>1 DEF TranscriptInv
<1> QED
  BY <1>1, <1>2

\* Whatever the model asks for, every tool use has its result in the very next
\* message: the provider never gets a transcript it must refuse.
THEOREM TranscriptAlwaysAnswered == Spec => []TranscriptAnswered
<1>1. TranscriptInv => TranscriptAnswered
  BY DEF TranscriptInv, Answered, TranscriptAnswered
<1> QED
  BY <1>1, TranscriptInit, TranscriptStep, PTL DEF Spec

-----------------------------------------------------------------------------
(* The evidence trail grows by whole rounds, in step with the transcript:   *)
(* while the loop goes round, there are two messages for every step, so a   *)
(* new round's step is that of no earlier record.                          *)

Held(trail, o, s, uses) ==
    /\ \A k \in 1..Len(uses) : o + k \in 1..Len(trail) /\ trail[o + k].use = uses[k]
    /\ \A j \in 1..Len(trail) : trail[j].step = s <=> j - o \in 1..Len(uses)

RoundsHeld(trail, steps, transcript) ==
    /\ \A j \in 1..Len(trail) : trail[j].step \in 1..steps
    /\ \A i \in 1..Len(transcript) : transcript[i].role = "assistant" =>
        \E o \in 0..Len(trail) : Held(trail, o, (i + 1) \div 2, transcript[i].uses)

RoundsInv ==
    /\ node = "gather_context" => Len(messages) = 2 * steps_used
    /\ RoundsHeld(evidence_trail, steps_used, messages)

\* all is trail with the records of a round after those of the rounds before it.
Appended(trail, all, s, uses) ==
    /\ all \in Seq(Records)
    /\ Len(all) = Len(trail) + Len(uses)
    /\ \A j \in 1..Len(trail) : all[j] = trail[j]
    /\ \A k \in 1..Len(uses) : all[Len(trail) + k].use = uses[k] /\ all[Len(trail) + k].step = s

LEMMA RecordsAppended ==
    ASSUME NEW trail \in Seq(Records), NEW s \in Nat, NEW uses \in Seq(Uses)
    PROVE  Appended(trail, trail \o RecordsOf(s, uses), s, uses)
<1> DEFINE records == RecordsOf(s, uses)
           all == trail \o records
<1>1. /\ records \in Seq(Records) /\ Len(records) = Len(uses)
      /\ \A k \in 1..Len(uses) : records[k].use = uses[k] /\ records[k].step = s
  BY RecordsType DEF RecordsOf
<1>2. /\ all \in Seq(Records)
      /\ Len(all) = Len(trail) + Len(records)
      /\ \A j \in 1..Len(trail) : all[j] = trail[j]
      /\ \A k \in 1..Len(records) : all[Len(trail) + k] = records[k]
  <2>1. trail \in Seq(Records) /\ records \in Seq(Records)
    BY <1>1
  <2> HIDE DEF records
  <2> QED
    BY <2>1
<1> HIDE DEF records, all
<1>3. Appended(trail, all, s, uses)
  BY <1>1, <1>2 DEF Appended
<1> QED
  BY <1>3 DEF all, records

\* A round held by the trail is still held when a later round is appended ...
LEMMA OldRoundHeld ==
    ASSUME NEW trail \in Seq(Records), NEW all, NEW t \in Nat, NEW uses \in Seq(Uses),
           Appended(trail, all, t, uses),
           NEW s \in Nat, s # t, NEW asked \in Seq(Uses),
           NEW o \in 0..Len(trail), Held(trail, o, s, asked)
    PROVE  o \in 0..Len(all) /\ Held(all, o, s, asked)
<1> DEFINE n == Len(uses)
<1>1. /\ Len(trail) \in Nat /\ Len(asked) \in Nat /\ n \in Nat
      /\ Len(all) \in Nat /\ Len(all) = Len(trail) + n
      /\ \A j \in 1..Len(trail) : all[j] = trail[j]
      /\ \A k \in 1..n : all[Len(trail) + k].step = t
  BY DEF Appended
<1> HIDE DEF n
<1>2. ASSUME NEW k \in 1..Len(asked)
      PROVE  o + k \in 1..Len(all) /\ all[o + k].use = asked[k]
  <2>1. o + k \in 1..Len(trail) /\ trail[o + k].use = asked[k]
    BY DEF Held
  <2> QED
    BY <1>1, <2>1
<1>3. ASSUME NEW j \in 1..Len(all)
      PROVE  all[j].step = s <=> j - o \in 1..Len(asked)
  <2>1. CASE j <= Len(trail)
    <3>1. j \in 1..Len(trail) /\ all[j] = trail[j]
      BY <1>1, <2>1
    <3> QED
      BY <3>1 DEF Held
  <2>2. CASE j > Len(trail)
    <3>1. j - Len(trail) \in 1..n /\ j = Len(trail) + (j - Len(trail))
      BY <1>1, <2>2
    <3>2. all[j].step = t
      BY <1>1, <3>1
    <3>3. ASSUME j - o \in 1..Len(asked) PROVE FALSE
      <4>1. o + (j - o) \in 1..Len(trail)
        BY <3>3 DEF Held
      <4> QED
        BY <1>1, <2>2, <4>1
    <3> QED
      BY <3>2, <3>3
  <2> QED
    BY <1>1, <2>1, <2>2
<1> QED
  BY <1>1, <1>2, <1>3 DEF Held

\* ... and the new one is held after all of them.
LEMMA NewRoundHeld ==
    ASSUME NEW trail \in Seq(Records), NEW all, NEW s \in Nat, NEW uses \in Seq(Uses),
           Appended(trail, all, s, uses),
           \A j \in 1..Len(trail) : trail[j].step # s
    PROVE  Len(trail) \in 0..Len(all) /\ Held(all, Len(trail), s, uses)
<1>1. /\ Len(trail) \in Nat /\ Len(uses) \in Nat
      /\ Len(all) \in Nat /\ Len(all) = Len(trail) + Len(uses)
      /\ \A j \in 1..Len(trail) : all[j] = trail[j]
      /\ \A k \in 1..Len(uses) :
            all[Len(trail) + k].use = uses[k] /\ all[Len(trail) + k].step = s
  BY DEF Appended
<1>2. ASSUME NEW j \in 1..Len(all)
      PROVE  all[j].step = s <=> j - Len(trail) \in 1..Len(uses)
  <2>1. CASE j <= Len(trail)
    BY <1>1, <2>1
  <2>2. CASE j > Len(trail)
    <3>1. j - Len(trail) \in 1..Len(uses) /\ j = Len(trail) + (j - Len(trail))
      BY <1>1, <2>2
    <3> QED
      BY <1>1, <3>1
  <2> QED
    BY <1>1, <2>1, <2>2
<1> QED
  BY <1>1, <1>2 DEF Held

LEMMA RoundsInit == Init => RoundsInv
<1> SUFFICES ASSUME Init PROVE RoundsInv
  OBVIOUS
<1>1. /\ messages = <<>> /\ evidence_trail = <<>> /\ steps_used = 0
      /\ Len(messages) = 0 /\ Len(evidence_trail) = 0
  BY DEF Init
<1> QED
  BY <1>1 DEF RoundsInv, RoundsHeld

LEMMA RoundsGrow ==
    ASSUME LoopInv, TranscriptInv, RoundsInv, GatherContext
    PROVE  RoundsInv'
<1>1. PICK r \in Responses :
        /\ messages' = messages \o << [role |-> "assistant", uses |-> r.uses],
                                      [role |-> "user", errors |-> Results(r.uses)] >>
        /\ evidence_trail' = evidence_trail \o RecordsOf(steps_used + 1, r.uses)
        /\ steps_used' = steps_used + 1
  BY DEF GatherContext
<1> DEFINE ask == [role |-> "assistant", uses |-> r.uses]
           answer == [role |-> "user", errors |-> Results(r.uses)]
           n == Len(messages)
<1>2. r.uses \in Seq(Uses)
  BY InvestigationAssumption
<1>3. /\ steps_used \in Nat /\ n = 2 * steps_used /\ n \in Nat
      /\ evidence_trail \in Seq(Records) /\ messages \in Seq(Messages)
  BY DEF GatherContext, Ready, LoopInv, CountInv, TranscriptInv, RoundsInv
<1>4. /\ Len(messages') = n + 2
      /\ \A i \in 1..n : messages'[i] = messages[i]
      /\ messages'[n + 1] = ask /\ messages'[n + 2] = answer
  <2>1. ask \in Messages /\ answer \in Messages
    BY <1>2, ResultsType DEF Messages
  <2>2. messages' = messages \o <<ask, answer>>
    BY <1>1
  <2>3. messages \in Seq(Messages)
    BY <1>3
  <2> HIDE DEF ask, answer
  <2> QED
    BY <2>1, <2>2, <2>3, TwoMore
<1>5. ask.role = "assistant" /\ ask.uses = r.uses /\ answer.role = "user"
  OBVIOUS
<1>6. Appended(evidence_trail, evidence_trail', steps_used + 1, r.uses)
  <2>1. steps_used + 1 \in Nat
    BY <1>3
  <2>2. evidence_trail \in Seq(Records)
    BY <1>3
  <2>3. Appended(evidence_trail, evidence_trail \o RecordsOf(steps_used + 1, r.uses),
                 steps_used + 1, r.uses)
    BY <1>2, <2>1, <2>2, RecordsAppended
  <2> QED
    BY <1>1, <2>3
<1>7. \A j \in 1..Len(evidence_trail) : evidence_trail[j].step \in 1..steps_used
  BY DEF RoundsInv, RoundsHeld
<1> HIDE DEF ask, answer, n
<1>8. ASSUME NEW j \in 1..Len(evidence_trail')
      PROVE  evidence_trail'[j].step \in 1..(steps_used + 1)
  <2>1. /\ Len(evidence_trail) \in Nat /\ Len(r.uses) \in Nat
        /\ Len(evidence_trail') = Len(evidence_trail) + Len(r.uses)
        /\ \A i \in 1..Len(evidence_trail) : evidence_trail'[i] = evidence_trail[i]
        /\ \A k \in 1..Len(r.uses) :
                evidence_trail'[Len(evidence_trail) + k].step = steps_used + 1
    <3>1. evidence_trail \in Seq(Records)
      BY <1>3
    <3>2. Len(evidence_trail) \in Nat /\ Len(r.uses) \in Nat
      BY ONLY <1>2, <3>1
    <3> QED
      BY <1>6, <3>2 DEF Appended
  <2>2. CASE j \in 1..Len(evidence_trail)
    <3>1. evidence_trail'[j].step \in 1..steps_used
      BY <1>7, <2>1, <2>2
    <3> QED
      BY <1>3, <3>1
  <2>3. CASE j > Len(evidence_trail)
    <3>1. /\ j - Len(evidence_trail) \in 1..Len(r.uses)
          /\ j = Len(evidence_trail) + (j - Len(evidence_trail))
      BY <2>1, <2>3
    <3>2. evidence_trail'[j].step = steps_used + 1
      BY <2>1, <3>1
    <3> QED
      BY <1>3, <3>2
  <2> QED
    BY <2>1, <2>2, <2>3
<1>9. ASSUME NEW i \in 1..(n + 2), messages'[i].role = "assistant"
      PROVE  \E o \in 0..Len(evidence_trail') :
                Held(evidence_trail', o, (i + 1) \div 2, messages'[i].uses)
  <2>1. CASE i \in 1..n
    <3>1. messages'[i] = messages[i] /\ messages[i].role = "assistant"
      BY <1>4, <1>9, <2>1
    <3>2. PICK o \in 0..Len(evidence_trail) :
            Held(evidence_trail, o, (i + 1) \div 2, messages[i].uses)
      BY <2>1, <3>1 DEF RoundsInv, RoundsHeld, n
    <3>3. messages[i].uses \in Seq(Uses)
      <4>1. messages[i] \in Messages
        BY <1>3, <2>1 DEF n
      <4> QED
        BY <3>1, <4>1 DEF Messages
    <3>4. (i + 1) \div 2 \in Nat /\ (i + 1) \div 2 # steps_used + 1
      BY <1>3, <2>1
    <3>5. steps_used + 1 \in Nat /\ evidence_trail \in Seq(Records)
      BY <1>3
    <3>6. o \in 0..Len(evidence_trail') /\ Held(evidence_trail', o, (i + 1) \div 2, messages[i].uses)
      <4> DEFINE s == (i + 1) \div 2
                 t == steps_used + 1
                 asked == messages[i].uses
      <4>1. s \in Nat /\ t \in Nat /\ s # t /\ asked \in Seq(Uses)
        BY <3>3, <3>4, <3>5
      <4>2. Held(evidence_trail, o, s, asked) /\ Appended(evidence_trail, evidence_trail', t, r.uses)
        BY <1>6, <3>2
      <4> HIDE DEF s, t, asked
      <4>3. o \in 0..Len(evidence_trail') /\ Held(evidence_trail', o, s, asked)
        BY <1>2, <3>5, <4>1, <4>2, OldRoundHeld
      <4> QED
        BY <4>3 DEF s, asked
    <3> QED
      BY <3>1, <3>6
  <2>2. CASE i = n + 1
    <3>1. messages'[i].uses = r.uses
      BY <1>4, <1>5, <2>2
    <3>2. (i + 1) \div 2 = steps_used + 1 /\ steps_used + 1 \in Nat
      BY <1>3, <2>2
    <3>3. \A j \in 1..Len(evidence_trail) : evidence_trail[j].step # steps_used + 1
      BY <1>3, <1>7
    <3>4. /\ Len(evidence_trail) \in 0..Len(evidence_trail')
          /\ Held(evidence_trail', Len(evidence_trail), steps_used + 1, r.uses)
      BY <1>2, <1>3, <1>6, <3>2, <3>3, NewRoundHeld
    <3> QED
      BY <3>1, <3>2, <3>4
  <2>3. CASE i = n + 2
    BY <1>4, <1>5, <1>9, <2>3
  <2> QED
    BY <1>3, <2>1, <2>2, <2>3
<1>10. Len(messages') = 2 * steps_used'
  BY <1>1, <1>3, <1>4
<1> QED
  BY <1>1, <1>4, <1>8, <1>9, <1>10 DEF RoundsInv, RoundsHeld

LEMMA RoundsStep ==
    ASSUME LoopInv, TranscriptInv, RoundsInv, [Next]_vars
    PROVE  RoundsInv'
<1>1. CASE GatherContext
  BY <1>1, RoundsGrow
<1>2. CASE GiveUp
  <2>1. /\ UNCHANGED <<messages, evidence_trail>>
        /\ steps_used' = steps_used + 1 /\ steps_used \in Nat
        /\ node' = "decide"
    BY <1>2 DEF GiveUp, Goto, Route, LoopInv, CountInv
  <2>2. \A j \in 1..Len(evidence_trail) : evidence_trail[j].step \in 1..(steps_used + 1)
    <3>1. \A j \in 1..Len(evidence_trail) : evidence_trail[j].step \in 1..steps_used
      BY DEF RoundsInv, RoundsHeld
    <3> QED
      BY <2>1, <3>1
  <2> QED
    BY <2>1, <2>2 DEF RoundsInv, RoundsHeld
<1>3. CASE ~(GatherContext \/ GiveUp)
  <2>1. UNCHANGED <<messages, evidence_trail, steps_used>>
    BY <1>3 DEF vars, model, Next, Progress, RetryCall, RaiseProviderError, Hypothesize,
                ClassifyRisk, EvaluatePolicy, Pause, Decide, Resume
  <2>2. node' = "gather_context" => node = "gather_context"
    BY <1>3 DEF vars, Next, Progress, RetryCall, RaiseProviderError, Hypothesize, ClassifyRisk,
                EvaluatePolicy, Pause, Decide, Resume, Goto
  <2> QED
    BY <2>1, <2>2 DEF RoundsInv, RoundsHeld
<1> QED
  BY <1>1, <1>2, <1>3

\* Whatever the model asks for and however the run ends, the audit trail is the
\* transcript: nothing the model asked for is missing from it, and it invents
\* nothing.
THEOREM EvidenceIsAlwaysTranscript == Spec => []EvidenceIsTranscript
<1> DEFINE IInv == LoopInv /\ TranscriptInv /\ RoundsInv
<1>1. Init => IInv
  BY LoopInit, TranscriptInit, RoundsInit
<1>2. IInv /\ [Next]_vars => IInv'
  BY LoopStep, TranscriptStep, RoundsStep
<1>3. IInv => EvidenceIsTranscript
  <2> SUFFICES ASSUME IInv PROVE EvidenceIsTranscript
    OBVIOUS
  <2>1. /\ DOMAIN evidence_trail = 1..Len(evidence_trail)
        /\ DOMAIN messages = 1..Len(messages)
    BY DEF LoopInv, TranscriptInv
  <2>2. ASSUME NEW i \in 1..Len(messages), messages[i].role = "assistant"
        PROVE  DOMAIN messages[i].uses = 1..Len(messages[i].uses)
    <3>1. messages[i] \in Messages
      BY DEF TranscriptInv
    <3>2. messages[i].uses \in Seq(Uses)
      BY <2>2, <3>1 DEF Messages
    <3> QED
      BY <3>2
  <2>3. ASSUME NEW i \in 1..Len(messages), messages[i].role = "assistant"
        PROVE  \E o \in 0..Len(evidence_trail) :
                    HoldsRound(o, (i + 1) \div 2, messages[i].uses)
    <3>1. PICK o \in 0..Len(evidence_trail) :
            Held(evidence_trail, o, (i + 1) \div 2, messages[i].uses)
      BY <2>3 DEF RoundsInv, RoundsHeld
    <3> QED
      BY <2>1, <2>2, <2>3, <3>1 DEF Held, HoldsRound
  <2> QED
    BY <2>1, <2>3 DEF RoundsInv, RoundsHeld, EvidenceIsTranscript
<1> HIDE DEF IInv
<1> QED
  BY <1>1, <1>2, <1>3, PTL DEF Spec

-----------------------------------------------------------------------------
(* Types.  That a risk tier and a verdict exist for every diagnosis that    *)
(* gets as far rests on EndInv; the rest is each variable's own.            *)

OwnTypes ==
    /\ attempt \in 0..MaxRetries
    /\ diagnosis \in Uses \cup {NoUse}
    /\ grounded \in {None, "yes", "no"}
    /\ risk_tier \in {None, "none", "low", "medium", "critical"}
    /\ policy_verdict \in Verdicts \cup {None}
    /\ status \in Statuses \cup {None}
    /\ raised \in {None, "provider"}

LEMMA OwnTypesInit == Init => OwnTypes
  BY DEF Init, OwnTypes, MaxRetries

LEMMA OwnTypesStep ==
    ASSUME OwnTypes, EndInv, [Next]_vars
    PROVE  OwnTypes'
<1> USE DEF model, checks
<1>1. CASE GatherContext
  <2>1. PICK r \in Responses : attempt' = 0 /\ diagnosis' = Diagnosis(r.uses)
    BY <1>1 DEF GatherContext
  <2>2. UNCHANGED <<checks, status, raised>>
    BY <1>1 DEF GatherContext, Goto
  <2> QED
    BY <2>1, <2>2, DiagnosisIsUse DEF OwnTypes, MaxRetries
<1>2. CASE GiveUp
  BY <1>2 DEF GiveUp, Goto, OwnTypes, MaxRetries
<1>3. CASE RetryCall
  BY <1>3 DEF RetryCall, RetriesLeft, OwnTypes, MaxRetries
<1>4. CASE UNCHANGED vars \/ RaiseProviderError \/ Pause
  BY <1>4 DEF vars, RaiseProviderError, Pause, OwnTypes
<1>5. CASE Hypothesize
  BY <1>5 DEF Hypothesize, Goto, OwnTypes
<1>6. CASE ClassifyRisk
  <2>1. diagnosis.action \in ActionTypes
    BY <1>6 DEF ClassifyRisk, Ready, EndInv
  <2>2. TierTable[diagnosis.action] \in {"none", "low", "medium", "critical"}
    BY <2>1 DEF ActionTypes, RiskTable, TierTable
  <2> QED
    BY <1>6, <2>2 DEF ClassifyRisk, Goto, OwnTypes
<1>7. CASE EvaluatePolicy \/ Resume
  <2>1. diagnosis.action \in ActionTypes
    BY <1>7 DEF EvaluatePolicy, Resume, Ready, EndInv
  <2>2. policy_verdict' \in Verdicts
    BY <1>7, <2>1 DEF EvaluatePolicy, Resume, Evaluate, Verdicts
  <2> QED
    BY <1>7, <2>2 DEF EvaluatePolicy, Resume, Goto, OwnTypes
<1>8. CASE Decide
  <2>1. StatusOf \in Statuses
    BY DEF StatusOf, Statuses
  <2> QED
    BY <1>8, <2>1 DEF Decide, Goto, OwnTypes
<1> QED
  BY <1>1, <1>2, <1>3, <1>4, <1>5, <1>6, <1>7, <1>8 DEF Next, Progress

\* Every variable of an investigation keeps its type: attempts stay within the
\* retries, and every diagnosis that gets to the gate has a tier and a verdict.
THEOREM TypeCorrect == Spec => []TypeOK
<1> DEFINE IInv == LoopInv /\ EndInv /\ TranscriptInv /\ OwnTypes
<1>1. Init => IInv
  BY LoopInit, EndInit, TranscriptInit, OwnTypesInit
<1>2. IInv /\ [Next]_vars => IInv'
  BY LoopStep, EndStep, TranscriptStep, OwnTypesStep
<1>3. IInv => TypeOK
  BY DEF LoopInv, CountInv, EndInv, TranscriptInv, OwnTypes, TypeOK
<1> HIDE DEF IInv
<1> QED
  BY <1>1, <1>2, <1>3, PTL DEF Spec

-----------------------------------------------------------------------------
(* Termination, by a count that every step lowers.  Failed attempts are     *)
(* kept only while a call is retried, and are fewer than a round is worth.  *)

AttemptInv ==
    /\ CountInv
    /\ attempt \in 0..MaxRetries
    /\ node # "gather_context" => attempt = 0

LEMMA AttemptInit == Init => AttemptInv
  BY CountInit DEF Init, AttemptInv, MaxRetries

LEMMA AttemptStep == AttemptInv /\ [Next]_vars => AttemptInv'
<1> SUFFICES ASSUME AttemptInv, [Next]_vars PROVE AttemptInv'
  OBVIOUS
<1>1. CountInv'
  BY CountStep DEF AttemptInv
<1>2. CASE GatherContext \/ GiveUp
  <2>1. attempt' = 0
    BY <1>2 DEF GatherContext, GiveUp
  <2> QED
    BY <1>1, <2>1 DEF AttemptInv, MaxRetries
<1>3. CASE RetryCall
  <2>1. node' = "gather_context" /\ attempt' = attempt + 1 /\ attempt < MaxRetries
    BY <1>3 DEF RetryCall, Ready, RetriesLeft
  <2> QED
    BY <1>1, <2>1 DEF AttemptInv, MaxRetries
<1>4. CASE RaiseProviderError
  <2>1. UNCHANGED <<node, attempt>>
    BY <1>4 DEF RaiseProviderError
  <2> QED
    BY <1>1, <2>1 DEF AttemptInv
<1>5. CASE Hypothesize \/ ClassifyRisk \/ EvaluatePolicy \/ Pause \/ Decide \/ Resume
  <2>1. node # "gather_context" /\ attempt' = attempt
    BY <1>5 DEF Hypothesize, ClassifyRisk, EvaluatePolicy, Pause, Decide, Resume, Ready
  <2> QED
    BY <1>1, <2>1 DEF AttemptInv
<1>6. CASE UNCHANGED vars
  <2>1. UNCHANGED <<node, attempt>>
    BY <1>6 DEF vars
  <2> QED
    BY <1>1, <2>1 DEF AttemptInv
<1> QED
  BY <1>2, <1>3, <1>4, <1>5, <1>6 DEF Next, Progress

\* A round costs the calls of a whole round, and gives back its failed attempts.
LEMMA RoundCounts ==
    ASSUME AttemptInv, AttemptInv', GatherContext \/ GiveUp
    PROVE  StepsLeft' \in 0..(StepsLeft - 1)
<1>1. /\ node = "gather_context" /\ attempt' = 0 /\ raised' = raised
      /\ steps_used' = steps_used + 1
      /\ node' \in {"gather_context", "hypothesize", "decide"}
  <2>1. /\ node = "gather_context" /\ attempt' = 0 /\ raised' = raised
        /\ steps_used' = steps_used + 1
        /\ \E e, d : node' = Route(e, d, cost', steps_used')
    BY DEF GatherContext, GiveUp, Ready, Goto
  <2>2. node' \in {"gather_context", "hypothesize", "decide"}
    BY <2>1 DEF Route
  <2> QED
    BY <2>1, <2>2
<1>2. /\ attempt \in 0..MaxRetries /\ steps_used \in Nat
      /\ steps_used' <= MaxSteps /\ MaxSteps \in Nat
  BY InvestigationAssumption DEF AttemptInv, CountInv
<1>3. CallsLeft \in Int /\ CallsLeft' \in Nat /\ CallsLeft' < CallsLeft
  BY <1>1, <1>2 DEF CallsLeft, MaxRetries
<1>4. NodesLeft[node] \in Nat /\ NodesLeft[node'] \in Nat /\ NodesLeft[node'] <= NodesLeft[node]
  BY <1>1 DEF NodesLeft
<1>5. RaisesLeft \in 0..1 /\ RaisesLeft' = RaisesLeft
  BY <1>1 DEF RaisesLeft
<1> QED
  BY <1>3, <1>4, <1>5 DEF StepsLeft

LEMMA OthersCount ==
    ASSUME AttemptInv, AttemptInv',
           Hypothesize \/ ClassifyRisk \/ EvaluatePolicy \/ Pause \/ Decide \/ Resume
    PROVE  StepsLeft' \in 0..(StepsLeft - 1)
<1>1. UNCHANGED <<attempt, steps_used, raised>>
  BY DEF Hypothesize, ClassifyRisk, EvaluatePolicy, Pause, Decide, Resume, Goto, model
<1>2. \/ node = "hypothesize" /\ node' = "classify_risk"
      \/ node = "classify_risk" /\ node' = "evaluate_policy"
      \/ node = "evaluate_policy" /\ node' \in {"decide", "paused"}
      \/ node = "paused" /\ node' = "decide"
      \/ node = "decide" /\ node' = "end"
  BY DEF Hypothesize, ClassifyRisk, EvaluatePolicy, Pause, Decide, Resume, Ready, Goto
<1>3. NodesLeft[node'] \in Nat /\ NodesLeft[node] \in Nat /\ NodesLeft[node'] < NodesLeft[node]
  BY <1>2 DEF NodesLeft
<1>4. attempt = 0 /\ steps_used \in Nat /\ steps_used <= MaxSteps /\ MaxSteps \in Nat
  BY <1>2, InvestigationAssumption DEF AttemptInv, CountInv
<1>5. CallsLeft \in Nat /\ CallsLeft' = CallsLeft
  BY <1>1, <1>4 DEF CallsLeft, MaxRetries
<1>6. RaisesLeft \in 0..1 /\ RaisesLeft' = RaisesLeft
  BY <1>1 DEF RaisesLeft
<1> QED
  BY <1>3, <1>5, <1>6 DEF StepsLeft

\* Every investigation ends (graph.py route_after_gather_context, client.py
\* call_with_retries): at most max_steps rounds of at most three attempts each,
\* and the nodes after them, whatever the model answers.  That a step is taken
\* at all is the fairness TLC assumes.
THEOREM EveryStepAlwaysCounts == Spec => EveryStepCounts
<1>1. AttemptInv /\ AttemptInv' /\ [Next]_vars => [StepsLeft' \in 0..(StepsLeft - 1)]_vars
  <2> SUFFICES ASSUME AttemptInv, AttemptInv', Next PROVE StepsLeft' \in 0..(StepsLeft - 1)
    OBVIOUS
  <2>1. CASE RetryCall
    <3>1. /\ UNCHANGED <<node, steps_used, raised>> /\ attempt' = attempt + 1
          /\ node = "gather_context" /\ attempt < MaxRetries
      BY <2>1 DEF RetryCall, Ready, RetriesLeft, model
    <3>2. /\ attempt \in 0..MaxRetries /\ steps_used \in Nat /\ MaxSteps \in Nat
          /\ steps_used < MaxSteps
      BY <3>1, InvestigationAssumption DEF AttemptInv, CountInv, Looping
    <3>3. CallsLeft \in Nat /\ CallsLeft' \in Nat /\ CallsLeft' < CallsLeft
      BY <3>1, <3>2 DEF CallsLeft, MaxRetries
    <3>4. NodesLeft[node] \in Nat /\ NodesLeft[node'] = NodesLeft[node]
      BY <3>1 DEF NodesLeft
    <3>5. RaisesLeft \in 0..1 /\ RaisesLeft' = RaisesLeft
      BY <3>1, <3>4 DEF RaisesLeft
    <3> QED
      BY <3>3, <3>4, <3>5 DEF StepsLeft
  <2>2. CASE RaiseProviderError
    <3>1. UNCHANGED <<node, attempt, steps_used>> /\ raised = None /\ raised' = "provider"
          /\ node = "gather_context"
      BY <2>2 DEF RaiseProviderError, Ready, model
    <3>2. attempt \in 0..MaxRetries /\ steps_used \in Nat /\ MaxSteps \in Nat
          /\ steps_used < MaxSteps
      BY <3>1, InvestigationAssumption DEF AttemptInv, CountInv, Looping
    <3>3. CallsLeft \in Nat /\ CallsLeft' = CallsLeft
      BY <3>1, <3>2 DEF CallsLeft, MaxRetries
    <3>4. NodesLeft[node] \in Nat /\ NodesLeft[node'] = NodesLeft[node]
      BY <3>1 DEF NodesLeft
    <3>5. RaisesLeft = 1 /\ RaisesLeft' = 0
      BY <3>1, <3>4 DEF RaisesLeft, None
    <3> QED
      BY <3>3, <3>4, <3>5 DEF StepsLeft
  <2> QED
    BY <2>1, <2>2, RoundCounts, OthersCount DEF Next, Progress
<1> QED
  BY <1>1, AttemptInit, AttemptStep, PTL DEF Spec, EveryStepCounts
=============================================================================
