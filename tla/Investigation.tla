--------------------------- MODULE Investigation ---------------------------
(***************************************************************************)
(* One investigation: the graph of agent/graph.py over the nodes of        *)
(* agent/nodes.py, one model call at a time, with the bounded retries of   *)
(* agent/client.py, the step and cost ceilings and LangGraph's recursion   *)
(* limit.  The model is free: it answers any of Responses, or fails.       *)
(*                                                                         *)
(* What the gate does with a decision (execution, audit, crashes) is in    *)
(* IncidentLifecycle, for which module Gathering states what this loop     *)
(* promises.                                                               *)
(***************************************************************************)
EXTENDS Integers, Sequences, Policy

CONSTANTS
    MaxSteps,       \* settings.agent_max_steps
    MaxCost,        \* settings.agent_max_cost_usd, in units of cost
    MaxCallCost,    \* the dearest single model call
    Sources,        \* what evidence can be about: a deployment, a log line, ...
    Responses       \* what the model may answer: its tool uses and its cost

None == "none"

\* A tool use: one that its tool answers, one that is refused (unknown tool or
\* invalid arguments), a diagnosis, or a diagnosis that fails validation.
\* "mentions" is what its record in the evidence trail is about; for a
\* diagnosis, its citations.
Uses == [kind : {"tool", "refused", "diagnosis", "invalid_diagnosis"},
         mentions : SUBSET Sources, action : ActionTypes \cup {None}]

ASSUME InvestigationAssumption ==
    /\ MaxSteps \in Nat \ {0}
    /\ MaxCost \in Nat
    /\ MaxCallCost \in Nat
    /\ \A r \in Responses :
        /\ r.uses \in Seq(Uses)
        /\ r.cost \in 0..MaxCallCost
        /\ \A i \in DOMAIN r.uses :
            r.uses[i].kind = "diagnosis" <=> r.uses[i].action # None

MaxRetries == 2

\* Mutant: headroom for three of the four nodes that follow the loop.
MutantTightLimit == MaxSteps + 3

RecursionLimit == MaxSteps + 10

VARIABLES
    node,               \* the node that runs next
    attempt,            \* call_with_retries: failed attempts of this call
    messages,           \* GraphState.messages after the opening one
    evidence_trail,
    steps_used,
    cost,               \* estimated_cost_usd
    diagnosis,
    provider_error,
    grounded,           \* evidence_grounded
    risk_tier,
    policy_verdict,
    status,
    supersteps,         \* of the current invocation
    raised              \* the exception that left the graph

model  == <<messages, evidence_trail, steps_used, cost, diagnosis, provider_error>>
checks == <<grounded, risk_tier, policy_verdict>>
vars   == <<node, attempt, model, checks, status, supersteps, raised>>

Nodes == {"gather_context", "hypothesize", "classify_risk", "evaluate_policy", "paused",
          "decide", "end"}
Verdicts == {RiskTable[a] : a \in ActionTypes}
Statuses == {"diagnosed", "incomplete_provider_error", "incomplete_cost_ceiling",
             "incomplete_step_ceiling"}

NoUse == [kind |-> None, mentions |-> {}, action |-> None]

\* A record of the evidence trail.
Records == [step : Nat, use : Uses, error : BOOLEAN]

\* The two messages of a round: the assistant's tool uses, and the user's
\* results for them (or its request to go on: no results).
Messages == [role : {"assistant"}, uses : Seq(Uses)] \cup
            [role : {"user"}, errors : Seq(BOOLEAN)]

TypeOK ==
    /\ node \in Nodes
    /\ attempt \in 0..MaxRetries
    /\ messages \in Seq(Messages)
    /\ evidence_trail \in Seq(Records)
    /\ steps_used \in Nat
    /\ cost \in Nat
    /\ diagnosis \in Uses \cup {NoUse}
    /\ provider_error \in BOOLEAN
    /\ grounded \in {None, "yes", "no"}
    /\ risk_tier \in {None, "none", "low", "medium", "critical"}
    /\ policy_verdict \in Verdicts \cup {None}
    /\ status \in Statuses \cup {None}
    /\ supersteps \in Nat
    /\ raised \in {None, "provider"}

-----------------------------------------------------------------------------
(* LangGraph: a node that returned leads to the next one.  Where the limit  *)
(* is reached nothing runs any more: the invocation raises.                *)

Ready(n) == node = n /\ raised = None /\ supersteps < RecursionLimit

Goto(n) ==
    /\ node' = n
    /\ supersteps' = supersteps + 1
    /\ UNCHANGED raised

-----------------------------------------------------------------------------
(* gather_context                                                          *)

\* Mutants: the cost is not asked; the ceilings are asked before the diagnosis.
MutantRouteStepsOnly(error, d, c, s) ==
    IF error THEN "decide"
    ELSE IF d # NoUse THEN "hypothesize"
    ELSE IF s >= MaxSteps THEN "decide"
    ELSE "gather_context"
MutantRouteCeilingFirst(error, d, c, s) ==
    IF error \/ c > MaxCost \/ s >= MaxSteps THEN "decide"
    ELSE IF d # NoUse THEN "hypothesize"
    ELSE "gather_context"

\* route_after_gather_context
Route(error, d, c, s) ==
    IF error THEN "decide"
    ELSE IF d # NoUse THEN "hypothesize"
    ELSE IF c > MaxCost \/ s >= MaxSteps THEN "decide"
    ELSE "gather_context"

\* Mutant: the last attempt is retried once more.
MutantRetriesOneMore == attempt <= MaxRetries

RetriesLeft == attempt < MaxRetries

\* A transient failure (timeout, rate limit, connection, 5xx) is retried ...
RetryCall ==
    /\ Ready("gather_context") /\ RetriesLeft
    /\ attempt' = attempt + 1
    /\ UNCHANGED <<node, model, checks, status, supersteps, raised>>

\* ... until the retries are used up: the graceful give-up.
GiveUp ==
    /\ Ready("gather_context") /\ ~RetriesLeft
    /\ attempt' = 0
    /\ steps_used' = steps_used + 1
    /\ provider_error' = TRUE
    /\ Goto(Route(provider_error', diagnosis, cost, steps_used'))
    /\ UNCHANGED <<messages, evidence_trail, cost, diagnosis, checks, status>>

\* Any other error leaves the graph at once.
RaiseProviderError ==
    /\ Ready("gather_context")
    /\ raised' = "provider"
    /\ UNCHANGED <<node, attempt, model, checks, status, supersteps>>

IsError(use) == use.kind \in {"refused", "invalid_diagnosis"}

\* Mutant: a refused call gets no result.
MutantResultsOfAnswered(uses) ==
    LET answered == SelectSeq(uses, LAMBDA u : u.kind # "refused")
    IN  [i \in 1..Len(answered) |-> IsError(answered[i])]

\* A result for every tool use, flagged when it is an error.
Results(uses) == [i \in 1..Len(uses) |-> IsError(uses[i])]

\* Mutant: only what a tool returned is evidence.
MutantRecordsOfAnswered(s, uses) ==
    LET answered == SelectSeq(uses, LAMBDA u : ~IsError(u))
    IN  [i \in 1..Len(answered) |-> [step |-> s, use |-> answered[i], error |-> FALSE]]

\* A record for every tool use, the diagnosis included.
RecordsOf(s, uses) ==
    [i \in 1..Len(uses) |-> [step |-> s, use |-> uses[i], error |-> IsError(uses[i])]]

\* Mutant: the diagnosis must be the round's last tool use.
MutantDiagnosisLast(uses) ==
    IF uses # <<>> /\ uses[Len(uses)].kind = "diagnosis" THEN uses[Len(uses)] ELSE NoUse

\* The last valid diagnosis of the round; an invalid one replaces nothing.
Diagnosis(uses) ==
    LET valid == {i \in 1..Len(uses) : uses[i].kind = "diagnosis"}
    IN  IF valid = {} THEN NoUse
        ELSE uses[CHOOSE i \in valid : \A j \in valid : j <= i]

\* One model call and the round of tools it asks for.
GatherContext ==
    /\ Ready("gather_context")
    /\ \E r \in Responses :
        /\ attempt' = 0
        /\ messages' = messages \o << [role |-> "assistant", uses |-> r.uses],
                                      [role |-> "user", errors |-> Results(r.uses)] >>
        /\ evidence_trail' = evidence_trail \o RecordsOf(steps_used + 1, r.uses)
        /\ steps_used' = steps_used + 1
        /\ cost' = cost + r.cost
        /\ diagnosis' = Diagnosis(r.uses)
        /\ Goto(Route(provider_error, diagnosis', cost', steps_used'))
    /\ UNCHANGED <<provider_error, checks, status>>

-----------------------------------------------------------------------------
(* The other nodes.                                                        *)

\* What the evidence trail, as one blob of text, is about.
Gathered == UNION {evidence_trail[i].use.mentions : i \in DOMAIN evidence_trail}

\* Every citation must show up in what was gathered.
Hypothesize ==
    /\ Ready("hypothesize")
    /\ grounded' = IF diagnosis.mentions \subseteq Gathered THEN "yes" ELSE "no"
    /\ Goto("classify_risk")
    /\ UNCHANGED <<attempt, model, risk_tier, policy_verdict, status>>

TierTable ==
    [no_action |-> "none", escalate |-> "none", restart_service |-> "low",
     scale_service |-> "low", toggle_feature_flag |-> "medium",
     rollback_deployment |-> "medium", delete_data |-> "critical"]

ClassifyRisk ==
    /\ Ready("classify_risk")
    /\ risk_tier' = TierTable[diagnosis.action]
    /\ Goto("evaluate_policy")
    /\ UNCHANGED <<attempt, model, grounded, policy_verdict, status>>

EvaluatePolicy ==
    /\ Ready("evaluate_policy")
    /\ ~Gated(diagnosis.action)
    /\ policy_verdict' = Evaluate(diagnosis.action)
    /\ Goto("decide")
    /\ UNCHANGED <<attempt, model, grounded, risk_tier, status>>

\* interrupt(): the invocation ends with "awaiting_approval".
Pause ==
    /\ Ready("evaluate_policy")
    /\ Gated(diagnosis.action)
    /\ node' = "paused"
    /\ UNCHANGED <<attempt, model, checks, status, supersteps, raised>>

\* resume_investigation: a new invocation, which re-enters the node with the
\* decision and counts its supersteps from zero.
Resume ==
    /\ node = "paused"
    /\ policy_verdict' = Evaluate(diagnosis.action)
    /\ node' = "decide"
    /\ supersteps' = 1
    /\ UNCHANGED <<attempt, model, grounded, risk_tier, status, raised>>

StatusOf ==
    IF provider_error THEN "incomplete_provider_error"
    ELSE IF diagnosis # NoUse THEN "diagnosed"
    ELSE IF cost > MaxCost THEN "incomplete_cost_ceiling"
    ELSE "incomplete_step_ceiling"

Decide ==
    /\ Ready("decide")
    /\ status' = StatusOf
    /\ Goto("end")
    /\ UNCHANGED <<attempt, model, checks>>

-----------------------------------------------------------------------------

\* initial_state() on a fresh thread.
Init ==
    /\ node = "gather_context"
    /\ attempt = 0
    /\ messages = <<>>
    /\ evidence_trail = <<>>
    /\ steps_used = 0
    /\ cost = 0
    /\ diagnosis = NoUse
    /\ provider_error = FALSE
    /\ grounded = None
    /\ risk_tier = None
    /\ policy_verdict = None
    /\ status = None
    /\ supersteps = 0
    /\ raised = None


Progress ==
    \/ RetryCall \/ GiveUp \/ RaiseProviderError \/ GatherContext
    \/ Hypothesize \/ ClassifyRisk \/ EvaluatePolicy \/ Pause \/ Decide

Next == Progress \/ Resume

Spec == Init /\ [][Next]_vars

\* The provider answers or times out, and the graph runs on; nobody has to
\* decide on a pause.
FairSpec == Spec /\ WF_vars(Progress)
-----------------------------------------------------------------------------
(* Properties.                                                             *)

\* The hard ceilings of route_after_gather_context: never more rounds than
\* max_steps, and never a request once the budget is exceeded, so that it is
\* overrun by one call at most.
CeilingsHold ==
    /\ steps_used <= MaxSteps
    /\ cost <= MaxCost + MaxCallCost

\* graph.py:212 "headroom so LangGraph's own recursion guard never fires first":
\* it never does, in a run or a resume.
GuardNeverFires ==
    node \in {"paused", "end"} \/ raised # None \/ supersteps < RecursionLimit

\* Every tool use is answered by the very next message, in its place, an error
\* flagged as one (the provider rejects a transcript that leaves one out), and
\* the roles alternate.
TranscriptAnswered ==
    \A i \in DOMAIN messages :
        messages[i].role = "assistant" =>
            /\ i % 2 = 1 /\ i < Len(messages)
            /\ messages[i + 1].role = "user"
            /\ Len(messages[i + 1].errors) = Len(messages[i].uses)
            /\ \A j \in DOMAIN messages[i].uses :
                messages[i + 1].errors[j] <=> IsError(messages[i].uses[j])

\* The evidence trail, from which the audit log is written, holds exactly the
\* tool uses of the transcript, round by round and in order, failures included:
\* those of a round are its consecutive records after the o-th, and the only ones
\* of their step.
HoldsRound(o, s, uses) ==
    /\ \A k \in DOMAIN uses :
        o + k \in DOMAIN evidence_trail /\ evidence_trail[o + k].use = uses[k]
    /\ \A j \in DOMAIN evidence_trail : evidence_trail[j].step = s <=> j - o \in DOMAIN uses
EvidenceIsTranscript ==
    /\ \A j \in DOMAIN evidence_trail : evidence_trail[j].step \in 1..steps_used
    /\ \A i \in DOMAIN messages : messages[i].role = "assistant" =>
        \E o \in 0..Len(evidence_trail) : HoldsRound(o, (i + 1) \div 2, messages[i].uses)

\* An ended investigation says why it ended, and reached the policy gate only
\* with a diagnosis: any valid diagnosis the model submitted counts, also one
\* submitted in the round that exhausts a ceiling.
EndIsExplained ==
    node = "end" =>
        /\ status = "diagnosed" <=> \E i \in DOMAIN evidence_trail :
                                        evidence_trail[i].use.kind = "diagnosis"
        /\ status = "diagnosed" <=> policy_verdict # None
        /\ status = "diagnosed" <=> grounded # None
        /\ status = "incomplete_provider_error" <=> provider_error
        /\ status = "incomplete_cost_ceiling" => cost > MaxCost
        /\ status = "incomplete_step_ceiling" => steps_used = MaxSteps /\ cost <= MaxCost

\* What is left of an investigation: the model calls its ceilings and retries
\* still allow, and the nodes up to the end.
CallsLeft == (MaxRetries + 1) * (MaxSteps - steps_used) - attempt
NodesLeft == [gather_context |-> 6, hypothesize |-> 5, classify_risk |-> 4,
              evaluate_policy |-> 3, paused |-> 2, decide |-> 1, end |-> 0]
RaisesLeft == IF raised = None THEN 1 ELSE 0
StepsLeft == CallsLeft + NodesLeft[node] + RaisesLeft

\* Whatever the model answers, the provider fails and a human decides, every
\* step brings the end nearer (graph.py route_after_gather_context, client.py
\* call_with_retries): retries, rounds and resumes cannot feed each other.
EveryStepCounts == [][StepsLeft' \in 0..(StepsLeft - 1)]_vars

\* An investigation ends with a status or pauses, unless the provider raised an
\* error that is not transient.
EndsWithStatus == <>(status # None \/ node = "paused" \/ raised = "provider")

\* nodes.py:263 "code does the verification (did it actually cite things it
\* gathered)": an evidence_grounded diagnosis cites only what a tool call other
\* than a submit_diagnosis is about.
GroundedInToolCalls ==
    grounded = "yes" =>
        diagnosis.mentions \subseteq
            UNION {evidence_trail[i].use.mentions : i \in
                    {j \in DOMAIN evidence_trail : evidence_trail[j].use.kind \in {"tool", "refused"}}}

\* The loop implements the one step that IncidentLifecycle takes for it.
Collected == IF node = "gather_context" THEN 0 ELSE Len(evidence_trail)
Diagnosed == IF node = "gather_context" THEN None ELSE diagnosis.action
Stage == IF node \in {"hypothesize", "classify_risk", "paused"} THEN "evaluate_policy" ELSE node
Loop == INSTANCE Gathering WITH
            Actions  <- ActionTypes,
            next     <- Stage,
            evidence <- Collected,
            action   <- Diagnosed
ImplementsGathering == Loop!Spec
=============================================================================
