-------------------------- MODULE MCInvestigation --------------------------
(***************************************************************************)
(* Values of the constants of Investigation for model checking: rounds of  *)
(* up to MaxUses tool uses, of every kind, and cheap and dear model calls. *)
(***************************************************************************)
EXTENDS Investigation

CONSTANTS s1, s2, MaxUses

ToolUses ==
    {[kind |-> "tool", mentions |-> {s1}, action |-> None],
     [kind |-> "refused", mentions |-> {}, action |-> None],
     [kind |-> "invalid_diagnosis", mentions |-> {}, action |-> None]}
\* One diagnosis cites what the tool shows, the other something never looked at.
DiagnosisUses ==
    {[kind |-> "diagnosis", mentions |-> {s1}, action |-> "escalate"],
     [kind |-> "diagnosis", mentions |-> {s2}, action |-> "rollback_deployment"]}

MCResponses ==
    [uses : UNION {[1..n -> ToolUses \cup DiagnosisUses] : n \in 0..MaxUses},
     cost : {0, MaxCallCost}]
=============================================================================
