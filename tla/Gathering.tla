----------------------------- MODULE Gathering -----------------------------
(***************************************************************************)
(* What one investigation promises to the rest of the system, whatever the *)
(* model answers: the evidence is collected once, and with it either a     *)
(* diagnosis - itself a recorded tool call - or none; only a diagnosis     *)
(* leads to the policy gate.  IncidentLifecycle takes this one step for    *)
(* the whole gathering loop; Investigation implements it round by round.   *)
(***************************************************************************)
EXTENDS Naturals

CONSTANTS Actions,  \* actions a diagnosis may recommend
          None

VARIABLES next,     \* where the graph goes: gather_context, evaluate_policy, decide, end
          evidence, \* how many tool calls are recorded
          action    \* the diagnosis' recommendation

Init ==
    /\ next = "gather_context"
    /\ evidence = 0
    /\ action = None

\* Any number of tool calls; a diagnosis only from one of them.
Gather ==
    /\ next = "gather_context"
    /\ evidence' \in Nat
    /\ action' \in Actions \cup {None}
    /\ action' # None => evidence' > 0
    /\ next' = IF action' = None THEN "decide" ELSE "evaluate_policy"

\* The gate lets the graph go on.
Pass ==
    /\ next = "evaluate_policy"
    /\ next' = "decide"
    /\ UNCHANGED <<evidence, action>>

Decide ==
    /\ next = "decide"
    /\ next' = "end"
    /\ UNCHANGED <<evidence, action>>

Next == Gather \/ Pass \/ Decide

Spec == Init /\ [][Next]_<<next, evidence, action>>
=============================================================================
