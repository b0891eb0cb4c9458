------------------------------ MODULE Policy ------------------------------
(***************************************************************************)
(* The deterministic policy gate: what the system may do without a human,  *)
(* what needs one, and what it never does.  The verdict depends on the     *)
(* action type alone.  The tables are the code's own; the sets below them  *)
(* are the two executor tables of the graph's evaluate_policy node.        *)
(***************************************************************************)

RiskTable ==
    [no_action           |-> "EXECUTE",
     escalate            |-> "ESCALATE",
     restart_service     |-> "EXECUTE",
     scale_service       |-> "EXECUTE",
     toggle_feature_flag |-> "REQUIRE_APPROVAL",
     rollback_deployment |-> "REQUIRE_APPROVAL",
     delete_data         |-> "BLOCK"]

\* The vocabulary of SubmitDiagnosisArgs.recommended_action (a closed enum).
ActionTypes == DOMAIN RiskTable

\* An action type outside the table fails closed.
Evaluate(action) ==
    IF action \in ActionTypes THEN RiskTable[action] ELSE "BLOCK"

\* Actions with a remediation tool behind them, by the verdict that leads to it.
AutoExecutable == {"restart_service", "scale_service"}
Approvable     == {"rollback_deployment", "toggle_feature_flag"}

Gated(action) == Evaluate(action) = "REQUIRE_APPROVAL"
=============================================================================
