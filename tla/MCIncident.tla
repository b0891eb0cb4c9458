---------------------------- MODULE MCIncident ----------------------------
(***************************************************************************)
(* Values of the constants of IncidentLifecycle for model checking.        *)
(***************************************************************************)
EXTENDS Timeline, TLC

CONSTANTS p1, p2

\* Both schemas ignore extra keys, so one body can satisfy both actions (p1).
MCParamsOf == [a \in Approvable |-> IF a = "rollback_deployment" THEN {p1, p2} ELSE {p1}]

\* Threads are interchangeable.  (Safety runs only.)
Symmetric == Permutations(Workers)
=============================================================================
