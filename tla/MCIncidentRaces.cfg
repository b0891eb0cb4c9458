\* Two requests at a time, one of them the only POST /run; no crash.
CONSTANTS
    Workers = {w1, w2}
    p1 = p1
    p2 = p2
    Params = {p1, p2}
    NoParams = NoParams
    ParamsOf <- MCParamsOf
    Diagnoses = {"escalate", "restart_service", "rollback_deployment"}
    MaxEvidence = 2
    MaxRunCalls = 1
    MaxCrashes = 0
    MaxFailures = 0
SYMMETRY Symmetric
SPECIFICATION Spec
INVARIANTS ApprovedBeforePerformed DecisionRowsTrue PerformedIsAudited AuditMatchesEvidence
    PendingIffAwaiting
PROPERTIES ClosedIsFinal EveryRequestEnds
CHECK_DEADLOCK FALSE
