\* Two approvals of one pause at the same time.
CONSTANTS
    Workers = {w1, w2}
    p1 = p1
    p2 = p2
    Params = {p1, p2}
    NoParams = NoParams
    ParamsOf <- MCParamsOf
    Diagnoses = {"escalate", "rollback_deployment"}
    MaxEvidence = 1
    MaxRunCalls = 1
    MaxCrashes = 0
    MaxFailures = 0
SPECIFICATION Spec
INVARIANT PerformedAtMostOnce
CHECK_DEADLOCK FALSE
