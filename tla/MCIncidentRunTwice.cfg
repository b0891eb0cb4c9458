\* Two POST /run at the same time.
CONSTANTS
    Workers = {w1, w2}
    p1 = p1
    p2 = p2
    Params = {p1, p2}
    NoParams = NoParams
    ParamsOf <- MCParamsOf
    Diagnoses = {"escalate", "rollback_deployment"}
    MaxEvidence = 1
    MaxRunCalls = 2
    MaxCrashes = 0
    MaxFailures = 0
SPECIFICATION Spec
INVARIANT RunAtMostOnce
CHECK_DEADLOCK FALSE
