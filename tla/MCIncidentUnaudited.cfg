\* A crash after the tool call, then a denial or a timeout.
CONSTANTS
    Workers = {w1}
    p1 = p1
    p2 = p2
    Params = {p1, p2}
    NoParams = NoParams
    ParamsOf <- MCParamsOf
    Diagnoses = {"escalate", "rollback_deployment"}
    MaxEvidence = 1
    MaxRunCalls = 1
    MaxCrashes = 1
    MaxFailures = 0
SPECIFICATION Spec
INVARIANT PerformedIsAudited
CHECK_DEADLOCK FALSE
