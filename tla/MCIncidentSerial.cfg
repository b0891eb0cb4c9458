\* One request at a time; crashes and exceptions at every point.
CONSTANTS
    Workers = {w1}
    p1 = p1
    p2 = p2
    Params = {p1, p2}
    NoParams = NoParams
    ParamsOf <- MCParamsOf
    Diagnoses = {"escalate", "delete_data", "restart_service", "toggle_feature_flag", "rollback_deployment"}
    MaxEvidence = 1
    MaxRunCalls = 2
    MaxCrashes = 2
    MaxFailures = 1
SPECIFICATION FairSpec
INVARIANTS TypeOK RepeatedOnlyAfterLoss DecisionMatchesThread CrashIsVisible
PROPERTIES ImplementsGate ClosedIsSealed LostRunStaysLost ThreadImplementsGathering AwaitingResolves
CHECK_DEADLOCK FALSE
