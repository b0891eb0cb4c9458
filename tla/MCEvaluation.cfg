\* The whole dataset, two seeders, two evaluations and a crash.
CONSTANTS
    Dataset <- ALL_SCENARIOS
    Seeders = {s1, s2}
    Selections <- MCSelections
    Labels = {eval, other}
    Investigated <- MCInvestigated
    MaxEvaluations = 2
    MaxCrashes = 1
SPECIFICATION FairSpec
INVARIANTS TypeOK SeedIsAtomic NobodyWaitsForAWaiter
    GroundTruthHolds DegradationReported
PROPERTY EvaluationsAndSeedersEnd
CHECK_DEADLOCK FALSE
