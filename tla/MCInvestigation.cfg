\* Every investigation of up to three rounds of two tool uses.
CONSTANTS
    s1 = s1
    s2 = s2
    Sources = {s1, s2}
    MaxSteps = 3
    MaxCost = 3
    MaxCallCost = 2
    MaxUses = 2
    Responses <- MCResponses
SPECIFICATION FairSpec
INVARIANTS TypeOK CeilingsHold GuardNeverFires TranscriptAnswered EvidenceIsTranscript
    EndIsExplained
PROPERTIES EveryStepCounts ImplementsGathering EndsWithStatus
CHECK_DEADLOCK FALSE
