\* A diagnosis that cites what no tool call showed.
CONSTANTS
    s1 = s1
    s2 = s2
    Sources = {s1, s2}
    MaxSteps = 2
    MaxCost = 1
    MaxCallCost = 2
    MaxUses = 2
    Responses <- MCResponses
SPECIFICATION Spec
INVARIANT GroundedInToolCalls
CHECK_DEADLOCK FALSE
