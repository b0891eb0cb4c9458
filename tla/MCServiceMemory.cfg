\* Closes that overlap in every way, with one entry deleted.
CONSTANTS
    Closes = 5
    PatternOf <- MCPatternOf
    MaxDeletes = 1
SPECIFICATION FairSpec
INVARIANTS TypeOK ExactWithoutOverlap PatternRemembered SomebodyGoesOn
PROPERTY ClosesEnd
CHECK_DEADLOCK FALSE
