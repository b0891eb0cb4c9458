\* Two incidents that confirm one pattern close at the same time.
CONSTANTS
    Closes = 5
    PatternOf <- MCPatternOf
    MaxDeletes = 0
SPECIFICATION Spec
INVARIANT OneRowPerPattern
CHECK_DEADLOCK FALSE
