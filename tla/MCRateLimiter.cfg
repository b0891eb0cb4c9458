\* Two threads, a limit of two, windows that slide over several requests.
CONSTANTS
    Threads = {t1, t2}
    MaxRequests = 2
    Window = 1
    MaxClock = 4
    MaxCalls = 6
SPECIFICATION FairSpec
INVARIANTS TypeOK OverrunBounded LimitExactWithoutOverlap
PROPERTY ChecksEnd
CHECK_DEADLOCK FALSE
