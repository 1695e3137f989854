\* Two levels or trials, two requests of each one's pages.
SPECIFICATION Spec
CONSTANTS
    K = 2
    MaxSteps = 1
    Timeout = 2
    ShimTimeout = 2
    Budget = 1
    MaxSent = 2
INVARIANTS
    ReportCountsOnce
    VerdictIsEarned
    NothingLeftRunning
PROPERTY RunEnds
CHECK_DEADLOCK FALSE
