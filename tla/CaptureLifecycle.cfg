CONSTANTS
    Captures = {c1, c2}
    NoCapture = NoCapture
    MaxConcurrent = 1
    MaxFaults = 1
SPECIFICATION FairSpec
INVARIANT FailureIsReal
INVARIANT NothingLeft
INVARIANT ClosedMeansStopped
PROPERTY SlotsReturn
CHECK_DEADLOCK FALSE
