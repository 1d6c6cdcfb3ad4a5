SPECIFICATION FairSpec
CONSTANTS
    Lanes <- MCLanes
    Aliens <- MCAliens
    MaxFlows = 1
    MaxObservations = 2
    MaxOthers = 1
    MaxBuffered = 1
    MaxFaults = 1
    MaxAnswers = 2
INVARIANT NoContradiction
INVARIANT NegativeIsTrue
INVARIANT PathAttribution
PROPERTY CaptureReleased
CHECK_DEADLOCK FALSE
