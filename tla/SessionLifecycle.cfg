CONSTANTS
    Sessions = {s1, s2, s3}
    Clients = {}
    NoSession = NoSession
    MaxConcurrent = 2
    MaxEventHistory = 2
    SubscriberBuffer = 1
    MaxProgress = 0
    MaxFindings = 0
    MaxLosses = 0
SPECIFICATION Spec
SYMMETRY Symmetry
INVARIANT SlotAccounting
INVARIANT ClosedMeansCancelled
INVARIANT CancelHonoured
PROPERTY TerminalIsFinal
PROPERTY ImplementsAdmission
CHECK_DEADLOCK FALSE
