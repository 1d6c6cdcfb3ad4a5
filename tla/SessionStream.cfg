CONSTANTS
    Sessions = {s1}
    Clients = {c1}
    NoSession = NoSession
    MaxConcurrent = 1
    MaxEventHistory = 2
    SubscriberBuffer = 1
    MaxProgress = 2
    MaxFindings = 1
    MaxLosses = 2
SPECIFICATION FairSpec
INVARIANT OpenIffRegistered
PROPERTY NoSilentGap
PROPERTY SlotsReturn
PROPERTY WatcherSeesEnd
CHECK_DEADLOCK FALSE
