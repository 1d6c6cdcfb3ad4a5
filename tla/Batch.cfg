CONSTANTS
    long = long
    short = short
    Batches = {long, short}
    NoBatch = NoBatch
    MaxConcurrentBatches = 1
    Size <- MCSize
    Unsupported <- MCUnsupported
    Requested = 0
    MaxConcurrency = 2
    MaxTimeouts = 1
SPECIFICATION FairSpec
INVARIANT EachEntryOnce
INVARIANT DecidedWhenDone
CHECK_DEADLOCK FALSE
PROPERTY ImplementsAdmission
PROPERTY SlotsReturn
