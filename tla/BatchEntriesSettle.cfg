CONSTANTS
    long = long
    short = short
    Batches = {long}
    NoBatch = NoBatch
    MaxConcurrentBatches = 1
    Size <- MCSize
    Unsupported <- MCUnsupported
    Requested = 1
    MaxConcurrency = 1
    MaxTimeouts = 1
SPECIFICATION Spec
INVARIANT EntriesSettle
\* A run stops when every batch is done.
CHECK_DEADLOCK FALSE
