CONSTANTS
    Requests = {r1, r2, r3}
    Destinations = {d1, d2}
    MaxConnections = 2
SPECIFICATION Spec
SYMMETRY Symmetry
INVARIANT NoStaleTrack
INVARIANT CountedOnce
INVARIANT StopEndsAll
\* Nobody has to send another request.
CHECK_DEADLOCK FALSE
