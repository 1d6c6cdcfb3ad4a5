SPECIFICATION Spec
CONSTANTS
    Protocol = "https"
    DNSService = FALSE
    Literal = FALSE
    Workers = {w1, w2}
    MaxFaults = 1
    MayEnd = TRUE
INVARIANT LanesAgree
INVARIANT NoSilentDrop
INVARIANT NoStall
SYMMETRY Symmetry
CHECK_DEADLOCK FALSE
