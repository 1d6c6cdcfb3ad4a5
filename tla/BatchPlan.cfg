SPECIFICATION Spec
CONSTANTS
    Captures <- MCCaptures
    Requests <- MCRequests
    Canon <- MCCanon
INVARIANT NumberingIsDeterministic
INVARIANT PlanIsExact
CHECK_DEADLOCK FALSE
