SPECIFICATION Spec
CONSTANTS
  Targets <- MCTargets
  Address = "192.0.2.10"
  MaxTroubles = 0
\* A run stops when its report is made.
CHECK_DEADLOCK FALSE
INVARIANT ReachedIsReachable
