SPECIFICATION Spec
CONSTANTS
  Targets <- MCTargets
  Address = "192.0.2.10"
  MaxTroubles = 2
\* A run stops when its report is made.
CHECK_DEADLOCK FALSE
INVARIANT SuccessClears
INVARIANT ReachableMeansAnswered
INVARIANT RootCause
INVARIANT InspectionIsFounded
