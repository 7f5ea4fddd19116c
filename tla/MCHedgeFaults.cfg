SPECIFICATION Spec
CONSTANTS
  MaxAttempts = 1
  MaxCloseEvents = 2
  MaxCrashes = 1
  MaxFaults = 1
INVARIANTS
  EachCommandExecutesOnce
  ClosedMeansTrackedLegGone
PROPERTIES
  ClosedFinalOnceSettled
  ImplementsLifecycle
CHECK_DEADLOCK FALSE
