SPECIFICATION Spec
CONSTANTS
  MaxAttempts = 1
  MaxCloseEvents = 1
  MaxCrashes = 0
  MaxFaults = 0
PROPERTIES
  FillNotClobbered
CHECK_DEADLOCK FALSE
