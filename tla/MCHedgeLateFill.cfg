SPECIFICATION Spec
CONSTANTS
  MaxAttempts = 1
  MaxCloseEvents = 1
  MaxCrashes = 0
  MaxFaults = 0
PROPERTIES
  LateFillIsSeen
CHECK_DEADLOCK FALSE
