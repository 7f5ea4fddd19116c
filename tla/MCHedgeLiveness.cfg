SPECIFICATION FairSpec
CONSTANTS
  MaxAttempts = 1
  MaxCloseEvents = 2
  MaxCrashes = 0
  MaxFaults = 1
PROPERTIES
  ClosingSettles
  HedgeSettles
CHECK_DEADLOCK FALSE
