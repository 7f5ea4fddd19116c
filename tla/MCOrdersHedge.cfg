SPECIFICATION Spec
CONSTANTS
  Orders = {o1}
  Hedged = {o1}
  MaxRequests = 1
  MaxStops = 0
  MaxFaults = 0
INVARIANTS
  FilledHedgeHasBothLegs
CHECK_DEADLOCK FALSE
