SPECIFICATION Spec
CONSTANTS
  Orders = {o1}
  Hedged = {}
  MaxRequests = 3
  MaxStops = 1
  MaxFaults = 1
INVARIANTS
  TypeOK
  StatusIndexAgrees
  LinkedIdIsCurrent
  RejectedHasNoPosition
  LiveIsTracked
  StopsAgree
  NoOpenOrderOverlooked
PROPERTIES
  FinalIsFinal
  RestartRecovers
CHECK_DEADLOCK FALSE
