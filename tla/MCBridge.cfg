\* One open and one close in either order, one loss of the connection, one failing write.
SPECIFICATION FairSpec
CONSTANTS
  Opens = {o1}
  Closes = {c1}
  None = None
  MaxDrops = 1
  MaxFailures = 1
INVARIANTS
  TypeOK
  SuccessIsReal
  RefusedIsReal
  ReportedOnce
  SuccessfulCloseReported
  LostOnlyInDoubt
PROPERTIES
  AnsweredOnce
  EveryCommandAnswered
  ReceivedCloseIsReported
CHECK_DEADLOCK FALSE
