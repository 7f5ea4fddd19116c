SPECIFICATION Spec
CONSTANTS
  MaxAttempts = 2
  MaxCloseEvents = 2
  MaxCrashes = 0
  MaxFaults = 0
INVARIANTS
  TypeOK
  ClosingOnlyAfterPrimaryGone
  NoHedgeCloseBeforePrimaryGone
  TicketKnownBeforeClose
  OneHedgeWhilePrimaryLives
  ClosedMeansTrackedLegGone
PROPERTIES
  TicketNeverReplaced
  ImplementsLifecycle
CHECK_DEADLOCK FALSE
