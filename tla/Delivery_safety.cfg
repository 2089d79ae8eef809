SPECIFICATION MCSpec
CONSTANTS
  Messages = {m1, m2}
  NoMessage = none
  MaxSize = 2
  MaxConns = 2
  MaxCrashes = 1
  MaxFaults = 1
SYMMETRY MessageSymmetry
CHECK_DEADLOCK FALSE
INVARIANTS
  ReplayIsExact
  AckCoversProcessed
  LossHasCause
PROPERTIES
  VerdictAfterRoute
