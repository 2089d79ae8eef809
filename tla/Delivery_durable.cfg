SPECIFICATION MCSpec
CONSTANTS
  Messages = {m1, m2}
  NoMessage = none
  MaxSize = 2
  MaxConns = 2
  MaxCrashes = 1
  MaxFaults = 0
INVARIANT
  AckedIsDurable
CHECK_DEADLOCK FALSE
