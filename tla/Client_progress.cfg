SPECIFICATION MCSpec
CONSTANTS
  QueueCap = 2
  MaxEvents = 5
INVARIANTS
  StreamIsHonest
PROPERTIES
  PumpServes
  SessionsEnd
  ClosedMachineStops
  HeldIsSent
CHECK_DEADLOCK FALSE
