SPECIFICATION MCSpec
CONSTANTS
  Procs = {"old", "walkie", "history", "merged"}
  List <- Lists
  Stmts <- Statements
  MaxFaults = 1
  MaxCrashes = 1
  Writers = {"w1", "w2"}
  TTL = 1
  Cap = 1
  MaxIds = 3
  MaxArrived = 3
  MaxTime = 2
  HistoryMaxFaults = 1
  Runs = {"r1", "r2", "r3", "r4"}
  NoFile = "none"
  Timers = {"t1", "t2"}
  Sleepers = {"s1"}
  MaxNow = 4
  MaxDelay = 2
INVARIANTS
  AllOrNothing
  RetentionHolds
  PathIsHandedOver
  WaitersAreServed
CHECK_DEADLOCK FALSE
