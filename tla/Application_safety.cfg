SPECIFICATION MCSpec
CONSTANTS
  MaxMessages = 3
  MaxFaults = 1
  MaxCrashes = 1
  MaxOwed = 1
  LongSessions = FALSE
  Me = me
  Peers = {peer}
  Capacity = 2
  Scrollback = 2
  MaxIds = 2
  MaxComposed = 2
  MaxFiled = 2
  MaxFailures = 1
  ScreenDevices = {1, 2, 3}
  ScreenMe = 2
  InboundSize = 1
  RosterSize = 1
  ScreenMaxFiled = 2
  ScreenMaxOwed = 1
  Width = 5
  MaxAttempt = 7
  HeartbeatPeriod = 3
  DeadPeerInterval = 9
  TTL = 9
  Lag = 2
  Latency = 1
  MaxNow = 21
INVARIANTS
  OutboxAccounts
  DedupIsWindow
  FilingIsSound
PROPERTIES
  LeavesInTurn
  ScreenIsTrue
  DelayIsPromised
  AlarmsAreRight
CHECK_DEADLOCK FALSE
