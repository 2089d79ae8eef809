SPECIFICATION MCSpec
CONSTANTS
  Devices = {d1}
  Labels = {none, busy}
  NoLabel = none
  TTL = 2
  MaxConns = 2
  MaxGen = 4
  MaxTime = 6
  MaxFaults = 1
  MaxRestarts = 1
  RosterDevices = {self, peer}
  Self = self
  Buffer = 2
  ViewBuffer = 1
  RosterMaxTime = 2
  MaxMoves = 2
  KeyDevices = {a, b}
  Confirm = FALSE
  MaxKeys = 3
  MaxAnnounce = 3
  KeysMaxFaults = 1
  MaxLosses = 1
  MaxCrashes = 1
  MaxDrops = 1
INVARIANTS
  Truthful
  RosterAgrees
PROPERTIES
  OfflineIsJustified
  PinsEndure
CHECK_DEADLOCK FALSE
