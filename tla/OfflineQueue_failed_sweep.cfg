SPECIFICATION FairSpec
CONSTANTS
  Recipients = {r1}
  Handlers = {h1}
  TTL = 1
  MaxSize = 2
  HalfRange = 2
  MaxPosition = 1
  MaxTime = 2
  MaxFaults = 1
  MaxCrashes = 0
PROPERTY
  FailedSweepRetried
