SPECIFICATION Spec
CONSTANTS
  Recipients = {r1}
  Handlers = {h1, h2}
  TTL = 1
  MaxSize = 2
  HalfRange = 4
  MaxPosition = 3
  MaxTime = 2
  MaxFaults = 1
  MaxCrashes = 1
SYMMETRY Symmetry
INVARIANTS
  TypeOK
  SweepHitsOnlyExpired
  NoLapsedAtBoot
  NoMissedDeadline
PROPERTIES
  KeepsPromise
