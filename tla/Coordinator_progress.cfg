SPECIFICATION MCSpec
CONSTANTS
  Sockets = {c1, c2, c3}
  Responsive = {c1, c2}
  CanFail = TRUE
INVARIANTS
  DrainIsExact
PROPERTIES
  StopCompletes
  ExpiryHappens
  SilenceNoticed
  SuffixArrives
  PinIsTold
CHECK_DEADLOCK FALSE
