SPECIFICATION FairSpec
CONSTANTS
  MaxSessions = 1
  CloseFirst = FALSE
PROPERTY
  StopRetires
