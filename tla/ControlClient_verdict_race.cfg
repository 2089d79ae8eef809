SPECIFICATION Spec
CONSTANTS
  MaxSessions = 2
  CloseFirst = FALSE
INVARIANT
  NoIllegalTransition
