SPECIFICATION Spec
CONSTANTS
  MaxSessions = 3
  CloseFirst = TRUE
INVARIANTS
  OneVerdict
  NoConnectionLeaks
  VerdictsStayLegal
PROPERTY
  OnlyDialPanics
