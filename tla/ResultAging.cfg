SPECIFICATION Spec
CONSTANTS
  MaxAge = 3
  Requests <- MCRequests
  Horizon = 10
CHECK_DEADLOCK FALSE
INVARIANTS
  AgreesWithRFC
  StaleOnlyIfWelcome
PROPERTIES
  BackOnlyAsStale
