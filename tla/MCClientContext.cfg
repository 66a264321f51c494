CONSTANTS
  c1 = c1
  c2 = c2
  Conn = {c1, c2}
  Verifying = {c2}
  MaxStatements = 2
SPECIFICATION ClientSpec
INVARIANTS
  BetweenCalls
  OpenResultLive
  ManagerUsedAlive
  NothingLeftBehind
PROPERTIES
  ClosingEnds
CHECK_DEADLOCK FALSE
