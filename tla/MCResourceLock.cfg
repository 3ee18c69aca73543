SPECIFICATION Spec
CONSTANTS
  p1 = p1
  p2 = p2
  Nobody = Nobody
  Orphan = Orphan
  Process <- MCProcess
  Skew <- MCSkew
  TTL = 2
  MaxClock = 3
  MaxTokens = 3
INVARIANTS TypeOK
PROPERTIES ImplementsLease WritesInGrantOrder
CHECK_DEADLOCK FALSE
