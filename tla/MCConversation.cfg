SPECIFICATION FairSpec
CONSTANTS
  a = a
  b = b
  n1 = n1
  n2 = n2
  User = User
  Everyone = Everyone
  Actor <- MCActor
  Notifier <- MCOneNotifier
  MaxMessages = 2
  MaxRevision = 3
  MaxFaults = 0
  Limit = 1
  PageSize = 1
INVARIANTS TypeOK
PROPERTIES EventuallyConsumed
CHECK_DEADLOCK FALSE
