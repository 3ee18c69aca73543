SPECIFICATION Spec
CONSTANTS
  a = a
  b = b
  n1 = n1
  n2 = n2
  User = User
  Everyone = Everyone
  Actor <- MCOneActor
  Notifier <- MCNotifier
  MaxMessages = 2
  MaxRevision = 3
  MaxFaults = 0
  Limit = 1
  PageSize = 2
INVARIANTS EndIsNotified
CHECK_DEADLOCK FALSE
