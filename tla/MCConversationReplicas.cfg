SPECIFICATION FairSpec
CONSTANTS
  a = a
  b = b
  n1 = n1
  n2 = n2
  User = User
  Everyone = Everyone
  Actor <- MCOneActor
  Notifier <- MCNotifier
  MaxMessages = 2
  MaxRevision = 2
  MaxFaults = 1
  Limit = 1
  PageSize = 2
INVARIANTS AtLeastOnce AcknowledgedIsSignalled
PROPERTIES Quiesces
CHECK_DEADLOCK FALSE
