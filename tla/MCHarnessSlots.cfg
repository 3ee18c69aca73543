SPECIFICATION FairSpec
CONSTANTS
  s1 = s1
  s2 = s2
  a1 = a1
  a2 = a2
  a3 = a3
  r1 = r1
  r2 = r2
  Nobody = Nobody
  Orphan = Orphan
  Server <- MCServer
  Attempt <- MCAttempt
  Request <- MCRequest
  RequestOf <- MCRequestOf
  Concurrency <- MCConcurrency
  MaxFaults = 1
INVARIANTS TypeOK OneHolderPerSlot
PROPERTIES AcceptedRunsEnd
CHECK_DEADLOCK FALSE
