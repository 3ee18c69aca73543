SPECIFICATION FairSpec
CONSTANTS
  d1 = d1
  d2 = d2
  m1 = m1
  a = a
  b = b
  r1 = r1
  Invalid = Invalid
  NoRef = NoRef
  Nobody = Nobody
  Orphan = Orphan
  Driver <- MCDriver
  Maintainer <- MCMaintainer
  Configured <- MCOnlyD1
  Recoverable <- MCNoDriver
  AdapterEnds <- MCEveryEnd
  Event <- MCOneEvent
  Ref <- MCRef
  MaxEvents = 1
  MaxFaults = 1
PROPERTIES EventuallyEnds OnlyRecoverableResumes
CHECK_DEADLOCK FALSE
