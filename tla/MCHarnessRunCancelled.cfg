SPECIFICATION Spec
CONSTANTS
  d1 = d1
  d2 = d2
  m1 = m1
  a = a
  b = b
  r1 = r1
  Invalid = Invalid
  NoRef = NoRef
  Nobody = Nobody
  Orphan = Orphan
  Driver <- MCDriver
  Maintainer <- MCMaintainer
  Configured <- MCDriver
  Recoverable <- MCDriver
  AdapterEnds <- MCFailedOnly
  Event <- MCOneEvent
  Ref <- MCNoRef
  MaxEvents = 1
  MaxFaults = 0
INVARIANTS CancelledOnlyOnRequest
CHECK_DEADLOCK FALSE
