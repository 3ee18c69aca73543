SPECIFICATION Spec
CONSTANTS
  d1 = d1
  d2 = d2
  m1 = m1
  a = a
  b = b
  r1 = r1
  Invalid = Invalid
  NoRef = NoRef
  Nobody = Nobody
  Orphan = Orphan
  Driver <- MCDriver
  Maintainer <- MCMaintainer
  Configured <- MCDriver
  Recoverable <- MCDriver
  AdapterEnds <- MCEveryEnd
  Event <- MCEvent
  Ref <- MCNoRef
  MaxEvents = 2
  MaxFaults = 1
INVARIANTS TypeOK EndsTogether OutputExactlyOnce PromptedOnce
PROPERTIES SuccessIsOneObservation RowsChangeUnderLease CancelWins
SYMMETRY MCSymmetry
CHECK_DEADLOCK FALSE
