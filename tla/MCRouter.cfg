SPECIFICATION FairSpec
CONSTANTS
  Kind <- MCKind
  History <- MCHistory
  MaxMessages = 3
  PageLimit = 2
  MaxSubtasks = 2
  MaxFaults = 2
INVARIANTS TypeOK RepliedBeforeConsumed EvidenceComplete
PROPERTIES EveryInputReplied
CHECK_DEADLOCK FALSE
