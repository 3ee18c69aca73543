SPECIFICATION FairSystem
CONSTANTS
  style = style
  c1 = c1
  c2 = c2
  x = x
  y = y
  dismiss = dismiss
  u = u
  someone = someone
  s1 = s1
  s2 = s2
  None = None
  Effect <- MCEffect
  Input <- MCInput
  Style = style
  ConfirmOf <- MCConfirmOf
  Valid <- MCValid
  Answer <- MCAnswer
  Dismissal = dismiss
  Asked = u
  Person <- MCPerson
  Replica <- MCReplica
  Skew <- MCSkew
  Timeout = 1
  MaxClock = 4
  MaxMessages = 1
  MaxFaults = 1
INVARIANTS TypeOK OneOutcome SummaryTellsOutcome
PROPERTIES AskedOnce EveryInputAnswered
CHECK_DEADLOCK FALSE
