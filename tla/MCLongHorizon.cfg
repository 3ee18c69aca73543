SPECIFICATION FairSpec
CONSTANTS
  u1 = u1
  u2 = u2
  None = None
  User <- MCUser
  Message <- MCMessage
  Decision <- MCDecision
  MaxMessages = 2
  PageLimit = 1
  MaxInputs = 2
  MaxRounds = 1
  BudgetStep = 1
  MaxBudget = 3
  FailureLimit = 2
INVARIANTS TypeOK DoneIsAudited EachInputTakenOnce StepsAgree WorkspaceAtRest
PROPERTIES EveryInputTaken
CHECK_DEADLOCK FALSE
