SPECIFICATION TurnOrPermSpec
CONSTANTS
  CallIds <- MCCallIds
  Signatures <- MCSignatures
  CallLists <- MCCallLists
  Texts = {"none", "blank", "some"}
  Threshold = 2
  MaxIterations = 2
  MaxTurns = 2
  MaxCompactions = 1
  MaxFailures = 1
  MaxCrashes = 1
  ToolCalls <- KindsOfCalls
  ProjectCall <- TestCommand
  MaxGrants = 2
  MaxPermSteps = 4
INVARIANTS
  TurnTypesOK
  RequestsAreWellFormed
  EveryCallGetsAResult
  StoppedTurnIsClosed
  RepeatedCallsStop
  ApprovedCallsRun
  RunsWereAllowed
  TurnsRunInTheChosenMode
PROPERTY
  CompactionKeepsTheRest
