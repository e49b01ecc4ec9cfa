SPECIFICATION Spec
CONSTANTS
  CallIds <- MCCallIds
  Signatures <- MCSignatures
  CallLists <- MCCallLists
  Texts = {"none", "some"}
  Threshold = 2
  MaxIterations = 4
  MaxTurns = 2
  MaxCompactions = 0
  MaxFailures = 0
  MaxCrashes = 0
INVARIANTS
  NoPromptAfterResults
