SPECIFICATION Spec
CONSTANTS
  CallIds <- MCCallIds
  Signatures <- MCSignatures
  CallLists <- MCCallLists
  Texts = {"none", "blank", "some"}
  Threshold = 2
  MaxIterations = 2
  MaxTurns = 2
  MaxCompactions = 0
  MaxFailures = 0
  MaxCrashes = 0
INVARIANTS
  NoPromptAfterPrompt
