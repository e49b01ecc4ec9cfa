SPECIFICATION BothSpec
CONSTANTS
  MaxPrompts = 1
  MaxQuestions = 1
  MaxOthers = 0
  MaxInterrupts = 1
  CallIds = {"a", "b"}
  Signatures = {"s", "t"}
  CallLists <- OneCallOrNone
  Texts = {"none", "some"}
  Threshold = 2
  MaxIterations = 2
  MaxTurns = 1
  MaxCompactions = 0
  MaxFailures = 1
  MaxCrashes = 0
INVARIANT
  LoopPromptsRarely
PROPERTIES
  ImplementsEngine
  NothingStartsOnceInterrupted
  PromptsFinish
