SPECIFICATION FairSpec
CONSTANTS
  MaxPrompts = 2
  MaxQuestions = 1
  MaxOthers = 1
  MaxInterrupts = 1
PROPERTIES
  InterruptedTurnFinishes
  ShutdownStopsEngine
