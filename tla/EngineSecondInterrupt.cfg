SPECIFICATION Spec
CONSTANTS
  MaxPrompts = 2
  MaxQuestions = 1
  MaxOthers = 1
  MaxInterrupts = 2
INVARIANTS
  SecondInterruptQuits
