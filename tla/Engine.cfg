SPECIFICATION Spec
CONSTANTS
  MaxPrompts = 2
  MaxQuestions = 2
  MaxOthers = 1
  MaxInterrupts = 2
INVARIANTS
  TypeOK
  InterruptReachesItsTurn
  InterruptReachesNoOther
  ShutdownReachesTurn
  AnswersAreForTheirQuestion
  PendingQuestionHasAsker
PROPERTIES
  LedgerSpec
