SPECIFICATION Spec
CONSTANTS
  MaxTurns = 2
  MaxRequests = 2
  MaxPanics = 1
INVARIANTS
  RunsOnItsOwnApproval
