SPECIFICATION WaitsSpec
CONSTANTS
  MaxTurns = 3
  MaxRequests = 3
  MaxPanics = 1
  McpCallsMade = 2
  McpListings = 1
  McpPages = 2
  McpFaults = 1
  MaxRetries = 2
  StandardBudget = 2
  CapacityBudget = 4
  CapacityWait = 3
  RetryAfters = {0, 3}
  Backoffs = {1, 2}
  ModelCalls = 2
INVARIANTS
  OwnApprovalUntilAPanic
  WaitsTypesOK
  KeptServerIsInSync
  RetriesAreBounded
  OneReplyShown
PROPERTIES
  CallsSpec
  WaitsEnd
