SPECIFICATION SessionsSpec
CONSTANTS
  RotateAfter = 2
  MaxRotated = 1
  MaxMessages = 4
  MaxEdits = 1
  MaxFailures = 2
  MaxCrashes = 2
  CpFiles = {f1, f2}
  CpLimit = 2
  CpTurns = 2
  CpChanges = 2
  CpEdits = 2
  CpFaults = 2
  Runs = {r1, r2, r3}
  LockTurns = 2
  HostDisruptions = 2
  HostSubmits = 1
  HostRequests = 1
  HostAnswers = 1
  Readers = {"reader"}
  MaxLogins = 1
  AcMishaps = 1
CONSTRAINT Claimed
SYMMETRY FilesAlike
INVARIANTS
  NothingAcknowledgedIsLost
  NothingComesBack
  SessionsTypesOK
  RestoresOrReportsTheRest
  CutsAtItsPrompt
  CheckpointsFitTheChat
  NoTurnIsLost
  HostTellsTheTruth
  LoginFoundIsTheLast
PROPERTIES
  ChangesAreWhole
  SharedLogSpec
