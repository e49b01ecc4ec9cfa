SPECIFICATION CpSpec
CONSTANTS
  CpFiles = {f1}
  CpLimit = 2
  CpTurns = 1
  CpChanges = 3
  CpEdits = 1
  CpFaults = 0
INVARIANT RestoresOrReports
