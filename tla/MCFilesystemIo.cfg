SPECIFICATION Spec
CONSTANTS
  Files = {1, 2}
  Objects = {1}
  MaximumPath = 4
  Mounted = {"flash", "sd"}
  Requests <- IoRequests
  OpenFlags <- IoFlags
  Lengths = {1, 2}
  Offsets <- IoOffsets
  MaximumOffset = 3
  MaximumSize = 2
  BackupNames = 2
  BackupAttempts = 1
  Faults = TRUE
INVARIANT HandlesAreTracked
PROPERTIES
  SuccessKeepsOffset
  AppendNeverOverwrites
