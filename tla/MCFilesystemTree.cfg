SPECIFICATION Spec
CONSTANTS
  Files = {1}
  Objects = {1, 2, 3}
  MaximumPath = 3
  Mounted = {"flash"}
  Requests <- TreeRequests
  OpenFlags <- TreeFlags
  Lengths = {1}
  Offsets = {}
  MaximumOffset = 1
  MaximumSize = 0
  BackupNames = 1
  BackupAttempts = 1
  Faults = TRUE
INVARIANTS
  TreeStaysWhole
  DescriptorKeepsFile
  NoStaleEntry
PROPERTY RenameLosesNothing
