CONSTANTS
  MaxThreads = 3
  CLEANUP_QUEUE_DEPTH = 1
  DestructorsJoin = FALSE
  SharedJoin = FALSE
  AckMayFail = FALSE
SPECIFICATION Spec
INVARIANTS
  NoFatal
  JoinedMeansReclaimed
PROPERTIES
  ImplementsContract
