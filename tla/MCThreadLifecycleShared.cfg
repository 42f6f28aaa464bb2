CONSTANTS
  MaxThreads = 2
  CLEANUP_QUEUE_DEPTH = 1
  DestructorsJoin = TRUE
  SharedJoin = TRUE
  AckMayFail = TRUE
SPECIFICATION SafetySpec
INVARIANTS
  OneCleanupRequest
  FatalNeedsDetach
  FreedAfterExit
  StandstillExplained
PROPERTIES
  ImplementsContractSteps
CHECK_DEADLOCK FALSE
