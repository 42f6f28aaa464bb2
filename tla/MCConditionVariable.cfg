SPECIFICATION SafetySpec
CONSTANTS
  Threads = {t1, t2, t3}
  None = None
  Recursive = FALSE
  MaxDepth = 1
  MayAbort = TRUE
  WaitUnlocked = TRUE
  MayDestroy = TRUE
SYMMETRY ThreadSymmetry
INVARIANTS
  NoDanglingWaiter
  DestroySparesNotified
PROPERTY ImplementsContractSteps
