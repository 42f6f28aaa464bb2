SPECIFICATION Spec
CONSTANTS
  Threads = {t1, t2}
  None = None
  Recursive = TRUE
  MaxDepth = 2
  MayAbort = TRUE
  WaitUnlocked = FALSE
  MayDestroy = FALSE
PROPERTY WaitsReturn
