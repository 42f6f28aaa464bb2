SPECIFICATION MCSpec
CONSTANTS
  Threads = {t1, t2, t3}
  Guards = {g1, g2}
  Onces = {o1}
  MaxDepth = 2
  MaxThrows = 1
  Users = {1, 2}
  Addresses = {1, 2}
  MaxCount = 2
  Startup = "startup"
  LibcThreads = {"a", "b"}
  MaxLocks = 3
INVARIANTS
  InitializedOnce
  StandstillHoldsGuardMutex
  OneObjectPerHandle
  LocksWork
  RuntimeIsWhole
PROPERTY CallsReturn
CHECK_DEADLOCK FALSE
