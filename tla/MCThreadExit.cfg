SPECIFICATION MCSpec
CONSTANTS
  Threads = {t1, t2}
  Exiting = {t2}
  Slots = {0, 1}
  Generations = 2
  Passes = 2
  MaxKeys = 3
  Application = 1
  Others = {2}
  MaxObjects = 3
  Tasks = {1, 2}
  Boot = 0
  Main = 1
  Variables = {"a", "b", "c"}
  Spare = 0
INVARIANTS
  ValuesStayWithKey
  EarlyEndIsClean
  ExitRunsEachOnce
  OneObjectPerVariable
CHECK_DEADLOCK FALSE
