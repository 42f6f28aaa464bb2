SPECIFICATION MCSpec
CONSTANTS
  Threads = {1}
  TickPeriod = 2
  TickModulus = 4
  ROLLOVER_SAMPLE_TICKS = 1
  MaxTimerDelay = 1
  Modulus = 6
  StartCounter = 1
  Skew = 1
  MAX_FINITE_WAIT = 2
  Durations = {3}
  MaxChanges = 1
  MaxTime = 9
INVARIANTS ClockIsTrue NoEarlyTimeout
CHECK_DEADLOCK FALSE
