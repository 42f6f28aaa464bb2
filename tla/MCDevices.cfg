SPECIFICATION MCSpec
CONSTANTS
  NANOSECONDS_PER_SECOND = 3
  m_timerInputHz = 2
  Prescalers = {0, 1, 2}
  AutoReloads = {0, 1}
  Counters = {0, 3}
  Durations = {2}
  Versions = 2
  Callers = {1, 2, 3}
  Fds = {1, 2}
  MaxQueued = 1
  Tasks = {1, 2}
  ETH_RX_DESC_CNT = 2
  MaxSegments = 2
INVARIANTS NoEarlyCallback OneCallbackAfterStop DescriptorStaysOurs NoLockCycle SlotHasOneHolder
PROPERTY TimerAnswers
