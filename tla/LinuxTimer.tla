----------------------------- MODULE LinuxTimer -----------------------------
(***************************************************************************)
(* The simulated hardware timer of the Linux build                         *)
(* (platform/hal/drivers/impl/linux/Timer.cpp).                            *)
(*                                                                         *)
(* Every call of the interface is one section under m_mutex, and so one    *)
(* action.  The worker thread gives the mutex up in its two waits and      *)
(* around the user's callback.  Time is relative: elapsed is what has      *)
(* passed since m_startedAtNanoseconds, modulo a number that counterAt     *)
(* cannot tell from 0, and remaining is what is left of the timed wait.    *)
(***************************************************************************)
EXTENDS Naturals

CONSTANTS
  NANOSECONDS_PER_SECOND,
  m_timerInputHz,
  Prescalers, AutoReloads, Counters, Durations, \* what callers pass
  Versions  \* 2^32: m_stateVersion wraps

ASSUME LinuxTimerAssumption ==
  /\ NANOSECONDS_PER_SECOND \in Nat \ {0} /\ m_timerInputHz \in Nat /\ Versions \in Nat \ {0}
  /\ Prescalers \cup AutoReloads \cup Counters \cup Durations \subseteq Nat

VARIABLES
  m_running, m_interruptEnabled, m_shuttingDown,
  m_counter, m_prescaler, m_autoReload, m_stateVersion,
  m_periodElapsedCallback, \* whether one is set
  elapsed,    \* monotonic time - m_startedAtNanoseconds
  pc,         \* where the worker is
  remaining,  \* the worker's deadline - monotonic time
  overflowed, \* history: the counter overflowed since the worker looked at it
  touched,    \* history: the timer was programmed since then
  late        \* history: callbacks taken since the timer stopped

timerVars == <<m_running, m_interruptEnabled, m_counter, m_prescaler, m_autoReload,
               m_stateVersion, elapsed>>
workerVars == <<pc, remaining>>
historyVars == <<overflowed, late>>
vars == <<timerVars, m_shuttingDown, m_periodElapsedCallback, workerVars, historyVars, touched>>

Period == m_autoReload + 1
getTickFrequencyHzUnlocked == m_timerInputHz \div (m_prescaler + 1)

-----------------------------------------------------------------------------
(* Arithmetic *)

\* The ticks that n nanoseconds are, modulo the period.
ElapsedTicks(n) ==
  LET seconds == n \div NANOSECONDS_PER_SECOND
      remainder == n % NANOSECONDS_PER_SECOND
      frequency == getTickFrequencyHzUnlocked
      whole_ticks == ((seconds % Period) * (frequency % Period)) % Period
      fractional_ticks == ((remainder * frequency) \div NANOSECONDS_PER_SECOND) % Period
  IN  (whole_ticks + fractional_ticks) % Period

counterAt(n) ==
  IF getTickFrequencyHzUnlocked = 0 THEN m_counter ELSE (m_counter + ElapsedTicks(n)) % Period

CeilDiv(a, b) == (a + b - 1) \div b

\* Mutant: the time until the overflow is rounded down.
nanosecondsUntilOverflowUnlocked_Down ==
  IF getTickFrequencyHzUnlocked = 0 THEN NANOSECONDS_PER_SECOND
  ELSE ((Period - counterAt(elapsed)) * NANOSECONDS_PER_SECOND) \div getTickFrequencyHzUnlocked

\* The worker asks only while the timer runs.
nanosecondsUntilOverflowUnlocked ==
  IF getTickFrequencyHzUnlocked = 0 THEN NANOSECONDS_PER_SECOND
  ELSE CeilDiv((Period - counterAt(elapsed)) * NANOSECONDS_PER_SECOND,
               getTickFrequencyHzUnlocked)

durationToTicksUnlocked(nanoseconds) ==
  CeilDiv(nanoseconds * getTickFrequencyHzUnlocked, NANOSECONDS_PER_SECOND)

-----------------------------------------------------------------------------
(* Calls of the interface *)

\* The owner may call: the worker does not hold the mutex, the timer is alive.
MayCall == pc # "reading" /\ ~m_shuttingDown

\* Mutant: the worker is not told.
notifyWorker_Lost == UNCHANGED workerVars

\* pthread_cond_broadcast; a wait that has already timed out does not notice.
notifyWorker ==
  /\ pc' = IF pc \in {"idle", "timed"} THEN "lock" ELSE pc
  /\ remaining' = IF pc = "timed" THEN 0 ELSE remaining

\* captureCounter: what m_counter is afterwards.
Captured == IF m_running THEN counterAt(elapsed) ELSE m_counter

\* A call that leaves the timer with these values, the clock started anew.
Reprogram(running, interrupt, counter, prescaler, autoReload) ==
  /\ MayCall
  /\ m_running' = running
  /\ m_interruptEnabled' = interrupt
  /\ m_counter' = counter
  /\ m_prescaler' = prescaler
  /\ m_autoReload' = autoReload
  /\ elapsed' = 0
  /\ m_stateVersion' = (m_stateVersion + 1) % Versions
  /\ touched' = TRUE
  /\ notifyWorker
  /\ UNCHANGED <<m_shuttingDown, m_periodElapsedCallback, overflowed>>

\* start and startIt
start(interrupt) ==
  /\ getTickFrequencyHzUnlocked # 0
  /\ Reprogram(TRUE, interrupt, Captured, m_prescaler, m_autoReload)
  /\ late' = 0

\* A stopped timer does not read m_startedAtNanoseconds, so that it may change.
stop ==
  /\ Reprogram(FALSE, FALSE, Captured, m_prescaler, m_autoReload)
  /\ UNCHANGED late

\* setCounter, reset and forceUpdateEvent
setCounter(value) ==
  /\ Reprogram(m_running, m_interruptEnabled, value, m_prescaler, m_autoReload)
  /\ UNCHANGED late

setAutoReload(value) ==
  /\ Reprogram(m_running, m_interruptEnabled, Captured, m_prescaler, value)
  /\ UNCHANGED late

setPrescaler(value) ==
  /\ Reprogram(m_running, m_interruptEnabled, Captured, value, m_autoReload)
  /\ UNCHANGED late

setPeriodImpl(duration) ==
  LET ticks == durationToTicksUnlocked(duration)
  IN  /\ Reprogram(m_running, m_interruptEnabled, 0, m_prescaler,
                   IF ticks = 0 THEN 0 ELSE ticks - 1)
      /\ UNCHANGED late

setPeriodElapsedCallback(callback) ==
  /\ MayCall
  /\ m_periodElapsedCallback' = callback
  /\ UNCHANGED <<timerVars, m_shuttingDown, workerVars, historyVars, touched>>

\* ~Timer up to the join; nobody calls afterwards.
Shutdown ==
  /\ MayCall
  /\ m_shuttingDown' = TRUE
  /\ notifyWorker
  /\ UNCHANGED <<timerVars, m_periodElapsedCallback, historyVars, touched>>

-----------------------------------------------------------------------------
(* workerLoop *)

\* Mutant: the worker does not wait for a timer that is stopped.
Armed_NotAwaited == TRUE

Armed == m_running /\ m_interruptEnabled

\* The mutex is acquired; the loops' conditions are evaluated.
WorkerLooks ==
  /\ pc = "lock"
  /\ \/ /\ m_shuttingDown
        /\ pc' = "done"
        /\ UNCHANGED <<remaining, overflowed, touched>>
     \/ /\ ~m_shuttingDown /\ ~Armed
        /\ pc' = "idle"
        /\ UNCHANGED <<remaining, overflowed, touched>>
     \/ /\ ~m_shuttingDown /\ Armed
        /\ pc' = "reading"
        /\ remaining' = nanosecondsUntilOverflowUnlocked
        /\ overflowed' = FALSE
        /\ touched' = FALSE
  /\ UNCHANGED <<timerVars, m_shuttingDown, m_periodElapsedCallback, late>>

\* monotonic_deadline reads the clock a second time; the timed wait begins.
WorkerWaits ==
  /\ pc = "reading"
  /\ pc' = "timed"
  /\ UNCHANGED <<timerVars, m_shuttingDown, m_periodElapsedCallback, remaining, historyVars,
                 touched>>

\* pthread_cond_timedwait gives up, before it has the mutex again.
WaitExpires ==
  /\ pc = "timed"
  /\ remaining = 0
  /\ pc' = "expired"
  /\ UNCHANGED <<timerVars, m_shuttingDown, m_periodElapsedCallback, remaining, historyVars,
                 touched>>

\* ETIMEDOUT with the mutex: the callback is copied, the mutex released, the
\* copy called if there is one.  m_running is not looked at again.
WorkerCalls ==
  /\ pc = "expired"
  /\ pc' = IF m_periodElapsedCallback THEN "calling" ELSE "lock"
  /\ late' = IF m_periodElapsedCallback /\ ~m_running THEN late + 1 ELSE late
  /\ UNCHANGED <<timerVars, m_shuttingDown, m_periodElapsedCallback, remaining, overflowed,
                 touched>>

CallbackReturns ==
  /\ pc = "calling"
  /\ pc' = "lock"
  /\ UNCHANGED <<timerVars, m_shuttingDown, m_periodElapsedCallback, remaining, historyVars,
                 touched>>

\* The counter as it would be without the modulus, so that overflows show.
Unwrapped(n) ==
  (m_counter % Period) + (n * getTickFrequencyHzUnlocked) \div NANOSECONDS_PER_SECOND

Tick ==
  /\ elapsed' =
       IF m_running THEN (elapsed + 1) % (NANOSECONDS_PER_SECOND * Period) ELSE elapsed
  /\ overflowed' =
       (overflowed \/ (m_running /\ Unwrapped(elapsed + 1) \div Period
                                    # Unwrapped(elapsed) \div Period))
  /\ remaining' = IF pc = "timed" /\ remaining > 0 THEN remaining - 1 ELSE remaining
  /\ UNCHANGED <<m_running, m_interruptEnabled, m_shuttingDown, m_counter, m_prescaler,
                 m_autoReload, m_stateVersion, m_periodElapsedCallback, pc, touched, late>>

-----------------------------------------------------------------------------

Init ==
  /\ m_running = FALSE /\ m_interruptEnabled = FALSE /\ m_shuttingDown = FALSE
  /\ m_counter = 0 /\ m_prescaler \in Prescalers /\ m_autoReload \in AutoReloads
  /\ m_stateVersion = 0 /\ m_periodElapsedCallback = FALSE
  /\ elapsed = 0 /\ pc = "lock" /\ remaining = 0
  /\ overflowed = FALSE /\ touched = FALSE /\ late = 0

Call ==
  \/ start(FALSE) \/ start(TRUE) \/ stop
  \/ \E value \in Counters : setCounter(value)
  \/ \E value \in AutoReloads : setAutoReload(value)
  \/ \E value \in Prescalers : setPrescaler(value)
  \/ \E duration \in Durations : setPeriodImpl(duration)
  \/ \E callback \in BOOLEAN : setPeriodElapsedCallback(callback)
  \/ Shutdown

Worker == WorkerLooks \/ WorkerWaits \/ WaitExpires \/ WorkerCalls

Next == Call \/ Worker \/ CallbackReturns \/ Tick

\* Linux schedules the worker and lets time pass; user callbacks return.
Spec ==
  /\ Init /\ [][Next]_vars
  /\ WF_vars(Worker) /\ WF_vars(CallbackReturns) /\ WF_vars(Tick)

-----------------------------------------------------------------------------

\* The worker comes to a callback only after the counter has overflowed, however the
\* counter's and the clock's units round, unless somebody programs the timer while it
\* waits (or has divided its frequency down to 0, which the code takes for 1 Hz).
NoEarlyCallback ==
  pc = "expired" /\ m_running /\ ~touched /\ getTickFrequencyHzUnlocked # 0 => overflowed

\* A stop() may come too late for one callback, which then begins after stop() has
\* returned; there is no second one.
OneCallbackAfterStop == ~m_running => late <= 1

\* A timer left alone with its interrupt enabled calls back again and again, and the
\* destructor's join returns.
TimerAnswers ==
  /\ \A v \in 0 .. Versions - 1 :
       <>[](Armed /\ m_periodElapsedCallback /\ ~m_shuttingDown /\ m_stateVersion = v) =>
         []<>(pc = "calling")
  /\ m_shuttingDown ~> pc = "done"

-----------------------------------------------------------------------------
(* Inductive invariants *)

TypeOK ==
  /\ m_counter \in Nat /\ m_prescaler \in Nat /\ m_autoReload \in Nat
  /\ elapsed \in Nat /\ remaining \in Nat
  /\ m_running \in BOOLEAN /\ overflowed \in BOOLEAN /\ touched \in BOOLEAN

\* Only a worker that was in its timed wait when stop() came has a callback left, and it
\* does not come back to that wait without a start.
LateInv ==
  /\ m_running \in BOOLEAN
  /\ m_running => late = 0
  /\ late = 0 \/ (late = 1 /\ pc \in {"calling", "lock", "idle", "done"})

\* How far the counter has come in its period, in units of 1 / NANOSECONDS_PER_SECOND
\* ticks, so that a nanosecond is getTickFrequencyHzUnlocked of them.
Phase ==
  ((m_counter % Period) * NANOSECONDS_PER_SECOND + elapsed * getTickFrequencyHzUnlocked)
    % (Period * NANOSECONDS_PER_SECOND)

\* The rest of the wait takes the counter to the end of its period, or further.
WaitInv ==
  /\ pc \in {"reading", "timed", "expired"} /\ m_running /\ ~touched /\ ~overflowed
  /\ getTickFrequencyHzUnlocked # 0
  => remaining * getTickFrequencyHzUnlocked + Phase >= Period * NANOSECONDS_PER_SECOND

\* A wait that expired had nothing left.
ExpiredInv == pc = "expired" => remaining = 0
=============================================================================
