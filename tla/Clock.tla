-------------------------------- MODULE Clock --------------------------------
(***************************************************************************)
(* The clocks behind std::chrono, timed waits and sleeps                   *)
(* (platform/runtime/libstdcxx/backend.cpp, clock.cpp, sleep.cpp).         *)
(*                                                                         *)
(* system_clock joins three sources: the real-time clock read once by      *)
(* initialize, the ThreadX tick counter, 32 bits wide, and a hardware      *)
(* timer that counts fast, wraps often and may be reprogrammed by others.  *)
(* The timer is read with one call per field.  The unit of time is the     *)
(* period of the timer's counter; now is the time nobody can read.         *)
(***************************************************************************)
EXTENDS Integers

CONSTANTS
  Threads,
  TickPeriod,            \* units per ThreadX tick
  TickModulus,           \* 2^32
  ROLLOVER_SAMPLE_TICKS,
  MaxTimerDelay,         \* ticks by which the ThreadX timer thread may be late
  Modulus,               \* getAutoReload() + 1 of the hardware timer
  StartCounter,          \* where the counter stands when initialize reads it
  Skew,                  \* units between the first and the last read of initialize
  MAX_FINITE_WAIT,
  Durations,             \* of waits and sleeps
  MaxChanges,            \* bound on reprogramming the hardware timer
  MaxTime                \* bound on now

\* How far the coarse clock may be ahead of the real-time clock: initialize reads the
\* ticks inside a tick, and the real-time clock and the counter up to Skew later.
Lead == TickPeriod - 1 + Skew

ASSUME ClockAssumption ==
  /\ {TickPeriod, TickModulus, ROLLOVER_SAMPLE_TICKS, Modulus} \subseteq Nat \ {0}
  /\ {StartCounter, MaxTimerDelay, Skew, MaxChanges, MaxTime} \cup Durations \subseteq Nat
  /\ MAX_FINITE_WAIT \in Nat /\ MAX_FINITE_WAIT > 1
  \* a late sample still comes before the second wrap
  /\ Lead \div TickPeriod + ROLLOVER_SAMPLE_TICKS + MaxTimerDelay < TickModulus
  \* half a turn of the counter tells how often it wrapped
  /\ 2 * Lead < Modulus

VARIABLES
  now,
  tick,       \* tick_epoch and last_tick
  sample_due, \* the tick at which rollover_timer expires next
  timer,      \* the hardware timer: version, running, origin, frequency
  high_resolution_counter_available,
  epoch,      \* high_resolution_counter_epoch and the system_clock_epoch variables
  last_system_time_nanoseconds,
  th          \* the threads, their locals and, as history, the time (began) and the
              \* record (floor) when their call began

vars == <<now, tick, sample_due, timer, high_resolution_counter_available, epoch,
          last_system_time_nanoseconds, th>>

clockVars == <<timer, high_resolution_counter_available, last_system_time_nanoseconds>>

TxTime == now \div TickPeriod
Counter == ((now - timer.origin) * timer.frequency) % Modulus

Later(a, b) == IF a > b THEN a ELSE b
Earlier(a, b) == IF a < b THEN a ELSE b

Idle == [pc |-> "idle", call |-> "none", ticks |-> 0, version |-> 0, counter |-> 0,
         candidate |-> 0, previous |-> 0, deadline |-> 0, wake |-> 0, began |-> 0,
         read |-> 0, floor |-> 0]

-----------------------------------------------------------------------------
(* The tick counter *)

\* Mutant: the wrap is not noticed.
ExtendTick_NoWrap(current) == tick

\* extend_tick_counter
ExtendTick(current) ==
  [epoch |-> IF current < tick.last THEN tick.epoch + TickModulus ELSE tick.epoch,
   last  |-> current]

\* steady_ticks, interrupts disabled: the new tick and what it returns.
SteadyTick == ExtendTick(TxTime % TickModulus)
SteadyTicks == SteadyTick.epoch + (TxTime % TickModulus)

\* rollover_timer_entry
RolloverTimer ==
  /\ TxTime >= sample_due
  /\ tick' = SteadyTick
  /\ sample_due' = sample_due + ROLLOVER_SAMPLE_TICKS
  /\ UNCHANGED <<now, clockVars, epoch, th>>

Time ==
  /\ now < MaxTime
  /\ (now + 1) \div TickPeriod <= sample_due + MaxTimerDelay
  /\ now' = now + 1
  /\ UNCHANGED <<tick, sample_due, clockVars, epoch, th>>

-----------------------------------------------------------------------------
(* The hardware timer, in other hands, as long as it is looked at.  The setters *)
(* of the Linux timer hold its mutex, so each changes its version with it. *)

Reprogram ==
  /\ high_resolution_counter_available /\ epoch.available = 1
  /\ timer.version < MaxChanges
  /\ \E changed \in {[timer EXCEPT !.running = 1 - @],     \* stop, start
                     [timer EXCEPT !.origin = now],         \* setCounter, reset
                     [timer EXCEPT !.frequency = 3 - @]} :  \* setPrescaler, setAutoReload
       timer' = [changed EXCEPT !.version = timer.version + 1]
  /\ UNCHANGED <<now, tick, sample_due, high_resolution_counter_available, epoch,
                 last_system_time_nanoseconds, th>>

-----------------------------------------------------------------------------
(* system_time_nanoseconds *)

\* A thread calls system_clock::now(), for itself or to make a deadline.
AskTime(t, call) ==
  /\ th[t].pc = "idle"
  /\ th' = [th EXCEPT ![t] = [Idle EXCEPT !.pc = "ticks", !.call = call,
                                           !.began = IF call = "now" THEN now ELSE 0]]
  /\ UNCHANGED <<now, tick, sample_due, clockVars, epoch>>

\* The time by ThreadX ticks alone.
Coarse(ticks) == epoch.nanoseconds + ticks * TickPeriod

\* steady_ticks, and whether the hardware timer is to be asked.
ReadTicks(t) ==
  /\ th[t].pc = "ticks"
  /\ tick' = SteadyTick
  /\ LET l == [th[t] EXCEPT !.candidate = Coarse(SteadyTicks),
                            !.floor = last_system_time_nanoseconds]
     IN  th' = [th EXCEPT ![t] =
                  IF epoch.available = 1 /\ high_resolution_counter_available
                  THEN [l EXCEPT !.pc = "version", !.ticks = SteadyTicks, !.read = now]
                  ELSE [l EXCEPT !.pc = "publish"]]
  /\ UNCHANGED <<now, sample_due, clockVars, epoch>>

\* The time of this call is the coarse one, and the timer is not used again.
GiveUp(t) ==
  /\ high_resolution_counter_available' = FALSE
  /\ th' = [th EXCEPT ![t] = [@ EXCEPT !.pc = "publish", !.ticks = 0, !.version = 0,
                                        !.counter = 0, !.read = 0]]

\* read_high_resolution_counter: version and isRunning, the counter, and in Recheck the
\* frequency, isRunning and version once more.  The timer of the Linux build changes with
\* its version, so reads with nothing but a version between them are one step.
ReadVersion(t) ==
  /\ th[t].pc = "version"
  /\ \/ /\ timer.running = 1
        /\ th' = [th EXCEPT ![t] = [@ EXCEPT !.version = timer.version, !.pc = "counter"]]
        /\ UNCHANGED high_resolution_counter_available
     \/ timer.running = 0 /\ GiveUp(t)
  /\ UNCHANGED <<now, tick, sample_due, timer, last_system_time_nanoseconds, epoch>>

\* read becomes the time the thread was held up since it read the ticks.
ReadCounter(t) ==
  /\ th[t].pc = "counter"
  /\ th' = [th EXCEPT ![t] = [@ EXCEPT !.counter = Counter,
                                        !.read = Earlier(now - th[t].read, Modulus),
                                        !.pc = "recheck"]]
  /\ UNCHANGED <<now, tick, sample_due, clockVars, epoch>>

\* What is checked of a sample: it is of one program of the timer, the one of the epoch.
Consistent(t) ==
  /\ timer.running = 1
  /\ timer.version = th[t].version
  /\ th[t].version = epoch.version
  /\ timer.frequency = epoch.frequency

Recheck(t) ==
  /\ th[t].pc = "recheck"
  /\ \/ /\ Consistent(t)
        /\ th' = [th EXCEPT ![t] = [@ EXCEPT !.pc = "elapsed"]]
        /\ UNCHANGED high_resolution_counter_available
     \/ ~Consistent(t) /\ GiveUp(t)
  /\ UNCHANGED <<now, tick, sample_due, timer, last_system_time_nanoseconds, epoch>>

\* high_resolution_elapsed_nanoseconds: how often the counter has wrapped since the
\* epoch is taken from the coarse clock, rounded to the nearest turn.
Modular(t) == (th[t].counter - epoch.counter) % Modulus
CoarseElapsed(t) == th[t].ticks * TickPeriod * epoch.frequency

Wraps(t) == (2 * (CoarseElapsed(t) - Modular(t)) + Modulus) \div (2 * Modulus)

\* A sample that is ahead of the coarse clock by more than half a turn is refused.
Corroborated(t) == 2 * (Modular(t) - CoarseElapsed(t)) <= Modulus

Elapsed(t) ==
  /\ th[t].pc = "elapsed"
  /\ th' = [th EXCEPT ![t] = [@ EXCEPT !.pc = "publish", !.ticks = 0, !.version = 0, !.counter = 0,
              !.candidate =
                 IF Corroborated(t)
                 THEN epoch.nanoseconds
                      + ((Modular(t) + Wraps(t) * Modulus) \div epoch.frequency)
                 ELSE th[t].candidate]]
  /\ UNCHANGED <<now, tick, sample_due, clockVars, epoch>>

\* publish_system_time: the load, then each round of the loop.
PublishLoad(t) ==
  /\ th[t].pc = "publish"
  /\ th' = [th EXCEPT ![t] = [@ EXCEPT !.previous = last_system_time_nanoseconds,
                                        !.pc = "exchange"]]
  /\ UNCHANGED <<now, tick, sample_due, clockVars, epoch>>

\* compare_exchange_weak succeeds (that it may fail spuriously adds only rounds).
Exchanged(t) == last_system_time_nanoseconds = th[t].previous

\* Mutant: a call returns its own candidate, although a later time is on record.
Published_Candidate(t) == th[t].candidate

\* What publish_system_time returns.
Published(t) == Later(th[t].candidate, th[t].previous)

PublishExchange(t) ==
  LET published == th[t].candidate > th[t].previous /\ Exchanged(t)
      retry == th[t].candidate > th[t].previous /\ ~published
  IN  /\ th[t].pc = "exchange"
      /\ last_system_time_nanoseconds' =
           IF published THEN th[t].candidate ELSE last_system_time_nanoseconds
      /\ th' = [th EXCEPT ![t] =
                  IF retry THEN [@ EXCEPT !.previous = last_system_time_nanoseconds]
                  ELSE [@ EXCEPT !.candidate = Published(t), !.pc = "known"]]
      /\ UNCHANGED <<now, tick, sample_due, timer, high_resolution_counter_available, epoch>>

-----------------------------------------------------------------------------
(* Users of the time *)

CeilDiv(a, b) == (a + b - 1) \div b
duration_to_ticks(nanoseconds) == Earlier(CeilDiv(nanoseconds, TickPeriod), MAX_FINITE_WAIT)

\* now() returns to a thread that wanted to know.
NowReturns(t) ==
  /\ th[t].pc = "known" /\ th[t].call = "now"
  /\ th' = [th EXCEPT ![t] = Idle]
  /\ UNCHANGED <<now, tick, sample_due, clockVars, epoch>>

\* now() + duration is the deadline of a timed wait, which begins.
MakeDeadline(t) ==
  /\ th[t].pc = "known" /\ th[t].call = "deadline"
  /\ \E duration \in Durations :
       th' = [th EXCEPT ![t] = [Idle EXCEPT !.pc = "ticks", !.call = "wait",
                                  !.deadline = th[t].candidate + duration]]
  /\ UNCHANGED <<now, tick, sample_due, clockVars, epoch>>

\* wait_until: the time is known, deadline_wait_ticks decides; the ThreadX wait ends
\* with the given tick.
WaitTicks(t) ==
  /\ th[t].pc = "known" /\ th[t].call = "wait"
  /\ th' = IF th[t].deadline <= th[t].candidate
           THEN [th EXCEPT ![t] = [@ EXCEPT !.pc = "timed_out"]]
           ELSE [th EXCEPT ![t] = [Idle EXCEPT !.pc = "blocked", !.call = "wait",
                   !.deadline = th[t].deadline,
                   !.wake = TxTime + duration_to_ticks(th[t].deadline - th[t].candidate)]]
  /\ UNCHANGED <<now, tick, sample_due, clockVars, epoch>>

\* Mutant: a ThreadX timeout is the timeout.
AfterWait_TimesOut == "timed_out"

\* A ThreadX timeout may be early: the time is read again.
AfterWait == "ticks"

WaitEnds(t) ==
  /\ th[t].pc = "blocked" /\ th[t].call = "wait"
  /\ TxTime >= th[t].wake
  /\ th' = [th EXCEPT ![t] = [Idle EXCEPT !.pc = AfterWait, !.call = "wait",
                                !.deadline = th[t].deadline]]
  /\ UNCHANGED <<now, tick, sample_due, clockVars, epoch>>

\* What was waited for arrives first, or is there in the last attempt.
WaitSucceeds(t) ==
  /\ th[t].pc \in {"blocked", "timed_out"} /\ th[t].call = "wait"
  /\ th' = [th EXCEPT ![t] = Idle]
  /\ UNCHANGED <<now, tick, sample_due, clockVars, epoch>>

\* sleep_for: chunks of ticks, each with one tick more because it begins inside one.
\* deadline, as history, is the true time at which it may end.
Chunk(ticks) == Earlier(ticks, MAX_FINITE_WAIT - 1)

SleepFor(t) ==
  /\ th[t].pc = "idle"
  /\ \E duration \in Durations \ {0} :
       th' = [th EXCEPT ![t] =
                [Idle EXCEPT !.pc = "blocked", !.call = "sleep",
                   !.deadline = now + duration, !.ticks = CeilDiv(duration, TickPeriod),
                   !.wake = TxTime + Chunk(CeilDiv(duration, TickPeriod)) + 1]]
  /\ UNCHANGED <<now, tick, sample_due, clockVars, epoch>>

SleepChunkEnds(t) ==
  LET ticks == th[t].ticks - Chunk(th[t].ticks)
  IN  /\ th[t].pc = "blocked" /\ th[t].call = "sleep"
      /\ TxTime >= th[t].wake
      /\ th' = [th EXCEPT ![t] =
                  [@ EXCEPT !.ticks = ticks,
                            !.pc = IF ticks = 0 THEN "timed_out" ELSE "blocked",
                            !.wake = TxTime + Chunk(ticks) + 1]]
      /\ UNCHANGED <<now, tick, sample_due, clockVars, epoch>>

\* The caller of a wait or a sleep goes on.
Returns(t) ==
  /\ th[t].pc = "timed_out"
  /\ th' = [th EXCEPT ![t] = Idle]
  /\ UNCHANGED <<now, tick, sample_due, clockVars, epoch>>

-----------------------------------------------------------------------------

\* initialize: the ticks are read in the middle of a tick, then the real-time clock,
\* if there is one, then the hardware timer is started and read.
Init ==
  \E phase \in 0 .. TickPeriod - 1, rtc \in 0 .. Skew, available \in {0, 1}, counting \in BOOLEAN :
    \E started \in rtc .. Skew :
      /\ now = phase + started
      /\ tick = [epoch |-> 0, last |-> 0]
      /\ sample_due = (phase + started) \div TickPeriod + ROLLOVER_SAMPLE_TICKS
      /\ timer = [version |-> 0, running |-> 1, frequency |-> 1,
                  origin |-> phase + started - StartCounter]
      /\ high_resolution_counter_available = counting
      /\ epoch = [available |-> available, version |-> 0, frequency |-> 1, counter |-> StartCounter,
                  nanoseconds |-> IF available = 1 THEN phase + rtc ELSE 0]
      /\ last_system_time_nanoseconds = 0
      /\ th = [t \in Threads |-> Idle]

SystemTime(t) ==
  \/ ReadTicks(t) \/ ReadVersion(t) \/ ReadCounter(t) \/ Recheck(t)
  \/ Elapsed(t) \/ PublishLoad(t) \/ PublishExchange(t)

Use(t) ==
  \/ AskTime(t, "now") \/ AskTime(t, "deadline") \/ NowReturns(t) \/ MakeDeadline(t)
  \/ WaitTicks(t) \/ WaitEnds(t) \/ WaitSucceeds(t)
  \/ SleepFor(t) \/ SleepChunkEnds(t) \/ Returns(t)

Next ==
  \/ Time \/ RolloverTimer \/ Reprogram
  \/ \E t \in Threads : SystemTime(t) \/ Use(t)

Spec == Init /\ [][Next]_vars

-----------------------------------------------------------------------------

\* system_clock is never ahead of the true time by more than the time initialize took
\* and a tick, whatever sample of the timer was taken while it was reprogrammed and
\* however often counter and tick counter wrapped; nor behind the call of now() by more
\* than that, if the thread was not held up for half a turn of the counter.  It never goes
\* back, however two threads publish and whichever clock they read: what a call returns is
\* on record before it returns, and is no less than what was on record when it began.
ClockIsTrue ==
  /\ last_system_time_nanoseconds <= now + Lead
  /\ \A t \in DOMAIN th :
       th[t].pc = "known" /\ th[t].call = "now" /\ 2 * (th[t].read + TickPeriod) <= Modulus =>
         th[t].candidate >= th[t].began - Lead
  /\ \A t \in DOMAIN th : th[t].pc = "known" =>
       th[t].floor <= th[t].candidate /\ th[t].candidate <= last_system_time_nanoseconds

\* A timed wait does not time out before its deadline and a sleep does not end before
\* the duration the caller asked for has passed, as long as the hardware timer is
\* trusted; without it, no more than the coarse clock's error before.
NoEarlyTimeout ==
  \A t \in DOMAIN th : th[t].pc = "timed_out" =>
    th[t].deadline <= now + IF th[t].call = "sleep"
                               \/ (high_resolution_counter_available /\ epoch.available = 1)
                            THEN 0 ELSE Lead

-----------------------------------------------------------------------------
(* The inductive invariant *)

CallRecords ==
  [pc : {"idle", "ticks", "version", "counter", "recheck", "elapsed", "publish", "exchange",
         "known", "blocked", "timed_out"},
   call : {"none", "now", "deadline", "wait", "sleep"},
   ticks : Nat, version : Nat, counter : Nat, candidate : Int, previous : Int,
   deadline : Int, wake : Nat, began : Nat, read : Nat, floor : Int]

TypeOK ==
  /\ now \in Nat
  /\ tick \in [epoch : Nat, last : Nat]
  /\ sample_due \in Nat
  /\ timer \in [version : Nat, running : {0, 1}, origin : Int, frequency : {1, 2}]
  /\ high_resolution_counter_available \in BOOLEAN
  /\ epoch \in [available : {0, 1}, version : {0}, frequency : {1}, counter : {StartCounter},
                nanoseconds : 0 .. Lead]
  /\ last_system_time_nanoseconds \in Int
  /\ th \in [Threads -> CallRecords]

\* The extended tick counter is at most one turn behind, because rollover_timer samples it.
TickInv ==
  /\ \E turns \in 0 .. tick.epoch : tick.epoch = turns * TickModulus
  /\ tick.last < TickModulus
  /\ tick.epoch + tick.last <= TxTime
  /\ sample_due <= tick.epoch + tick.last + (Lead \div TickPeriod) + ROLLOVER_SAMPLE_TICKS
  /\ TxTime <= sample_due + MaxTimerDelay

\* When the hardware timer may have been read for the epoch.
Started == {s \in 0 .. Lead : epoch.nanoseconds <= s /\ s <= epoch.nanoseconds + Skew}

\* A timer that nobody has reprogrammed counts since the epoch.
TimerInv ==
  timer.version = 0 =>
    /\ timer.frequency = 1
    /\ timer.origin + StartCounter <= now
    /\ epoch.available = 1 => timer.origin + StartCounter \in Started

\* How far system_clock may be ahead.
Ahead == IF high_resolution_counter_available /\ epoch.available = 1 THEN 0 ELSE Lead

\* The ticks of call l are of time r.
Ticked(l, r) ==
  /\ l.ticks * TickPeriod <= r /\ r < (l.ticks + 1) * TickPeriod
  /\ l.began <= r
  /\ l.candidate = Coarse(l.ticks)

\* The counter of call l is of time r.
Sampled(l, r) == \E before \in 0 .. r : Ticked(l, before) /\ l.read = Earlier(r - before, Modulus)

\* What a call has read of the clocks.
ReadOK(l) ==
  /\ l.began <= now
  /\ l.pc \in {"version", "counter", "recheck", "elapsed"} => epoch.available = 1
  /\ l.pc \in {"version", "counter"} => l.read <= now /\ Ticked(l, l.read)
  /\ l.pc = "recheck" =>
       \E r \in 0 .. now :
         /\ Sampled(l, r)
         /\ timer.version = 0 =>
              timer.origin + StartCounter <= r /\ l.counter = (r - timer.origin) % Modulus
  /\ l.pc = "elapsed" =>
       \E r \in 0 .. now, s \in Started :
         s <= r /\ Sampled(l, r) /\ l.counter = (r - s + StartCounter) % Modulus

\* What a call knows of the time, and when it may end.
ResultOK(l) ==
  /\ l.pc \in {"publish", "exchange", "known"} =>
       /\ l.candidate <= now + Ahead
       /\ 2 * (l.read + TickPeriod) <= Modulus => l.candidate >= l.began - Lead
  /\ l.pc = "exchange" => l.previous <= last_system_time_nanoseconds
  /\ l.pc = "known" => l.candidate <= last_system_time_nanoseconds
  /\ l.pc = "blocked" /\ l.call = "sleep" =>
       l.deadline <= (l.wake + l.ticks - Chunk(l.ticks)) * TickPeriod
  /\ l.pc = "timed_out" => l.deadline <= now + IF l.call = "sleep" THEN 0 ELSE Ahead

ClockInv ==
  /\ TypeOK
  /\ TickInv
  /\ TimerInv
  /\ last_system_time_nanoseconds <= now + Ahead
  /\ \A t \in Threads : ReadOK(th[t]) /\ ResultOK(th[t])

\* A call in progress stays above the record it found.
FloorOK(l) ==
  /\ l.pc \in {"version", "counter", "recheck", "elapsed", "publish", "exchange"} =>
       l.floor <= last_system_time_nanoseconds
  /\ l.pc = "exchange" => l.floor <= l.previous
  /\ l.pc = "known" => l.floor <= l.candidate

FloorInv == \A t \in Threads : FloorOK(th[t])
=============================================================================
