----------------------------- MODULE ClockProofs -----------------------------
(***************************************************************************)
(* Proofs about Clock.                                                     *)
(***************************************************************************)
EXTENDS Clock, TLAPS

-----------------------------------------------------------------------------
(* Arithmetic *)

\* What ClockAssumption says of each constant.
LEMMA Constants ==
  /\ TickPeriod \in Nat /\ TickPeriod > 0
  /\ TickModulus \in Nat /\ TickModulus > 0
  /\ ROLLOVER_SAMPLE_TICKS \in Nat /\ MaxTimerDelay \in Nat
  /\ Modulus \in Nat /\ Modulus > 0
  /\ StartCounter \in Nat /\ Skew \in Nat /\ Durations \subseteq Nat
  /\ MAX_FINITE_WAIT \in Nat /\ MAX_FINITE_WAIT > 1
  /\ Lead \in Nat /\ Lead >= TickPeriod - 1 /\ Lead >= Skew
  /\ 2 * Lead < Modulus
<1>1. /\ TickPeriod \in Nat \ {0} /\ TickModulus \in Nat \ {0}
      /\ ROLLOVER_SAMPLE_TICKS \in Nat \ {0} /\ Modulus \in Nat \ {0}
      /\ MaxTimerDelay \in Nat /\ StartCounter \in Nat /\ Skew \in Nat /\ Durations \subseteq Nat
  BY ClockAssumption, Zenon DEF ClockAssumption
<1> QED
  BY <1>1, ClockAssumption DEF Lead

\* Quotient and remainder of an integer.
LEMMA DivMod ==
  ASSUME NEW a \in Int, NEW b \in Nat, b > 0
  PROVE  /\ a \div b \in Int /\ a % b \in Nat
         /\ a = b * (a \div b) + (a % b) /\ a % b < b
BY SMT

\* A quotient is no more than any k whose successor's multiple is above, and no less than
\* any whose multiple is not.
LEMMA QuotientBounds ==
  ASSUME NEW a \in Int, NEW b \in Nat, b > 0, NEW k \in Int
  PROVE  /\ a < b * k + b => a \div b <= k
         /\ b * k <= a => k <= a \div b
<1> DEFINE q == a \div b
           r == a % b
<1>1. q \in Int /\ r \in Nat /\ a = b * q + r /\ r < b
  BY DivMod
<1> HIDE DEF q, r
<1>2. ASSUME a < b * k + b, q >= k + 1 PROVE FALSE
  <2>1. b * q >= b * (k + 1)
    BY <1>1, <1>2, SMT
  <2>2. b * (k + 1) = b * k + b
    BY SMT
  <2> QED
    BY <1>1, <1>2, <2>1, <2>2
<1>3. ASSUME b * k <= a, k >= q + 1 PROVE FALSE
  <2>1. b * k >= b * (q + 1)
    BY <1>1, <1>3, SMT
  <2>2. b * (q + 1) = b * q + b
    BY <1>1, SMT
  <2> QED
    BY <1>1, <1>3, <2>1, <2>2
<1> QED
  BY <1>1, <1>2, <1>3 DEF q

\* The ThreadX time is a number of ticks, the last of which is not over.
LEMMA TxTimeBounds ==
  ASSUME now \in Nat
  PROVE  /\ TxTime \in Nat
         /\ TxTime * TickPeriod <= now
         /\ now < (TxTime + 1) * TickPeriod
<1> DEFINE q == now \div TickPeriod
           r == now % TickPeriod
<1>1. q \in Int /\ r \in Nat /\ now = TickPeriod * q + r /\ r < TickPeriod
  BY Constants, DivMod
<1>2. 0 <= q
  <2>1. TickPeriod * 0 <= now
    BY Constants
  <2> QED
    BY <2>1, Constants, QuotientBounds
<1> HIDE DEF q, r
<1>3. TickPeriod * q = q * TickPeriod /\ (q + 1) * TickPeriod = q * TickPeriod + TickPeriod
  BY <1>1, <1>2, Constants, SMT
<1>4. TxTime = q
  BY DEF TxTime, q
<1> QED
  BY <1>1, <1>2, <1>3, <1>4, Constants

\* Rounding a duration up to ticks does not shorten it.
LEMMA CeilDivBounds ==
  ASSUME NEW d \in Nat
  PROVE  CeilDiv(d, TickPeriod) \in Nat /\ d <= CeilDiv(d, TickPeriod) * TickPeriod
<1> DEFINE a == d + TickPeriod - 1
           q == a \div TickPeriod
           r == a % TickPeriod
<1>1. a \in Int /\ q \in Int /\ r \in Nat /\ a = TickPeriod * q + r /\ r < TickPeriod
  <2>1. a \in Int
    BY Constants
  <2> QED
    BY <2>1, Constants, DivMod
<1>2. 0 <= q
  <2>1. TickPeriod * 0 <= a
    BY Constants
  <2> QED
    BY <1>1, <2>1, Constants, QuotientBounds
<1>3. CeilDiv(d, TickPeriod) = q
  BY DEF CeilDiv
<1> HIDE DEF q, r
<1>4. TickPeriod * q = q * TickPeriod
  BY <1>1, <1>2, Constants, SMT
<1> QED
  BY <1>1, <1>2, <1>3, <1>4, Constants

\* steady_ticks returns the true number of ticks, as long as the counter wrapped at most
\* once since it was last sampled.
LEMMA SteadyTicksTrue ==
  ASSUME TypeOK, TickInv
  PROVE  /\ SteadyTicks = TxTime
         /\ SteadyTick \in [epoch : Nat, last : Nat]
         /\ SteadyTick.epoch + SteadyTick.last = TxTime
         /\ SteadyTick.last < TickModulus
         /\ \E turns \in 0 .. SteadyTick.epoch : SteadyTick.epoch = turns * TickModulus
<1> DEFINE N == TickModulus
           e == tick.epoch
           l == tick.last
           T == TxTime
           q == T \div N
           r == T % N
<1>1. PICK k \in 0 .. e : e = k * N
  BY DEF TickInv
<1>2. /\ N \in Nat /\ N > 0 /\ e \in Nat /\ l \in Nat /\ T \in Nat
      /\ l < N /\ e + l <= T /\ T < e + l + N
  <2>1. Lead \div TickPeriod \in Int
    BY Constants, DivMod
  <2>2. T \in Nat
    BY TxTimeBounds DEF TypeOK
  <2>3. (Lead \div TickPeriod) + ROLLOVER_SAMPLE_TICKS + MaxTimerDelay < TickModulus
    BY ClockAssumption
  <2> DEFINE x == Lead \div TickPeriod
  <2> HIDE DEF x, T
  <2>4. T <= sample_due + MaxTimerDelay /\ sample_due <= e + l + x + ROLLOVER_SAMPLE_TICKS /\ e + l <= T
    BY DEF TickInv, x, T
  <2> QED
    BY <2>1, <2>2, <2>3, <2>4, Constants DEF TypeOK, TickInv, x
<1>3. q \in Int /\ r \in Nat /\ T = N * q + r /\ r < N
  BY <1>2, DivMod
<1>4. SteadyTick = [epoch |-> IF r < l THEN e + N ELSE e, last |-> r] /\ SteadyTicks = SteadyTick.epoch + r
  BY DEF SteadyTick, SteadyTicks, ExtendTick
<1> HIDE DEF N, e, l, T, q, r
<1>5. q \in {k, k + 1}
  <2>1. k * N <= T /\ T < (k + 2) * N
    <3>1. (k + 2) * N = k * N + N + N
      BY <1>1, <1>2, SMT
    <3> QED
      BY <1>1, <1>2, <3>1
  <2>2. q < k + 2
    <3>1. ASSUME q >= k + 2 PROVE FALSE
      <4>1. q * N >= (k + 2) * N
        BY <1>1, <1>2, <1>3, <3>1, SMT
      <4>2. N * q = q * N
        BY <1>2, <1>3, SMT
      <4> DEFINE x == q * N
                 y == (k + 2) * N
      <4>3. x \in Int /\ y \in Int
        BY <1>1, <1>2, <1>3
      <4> HIDE DEF x, y
      <4> QED
        BY <1>2, <1>3, <2>1, <4>1, <4>2, <4>3 DEF x, y
    <3> QED
      BY <1>1, <1>2, <1>3, <3>1
  <2>3. q >= k
    <3>1. ASSUME k >= q + 1 PROVE FALSE
      <4>1. k * N >= (q + 1) * N
        BY <1>1, <1>2, <1>3, <3>1, SMT
      <4>2. (q + 1) * N = N * q + N
        BY <1>2, <1>3, SMT
      <4> QED
        BY <1>1, <1>2, <1>3, <2>1, <4>1, <4>2
    <3> QED
      BY <1>1, <1>2, <1>3, <3>1
  <2> QED
    BY <1>1, <1>2, <1>3, <2>2, <2>3
<1>6. N * k = k * N /\ N * (k + 1) = k * N + N /\ (k + 1) * N = k * N + N
  BY <1>1, <1>2, SMT
<1>7. IF r < l THEN T = e + N + r ELSE T = e + r
  BY <1>1, <1>2, <1>3, <1>5, <1>6
<1>8. \E turns \in 0 .. SteadyTick.epoch : SteadyTick.epoch = turns * N
  <2>1. CASE r < l
    <3>1. k \in Int /\ 0 <= k /\ k <= e
      BY <1>2
    <3>2. k + 1 \in 0 .. e + N
      BY <1>2, <3>1
    <3> QED
      BY <1>1, <1>2, <1>4, <1>6, <2>1, <3>2
  <2>2. CASE ~(r < l)
    BY <1>1, <1>2, <1>4, <2>2
  <2> QED
    BY <2>1, <2>2
<1>9. SteadyTick.last = r /\ SteadyTick.epoch = (IF r < l THEN e + N ELSE e)
      /\ SteadyTick \in [epoch : Nat, last : Nat]
  BY <1>2, <1>3, <1>4
<1> QED
  BY <1>2, <1>3, <1>4, <1>7, <1>8, <1>9 DEF N, T

-----------------------------------------------------------------------------
(* What one call keeps while others move *)

\* The clocks go on, and a hardware timer once reprogrammed or given up stays so.
GoesOn ==
  /\ now' >= now
  /\ last_system_time_nanoseconds' >= last_system_time_nanoseconds
  /\ epoch' = epoch
  /\ high_resolution_counter_available' => high_resolution_counter_available
  /\ timer'.version = 0 => timer' = timer

\* How far the clock may be ahead is a number that does not fall.
LEMMA AheadGrows ==
  ASSUME TypeOK, GoesOn
  PROVE  Ahead \in Nat /\ Ahead' \in Nat /\ Ahead <= Ahead' /\ Ahead' <= Lead
BY Constants DEF TypeOK, GoesOn, Ahead

\* What is known of a call that does nothing stays true.
LEMMA CallFrame ==
  ASSUME TypeOK, TypeOK', GoesOn, NEW l \in CallRecords, ReadOK(l), ResultOK(l)
  PROVE  ReadOK(l)' /\ ResultOK(l)'
<1>1. /\ now \in Nat /\ now' \in Nat /\ now <= now'
      /\ last_system_time_nanoseconds \in Int /\ last_system_time_nanoseconds' \in Int
      /\ l.began \in Nat /\ l.read \in Nat /\ l.candidate \in Int /\ l.previous \in Int /\ l.deadline \in Int
  BY DEF TypeOK, GoesOn, CallRecords
<1>2. /\ \A r : Ticked(l, r)' <=> Ticked(l, r)
      /\ \A r : Sampled(l, r)' <=> Sampled(l, r)
      /\ Started' = Started
  BY DEF Ticked, Sampled, Started, Coarse, GoesOn
<1>3. ReadOK(l)'
  <2>1. l.began <= now'
    BY <1>1 DEF ReadOK
  <2>2. l.pc \in {"version", "counter", "recheck", "elapsed"} => epoch'.available = 1
    BY DEF ReadOK, GoesOn
  <2>3. l.pc \in {"version", "counter"} => l.read <= now' /\ Ticked(l, l.read)'
    BY <1>1, <1>2 DEF ReadOK
  <2>4. \A r \in 0 .. now : r \in 0 .. now'
    BY <1>1
  <2>5. ASSUME l.pc = "recheck"
        PROVE  \E r \in 0 .. now' :
                 /\ Sampled(l, r)'
                 /\ timer'.version = 0 =>
                      timer'.origin + StartCounter <= r /\ l.counter = (r - timer'.origin) % Modulus
    BY <1>2, <2>4, <2>5 DEF ReadOK, GoesOn
  <2>6. ASSUME l.pc = "elapsed"
        PROVE  \E r \in 0 .. now', s \in Started' :
                 s <= r /\ Sampled(l, r)' /\ l.counter = (r - s + StartCounter) % Modulus
    BY <1>2, <2>4, <2>6 DEF ReadOK
  <2> QED
    BY <2>1, <2>2, <2>3, <2>5, <2>6 DEF ReadOK
<1>4. ResultOK(l)'
  BY <1>1, AheadGrows, Constants DEF ResultOK, GoesOn, Chunk, Earlier
<1> QED
  BY <1>3, <1>4

\* A step of one call keeps what is known of every call, if it does of its own.
LEMMA MoveStep ==
  ASSUME ClockInv, TypeOK', GoesOn,
         NEW t \in Threads, NEW r \in CallRecords, th' = [th EXCEPT ![t] = r],
         ReadOK(r)', ResultOK(r)'
  PROVE  \A u \in Threads : ReadOK(th[u])' /\ ResultOK(th[u])'
<1> SUFFICES ASSUME NEW u \in Threads PROVE ReadOK(th[u])' /\ ResultOK(th[u])'
  OBVIOUS
<1>1. CASE u = t
  <2>1. th'[u] = r
    BY <1>1 DEF ClockInv, TypeOK
  <2> QED
    BY <2>1 DEF ReadOK, ResultOK, Sampled, Ticked, Coarse
<1>2. CASE u # t
  <2>1. PICK l : l = th[u]
    OBVIOUS
  <2>2. l \in CallRecords /\ ReadOK(l) /\ ResultOK(l)
    BY <2>1 DEF ClockInv, TypeOK
  <2>3. ReadOK(l)' /\ ResultOK(l)'
    BY <2>2, CallFrame DEF ClockInv
  <2>4. th'[u] = l
    BY <1>2, <2>1 DEF ClockInv, TypeOK
  <2> QED
    BY <2>3, <2>4 DEF ReadOK, ResultOK, Sampled, Ticked, Coarse
<1> QED
  BY <1>1, <1>2

\* A step of the clocks alone keeps what is known of every call.
LEMMA ClockStep ==
  ASSUME ClockInv, TypeOK', GoesOn, th' = th
  PROVE  \A u \in Threads : ReadOK(th[u])' /\ ResultOK(th[u])'
<1> SUFFICES ASSUME NEW u \in Threads PROVE ReadOK(th[u])' /\ ResultOK(th[u])'
  OBVIOUS
<1>1. PICK l : l = th[u]
  OBVIOUS
<1>2. l \in CallRecords /\ ReadOK(l) /\ ResultOK(l)
  BY <1>1 DEF ClockInv, TypeOK
<1>3. ReadOK(l)' /\ ResultOK(l)'
  BY <1>2, CallFrame DEF ClockInv
<1>4. th'[u] = l
  BY <1>1
<1> QED
  BY <1>3, <1>4 DEF ReadOK, ResultOK, Sampled, Ticked, Coarse

\* A step that only changes the record of one call.
LEMMA OwnStep ==
  ASSUME ClockInv, UNCHANGED <<now, tick, sample_due, clockVars, epoch>>,
         NEW t \in Threads, NEW r \in CallRecords, th' = [th EXCEPT ![t] = r],
         ReadOK(r), ResultOK(r)
  PROVE  ClockInv'
<1>1. TypeOK' /\ GoesOn
  BY DEF ClockInv, TypeOK, GoesOn, clockVars
<1>2. ReadOK(r)' /\ ResultOK(r)'
  BY <1>1, CallFrame DEF ClockInv
<1>3. \A u \in Threads : ReadOK(th[u])' /\ ResultOK(th[u])'
  BY <1>1, <1>2, MoveStep
<1>4. TickInv' /\ TimerInv' /\ last_system_time_nanoseconds' <= now' + Ahead'
  BY DEF ClockInv, TickInv, TimerInv, TxTime, Ahead, Started, clockVars
<1> QED
  BY <1>1, <1>3, <1>4 DEF ClockInv

-----------------------------------------------------------------------------
(* The clocks *)

\* The record of a thread in no call.
LEMMA IdleOK ==
  ASSUME TypeOK
  PROVE  Idle \in CallRecords /\ Idle.began = 0 /\ ReadOK(Idle) /\ ResultOK(Idle)
BY DEF TypeOK, Idle, CallRecords, ReadOK, ResultOK

\* initialize leaves the clocks as the invariant has them.
LEMMA ClockInit == Init => ClockInv
<1> SUFFICES ASSUME Init PROVE ClockInv
  OBVIOUS
<1>0. \A rtc \in 0 .. Skew : \A s \in rtc .. Skew : s \in 0 .. Skew /\ rtc <= s
  BY Constants
<1>1. PICK phase \in 0 .. TickPeriod - 1, rtc \in 0 .. Skew, available \in {0, 1},
           counting \in BOOLEAN, started \in 0 .. Skew :
      /\ rtc <= started
      /\ now = phase + started
      /\ tick = [epoch |-> 0, last |-> 0]
      /\ sample_due = ((phase + started) \div TickPeriod) + ROLLOVER_SAMPLE_TICKS
      /\ timer = [version |-> 0, running |-> 1, frequency |-> 1,
                  origin |-> phase + started - StartCounter]
      /\ high_resolution_counter_available = counting
      /\ epoch = [available |-> available, version |-> 0, frequency |-> 1,
                  counter |-> StartCounter,
                  nanoseconds |-> IF available = 1 THEN phase + rtc ELSE 0]
      /\ last_system_time_nanoseconds = 0
      /\ th = [t \in Threads |-> Idle]
  BY <1>0, ZenonT(40) DEF Init
<1>2. now \in Nat /\ now <= Lead /\ phase + rtc <= now /\ now <= phase + rtc + Skew /\ phase + rtc \in 0 .. Lead
  BY <1>1, Constants DEF Lead
<1>3. TxTime \in Nat /\ sample_due = TxTime + ROLLOVER_SAMPLE_TICKS
  BY <1>1, <1>2, TxTimeBounds DEF TxTime
<1>4. TypeOK
  <2>1. Idle \in CallRecords
    BY DEF Idle, CallRecords
  <2> DEFINE n == IF available = 1 THEN phase + rtc ELSE 0
  <2>2. n \in 0 .. Lead
    BY <1>2, Constants
  <2>3. phase + started - StartCounter \in Int
    BY <1>1, <1>2, Constants
  <2>4. epoch \in [available : {0, 1}, version : {0}, frequency : {1}, counter : {StartCounter},
                   nanoseconds : 0 .. Lead]
    <3> HIDE DEF n
    <3> QED
      BY <1>1, <2>2 DEF n
  <2>5. timer \in [version : Nat, running : {0, 1}, origin : Int, frequency : {1, 2}]
    BY <1>1, <2>3
  <2> QED
    BY <1>1, <1>2, <1>3, <2>1, <2>4, <2>5, Constants DEF TypeOK
<1>5. TickInv
  <2> DEFINE x == Lead \div TickPeriod
             b == (Lead % TickPeriod)
  <2>1. x \in Int /\ TxTime <= x
    <3>1. x \in Int /\ Lead < TickPeriod * x + TickPeriod
      BY Constants, DivMod
    <3>2. now < TickPeriod * x + TickPeriod
      BY <1>2, <3>1, Constants
    <3> HIDE DEF x
    <3> QED
      BY <1>2, <3>1, <3>2, Constants, QuotientBounds DEF TxTime
  <2>2. tick.epoch = 0 /\ tick.last = 0
    BY <1>1
  <2> HIDE DEF x
  <2> QED
    BY <1>2, <1>3, <2>1, <2>2, Constants DEF TickInv, x
<1>6. TimerInv
  <2>1. timer.origin + StartCounter = now /\ timer.frequency = 1
    BY <1>1, <1>2, Constants
  <2>2. epoch.available = 1 => epoch.nanoseconds = phase + rtc
    BY <1>1
  <2>3. now \in 0 .. Lead
    BY <1>2, Constants
  <2> QED
    BY <1>2, <2>1, <2>2, <2>3, Constants DEF TimerInv, Started
<1>7. last_system_time_nanoseconds <= now + Ahead
  BY <1>1, <1>2, Constants DEF Ahead
<1>8. \A t \in Threads : th[t] = Idle
  BY <1>1
<1> QED
  BY <1>4, <1>5, <1>6, <1>7, <1>8, IdleOK DEF ClockInv

\* A sample of the ticks brings the extended counter up to date.
LEMMA TickSampled ==
  ASSUME ClockInv, tick' = SteadyTick, now' = now,
         \/ sample_due' = sample_due
         \/ TxTime >= sample_due /\ sample_due' = sample_due + ROLLOVER_SAMPLE_TICKS
  PROVE  tick' \in [epoch : Nat, last : Nat] /\ sample_due' \in Nat /\ TickInv'
<1> DEFINE x == Lead \div TickPeriod
<1>1. /\ tick' \in [epoch : Nat, last : Nat]
      /\ tick'.epoch + tick'.last = TxTime /\ tick'.last < TickModulus
      /\ \E turns \in 0 .. tick'.epoch : tick'.epoch = turns * TickModulus
  BY SteadyTicksTrue DEF ClockInv
<1>2. TxTime \in Nat /\ TxTime' = TxTime
  BY TxTimeBounds DEF ClockInv, TypeOK, TxTime
<1>3. x \in Nat
  <2>1. TickPeriod * 0 <= Lead
    BY Constants
  <2> QED
    BY <2>1, Constants, DivMod, QuotientBounds
<1> HIDE DEF x
<1>4. /\ sample_due \in Nat /\ tick.epoch + tick.last <= TxTime /\ tick.epoch \in Nat /\ tick.last \in Nat
      /\ sample_due <= tick.epoch + tick.last + x + ROLLOVER_SAMPLE_TICKS
      /\ TxTime <= sample_due + MaxTimerDelay
  BY DEF ClockInv, TypeOK, TickInv, x
<1>5. /\ sample_due' \in Nat
      /\ sample_due' <= TxTime + x + ROLLOVER_SAMPLE_TICKS /\ TxTime <= sample_due' + MaxTimerDelay
  BY <1>2, <1>3, <1>4, Constants
<1>6. /\ tick'.epoch + tick'.last <= TxTime'
      /\ sample_due' <= tick'.epoch + tick'.last + x + ROLLOVER_SAMPLE_TICKS
      /\ TxTime' <= sample_due' + MaxTimerDelay
  BY <1>1, <1>2, <1>5
<1>7. TickInv'
  BY <1>1, <1>6, Zenon DEF TickInv, x
<1> QED
  BY <1>1, <1>5, <1>7

\* rollover_timer_entry.
LEMMA RolloverTimerKeeps == ASSUME ClockInv, RolloverTimer PROVE ClockInv'
<1>1. TypeOK' /\ TickInv' /\ GoesOn
  BY TickSampled DEF RolloverTimer, ClockInv, TypeOK, GoesOn, clockVars
<1>2. TimerInv' /\ last_system_time_nanoseconds' <= now' + Ahead'
  BY DEF RolloverTimer, ClockInv, TimerInv, Started, Ahead, clockVars
<1>3. \A u \in Threads : ReadOK(th[u])' /\ ResultOK(th[u])'
  BY <1>1, ClockStep DEF RolloverTimer
<1> QED
  BY <1>1, <1>2, <1>3 DEF ClockInv

\* Time goes on, as long as the timer thread is not late.
LEMMA TimeKeeps == ASSUME ClockInv, Time PROVE ClockInv'
<1>1. TypeOK' /\ GoesOn
  BY DEF Time, ClockInv, TypeOK, GoesOn, clockVars
<1>2. TickInv'
  <2>1. TxTime \in Nat /\ TxTime <= TxTime'
    <3>1. TxTime \in Nat /\ TxTime * TickPeriod <= now
      BY TxTimeBounds DEF ClockInv, TypeOK
    <3>2. TickPeriod * TxTime <= now + 1 /\ now + 1 \in Int
      <4>1. TickPeriod * TxTime = TxTime * TickPeriod
        BY <3>1, Constants, SMT
      <4> QED
        BY <3>1, <4>1, Constants DEF ClockInv, TypeOK
    <3>3. TxTime' = (now + 1) \div TickPeriod
      BY DEF Time, TxTime
    <3> DEFINE k == TxTime
    <3>4. k \in Int
      BY <3>1
    <3> HIDE DEF k
    <3>5. k <= (now + 1) \div TickPeriod
      BY <3>2, <3>4, Constants, QuotientBounds DEF k
    <3> QED
      BY <3>1, <3>3, <3>5 DEF k
  <2>2. TxTime' \in Nat /\ TxTime' <= sample_due + MaxTimerDelay
    BY <1>1, <2>1, Constants, DivMod DEF Time, TxTime, TypeOK
  <2> QED
    BY <2>1, <2>2 DEF Time, ClockInv, TypeOK, TickInv
<1>3. TimerInv' /\ last_system_time_nanoseconds' <= now' + Ahead'
  <2>1. TimerInv'
    BY Constants DEF Time, ClockInv, TypeOK, TimerInv, Started, clockVars
  <2>2. Ahead' = Ahead /\ Ahead \in Nat
    BY Constants DEF Time, Ahead, clockVars
  <2> QED
    BY <2>1, <2>2 DEF Time, ClockInv, TypeOK, clockVars
<1>4. \A u \in Threads : ReadOK(th[u])' /\ ResultOK(th[u])'
  BY <1>1, ClockStep DEF Time
<1> QED
  BY <1>1, <1>2, <1>3, <1>4 DEF ClockInv

\* Somebody changes the hardware timer, whose version then says so.
LEMMA ReprogramKeeps == ASSUME ClockInv, Reprogram PROVE ClockInv'
<1>1. /\ timer' \in [version : Nat, running : {0, 1}, origin : Int, frequency : {1, 2}]
      /\ timer'.version = timer.version + 1
  <2> DEFINE R == [version : Nat, running : {0, 1}, origin : Int, frequency : {1, 2}]
  <2>1. timer \in R
    BY DEF ClockInv, TypeOK
  <2>2. PICK changed \in {[timer EXCEPT !.running = 1 - @], [timer EXCEPT !.origin = now],
                          [timer EXCEPT !.frequency = 3 - @]} :
          timer' = [changed EXCEPT !.version = timer.version + 1]
    BY DEF Reprogram
  <2>3. changed \in R
    <3>1. [timer EXCEPT !.running = 1 - @] \in R
      BY <2>1
    <3>2. [timer EXCEPT !.origin = now] \in R
      BY <2>1 DEF ClockInv, TypeOK
    <3>3. [timer EXCEPT !.frequency = 3 - @] \in R
      BY <2>1
    <3> QED
      BY <2>2, <3>1, <3>2, <3>3
  <2> QED
    BY <2>1, <2>2, <2>3
<1>2. TypeOK' /\ GoesOn
  BY <1>1 DEF Reprogram, ClockInv, TypeOK, GoesOn
<1>3. TickInv' /\ TimerInv' /\ last_system_time_nanoseconds' <= now' + Ahead'
  BY <1>1 DEF Reprogram, ClockInv, TypeOK, TickInv, TimerInv, TxTime, Ahead
<1>4. \A u \in Threads : ReadOK(th[u])' /\ ResultOK(th[u])'
  BY <1>2, ClockStep DEF Reprogram
<1> QED
  BY <1>2, <1>3, <1>4 DEF ClockInv

-----------------------------------------------------------------------------
(* system_time_nanoseconds *)

\* The time by ticks alone is right up to Lead.
LEMMA CoarseBounds ==
  ASSUME TypeOK, NEW l \in CallRecords, NEW r \in Nat, Ticked(l, r)
  PROVE  /\ l.candidate <= r + Lead /\ l.candidate >= l.began - Lead
         /\ l.ticks * TickPeriod \in Int /\ l.ticks * TickPeriod <= r
         /\ r < l.ticks * TickPeriod + TickPeriod
         /\ l.candidate = epoch.nanoseconds + l.ticks * TickPeriod
<1> DEFINE c == l.ticks * TickPeriod
<1>1. l.ticks \in Nat /\ l.began \in Nat /\ epoch.nanoseconds \in Nat /\ epoch.nanoseconds <= Lead
  BY Constants DEF TypeOK, CallRecords
<1>2. c \in Int /\ (l.ticks + 1) * TickPeriod = c + TickPeriod
  BY <1>1, Constants, SMT
<1>3. c <= r /\ r < (l.ticks + 1) * TickPeriod /\ l.began <= r /\ l.candidate = epoch.nanoseconds + c
  BY DEF Ticked, Coarse
<1> HIDE DEF c
<1>4. r < c + TickPeriod
  BY <1>2, <1>3
<1> QED
  BY <1>1, <1>2, <1>3, <1>4, Constants DEF c

\* AskTime: nothing is read yet.
LEMMA AskTimeKeeps ==
  ASSUME ClockInv, NEW t \in Threads, NEW call \in {"now", "deadline"}, AskTime(t, call)
  PROVE  ClockInv'
<1> DEFINE b == IF call = "now" THEN now ELSE 0
<1>1. PICK r : r = [Idle EXCEPT !.pc = "ticks", !.call = call, !.began = b]
  OBVIOUS
<1>2. b \in Nat /\ b <= now /\ now \in Nat
  BY DEF ClockInv, TypeOK
<1>3. r \in CallRecords /\ r.pc = "ticks" /\ r.began = b
  <2>1. Idle \in CallRecords /\ call \in {"none", "now", "deadline", "wait", "sleep"}
    BY IdleOK DEF ClockInv
  <2> HIDE DEF b
  <2> QED
    BY <1>1, <1>2, <2>1 DEF CallRecords
<1>4. ReadOK(r) /\ ResultOK(r)
  BY <1>2, <1>3 DEF ReadOK, ResultOK
<1> QED
  BY <1>1, <1>3, <1>4, OwnStep DEF AskTime

\* steady_ticks, and what follows if the hardware timer is not asked.
LEMMA ReadTicksKeeps ==
  ASSUME ClockInv, NEW t \in Threads, ReadTicks(t)
  PROVE  ClockInv'
<1> DEFINE asked == epoch.available = 1 /\ high_resolution_counter_available
           c == Coarse(TxTime)
           f == last_system_time_nanoseconds
<1>1. PICK l : l = th[t]
  OBVIOUS
<1>2. l \in CallRecords /\ ReadOK(l) /\ l.pc = "ticks" /\ f \in Int
  BY <1>1 DEF ClockInv, TypeOK, ReadTicks
<1>3. SteadyTicks = TxTime /\ TxTime \in Nat /\ now \in Nat /\ TxTime * TickPeriod <= now
      /\ now < (TxTime + 1) * TickPeriod
  BY SteadyTicksTrue, TxTimeBounds DEF ClockInv, TypeOK
<1>4. PICK r : r = IF asked THEN [l EXCEPT !.candidate = c, !.floor = f, !.pc = "version",
                                          !.ticks = TxTime, !.read = now]
                   ELSE [l EXCEPT !.candidate = c, !.floor = f, !.pc = "publish"]
  OBVIOUS
<1>5. th' = [th EXCEPT ![t] = r]
  BY <1>1, <1>3, <1>4 DEF ReadTicks
<1>6. c \in Int
  <2>1. TxTime * TickPeriod \in Int
    BY <1>3, Constants
  <2> QED
    BY <2>1 DEF Coarse, ClockInv, TypeOK
<1>7. /\ r \in CallRecords /\ r.began = l.began /\ r.candidate = c
      /\ asked => r.pc = "version" /\ r.ticks = TxTime /\ r.read = now
      /\ ~asked => r.pc = "publish"
  <2> HIDE DEF c, f, asked
  <2>1. CASE asked
    BY <1>2, <1>3, <1>4, <1>6, <2>1 DEF CallRecords
  <2>2. CASE ~asked
    BY <1>2, <1>4, <1>6, <2>2 DEF CallRecords
  <2> QED
    BY <2>1, <2>2
<1>8. TypeOK' /\ TickInv' /\ GoesOn
  <2>1. tick' \in [epoch : Nat, last : Nat] /\ TickInv'
    BY TickSampled DEF ReadTicks
  <2>2. th' \in [Threads -> CallRecords]
    BY <1>5, <1>7 DEF ClockInv, TypeOK
  <2> QED
    BY <2>1, <2>2 DEF ClockInv, TypeOK, ReadTicks, GoesOn, clockVars
<1>9. l.began <= now /\ l.began \in Nat
  BY <1>2 DEF ReadOK, CallRecords
<1>10. ReadOK(r) /\ ResultOK(r)
  <2>1. CASE asked
    <3>1. Ticked(r, now)
      BY <1>3, <1>7, <1>9, <2>1 DEF Ticked
    <3> QED
      BY <1>3, <1>7, <1>9, <2>1, <3>1 DEF ReadOK, ResultOK
  <2>2. CASE ~asked
    <3> DEFINE x == [l EXCEPT !.candidate = c, !.ticks = TxTime]
    <3>1. x \in CallRecords /\ x.began = l.began /\ x.ticks = TxTime /\ x.candidate = c
      <4> HIDE DEF c
      <4> QED
        BY <1>2, <1>3, <1>6 DEF CallRecords
    <3>2. Ticked(x, now)
      BY <1>3, <1>9, <3>1 DEF Ticked
    <3> HIDE DEF x
    <3>3. PICK y : y = x
      OBVIOUS
    <3>4. y.candidate <= now + Lead /\ y.candidate >= y.began - Lead
      BY <1>3, <3>1, <3>2, <3>3, CoarseBounds DEF ClockInv
    <3>5. Ahead = Lead
      BY <2>2 DEF Ahead
    <3> QED
      BY <1>7, <1>9, <2>2, <3>1, <3>3, <3>4, <3>5 DEF ReadOK, ResultOK
  <2> QED
    BY <2>1, <2>2
<1>11. ReadOK(r)' /\ ResultOK(r)'
  BY <1>7, <1>8, <1>10, CallFrame DEF ClockInv
<1>12. \A u \in Threads : ReadOK(th[u])' /\ ResultOK(th[u])'
  BY <1>5, <1>7, <1>8, <1>11, MoveStep
<1>13. TimerInv' /\ last_system_time_nanoseconds' <= now' + Ahead'
  BY DEF ReadTicks, ClockInv, TimerInv, Started, Ahead, clockVars
<1> QED
  BY <1>8, <1>12, <1>13 DEF ClockInv

\* A call that gives the hardware timer up goes on with the coarse time.
LEMMA GiveUpKeeps ==
  ASSUME ClockInv, NEW t \in Threads, GiveUp(t), th[t].pc \in {"version", "recheck"},
         UNCHANGED <<now, tick, sample_due, timer, last_system_time_nanoseconds, epoch>>
  PROVE  ClockInv'
<1>1. PICK l : l = th[t]
  OBVIOUS
<1>2. l \in CallRecords /\ ReadOK(l) /\ l.pc \in {"version", "recheck"} /\ now \in Nat
  BY <1>1 DEF ClockInv, TypeOK
<1>3. PICK r : r = [l EXCEPT !.pc = "publish", !.ticks = 0, !.version = 0, !.counter = 0, !.read = 0]
  OBVIOUS
<1>4. r \in CallRecords /\ r.pc = "publish" /\ r.candidate = l.candidate /\ r.began = l.began
  BY <1>2, <1>3 DEF CallRecords
<1>5. th' = [th EXCEPT ![t] = r] /\ high_resolution_counter_available' = FALSE
  BY <1>1, <1>3 DEF GiveUp
<1>6. TypeOK' /\ GoesOn
  <2>1. th' \in [Threads -> CallRecords]
    BY <1>4, <1>5 DEF ClockInv, TypeOK
  <2>2. now' >= now /\ last_system_time_nanoseconds' >= last_system_time_nanoseconds
    BY DEF ClockInv, TypeOK
  <2> QED
    BY <1>5, <2>1, <2>2 DEF ClockInv, TypeOK, GoesOn
<1>7. l.candidate <= now + Lead /\ l.candidate >= l.began - Lead
  <2>1. PICK before \in 0 .. now : Ticked(l, before)
    <3>1. CASE l.pc = "version"
      <4>1. l.read \in 0 .. now
        BY <1>2, <3>1 DEF ReadOK, CallRecords
      <4> QED
        BY <1>2, <3>1, <4>1 DEF ReadOK
    <3>2. CASE l.pc = "recheck"
      <4>1. PICK x \in 0 .. now : Sampled(l, x)
        BY <1>2, <3>2 DEF ReadOK
      <4>2. PICK before \in 0 .. x : Ticked(l, before)
        BY <4>1 DEF Sampled
      <4>3. before \in 0 .. now
        BY <1>2, <4>1, <4>2
      <4> QED
        BY <4>2, <4>3
    <3> QED
      BY <1>2, <3>1, <3>2
  <2>2. l.candidate <= before + Lead /\ l.candidate >= l.began - Lead
    BY <1>2, <2>1, CoarseBounds DEF ClockInv
  <2> QED
    BY <1>2, <2>1, <2>2, Constants DEF CallRecords
<1>8. Ahead' = Lead
  BY <1>5 DEF Ahead
<1>9. ReadOK(r)' /\ ResultOK(r)'
  BY <1>2, <1>4, <1>7, <1>8 DEF ReadOK, ResultOK
<1>10. \A u \in Threads : ReadOK(th[u])' /\ ResultOK(th[u])'
  BY <1>4, <1>5, <1>6, <1>9, MoveStep
<1>11. TickInv' /\ TimerInv'
  BY DEF ClockInv, TickInv, TimerInv, TxTime, Started
<1>12. last_system_time_nanoseconds' <= now' + Ahead'
  BY <1>6, AheadGrows DEF ClockInv, TypeOK
<1> QED
  BY <1>6, <1>10, <1>11, <1>12 DEF ClockInv

\* The version is read, or the timer is found stopped.
LEMMA ReadVersionKeeps ==
  ASSUME ClockInv, NEW t \in Threads, ReadVersion(t)
  PROVE  ClockInv'
<1>1. CASE timer.running = 0 /\ GiveUp(t)
  BY <1>1, GiveUpKeeps DEF ReadVersion
<1>2. CASE /\ th' = [th EXCEPT ![t] = [@ EXCEPT !.version = timer.version, !.pc = "counter"]]
           /\ UNCHANGED high_resolution_counter_available
  <2>1. PICK l : l = th[t]
    OBVIOUS
  <2>2. l \in CallRecords /\ ReadOK(l) /\ l.pc = "version" /\ timer.version \in Nat
    BY <2>1 DEF ClockInv, TypeOK, ReadVersion
  <2>3. PICK r : r = [l EXCEPT !.version = timer.version, !.pc = "counter"]
    OBVIOUS
  <2>4. /\ r \in CallRecords /\ r.pc = "counter" /\ r.candidate = l.candidate /\ r.began = l.began
        /\ r.read = l.read /\ r.ticks = l.ticks
    BY <2>2, <2>3 DEF CallRecords
  <2>5. ReadOK(r) /\ ResultOK(r)
    BY <2>2, <2>4 DEF ReadOK, ResultOK, Ticked
  <2>6. UNCHANGED <<now, tick, sample_due, clockVars, epoch>>
    BY <1>2 DEF ReadVersion, clockVars
  <2>7. th' = [th EXCEPT ![t] = r]
    BY <1>2, <2>1, <2>3
  <2> QED
    BY <2>4, <2>5, <2>6, <2>7, OwnStep
<1> QED
  BY <1>1, <1>2 DEF ReadVersion

\* The counter is read: of the epoch's timer, if the version still says so.
LEMMA ReadCounterKeeps ==
  ASSUME ClockInv, NEW t \in Threads, ReadCounter(t)
  PROVE  ClockInv'
<1>1. PICK l : l = th[t]
  OBVIOUS
<1>2. l \in CallRecords /\ ReadOK(l) /\ l.pc = "counter" /\ now \in Nat
  BY <1>1 DEF ClockInv, TypeOK, ReadCounter
<1>3. l.read \in 0 .. now /\ Ticked(l, l.read) /\ epoch.available = 1
  BY <1>2 DEF ReadOK, CallRecords
<1>4. Counter \in Nat /\ (timer.version = 0 => Counter = (now - timer.origin) % Modulus)
  <2> DEFINE a == (now - timer.origin) * timer.frequency
  <2>1. timer.frequency \in {1, 2} /\ timer.origin \in Int
    BY DEF ClockInv, TypeOK
  <2>2. a \in Int /\ (timer.version = 0 => a = now - timer.origin)
    BY <1>2, <2>1 DEF ClockInv, TimerInv
  <2>3. Counter = a % Modulus
    BY DEF Counter
  <2> HIDE DEF a
  <2> QED
    BY <2>2, <2>3, Constants, DivMod
<1>5. Earlier(now - l.read, Modulus) \in Nat
  BY <1>2, <1>3, Constants DEF Earlier
<1>6. PICK r : r = [l EXCEPT !.counter = Counter, !.read = Earlier(now - l.read, Modulus), !.pc = "recheck"]
  OBVIOUS
<1>7. /\ r \in CallRecords /\ r.pc = "recheck" /\ r.candidate = l.candidate /\ r.began = l.began
      /\ r.read = Earlier(now - l.read, Modulus) /\ r.ticks = l.ticks /\ r.counter = Counter
  <2> DEFINE c == Counter
             e == Earlier(now - l.read, Modulus)
  <2> HIDE DEF c, e
  <2>1. r = [l EXCEPT !.counter = c, !.read = e, !.pc = "recheck"] /\ c \in Nat /\ e \in Nat
    BY <1>4, <1>5, <1>6 DEF c, e
  <2>2. /\ r \in CallRecords /\ r.pc = "recheck" /\ r.candidate = l.candidate /\ r.began = l.began
        /\ r.read = e /\ r.ticks = l.ticks /\ r.counter = c
    BY <1>2, <2>1 DEF CallRecords
  <2> QED
    BY <2>2 DEF c, e
<1>8. Sampled(r, now)
  <2>1. Ticked(r, l.read)
    BY <1>3, <1>7 DEF Ticked
  <2> QED
    BY <1>3, <1>7, <2>1 DEF Sampled
<1>9. ReadOK(r) /\ ResultOK(r)
  <2>1. now \in 0 .. now /\ r.began <= now
    BY <1>2, <1>7 DEF ReadOK
  <2>2. timer.version = 0 => timer.origin + StartCounter <= now /\ r.counter = (now - timer.origin) % Modulus
    BY <1>4, <1>7 DEF ClockInv, TimerInv
  <2> QED
    BY <1>3, <1>7, <1>8, <2>1, <2>2 DEF ReadOK, ResultOK
<1>10. th' = [th EXCEPT ![t] = r] /\ UNCHANGED <<now, tick, sample_due, clockVars, epoch>>
  BY <1>1, <1>6 DEF ReadCounter
<1> QED
  BY <1>7, <1>9, <1>10, OwnStep

\* The sample is taken only if it is of the timer as initialize left it.
LEMMA RecheckKeeps ==
  ASSUME ClockInv, NEW t \in Threads, Recheck(t)
  PROVE  ClockInv'
<1>1. CASE ~Consistent(t) /\ GiveUp(t)
  BY <1>1, GiveUpKeeps DEF Recheck
<1>2. CASE /\ Consistent(t)
           /\ th' = [th EXCEPT ![t] = [@ EXCEPT !.pc = "elapsed"]]
           /\ UNCHANGED high_resolution_counter_available
  <2>1. PICK l : l = th[t]
    OBVIOUS
  <2>2. l \in CallRecords /\ ReadOK(l) /\ l.pc = "recheck" /\ timer.version = 0 /\ epoch.available = 1
    BY <1>2, <2>1 DEF ClockInv, TypeOK, Recheck, Consistent, ReadOK
  <2>3. PICK r : r = [l EXCEPT !.pc = "elapsed"]
    OBVIOUS
  <2>4. /\ r \in CallRecords /\ r.pc = "elapsed" /\ r.candidate = l.candidate /\ r.began = l.began
        /\ r.read = l.read /\ r.ticks = l.ticks /\ r.counter = l.counter
    BY <2>2, <2>3 DEF CallRecords
  <2>5. PICK x \in 0 .. now : /\ Sampled(l, x) /\ timer.origin + StartCounter <= x
                              /\ l.counter = (x - timer.origin) % Modulus
    BY <2>2 DEF ReadOK
  <2>6. PICK s \in Started : s = timer.origin + StartCounter
    BY <2>2 DEF ClockInv, TimerInv
  <2>7. timer.origin \in Int /\ x \in Int /\ x - s + StartCounter = x - timer.origin
    BY <2>5, <2>6, Constants DEF ClockInv, TypeOK
  <2>8. Sampled(r, x)
    BY <2>4, <2>5 DEF Sampled, Ticked
  <2>9. ReadOK(r) /\ ResultOK(r)
    <3>1. s <= x /\ r.counter = (x - s + StartCounter) % Modulus
      BY <2>4, <2>5, <2>6, <2>7
    <3>2. r.began <= now
      BY <2>2, <2>4 DEF ReadOK
    <3> QED
      BY <2>2, <2>4, <2>6, <2>8, <3>1, <3>2 DEF ReadOK, ResultOK
  <2>10. UNCHANGED <<now, tick, sample_due, clockVars, epoch>>
    BY <1>2 DEF Recheck, clockVars
  <2>11. th' = [th EXCEPT ![t] = r]
    BY <1>2, <2>1, <2>3
  <2> QED
    BY <2>4, <2>9, <2>10, <2>11, OwnStep
<1> QED
  BY <1>1, <1>2 DEF Recheck

\* high_resolution_elapsed_nanoseconds: c is the coarse time since the epoch, s the time of
\* the epoch, r the time of the sample, m its distance from the epoch, less k turns, and w
\* the turns it is given.
Sample(c, r, s, k, m, w) ==
  /\ c \in Int /\ r \in Int /\ s \in Int /\ k \in Int /\ m \in Int
  /\ m = r - s - k * Modulus /\ 0 <= m /\ m < Modulus
  /\ 0 <= s /\ s <= r /\ s <= Lead /\ c <= r
  /\ w = (2 * (c - m) + Modulus) \div (2 * Modulus)

\* The number of turns taken from c is k, or less if r is far from c.
LEMMA ElapsedBounds ==
  ASSUME NEW c, NEW r, NEW s, NEW k, NEW m, NEW w, Sample(c, r, s, k, m, w)
  PROVE  /\ w \in Int
         /\ m + w * Modulus <= r - s
         /\ 2 * (r - c) <= Modulus => m + w * Modulus = r - s
         /\ 2 * (m - c) > Modulus => c <= r - s
<1> DEFINE n == 2 * Modulus
           a == 2 * (c - m) + Modulus
           km == k * Modulus
           wm == w * Modulus
<1> USE DEF Sample
<1>1. n \in Nat /\ n > 0 /\ a \in Int /\ km \in Int
  BY Constants
<1>2. w \in Int /\ wm \in Int
  BY <1>1, Constants, DivMod
<1>3. n * k = 2 * km /\ w = a \div n
  BY Constants, SMT
<1> HIDE DEF n, a, km, wm
<1>4. a = 2 * km + 2 * (s - (r - c)) + Modulus
  BY <1>1, Constants DEF a, km
<1>5. w <= k
  <2>1. a < n * k + n
    BY <1>1, <1>3, <1>4, Constants DEF n
  <2> QED
    BY <1>1, <1>3, <2>1, QuotientBounds
<1>6. wm <= km
  BY <1>2, <1>5, Constants, SMT DEF wm, km
<1>7. 2 * (r - c) <= Modulus => wm = km
  <2> HAVE 2 * (r - c) <= Modulus
  <2>1. n * k <= a
    BY <1>1, <1>3, <1>4, Constants
  <2>2. w = k
    BY <1>1, <1>2, <1>3, <1>5, <2>1, QuotientBounds
  <2> QED
    BY <2>2 DEF wm, km
<1>8. km >= 0
  <2>1. ASSUME k < 0 PROVE FALSE
    <3>1. km <= - Modulus
      <4>1. k <= - 1
        BY <2>1
      <4>2. k * Modulus <= (- 1) * Modulus
        BY <4>1, Constants, SMT
      <4> QED
        BY <4>2, Constants DEF km
    <3> QED
      BY <1>1, <3>1, Constants DEF km
  <2>2. k >= 0 => k * Modulus >= 0
    BY Constants, SMT
  <2> QED
    BY <2>1, <2>2 DEF km
<1>9. m = r - s - km
  BY DEF km
<1>10. /\ m + wm <= r - s
       /\ 2 * (r - c) <= Modulus => m + wm = r - s
       /\ 2 * (m - c) > Modulus => c <= r - s
  BY <1>1, <1>2, <1>6, <1>7, <1>8, <1>9, Constants
<1> QED
  BY <1>2, <1>10 DEF wm

\* The time is computed from the sample: never more than the true time.
LEMMA ElapsedKeeps ==
  ASSUME ClockInv, NEW t \in Threads, Elapsed(t)
  PROVE  ClockInv'
<1>1. PICK l : l = th[t]
  OBVIOUS
<1>2. l \in CallRecords /\ ReadOK(l) /\ l.pc = "elapsed" /\ now \in Nat
  BY <1>1 DEF ClockInv, TypeOK, Elapsed
<1>3. PICK x \in 0 .. now, s \in Started :
        s <= x /\ Sampled(l, x) /\ l.counter = (x - s + StartCounter) % Modulus
  BY <1>2 DEF ReadOK
<1>4. PICK before \in 0 .. x : Ticked(l, before) /\ l.read = Earlier(x - before, Modulus)
  BY <1>3 DEF Sampled
<1> DEFINE c == l.ticks * TickPeriod
           m == (l.counter - StartCounter) % Modulus
           w == (2 * (c - m) + Modulus) \div (2 * Modulus)
           n == epoch.nanoseconds
           good == 2 * (m - c) <= Modulus
           result == IF good THEN n + m + w * Modulus ELSE l.candidate
<1>5. /\ x \in Nat /\ x <= now /\ before \in Nat /\ before <= x
      /\ s \in Nat /\ s <= Lead /\ n <= s /\ s <= n + Skew /\ n \in Nat
      /\ l.counter \in Nat /\ l.ticks \in Nat /\ l.candidate \in Int /\ l.read \in Nat /\ l.began \in Nat
  BY <1>2, <1>3, Constants DEF Started, CallRecords, ClockInv, TypeOK
<1>6. /\ c \in Int /\ c <= before /\ before < c + TickPeriod /\ l.candidate = n + c
      /\ l.candidate >= l.began - Lead /\ l.began <= before
  BY <1>2, <1>4, <1>5, CoarseBounds DEF ClockInv, Ticked
<1>7. m \in Nat /\ m < Modulus /\ \E k \in Int : m = x - s - k * Modulus
  <2> DEFINE a == x - s + StartCounter
             qa == a \div Modulus
             b == l.counter - StartCounter
             qb == b \div Modulus
  <2>1. a \in Int /\ qa \in Int /\ a = Modulus * qa + l.counter
    <3>1. a \in Int
      BY <1>5, Constants
    <3> QED
      BY <1>3, <3>1, Constants, DivMod
  <2>2. b \in Int /\ qb \in Int /\ b = Modulus * qb + m /\ m \in Nat /\ m < Modulus
    <3>1. b \in Int
      BY <1>5, Constants
    <3> QED
      BY <3>1, Constants, DivMod
  <2> HIDE DEF qa, qb, m
  <2>3. (qa + qb) * Modulus = Modulus * qa + Modulus * qb
    BY <2>1, <2>2, Constants, SMT
  <2> DEFINE pa == Modulus * qa
             pb == Modulus * qb
  <2>4. pa \in Int /\ pb \in Int
    BY <2>1, <2>2, Constants
  <2>5. a = pa + l.counter /\ b = pb + m /\ (qa + qb) * Modulus = pa + pb
    BY <2>1, <2>2, <2>3
  <2> HIDE DEF pa, pb
  <2>6. m = x - s - (pa + pb)
    BY <1>5, <2>2, <2>4, <2>5, Constants
  <2>7. m = x - s - (qa + qb) * Modulus /\ qa + qb \in Int
    BY <2>1, <2>2, <2>5, <2>6
  <2> QED
    BY <2>2, <2>7
<1> HIDE DEF m, c
<1>8. /\ w \in Int /\ w * Modulus \in Int
      /\ m + w * Modulus <= x - s
      /\ 2 * (x - c) <= Modulus => m + w * Modulus = x - s
      /\ 2 * (m - c) > Modulus => c <= x - s
  <2>1. PICK k \in Int : m = x - s - k * Modulus
    BY <1>7
  <2>2. /\ c \in Int /\ x \in Int /\ s \in Int /\ m \in Int
        /\ c <= x /\ 0 <= m /\ m < Modulus /\ 0 <= s /\ s <= x /\ s <= Lead
    BY <1>3, <1>5, <1>6, <1>7
  <2>3. /\ w \in Int
        /\ m + w * Modulus <= x - s
        /\ 2 * (x - c) <= Modulus => m + w * Modulus = x - s
        /\ 2 * (m - c) > Modulus => c <= x - s
    <3>1. Sample(c, x, s, k, m, w)
      BY <2>1, <2>2 DEF Sample
    <3> HIDE DEF w
    <3> QED
      BY <3>1, ElapsedBounds, Zenon
  <2> QED
    BY <2>3, Constants
<1> DEFINE wm == w * Modulus
<1> HIDE DEF wm, w, n
<1>9. result \in Int /\ result <= x
  BY <1>5, <1>6, <1>7, <1>8, Constants DEF wm
<1>10. ASSUME 2 * (l.read + TickPeriod) <= Modulus PROVE result >= l.began - Lead
  <2>1. l.read = x - before
    BY <1>4, <1>5, <1>10, Constants DEF Earlier
  <2>2. 2 * (x - c) <= Modulus
    BY <1>5, <1>6, <1>10, <2>1, Constants
  <2>3. m + wm = x - s /\ m + wm \in Int
    BY <1>5, <1>8, <2>2 DEF wm
  <2>4. result = n + x - s \/ result = l.candidate
    BY <1>5, <1>7, <1>8, <2>3 DEF wm
  <2> QED
    BY <1>5, <1>6, <2>4, Constants
<1>11. th' = [th EXCEPT ![t] = [@ EXCEPT !.pc = "publish", !.ticks = 0, !.version = 0, !.counter = 0,
                                          !.candidate = result]]
  <2>1. Modular(t) = m /\ CoarseElapsed(t) = c /\ Wraps(t) = w
    <3>1. epoch.counter = StartCounter /\ epoch.frequency = 1
      BY DEF ClockInv, TypeOK
    <3>2. c * 1 = c
      BY <1>6
    <3>3. CoarseElapsed(t) = c
      BY <1>1, <3>1, <3>2 DEF CoarseElapsed, c
    <3>4. Modular(t) = m
      BY <1>1, <3>1 DEF Modular, m
    <3> QED
      BY <3>3, <3>4 DEF Wraps, w
  <2>2. Corroborated(t) = good
    BY <2>1 DEF Corroborated
  <2>3. (m + wm) \div epoch.frequency = m + wm
    <3>1. epoch.frequency = 1 /\ m + wm \in Int
      BY <1>7, <1>8 DEF ClockInv, TypeOK, wm
    <3> QED
      BY <3>1
  <2>4. n + (m + wm) = n + m + wm
    BY <1>5, <1>7, <1>8 DEF wm
  <2>5. (IF Corroborated(t)
         THEN epoch.nanoseconds + ((Modular(t) + Wraps(t) * Modulus) \div epoch.frequency)
         ELSE th[t].candidate) = result
    BY <1>1, <2>1, <2>2, <2>3, <2>4 DEF wm, n
  <2> QED
    BY <2>5 DEF Elapsed
<1> HIDE DEF result
<1>12. PICK r : r = [l EXCEPT !.pc = "publish", !.ticks = 0, !.version = 0, !.counter = 0, !.candidate = result]
  OBVIOUS
<1>13. /\ r \in CallRecords /\ r.pc = "publish" /\ r.candidate = result /\ r.began = l.began
       /\ r.read = l.read
  BY <1>2, <1>9, <1>12 DEF CallRecords
<1>14. ReadOK(r) /\ ResultOK(r)
  <2>1. r.began <= now
    BY <1>2, <1>13 DEF ReadOK
  <2>2. Ahead \in Nat
    BY Constants DEF Ahead
  <2>3. r.candidate <= now + Ahead
    BY <1>5, <1>9, <1>13, <2>2, <1>2
  <2> QED
    BY <1>10, <1>13, <2>1, <2>3 DEF ReadOK, ResultOK
<1>15. th' = [th EXCEPT ![t] = r] /\ UNCHANGED <<now, tick, sample_due, clockVars, epoch>>
  BY <1>1, <1>11, <1>12 DEF Elapsed
<1> QED
  BY <1>13, <1>14, <1>15, OwnStep

\* publish_system_time loads what was published last.
LEMMA PublishLoadKeeps ==
  ASSUME ClockInv, NEW t \in Threads, PublishLoad(t)
  PROVE  ClockInv'
<1>1. PICK l : l = th[t]
  OBVIOUS
<1>2. /\ l \in CallRecords /\ ReadOK(l) /\ ResultOK(l) /\ l.pc = "publish"
      /\ last_system_time_nanoseconds \in Int
  BY <1>1 DEF ClockInv, TypeOK, PublishLoad
<1>3. PICK r : r = [l EXCEPT !.previous = last_system_time_nanoseconds, !.pc = "exchange"]
  OBVIOUS
<1>4. /\ r \in CallRecords /\ r.pc = "exchange" /\ r.candidate = l.candidate /\ r.began = l.began
      /\ r.read = l.read /\ r.previous = last_system_time_nanoseconds
  BY <1>2, <1>3 DEF CallRecords
<1>5. ReadOK(r) /\ ResultOK(r)
  BY <1>2, <1>4 DEF ReadOK, ResultOK
<1>6. th' = [th EXCEPT ![t] = r] /\ UNCHANGED <<now, tick, sample_due, clockVars, epoch>>
  BY <1>1, <1>3 DEF PublishLoad
<1> QED
  BY <1>4, <1>5, <1>6, OwnStep

\* A round of publish_system_time: what is published only grows, and what a call returns
\* is published before.
LEMMA PublishExchangeKeeps ==
  ASSUME ClockInv, NEW t \in Threads, PublishExchange(t)
  PROVE  ClockInv'
<1> DEFINE last == last_system_time_nanoseconds
           newer == th[t].candidate > th[t].previous
           published == newer /\ Exchanged(t)
           retry == newer /\ ~published
<1>1. PICK l : l = th[t]
  OBVIOUS
<1>2. /\ l \in CallRecords /\ ReadOK(l) /\ ResultOK(l) /\ l.pc = "exchange"
      /\ last \in Int /\ now \in Nat /\ l.candidate \in Int /\ l.previous \in Int
      /\ last <= now + Ahead /\ Ahead \in Nat
  BY <1>1, Constants DEF ClockInv, TypeOK, PublishExchange, CallRecords, Ahead
<1>3. l.candidate <= now + Ahead /\ l.previous <= last
  BY <1>2 DEF ResultOK
<1>4. /\ last' = IF published THEN l.candidate ELSE last
      /\ th' = [th EXCEPT ![t] =
                  IF retry THEN [@ EXCEPT !.previous = last]
                  ELSE [@ EXCEPT !.candidate = Later(l.candidate, l.previous), !.pc = "known"]]
      /\ UNCHANGED <<now, tick, sample_due, timer, high_resolution_counter_available, epoch>>
  BY <1>1 DEF PublishExchange, Published
<1>5. PICK r : r = IF retry THEN [l EXCEPT !.previous = last]
                   ELSE [l EXCEPT !.candidate = Later(l.candidate, l.previous), !.pc = "known"]
  OBVIOUS
<1>6. th' = [th EXCEPT ![t] = r]
  BY <1>1, <1>4, <1>5
<1>7. /\ last' \in Int /\ last' >= last /\ last' <= now + Ahead
      /\ Later(l.candidate, l.previous) \in Int
      /\ Later(l.candidate, l.previous) >= l.candidate
      /\ Later(l.candidate, l.previous) <= now + Ahead
      /\ ~retry => Later(l.candidate, l.previous) <= last'
  BY <1>1, <1>2, <1>3, <1>4 DEF Later, Exchanged
<1>8. CASE retry
  <2>1. /\ r \in CallRecords /\ r.pc = "exchange" /\ r.candidate = l.candidate /\ r.began = l.began
        /\ r.read = l.read /\ r.previous = last
    BY <1>2, <1>5, <1>8 DEF CallRecords
  <2>2. ReadOK(r) /\ ResultOK(r)
    BY <1>2, <2>1 DEF ReadOK, ResultOK
  <2>3. last' = last
    BY <1>4, <1>8
  <2>4. UNCHANGED <<now, tick, sample_due, clockVars, epoch>>
    BY <1>4, <2>3 DEF clockVars
  <2> QED
    BY <1>6, <2>1, <2>2, <2>4, OwnStep
<1>9. CASE ~retry
  <2> DEFINE c == Later(l.candidate, l.previous)
  <2>1. /\ r \in CallRecords /\ r.pc = "known" /\ r.candidate = c /\ r.began = l.began
        /\ r.read = l.read
    <3> HIDE DEF c
    <3>1. r = [l EXCEPT !.candidate = c, !.pc = "known"] /\ c \in Int
      BY <1>5, <1>7, <1>9 DEF c
    <3> QED
      BY <1>2, <3>1 DEF CallRecords
  <2>2. TypeOK' /\ GoesOn
    <3>1. th' \in [Threads -> CallRecords]
      BY <1>6, <2>1 DEF ClockInv, TypeOK
    <3>2. now' >= now /\ last' >= last /\ last' \in Int
      BY <1>2, <1>4, <1>7
    <3> QED
      BY <1>4, <3>1, <3>2 DEF ClockInv, TypeOK, GoesOn
  <2>3. Ahead' = Ahead /\ now' = now
    BY <1>4 DEF Ahead
  <2>4. ReadOK(r)'
    BY <1>2, <2>1, <2>3 DEF ReadOK
  <2>5. ResultOK(r)'
    <3>1. 2 * (l.read + TickPeriod) <= Modulus => l.candidate >= l.began - Lead
      BY <1>2 DEF ResultOK
    <3>2. l.began \in Nat /\ c \in Int /\ c >= l.candidate /\ c <= now + Ahead /\ c <= last'
      BY <1>2, <1>7, <1>9 DEF CallRecords
    <3> HIDE DEF c
    <3>3. 2 * (r.read + TickPeriod) <= Modulus => r.candidate >= r.began - Lead
      BY <1>2, <2>1, <3>1, <3>2, Constants
    <3> QED
      BY <2>1, <2>3, <3>2, <3>3 DEF ResultOK
  <2>6. \A u \in Threads : ReadOK(th[u])' /\ ResultOK(th[u])'
    BY <1>6, <2>1, <2>2, <2>4, <2>5, MoveStep
  <2>7. TickInv' /\ TimerInv'
    BY <1>4 DEF ClockInv, TickInv, TimerInv, TxTime, Started
  <2> QED
    BY <1>7, <2>2, <2>3, <2>6, <2>7 DEF ClockInv
<1> QED
  BY <1>8, <1>9

-----------------------------------------------------------------------------
(* Users of the time *)

\* A call that returns leaves its thread in no call.
LEMMA ReturnKeeps ==
  ASSUME ClockInv, NEW t \in Threads, th' = [th EXCEPT ![t] = Idle],
         UNCHANGED <<now, tick, sample_due, clockVars, epoch>>
  PROVE  ClockInv'
<1>1. PICK r : r = Idle
  OBVIOUS
<1>2. r \in CallRecords /\ ReadOK(r) /\ ResultOK(r)
  BY <1>1, IdleOK DEF ClockInv
<1> QED
  BY <1>1, <1>2, OwnStep

\* A wait asks for the time, at first or again.
LEMMA AskAgain ==
  ASSUME ClockInv, NEW t \in Threads, NEW d \in Int,
         th' = [th EXCEPT ![t] = [Idle EXCEPT !.pc = "ticks", !.call = "wait", !.deadline = d]],
         UNCHANGED <<now, tick, sample_due, clockVars, epoch>>
  PROVE  ClockInv'
<1>1. PICK r : r = [Idle EXCEPT !.pc = "ticks", !.call = "wait", !.deadline = d]
  OBVIOUS
<1>2. r \in CallRecords /\ r.pc = "ticks" /\ r.began = 0
  BY <1>1, IdleOK DEF ClockInv, CallRecords
<1>3. ReadOK(r) /\ ResultOK(r)
  BY <1>2 DEF ReadOK, ResultOK, ClockInv, TypeOK
<1> QED
  BY <1>1, <1>2, <1>3, OwnStep

\* The deadline of a timed wait is made.
LEMMA MakeDeadlineKeeps ==
  ASSUME ClockInv, NEW t \in Threads, MakeDeadline(t)
  PROVE  ClockInv'
<1>1. PICK duration \in Durations :
        th' = [th EXCEPT ![t] = [Idle EXCEPT !.pc = "ticks", !.call = "wait",
                                   !.deadline = th[t].candidate + duration]]
  BY DEF MakeDeadline
<1>2. PICK d : d = th[t].candidate + duration
  OBVIOUS
<1>3. d \in Int
  BY <1>1, <1>2, Constants DEF ClockInv, TypeOK, CallRecords
<1> QED
  BY <1>1, <1>2, <1>3, AskAgain DEF MakeDeadline

\* deadline_wait_ticks: the deadline is over, or the thread blocks.
LEMMA WaitTicksKeeps ==
  ASSUME ClockInv, NEW t \in Threads, WaitTicks(t)
  PROVE  ClockInv'
<1>1. PICK l : l = th[t]
  OBVIOUS
<1>2. /\ l \in CallRecords /\ ReadOK(l) /\ ResultOK(l) /\ l.pc = "known" /\ l.call = "wait"
      /\ now \in Nat /\ l.candidate \in Int /\ l.deadline \in Int /\ Ahead \in Nat
      /\ UNCHANGED <<now, tick, sample_due, clockVars, epoch>>
  BY <1>1, Constants DEF ClockInv, TypeOK, WaitTicks, CallRecords, Ahead
<1>3. CASE l.deadline <= l.candidate
  <2>1. PICK r : r = [l EXCEPT !.pc = "timed_out"]
    OBVIOUS
  <2>2. /\ r \in CallRecords /\ r.pc = "timed_out" /\ r.call = "wait" /\ r.began = l.began
        /\ r.deadline = l.deadline
    BY <1>2, <2>1 DEF CallRecords
  <2>3. l.candidate <= now + Ahead /\ l.began <= now
    BY <1>2 DEF ReadOK, ResultOK
  <2>4. ReadOK(r) /\ ResultOK(r)
    BY <1>2, <1>3, <2>2, <2>3 DEF ReadOK, ResultOK
  <2>5. th' = [th EXCEPT ![t] = r]
    BY <1>1, <1>3, <2>1 DEF WaitTicks
  <2> QED
    BY <1>2, <2>2, <2>4, <2>5, OwnStep
<1>4. CASE ~(l.deadline <= l.candidate)
  <2> DEFINE d == l.deadline - l.candidate
             w == TxTime + duration_to_ticks(d)
  <2>1. w \in Nat
    <3>1. d \in Nat
      BY <1>2, <1>4
    <3>2. CeilDiv(d, TickPeriod) \in Nat /\ TxTime \in Nat
      BY <1>2, <3>1, CeilDivBounds, TxTimeBounds
    <3> QED
      BY <3>2, Constants DEF duration_to_ticks, Earlier
  <2>2. th' = [th EXCEPT ![t] = [Idle EXCEPT !.pc = "blocked", !.call = "wait",
                                   !.deadline = l.deadline, !.wake = w]]
    BY <1>1, <1>4 DEF WaitTicks
  <2> HIDE DEF w
  <2>3. PICK r : r = [Idle EXCEPT !.pc = "blocked", !.call = "wait", !.deadline = l.deadline, !.wake = w]
    OBVIOUS
  <2>4. r \in CallRecords /\ r.pc = "blocked" /\ r.call = "wait" /\ r.began = 0
    BY <1>2, <2>1, <2>3, IdleOK DEF ClockInv, CallRecords
  <2>5. ReadOK(r) /\ ResultOK(r)
    BY <1>2, <2>4 DEF ReadOK, ResultOK
  <2> QED
    BY <1>2, <2>2, <2>3, <2>4, <2>5, OwnStep
<1> QED
  BY <1>3, <1>4

\* A ThreadX timeout is checked against the clock.
LEMMA WaitEndsKeeps ==
  ASSUME ClockInv, NEW t \in Threads, WaitEnds(t)
  PROVE  ClockInv'
<1>1. PICK d : d = th[t].deadline
  OBVIOUS
<1>2. d \in Int
  BY <1>1 DEF ClockInv, TypeOK, CallRecords
<1> QED
  BY <1>1, <1>2, AskAgain DEF WaitEnds, AfterWait

\* What is left of a sleep after its next chunk.
LEMMA ChunkBounds ==
  ASSUME NEW n \in Nat
  PROVE  Chunk(n) \in Nat /\ Chunk(n) <= n
BY Constants DEF Chunk, Earlier

\* A sleep begins, inside a tick that does not count.
LEMMA SleepForKeeps ==
  ASSUME ClockInv, NEW t \in Threads, SleepFor(t)
  PROVE  ClockInv'
<1>1. PICK duration \in Durations \ {0} :
        th' = [th EXCEPT ![t] =
                [Idle EXCEPT !.pc = "blocked", !.call = "sleep",
                   !.deadline = now + duration, !.ticks = CeilDiv(duration, TickPeriod),
                   !.wake = TxTime + Chunk(CeilDiv(duration, TickPeriod)) + 1]]
  BY DEF SleepFor
<1> DEFINE n == CeilDiv(duration, TickPeriod)
           d == now + duration
           w == TxTime + Chunk(n) + 1
           x == TxTime
<1>2. /\ duration \in Nat /\ now \in Nat /\ n \in Nat /\ duration <= n * TickPeriod
      /\ x \in Nat /\ now < (x + 1) * TickPeriod
  BY <1>1, Constants, CeilDivBounds, TxTimeBounds DEF ClockInv, TypeOK
<1> HIDE DEF n
<1>3. Chunk(n) \in Nat /\ Chunk(n) <= n
  BY <1>2, ChunkBounds
<1>4. d \in Int /\ w \in Nat /\ w + n - Chunk(n) = x + 1 + n
  BY <1>2, <1>3
<1>5. d <= (w + n - Chunk(n)) * TickPeriod
  <2> HIDE DEF x
  <2>1. (x + 1 + n) * TickPeriod = (x + 1) * TickPeriod + n * TickPeriod
    BY <1>2, Constants, SMT
  <2> DEFINE a == (x + 1) * TickPeriod
             b == n * TickPeriod
  <2>2. a \in Int /\ b \in Int
    BY <1>2, Constants
  <2>3. duration <= b /\ now < a /\ (w + n - Chunk(n)) * TickPeriod = a + b
    BY <1>2, <1>4, <2>1
  <2> HIDE DEF a, b
  <2> QED
    BY <1>2, <2>2, <2>3
<1> HIDE DEF d, w
<1>6. PICK r : r = [Idle EXCEPT !.pc = "blocked", !.call = "sleep", !.deadline = d, !.ticks = n, !.wake = w]
  OBVIOUS
<1>7. /\ r \in CallRecords /\ r.pc = "blocked" /\ r.call = "sleep" /\ r.began = 0
      /\ r.deadline = d /\ r.ticks = n /\ r.wake = w
  BY <1>2, <1>4, <1>6, IdleOK DEF ClockInv, CallRecords
<1>8. ReadOK(r) /\ ResultOK(r)
  BY <1>2, <1>5, <1>7 DEF ReadOK, ResultOK
<1>9. th' = [th EXCEPT ![t] = r] /\ UNCHANGED <<now, tick, sample_due, clockVars, epoch>>
  BY <1>1, <1>6 DEF SleepFor, n, d, w
<1> QED
  BY <1>7, <1>8, <1>9, OwnStep

\* A chunk of a sleep is over; what is left still covers the duration.
LEMMA SleepChunkEndsKeeps ==
  ASSUME ClockInv, NEW t \in Threads, SleepChunkEnds(t)
  PROVE  ClockInv'
<1>1. PICK l : l = th[t]
  OBVIOUS
<1>2. /\ l \in CallRecords /\ ReadOK(l) /\ ResultOK(l) /\ l.pc = "blocked" /\ l.call = "sleep"
      /\ l.ticks \in Nat /\ l.wake \in Nat /\ l.deadline \in Int /\ now \in Nat
      /\ TxTime >= l.wake
  BY <1>1 DEF ClockInv, TypeOK, SleepChunkEnds, CallRecords
<1> DEFINE n == l.ticks - Chunk(l.ticks)
           p == IF n = 0 THEN "timed_out" ELSE "blocked"
           x == TxTime
           w == x + Chunk(n) + 1
<1>3. n \in Nat
  BY <1>2, ChunkBounds
<1>4. l.deadline <= (l.wake + n) * TickPeriod /\ l.began <= now
  <2>1. l.deadline <= (l.wake + l.ticks - Chunk(l.ticks)) * TickPeriod /\ l.began <= now
    BY <1>2 DEF ResultOK, ReadOK
  <2>2. Chunk(l.ticks) \in Nat
    BY <1>2, ChunkBounds
  <2>3. l.wake + l.ticks - Chunk(l.ticks) = l.wake + n
    BY <1>2, <2>2
  <2> QED
    BY <2>1, <2>3
<1>5. x \in Nat /\ x * TickPeriod <= now /\ Chunk(n) \in Nat /\ l.wake <= x
  BY <1>2, <1>3, ChunkBounds, TxTimeBounds
<1>6. th' = [th EXCEPT ![t] = [@ EXCEPT !.ticks = n, !.pc = p, !.wake = w]]
      /\ UNCHANGED <<now, tick, sample_due, clockVars, epoch>>
  BY <1>1 DEF SleepChunkEnds
<1> HIDE DEF n, x
<1>7. w \in Nat /\ w + n - Chunk(n) = x + 1 + n /\ p \in {"timed_out", "blocked"}
  BY <1>3, <1>5
<1> HIDE DEF w
<1>8. (l.wake + n) * TickPeriod <= (x + n) * TickPeriod /\ (x + n) * TickPeriod <= (x + 1 + n) * TickPeriod
  BY <1>2, <1>3, <1>5, Constants, SMT
<1>9. l.deadline <= (x + n) * TickPeriod /\ l.deadline <= (w + n - Chunk(n)) * TickPeriod
  <2> DEFINE a == (l.wake + n) * TickPeriod
             b == (x + n) * TickPeriod
             c == (x + 1 + n) * TickPeriod
  <2>1. a \in Int /\ b \in Int /\ c \in Int /\ a <= b /\ b <= c /\ l.deadline <= a
    BY <1>2, <1>3, <1>4, <1>5, <1>8, Constants
  <2> HIDE DEF a, b, c
  <2>2. l.deadline <= b /\ l.deadline <= c
    BY <1>2, <2>1
  <2> QED
    BY <1>7, <2>2 DEF b, c
<1>10. PICK r : r = [l EXCEPT !.ticks = n, !.pc = p, !.wake = w]
  OBVIOUS
<1>11. /\ r \in CallRecords /\ r.pc = p /\ r.call = "sleep" /\ r.began = l.began
       /\ r.deadline = l.deadline /\ r.ticks = n /\ r.wake = w
  <2> HIDE DEF p
  <2> QED
    BY <1>2, <1>3, <1>7, <1>10 DEF CallRecords
<1>12. ReadOK(r) /\ ResultOK(r)
  <2>1. CASE n = 0
    <3>1. x + n = x
      BY <1>5, <2>1
    <3>2. l.deadline <= x * TickPeriod /\ x * TickPeriod \in Int
      BY <1>5, <1>9, <3>1, Constants
    <3> DEFINE e == x * TickPeriod
    <3> HIDE DEF e
    <3>3. l.deadline <= now
      BY <1>2, <1>5, <3>2 DEF e
    <3> QED
      BY <1>2, <1>4, <1>11, <2>1, <3>3 DEF ReadOK, ResultOK
  <2>2. CASE n # 0
    BY <1>4, <1>9, <1>11, <2>2 DEF ReadOK, ResultOK
  <2> QED
    BY <2>1, <2>2
<1> QED
  BY <1>1, <1>6, <1>10, <1>11, <1>12, OwnStep

-----------------------------------------------------------------------------

\* Every step keeps the invariant.
LEMMA ClockNext == ClockInv /\ [Next]_vars => ClockInv'
<1> SUFFICES ASSUME ClockInv, [Next]_vars PROVE ClockInv'
  OBVIOUS
<1>1. CASE Time \/ RolloverTimer \/ Reprogram
  BY <1>1, TimeKeeps, RolloverTimerKeeps, ReprogramKeeps
<1>2. ASSUME NEW t \in Threads, SystemTime(t) PROVE ClockInv'
  BY <1>2, ReadTicksKeeps, ReadVersionKeeps, ReadCounterKeeps, RecheckKeeps, ElapsedKeeps,
     PublishLoadKeeps, PublishExchangeKeeps DEF SystemTime
<1>3. ASSUME NEW t \in Threads, Use(t) PROVE ClockInv'
  <2>1. CASE AskTime(t, "now") \/ AskTime(t, "deadline")
    BY <2>1, AskTimeKeeps
  <2>2. CASE NowReturns(t) \/ WaitSucceeds(t) \/ Returns(t)
    BY <2>2, ReturnKeeps DEF NowReturns, WaitSucceeds, Returns
  <2>3. CASE MakeDeadline(t) \/ WaitTicks(t) \/ WaitEnds(t)
    BY <2>3, MakeDeadlineKeeps, WaitTicksKeeps, WaitEndsKeeps
  <2>4. CASE SleepFor(t) \/ SleepChunkEnds(t)
    BY <2>4, SleepForKeeps, SleepChunkEndsKeeps
  <2> QED
    BY <1>3, <2>1, <2>2, <2>3, <2>4 DEF Use
<1>4. CASE UNCHANGED vars
  <2>1. TypeOK' /\ GoesOn
    BY <1>4 DEF vars, ClockInv, TypeOK, GoesOn
  <2>2. TickInv' /\ TimerInv' /\ last_system_time_nanoseconds' <= now' + Ahead'
    BY <1>4 DEF vars, ClockInv, TickInv, TimerInv, TxTime, Ahead, Started
  <2>3. \A u \in Threads : ReadOK(th[u])' /\ ResultOK(th[u])'
    BY <1>4, <2>1, ClockStep DEF vars
  <2> QED
    BY <2>1, <2>2, <2>3 DEF ClockInv
<1> QED
  BY <1>1, <1>2, <1>3, <1>4 DEF Next

\* For every tick period, width of the tick counter, lateness of the timer thread and turn of
\* the hardware timer that ClockAssumption allows, any number of threads and any programming
\* of the timer, the clocks keep the relation to the true time that ClockInv states.
THEOREM ClockInvariant == Spec => []ClockInv
<1> QED
  BY ClockInit, ClockNext, PTL DEF Spec

-----------------------------------------------------------------------------
(* The record *)

\* A record of calls in which that of t is replaced.
LEMMA FloorFrame ==
  ASSUME ClockInv, FloorInv, last_system_time_nanoseconds' >= last_system_time_nanoseconds,
         last_system_time_nanoseconds' \in Int,
         NEW t \in Threads, NEW r, th' = [th EXCEPT ![t] = r], FloorOK(r)'
  PROVE  FloorInv'
<1> SUFFICES ASSUME NEW u \in Threads PROVE FloorOK(th[u])'
  BY DEF FloorInv
<1>1. CASE u = t
  BY <1>1 DEF ClockInv, TypeOK, FloorOK
<1>2. CASE u # t
  <2>1. PICK l : l = th[u]
    OBVIOUS
  <2>2. l \in CallRecords /\ FloorOK(l) /\ th'[u] = l /\ last_system_time_nanoseconds \in Int
    BY <1>2, <2>1 DEF ClockInv, TypeOK, FloorInv
  <2> QED
    BY <2>2 DEF FloorOK, CallRecords
<1> QED
  BY <1>1, <1>2

\* A round of publish_system_time replaces the record by a later time or leaves it.
LEMMA RecordGrows ==
  ASSUME ClockInv, [Next]_vars
  PROVE  /\ last_system_time_nanoseconds \in Int /\ last_system_time_nanoseconds' \in Int
         /\ last_system_time_nanoseconds' >= last_system_time_nanoseconds
<1>1. last_system_time_nanoseconds \in Int /\ \A t \in Threads : th[t] \in CallRecords
  BY DEF ClockInv, TypeOK
<1>2. ASSUME NEW t \in Threads, PublishExchange(t)
      PROVE  /\ last_system_time_nanoseconds' \in Int
             /\ last_system_time_nanoseconds' >= last_system_time_nanoseconds
  <2>1. PICK l : l = th[t]
    OBVIOUS
  <2>2. l.candidate \in Int /\ l.previous \in Int
    BY <1>1, <2>1 DEF CallRecords
  <2> QED
    BY <1>1, <1>2, <2>1, <2>2 DEF PublishExchange, Exchanged
<1>3. ASSUME NEW t \in Threads, SystemTime(t), ~PublishExchange(t)
      PROVE  UNCHANGED last_system_time_nanoseconds
  BY <1>3 DEF SystemTime, ReadTicks, ReadVersion, ReadCounter, Recheck, Elapsed, PublishLoad,
              clockVars
<1>4. ASSUME NEW t \in Threads, Use(t) PROVE UNCHANGED last_system_time_nanoseconds
  BY <1>4 DEF Use, AskTime, NowReturns, MakeDeadline, WaitTicks, WaitEnds, WaitSucceeds, SleepFor,
              SleepChunkEnds, Returns, clockVars
<1>5. CASE Time \/ RolloverTimer \/ Reprogram \/ UNCHANGED vars
  BY <1>1, <1>5 DEF Time, RolloverTimer, Reprogram, vars, clockVars
<1> QED
  BY <1>1, <1>2, <1>3, <1>4, <1>5 DEF Next

\* A step of system_time_nanoseconds keeps its call above the record it found.
LEMMA SystemTimeFloor ==
  ASSUME ClockInv, FloorInv, NEW t \in Threads, SystemTime(t)
  PROVE  \E r : th' = [th EXCEPT ![t] = r] /\ FloorOK(r)'
<1> DEFINE last == last_system_time_nanoseconds
<1>1. PICK l : l = th[t]
  OBVIOUS
<1>2. /\ l \in CallRecords /\ FloorOK(l) /\ last \in Int
      /\ l.floor \in Int /\ l.candidate \in Int /\ l.previous \in Int
  BY <1>1 DEF ClockInv, TypeOK, FloorInv, CallRecords
<1>3. last' \in Int /\ last' >= last
  BY RecordGrows DEF Next
<1> HIDE DEF last
<1>4. CASE ReadTicks(t)
  <2>1. PICK r : /\ th' = [th EXCEPT ![t] = r]
                 /\ r.floor = last /\ r.pc \in {"version", "publish"}
    <3> DEFINE x == [l EXCEPT !.candidate = Coarse(SteadyTicks), !.floor = last]
               r == IF epoch.available = 1 /\ high_resolution_counter_available
                    THEN [x EXCEPT !.pc = "version", !.ticks = SteadyTicks, !.read = now]
                    ELSE [x EXCEPT !.pc = "publish"]
    <3>1. th' = [th EXCEPT ![t] = r]
      BY <1>1, <1>4 DEF ReadTicks, last
    <3>2. r.floor = last /\ r.pc \in {"version", "publish"}
      BY <1>2 DEF CallRecords
    <3> QED
      BY <3>1, <3>2
  <2> QED
    BY <1>2, <1>3, <2>1 DEF FloorOK, last
<1>5. CASE ReadVersion(t) \/ ReadCounter(t) \/ Recheck(t) \/ Elapsed(t)
  <2>1. l.floor <= last
    BY <1>1, <1>2, <1>5 DEF FloorOK, last, ReadVersion, ReadCounter, Recheck, Elapsed
  <2>2. PICK r : r = th'[t]
    OBVIOUS
  <2>3. th' = [th EXCEPT ![t] = r]
    BY <1>5, <2>2 DEF ReadVersion, GiveUp, ReadCounter, Recheck, Elapsed, ClockInv, TypeOK
  <2>4. r.floor = l.floor /\ r.pc \in {"counter", "recheck", "elapsed", "publish"}
    <3> USE <1>1, <1>2, <2>2 DEF ClockInv, TypeOK, CallRecords
    <3>1. CASE GiveUp(t)
      BY <3>1 DEF GiveUp
    <3>2. CASE ReadVersion(t) /\ ~GiveUp(t)
      <4>1. PICK v : v = timer.version
        OBVIOUS
      <4>2. th'[t] = [l EXCEPT !.version = v, !.pc = "counter"]
        BY <3>2, <4>1 DEF ReadVersion
      <4> QED
        BY <4>2
    <3>3. CASE ReadCounter(t)
      BY <3>3 DEF ReadCounter
    <3>4. CASE Recheck(t) /\ ~GiveUp(t)
      BY <3>4 DEF Recheck
    <3>5. CASE Elapsed(t)
      BY <3>5 DEF Elapsed
    <3> QED
      BY <1>5, <3>1, <3>2, <3>3, <3>4, <3>5
  <2>5. FloorOK(r)'
    BY <1>2, <1>3, <2>1, <2>4 DEF FloorOK, last
  <2> QED
    BY <2>3, <2>5
<1>6. CASE PublishLoad(t)
  <2>1. l.floor <= last
    BY <1>1, <1>2, <1>6 DEF FloorOK, last, PublishLoad
  <2>2. PICK r : r = [l EXCEPT !.previous = last, !.pc = "exchange"]
    OBVIOUS
  <2>3. r.floor = l.floor /\ r.previous = last /\ r.pc = "exchange"
    BY <1>2, <2>2 DEF CallRecords
  <2>4. th' = [th EXCEPT ![t] = r]
    BY <1>1, <1>6, <2>2 DEF PublishLoad, last
  <2>5. FloorOK(r)'
    BY <1>2, <1>3, <2>1, <2>3 DEF FloorOK, last
  <2> QED
    BY <2>4, <2>5
<1>7. CASE PublishExchange(t)
  <2>1. l.floor <= last /\ l.floor <= l.previous
    BY <1>1, <1>2, <1>7 DEF FloorOK, last, PublishExchange
  <2>2. PICK c : c = Later(l.candidate, l.previous)
    OBVIOUS
  <2>3. c \in Int /\ l.floor <= c
    BY <1>2, <2>1, <2>2 DEF Later
  <2>4. PICK r : /\ r \in {[l EXCEPT !.previous = last], [l EXCEPT !.candidate = c, !.pc = "known"]}
                 /\ th' = [th EXCEPT ![t] = r]
    BY <1>1, <1>7, <2>2 DEF PublishExchange, Published, last
  <2>5. \/ r.floor = l.floor /\ r.previous = last /\ r.pc = l.pc
        \/ r.floor = l.floor /\ r.candidate = c /\ r.pc = "known"
    BY <1>2, <2>4 DEF CallRecords
  <2>6. l.pc = "exchange"
    BY <1>1, <1>7 DEF PublishExchange
  <2>7. FloorOK(r)'
    BY <1>2, <1>3, <2>1, <2>3, <2>5, <2>6 DEF FloorOK, last
  <2> QED
    BY <2>4, <2>7
<1> QED
  BY <1>4, <1>5, <1>6, <1>7 DEF SystemTime

\* A thread that begins or ends a call, or is done with the time, has no floor to keep.
LEMMA UseFloor ==
  ASSUME ClockInv, NEW t \in Threads, Use(t)
  PROVE  \E r : th' = [th EXCEPT ![t] = r] /\ FloorOK(r)'
<1>1. PICK r : r = th'[t]
  OBVIOUS
<1>2. th' = [th EXCEPT ![t] = r]
  BY <1>1 DEF Use, AskTime, NowReturns, MakeDeadline, WaitTicks, WaitEnds, WaitSucceeds, SleepFor,
              SleepChunkEnds, Returns, ClockInv, TypeOK
<1>3. r.pc \in {"idle", "ticks", "blocked", "timed_out"}
  <2> USE <1>1 DEF ClockInv, TypeOK, CallRecords, Idle
  <2>1. ASSUME NEW call, AskTime(t, call) PROVE r.pc = "ticks"
    <3>1. PICK b : b = IF call = "now" THEN now ELSE 0
      OBVIOUS
    <3>2. th'[t] = [Idle EXCEPT !.pc = "ticks", !.call = call, !.began = b]
      BY <2>1, <3>1 DEF AskTime
    <3> QED
      BY <3>2
  <2>2. CASE NowReturns(t) \/ WaitSucceeds(t) \/ Returns(t)
    BY <2>2 DEF NowReturns, WaitSucceeds, Returns
  <2>3. CASE MakeDeadline(t) \/ WaitEnds(t)
    <3>1. \E d : th'[t] = [Idle EXCEPT !.pc = "ticks", !.call = "wait", !.deadline = d]
      <4> HIDE DEF CallRecords, Idle
      <4>1. CASE MakeDeadline(t)
        BY <4>1 DEF MakeDeadline
      <4>2. CASE WaitEnds(t)
        BY <4>2 DEF WaitEnds, AfterWait
      <4> QED
        BY <2>3, <4>1, <4>2
    <3> QED
      BY <3>1
  <2>4. CASE WaitTicks(t)
    BY <2>4 DEF WaitTicks
  <2>5. CASE SleepFor(t)
    BY <2>5 DEF SleepFor
  <2>6. CASE SleepChunkEnds(t)
    BY <2>6 DEF SleepChunkEnds
  <2> QED
    BY <2>1, <2>2, <2>3, <2>4, <2>5, <2>6 DEF Use
<1>4. FloorOK(r)'
  BY <1>3 DEF FloorOK
<1> QED
  BY <1>2, <1>4

\* Every step keeps every call above the record it found.
LEMMA FloorNext == ClockInv /\ FloorInv /\ [Next]_vars => FloorInv'
<1> SUFFICES ASSUME ClockInv, FloorInv, [Next]_vars PROVE FloorInv'
  OBVIOUS
<1>1. /\ last_system_time_nanoseconds \in Int /\ last_system_time_nanoseconds' \in Int
      /\ last_system_time_nanoseconds' >= last_system_time_nanoseconds
  BY RecordGrows
<1>2. ASSUME NEW t \in Threads, SystemTime(t) \/ Use(t) PROVE FloorInv'
  <2>1. PICK r : th' = [th EXCEPT ![t] = r] /\ FloorOK(r)'
    BY <1>2, SystemTimeFloor, UseFloor
  <2> QED
    BY <1>1, <2>1, FloorFrame
<1>3. CASE Time \/ RolloverTimer \/ Reprogram \/ UNCHANGED vars
  BY <1>3 DEF Time, RolloverTimer, Reprogram, vars, clockVars, FloorInv, FloorOK
<1> QED
  BY <1>2, <1>3 DEF Next

\* The record of system_clock never falls, whoever publishes (publish_system_time).
THEOREM RecordNeverFalls ==
  Spec => [][last_system_time_nanoseconds' >= last_system_time_nanoseconds]_vars
<1>1. ClockInv /\ [Next]_vars
        => [last_system_time_nanoseconds' >= last_system_time_nanoseconds]_vars
  BY RecordGrows
<1> QED
  BY <1>1, ClockInvariant, PTL DEF Spec

\* system_clock is ahead of the true time by a tick and the time initialize took at most,
\* and behind it by no more if the thread was not held up.  What a call returns is no less
\* than the record when it began, and on record before it returns: with RecordNeverFalls, no
\* call returns less than one that ended before it began (system_time_nanoseconds,
\* publish_system_time).
THEOREM ClockStaysTrue == Spec => []ClockIsTrue
<1>1. ClockInv /\ FloorInv => ClockIsTrue
  <2> SUFFICES ASSUME ClockInv, FloorInv PROVE ClockIsTrue
    OBVIOUS
  <2>1. DOMAIN th = Threads
    BY DEF ClockInv, TypeOK
  <2>2. last_system_time_nanoseconds <= now + Lead
    BY Constants DEF ClockInv, TypeOK, Ahead
  <2>3. \A t \in Threads : ResultOK(th[t]) /\ FloorOK(th[t])
    BY DEF ClockInv, FloorInv
  <2> QED
    BY <2>1, <2>2, <2>3 DEF ClockIsTrue, ResultOK, FloorOK
<1>2. Init => FloorInv
  <2> SUFFICES ASSUME Init, NEW t \in Threads PROVE FloorOK(th[t])
    BY DEF FloorInv
  <2>1. th[t] = Idle
    BY DEF Init
  <2> QED
    BY <2>1 DEF Idle, FloorOK
<1> QED
  BY <1>1, <1>2, FloorNext, ClockInvariant, PTL DEF Spec

\* No timed wait times out before its deadline and no sleep ends before its duration has
\* passed, up to the coarse clock's error where the hardware timer is not trusted
\* (wait_until, deadline_wait_ticks, sleep_for).
THEOREM TimeoutsAreNotEarly == Spec => []NoEarlyTimeout
<1>1. ClockInv => NoEarlyTimeout
  <2> SUFFICES ASSUME ClockInv PROVE NoEarlyTimeout
    OBVIOUS
  <2>1. DOMAIN th = Threads
    BY DEF ClockInv, TypeOK
  <2>2. \A t \in Threads : ResultOK(th[t])
    BY DEF ClockInv
  <2> QED
    BY <2>1, <2>2 DEF NoEarlyTimeout, ResultOK, Ahead
<1> QED
  BY <1>1, ClockInvariant, PTL
=============================================================================
