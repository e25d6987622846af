---------------------------- MODULE OracleProofs ----------------------------
(***************************************************************************)
(* Theorems about the price oracle, for any prices, periods, depth of the  *)
(* buffers and clock: it never gets stuck, misses no checkpoint, and every *)
(* average it returns is the average of the price the pool had.            *)
(***************************************************************************)
EXTENDS Oracle, TLAPS

USE PricesAssumption, ClockAssumption

Directions == {"aPerB", "bPerA"}

(* the price in one direction *)
Quote(f, price) == IF f = "aPerB" THEN price ELSE Inverse(price)

(* what rounding has lost of the integral of the price up to a time *)
Loss(f, value, time) == AreaAt(time)[f] - value[f] * NanosPerSecond

Digit == NanosPerSecond - 1

(* a value is behind the integral by at most a digit for each nanosecond *)
Tracks(f, value, time) == Loss(f, value, time) \in 0..(Digit * (time - began))

snap == accumulator.snapshot
Lag(f) == Loss(f, accumulator.twap, snap)

(* A value at an earlier time lost about as much as the accumulator: its   *)
(* own interpolation may have lost a digit more, and each of the snapshots *)
(* since then one too.                                                     *)
Trails(f, value, time) ==
  /\ time <= snap
  /\ Loss(f, value, time) <= Lag(f) + Digit
  /\ Lag(f) <= Loss(f, value, time) + Digit * (snap - time + 1)

(* the same for two values *)
Near(f, value, time, older, past) ==
  /\ Loss(f, older, past) <= Loss(f, value, time) + Digit
  /\ Loss(f, value, time) <= Loss(f, older, past) + Digit * (time - past + 1)

(* the time of the i-th value of a buffer whose newest is of `latest` *)
TimeOf(latest, step, i) == Nanos(latest - (i - 1) * step)

(* what a buffer holds of a period *)
Tracked(prices, latest, step) ==
  /\ prices \in Seq(Twap)
  /\ \A i \in 1..Len(prices), f \in Directions :
       /\ TimeOf(latest, step, i) \in began..now
       /\ Tracks(f, prices[i], TimeOf(latest, step, i))
  /\ \A i, j \in 1..Len(prices), f \in Directions :
       i < j => Near(f, prices[i], TimeOf(latest, step, i), prices[j], TimeOf(latest, step, j))

AreaKnown ==
  /\ area \in Seq(Twap)
  /\ Len(area) = now - began + 1
  /\ \A f \in Directions, time \in snap..now :
       AreaAt(time)[f] = AreaAt(snap)[f] + Quote(f, spot) * (time - snap)

(* a buffer is as long as its past, and its period began before the snapshot *)
Clocked(step) ==
  /\ updated[step] <= Seconds(snap) /\ Seconds(snap) < updated[step] + step
  /\ \E passed \in Nat : /\ updated[step] = Seconds(began) + passed * step
                         /\ Len(buffer[step]) = IF passed < BufferDepth THEN passed ELSE BufferDepth

Running ==
  /\ spot \in Prices /\ accumulator.lastPrice = spot
  /\ began <= snap
  /\ AreaKnown
  /\ \A f \in Directions : Tracks(f, accumulator.twap, snap)
  /\ \A step \in Periods :
       /\ Clocked(step)
       /\ Tracked(buffer[step], updated[step], step)
       /\ \A i \in 1..Len(buffer[step]), f \in Directions :
            Trails(f, buffer[step][i], TimeOf(updated[step], step, i))

OracleInv == TypeOK /\ (started => Running)

----------------------------------------------------------------------------
(* Arithmetic of seconds, nanoseconds and periods *)

LEMMA DivMultiple ==
  ASSUME NEW k \in Nat, NEW step \in Nat \ {0}
  PROVE  (k * step) \div step = k /\ k * step \in Nat
OBVIOUS

(* The quotient by a period, as a bound. *)
LEMMA Quotient ==
  ASSUME NEW x \in Nat, NEW step \in Nat \ {0}
  PROVE  /\ x \div step \in Nat
         /\ (x \div step) * step <= x
         /\ x < (x \div step) * step + step
<1> DEFINE q == x \div step
           r == x % step
<1>1. q \in Nat /\ r \in 0..(step - 1) /\ x = step * q + r
  OBVIOUS
<1> HIDE DEF q, r
<1>2. step * q = q * step /\ q * step \in Nat
  BY <1>1
<1>3. q \in Nat /\ q * step <= x /\ x < q * step + step
  BY <1>1, <1>2
<1> QED
  BY <1>3 DEF q

LEMMA Faster ==
  ASSUME NEW c \in Nat, NEW x \in Int, NEW y \in Int, x <= y
  PROVE  c * x <= c * y /\ c * x \in Int /\ c * y \in Int
<1>1. c * (y - x) \in Nat
  OBVIOUS
<1>2. c * (y - x) = c * y - c * x /\ c * x \in Int /\ c * y \in Int
  OBVIOUS
<1> QED
  BY <1>1, <1>2

LEMMA OneMore ==
  ASSUME NEW c \in Nat, NEW x \in Int
  PROVE  c * (x + 1) = c * x + c /\ c * x \in Int
OBVIOUS

LEMMA Shifted ==
  ASSUME NEW i \in Int, NEW k \in Int, NEW step \in Int
  PROVE  /\ (i - 1) * step = i * step - step /\ ((i - k) - 1) * step = (i * step - k * step) - step
         /\ i * step \in Int /\ k * step \in Int
OBVIOUS

LEMMA SecondsType ==
  ASSUME NEW nanos \in Nat
  PROVE  /\ Seconds(nanos) \in Nat
         /\ Nanos(Seconds(nanos)) <= nanos
         /\ nanos < Nanos(Seconds(nanos)) + NanosPerSecond
BY Quotient DEF Seconds, Nanos

LEMMA NanosFaster ==
  ASSUME NEW x \in Int, NEW y \in Int, x <= y
  PROVE  Nanos(x) <= Nanos(y) /\ Nanos(x) \in Int /\ Nanos(y) \in Int
<1>1. NanosPerSecond * x <= NanosPerSecond * y
  BY Faster
<1>2. NanosPerSecond * x = x * NanosPerSecond /\ NanosPerSecond * y = y * NanosPerSecond
  OBVIOUS
<1> QED
  BY <1>1, <1>2 DEF Nanos

(* A checkpoint after the second of a time is after the time. *)
LEMMA LaterSecond ==
  ASSUME NEW nanos \in Nat, NEW second \in Int, Seconds(nanos) < second
  PROVE  nanos < Nanos(second)
<1>1. Seconds(nanos) \in Nat /\ nanos < Nanos(Seconds(nanos)) + NanosPerSecond
  BY SecondsType
<1>2. Nanos(Seconds(nanos) + 1) <= Nanos(second)
  BY <1>1, NanosFaster
<1>3. Nanos(Seconds(nanos) + 1) = Nanos(Seconds(nanos)) + NanosPerSecond
  BY <1>1, OneMore DEF Nanos
<1>4. Nanos(second) \in Int /\ Nanos(Seconds(nanos)) \in Int
  BY <1>1 DEF Nanos
<1> QED
  BY <1>1, <1>2, <1>3, <1>4

(* A checkpoint up to the second of a time is not after the time. *)
LEMMA EarlierSecond ==
  ASSUME NEW nanos \in Nat, NEW second \in Int, second <= Seconds(nanos)
  PROVE  Nanos(second) <= nanos /\ Nanos(second) \in Int
<1>1. Seconds(nanos) \in Nat /\ Nanos(Seconds(nanos)) <= nanos
  BY SecondsType
<1>2. Nanos(second) <= Nanos(Seconds(nanos)) /\ Nanos(second) \in Int /\ Nanos(Seconds(nanos)) \in Int
  BY <1>1, NanosFaster
<1> QED
  BY <1>1, <1>2

LEMMA SecondsFaster ==
  ASSUME NEW x \in Nat, NEW y \in Nat, x <= y
  PROVE  Seconds(x) <= Seconds(y) /\ Seconds(x) \in Nat /\ Seconds(y) \in Nat
<1>1. Seconds(x) \in Nat /\ Seconds(y) \in Nat
  BY SecondsType
<1>2. ASSUME Seconds(y) < Seconds(x) PROVE FALSE
  <2>1. y < Nanos(Seconds(x))
    BY <1>1, <1>2, LaterSecond
  <2>2. Nanos(Seconds(x)) <= x /\ Nanos(Seconds(x)) \in Int
    BY <1>1, EarlierSecond
  <2> QED BY <2>1, <2>2
<1> QED
  BY <1>1, <1>2

----------------------------------------------------------------------------
(* Accumulated values *)

LEMMA QuoteType ==
  ASSUME NEW price \in Nat \ {0}
  PROVE  \A f \in Directions : Quote(f, price) \in Nat
<1>1. Scale \div price \in Nat
  OBVIOUS
<1> QED
  BY <1>1 DEF Quote, Inverse, Directions

LEMMA AccumulatedValue ==
  ASSUME NEW twap \in Twap, NEW price \in Nat \ {0}, NEW elapsed \in Nat,
         NEW v, v = AccumulateNanos(twap, price, elapsed)
  PROVE  /\ v \in Twap
         /\ \A f \in Directions :
              /\ v[f] = twap[f] + (Quote(f, price) * elapsed) \div NanosPerSecond
              /\ twap[f] \in Nat /\ v[f] \in Nat
<1>1. Quote("aPerB", price) = price /\ Quote("bPerA", price) = Inverse(price) /\ Inverse(price) \in Nat
  BY QuoteType DEF Quote, Directions
<1>2. \A q \in Nat : (q * elapsed) \div NanosPerSecond \in Nat
  <2> SUFFICES ASSUME NEW q \in Nat PROVE (q * elapsed) \div NanosPerSecond \in Nat
    OBVIOUS
  <2>1. q * elapsed \in Nat
    OBVIOUS
  <2> HIDE DEF Digit
  <2> QED BY <2>1, Quotient
<1>3. (price * elapsed) \div NanosPerSecond \in Nat /\ (Inverse(price) * elapsed) \div NanosPerSecond \in Nat
  BY <1>1, <1>2
<1>4. twap.aPerB \in Nat /\ twap.bPerA \in Nat
  BY DEF Twap
<1> QED
  BY <1>1, <1>3, <1>4 DEF AccumulateNanos, Twap, Directions

(* One interpolation loses less than a digit, and nothing when no time has *)
(* passed.                                                                 *)
LEMMA LessThanADigit ==
  ASSUME NEW q \in Nat, NEW elapsed \in Nat
  PROVE  LET exact == q * elapsed
             value == (q * elapsed) \div NanosPerSecond
         IN  /\ exact \in Nat /\ value \in Nat
             /\ exact - value * NanosPerSecond \in 0..Digit
             /\ elapsed = 0 => exact - value * NanosPerSecond = 0
<1> DEFINE x == q * elapsed
           v == x \div NanosPerSecond
<1>1. x \in Nat /\ (elapsed = 0 => x = 0)
  OBVIOUS
<1> HIDE DEF x
<1>2. v \in Nat /\ v * NanosPerSecond <= x /\ x < v * NanosPerSecond + NanosPerSecond
  BY <1>1, Quotient
<1>3. v * NanosPerSecond \in Nat
  BY <1>2
<1> HIDE DEF v
<1>4. x - v * NanosPerSecond \in 0..Digit
  BY <1>1, <1>2, <1>3 DEF Digit
<1>5. elapsed = 0 => x - v * NanosPerSecond = 0
  BY <1>1, <1>2, <1>3
<1> QED
  BY <1>1, <1>2, <1>4, <1>5 DEF x, v

LEMMA DigitType == Digit \in Nat
BY DEF Digit

LEMMA AreaType ==
  ASSUME OracleInv, started, NEW time \in began..now, NEW f \in Directions
  PROVE  AreaAt(time)[f] \in Nat
<1>1. began \in Nat /\ now \in Nat
  BY DEF OracleInv, TypeOK
<1>2. time - began + 1 \in 1..Len(area) /\ area \in Seq(Twap)
  BY <1>1 DEF OracleInv, Running, AreaKnown
<1>3. AreaAt(time) \in Twap
  BY <1>2 DEF AreaAt
<1> QED
  BY <1>3 DEF Twap, Directions

(* The accumulator and the clock while the oracle runs. *)
LEMMA RunningType ==
  ASSUME OracleInv, started
  PROVE  /\ began \in Nat /\ snap \in Nat /\ now \in Nat /\ began <= snap /\ snap <= now
         /\ accumulator.twap \in Twap /\ accumulator.lastPrice = spot
         /\ spot \in Prices /\ spot \in Nat \ {0}
         /\ \A f \in Directions : Lag(f) \in 0..(Digit * (snap - began)) /\ Lag(f) \in Int
<1>1. /\ began \in Nat /\ snap \in Nat /\ now \in Nat /\ began <= snap /\ snap <= now
      /\ accumulator.twap \in Twap /\ accumulator.lastPrice = spot
      /\ spot \in Prices /\ spot \in Nat \ {0}
  BY DEF OracleInv, TypeOK, Running, snap
<1>2. \A f \in Directions : Lag(f) \in 0..(Digit * (snap - began)) /\ Lag(f) \in Int
  BY DEF OracleInv, Running, Tracks, Lag
<1> QED
  BY <1>1, <1>2

(* What interpolating from the accumulator loses on top of its own lag.    *)
LEMMA Interpolated ==
  ASSUME OracleInv, started, NEW time \in snap..now, NEW f \in Directions, NEW v,
         v = AccumulateNanos(accumulator.twap, accumulator.lastPrice, time - snap)
  PROVE  /\ v \in Twap
         /\ Loss(f, v, time) \in Int
         /\ Lag(f) <= Loss(f, v, time) /\ Loss(f, v, time) <= Lag(f) + Digit
         /\ time = snap => Loss(f, v, time) = Lag(f)
         /\ Tracks(f, v, time)
         /\ v[f] \in Nat
<1> DEFINE e == time - snap
           q == Quote(f, spot)
           w == (q * e) \div NanosPerSecond
           t == accumulator.twap[f]
           A == AreaAt(snap)[f]
<1>1. /\ began \in Nat /\ snap \in Nat /\ now \in Nat /\ began <= snap /\ snap <= now
      /\ accumulator.twap \in Twap /\ accumulator.lastPrice = spot /\ spot \in Nat \ {0}
      /\ Lag(f) \in 0..(Digit * (snap - began)) /\ Lag(f) \in Int
  BY RunningType
<1>2. e \in Nat /\ time \in Nat /\ time \in began..now /\ snap \in began..now
  BY <1>1
<1>3. v \in Twap /\ v[f] = t + w /\ t \in Nat /\ v[f] \in Nat
  <2>1. v = AccumulateNanos(accumulator.twap, spot, e)
    BY <1>1
  <2>2. e \in Nat /\ spot \in Nat \ {0} /\ accumulator.twap \in Twap
    BY <1>1, <1>2
  <2> HIDE DEF e
  <2>3. /\ v \in Twap
        /\ \A g \in Directions :
             /\ v[g] = accumulator.twap[g] + (Quote(g, spot) * e) \div NanosPerSecond
             /\ accumulator.twap[g] \in Nat /\ v[g] \in Nat
    BY ONLY <2>1, <2>2, AccumulatedValue
  <2> QED BY ONLY <2>3, f \in Directions
<1>4. AreaAt(time)[f] = A + q * e /\ A \in Nat /\ q \in Nat
  BY <1>1, <1>2, AreaType, QuoteType DEF OracleInv, Running, AreaKnown
<1>5. /\ q * e \in Nat /\ w \in Nat
      /\ q * e - w * NanosPerSecond \in 0..Digit
      /\ e = 0 => q * e - w * NanosPerSecond = 0
  <2> HIDE DEF e, q
  <2> QED BY <1>2, <1>4, LessThanADigit
<1>6. Lag(f) = A - t * NanosPerSecond
  BY DEF Lag, Loss
<1>7. Loss(f, v, time) = Lag(f) + (q * e - w * NanosPerSecond)
  <2>1. Loss(f, v, time) = (A + q * e) - (t + w) * NanosPerSecond
    <3>1. Loss(f, v, time) = AreaAt(time)[f] - v[f] * NanosPerSecond
      BY DEF Loss
    <3> HIDE DEF A, t, w, q, e
    <3>2. v[f] * NanosPerSecond = (t + w) * NanosPerSecond
      BY <1>3
    <3>3. AreaAt(time)[f] = A + q * e
      BY <1>4
    <3> QED BY <3>1, <3>2, <3>3, Zenon
  <2>2. /\ (t + w) * NanosPerSecond = t * NanosPerSecond + w * NanosPerSecond
        /\ t * NanosPerSecond \in Nat /\ w * NanosPerSecond \in Nat
    <3> HIDE DEF t, w
    <3> QED BY <1>3, <1>5
  <2> HIDE DEF A, t, w, q, e
  <2> QED BY <1>4, <1>5, <1>6, <2>1, <2>2
<1>8. e = 0 <=> time = snap
  BY <1>1, <1>2
<1> HIDE DEF e, q, w, t, A
<1> DEFINE rem == q * e - w * NanosPerSecond
<1>9. rem \in 0..Digit /\ (time = snap => rem = 0) /\ Loss(f, v, time) = Lag(f) + rem
  BY <1>5, <1>7, <1>8
<1> HIDE DEF rem
<1>10. Digit \in Nat
  BY DigitType
<1>11. Loss(f, v, time) \in 0..(Digit * (time - began))
  <2>1. CASE time = snap
    BY <1>1, <1>9, <2>1
  <2>2. CASE time # snap
    <3>1. snap - began + 1 <= time - began /\ snap - began \in Int /\ time - began \in Int
      BY <1>1, <1>2, <2>2
    <3>2. Digit * (snap - began + 1) <= Digit * (time - began)
      BY <1>10, <3>1, Faster
    <3>3. Digit * (snap - began + 1) = Digit * (snap - began) + Digit /\ Digit * (snap - began) \in Int
      BY <1>10, <3>1, OneMore
    <3>4. Digit * (time - began) \in Int
      BY <1>10, <3>1
    <3> QED BY <1>1, <1>9, <1>10, <3>2, <3>3, <3>4
  <2> QED BY <2>1, <2>2
<1> QED
  BY <1>1, <1>3, <1>9, <1>10, <1>11 DEF Tracks

----------------------------------------------------------------------------
(* How far two losses may be apart *)

(* a value interpolated at `time` and one that trails the accumulator *)
LEMMA NearTrailing ==
  ASSUME NEW lag \in Int, NEW new \in Int, NEW old \in Int,
         NEW s \in Int, NEW time \in Int, NEW past \in Int, past <= s, s <= time,
         lag <= new, new <= lag + Digit, time = s => new = lag,
         old <= lag + Digit, lag <= old + Digit * (s - past + 1)
  PROVE  old <= new + Digit /\ new <= old + Digit * (time - past + 1)
<1>1. Digit \in Nat
  BY DigitType
<1>2. CASE time = s
  BY <1>1, <1>2
<1>3. CASE time # s
  <2>1. s - past + 1 + 1 <= time - past + 1 /\ s - past + 1 \in Int /\ time - past + 1 \in Int
    BY <1>3
  <2>2. Digit * (s - past + 1 + 1) <= Digit * (time - past + 1)
    BY <1>1, <2>1, Faster
  <2>3. Digit * (s - past + 1 + 1) = Digit * (s - past + 1) + Digit /\ Digit * (s - past + 1) \in Int
    BY <1>1, <2>1, OneMore
  <2>4. Digit * (time - past + 1) \in Int
    BY <1>1, <2>1
  <2> QED BY <1>1, <2>2, <2>3, <2>4
<1> QED
  BY <1>2, <1>3

(* a value that trailed the accumulator trails the one that follows it *)
LEMMA TrailsOn ==
  ASSUME NEW lag \in Int, NEW next \in Int, NEW old \in Int,
         NEW s \in Int, NEW time \in Int, NEW past \in Int, past <= s, s < time,
         lag <= next, next <= lag + Digit,
         old <= lag + Digit, lag <= old + Digit * (s - past + 1)
  PROVE  old <= next + Digit /\ next <= old + Digit * (time - past + 1)
<1>1. s <= time /\ (time = s => next = lag)
  OBVIOUS
<1> QED
  BY <1>1, NearTrailing

(* two values interpolated from the same accumulator *)
LEMMA NearInterpolated ==
  ASSUME NEW lag \in Int, NEW new \in Int, NEW old \in Int,
         NEW time \in Int, NEW past \in Int, past <= time,
         lag <= new, new <= lag + Digit, lag <= old, old <= lag + Digit
  PROVE  old <= new + Digit /\ new <= old + Digit * (time - past + 1)
<1>1. Digit \in Nat
  BY DigitType
<1>2. 1 <= time - past + 1 /\ time - past + 1 \in Int
  OBVIOUS
<1>3. Digit * 1 <= Digit * (time - past + 1) /\ Digit * 1 = Digit /\ Digit * (time - past + 1) \in Int
  BY <1>1, <1>2, Faster
<1> QED
  BY <1>1, <1>3


----------------------------------------------------------------------------
(* The checkpoints that are due *)

latest(step) == Checkpoint(updated[step], step)

(* how many checkpoints of a period have passed since the last update *)
Due(step) == (Seconds(now) - updated[step]) \div step

(* how many of them Prices::accumulate writes *)
WrittenOf(due) == IF due < BufferDepth THEN due ELSE BufferDepth

LEMMA ClockType ==
  ASSUME OracleInv, started, NEW step \in Periods
  PROVE  /\ step \in Nat \ {0} /\ updated[step] \in Nat
         /\ Seconds(snap) \in Nat /\ Seconds(now) \in Nat /\ Seconds(snap) <= Seconds(now)
         /\ updated[step] <= Seconds(snap) /\ Seconds(snap) < updated[step] + step
<1>1. snap \in Nat /\ now \in Nat /\ snap <= now
  BY RunningType
<1>2. Seconds(snap) \in Nat /\ Seconds(now) \in Nat /\ Seconds(snap) <= Seconds(now)
  BY <1>1, SecondsFaster
<1>3. updated[step] <= Seconds(snap) /\ Seconds(snap) < updated[step] + step
  BY DEF OracleInv, Running, Clocked
<1>4. updated[step] \in Nat
  <2>1. updated \in [Periods -> 0..Seconds(now)]
    BY DEF OracleInv, TypeOK
  <2> QED BY <1>2, <2>1
<1> QED
  BY <1>2, <1>3, <1>4

(* How many checkpoints are due and where the newest of them is. *)
LEMMA CheckpointsDue ==
  ASSUME OracleInv, started, NEW step \in Periods
  PROVE  /\ Due(step) \in Nat
         /\ latest(step) = updated[step] + Due(step) * step
         /\ latest(step) \in Nat
         /\ latest(step) <= Seconds(now) /\ Seconds(now) < latest(step) + step
         /\ (latest(step) - updated[step]) \div step = Due(step)
<1> DEFINE k == Due(step)
<1>1. /\ step \in Nat \ {0} /\ updated[step] \in Nat
      /\ Seconds(now) \in Nat /\ updated[step] <= Seconds(now)
  BY ClockType
<1>2. Seconds(now) - updated[step] \in Nat
  BY <1>1
<1>3. /\ k \in Nat /\ k * step <= Seconds(now) - updated[step]
      /\ Seconds(now) - updated[step] < k * step + step
  BY <1>1, <1>2, Quotient DEF Due
<1>4. latest(step) = updated[step] + k * step
  BY DEF latest, Checkpoint, Due
<1> HIDE DEF k
<1>5. (k * step) \div step = k /\ k * step \in Nat
  BY <1>1, <1>3, DivMultiple
<1>6. latest(step) - updated[step] = k * step
  BY <1>1, <1>4, <1>5
<1> QED
  BY <1>1, <1>3, <1>4, <1>5, <1>6 DEF k

(* Where Prices::accumulate starts to write and how much it writes. *)
LEMMA Writes ==
  ASSUME OracleInv, started, NEW step \in Periods,
         NEW first, first = FirstWritten(updated[step], latest(step), step),
         NEW written, written = (latest(step) - first) \div step
  PROVE  /\ written = WrittenOf(Due(step)) /\ written \in Nat
         /\ first \in Int /\ latest(step) = first + written * step
         /\ updated[step] <= first
<1> DEFINE k == Due(step)
           w == WrittenOf(k)
<1>1. /\ k \in Nat /\ latest(step) = updated[step] + k * step /\ latest(step) \in Nat
      /\ (latest(step) - updated[step]) \div step = k
      /\ step \in Nat \ {0} /\ updated[step] \in Nat
  BY CheckpointsDue, ClockType
<1>2. w \in Nat /\ w <= k
  BY <1>1 DEF WrittenOf
<1>3. (w * step) \div step = w /\ w * step \in Nat
  BY <1>1, <1>2, DivMultiple
<1>4. first = latest(step) - w * step
  <2>1. CASE k < BufferDepth
    BY <1>1, <2>1 DEF FirstWritten, WrittenOf
  <2>2. CASE ~(k < BufferDepth)
    <3>1. first = latest(step) - step * BufferDepth
      BY <1>1, <2>2 DEF FirstWritten
    <3>2. w = BufferDepth
      BY <2>2 DEF WrittenOf
    <3>3. step * BufferDepth = w * step
      BY <1>1, <3>2
    <3> QED BY <3>1, <3>3
  <2> QED BY <2>1, <2>2
<1>5. w * step <= k * step /\ k * step \in Int
  <2>1. step * w <= step * k /\ step * w = w * step /\ step * k = k * step
    BY <1>1, <1>2, Faster
  <2> QED BY <1>1, <2>1
<1> HIDE DEF k, w
<1>6. latest(step) - first = w * step /\ first \in Int
  BY <1>1, <1>3, <1>4
<1>7. written = w
  BY <1>3, <1>6
<1>8. written = WrittenOf(Due(step))
  BY <1>7 DEF w, k
<1>9. latest(step) = first + written * step /\ updated[step] <= first
  BY <1>1, <1>3, <1>4, <1>5, <1>6, <1>7
<1> QED
  BY <1>2, <1>6, <1>7, <1>8, <1>9

(* Every value that Prices::accumulate writes is of a time between the *)
(* snapshot and the present.                                           *)
LEMMA FreshTimes ==
  ASSUME OracleInv, started, NEW step \in Periods,
         NEW i \in 1..WrittenOf(Due(step))
  PROVE  /\ TimeOf(latest(step), step, i) \in snap..now
         /\ NewestFirst(FirstWritten(updated[step], latest(step), step),
                        WrittenOf(Due(step)), i, step) = latest(step) - (i - 1) * step
<1> DEFINE first == FirstWritten(updated[step], latest(step), step)
           w == WrittenOf(Due(step))
           second == latest(step) - (i - 1) * step
<1>1. /\ w \in Nat /\ first \in Int /\ latest(step) = first + w * step
      /\ updated[step] <= first
  BY Writes
<1>2. /\ step \in Nat \ {0} /\ updated[step] \in Nat /\ Seconds(snap) < updated[step] + step
      /\ Seconds(snap) \in Nat /\ latest(step) \in Nat /\ latest(step) <= Seconds(now)
      /\ snap \in Nat /\ now \in Nat /\ snap <= now /\ Seconds(now) \in Nat
  BY ClockType, CheckpointsDue, RunningType
<1> HIDE DEF first, w
<1>3. i \in 1..w
  BY DEF w
<1>4. (w - i + 1) * step >= step /\ (w - i + 1) * step \in Nat
  <2>1. w - i + 1 \in Nat /\ 1 <= w - i + 1
    BY <1>1, <1>3
  <2>2. step * 1 <= step * (w - i + 1)
    BY <1>2, <2>1, Faster
  <2>3. step * (w - i + 1) = (w - i + 1) * step /\ (w - i + 1) * step \in Nat
    BY <1>2, <2>1
  <2> QED BY <1>2, <2>2, <2>3
<1>5. (w - i + 1) * step = w * step - (i - 1) * step /\ w * step \in Nat /\ (i - 1) * step \in Nat
  <2>1. w \in Int /\ i \in Int /\ step \in Int /\ i - 1 \in Nat /\ w \in Nat
    BY <1>1, <1>2, <1>3
  <2> QED BY <1>2, <2>1
<1>6. second = first + (w - i + 1) * step
  BY <1>1, <1>2, <1>4, <1>5
<1>7. second \in Int /\ Seconds(snap) < second /\ second <= Seconds(now)
  BY <1>1, <1>2, <1>4, <1>5, <1>6
<1> HIDE DEF second
<1>8. snap < Nanos(second) /\ Nanos(second) <= now /\ Nanos(second) \in Int
  BY <1>2, <1>7, LaterSecond, EarlierSecond
<1>9. TimeOf(latest(step), step, i) = Nanos(second)
  BY DEF TimeOf, second
<1> QED
  BY <1>2, <1>6, <1>8, <1>9 DEF NewestFirst, first, w, second


(* Nothing is ever due before the snapshot. *)
LEMMA AlwaysInterpolable ==
  ASSUME OracleInv, started, NEW step \in Periods
  PROVE  Interpolable(step)
<1> DEFINE first == FirstWritten(updated[step], latest(step), step)
           w == WrittenOf(Due(step))
<1> SUFFICES ASSUME latest(step) # updated[step]
             PROVE  snap <= Nanos(first + step)
  BY DEF Interpolable, latest, snap
<1>1. /\ w \in Nat /\ first \in Int /\ latest(step) = first + w * step
      /\ Due(step) \in Nat /\ latest(step) = updated[step] + Due(step) * step
      /\ step \in Nat \ {0} /\ updated[step] \in Nat
  BY Writes, CheckpointsDue, ClockType
<1>2. Due(step) # 0
  <2> SUFFICES ASSUME Due(step) = 0 PROVE FALSE
    OBVIOUS
  <2>1. Due(step) * step = 0
    BY <1>1
  <2> QED BY <1>1, <2>1
<1>3. w \in 1..w
  BY <1>1, <1>2 DEF WrittenOf
<1>4. TimeOf(latest(step), step, w) \in snap..now
  BY <1>3, FreshTimes
<1> HIDE DEF first, w
<1>5. latest(step) - (w - 1) * step = first + step
  <2>1. (w - 1) * step = w * step - step /\ w * step \in Nat
    BY <1>1
  <2> QED BY <1>1, <2>1
<1>6. TimeOf(latest(step), step, w) = Nanos(first + step)
  BY <1>5 DEF TimeOf
<1> QED
  BY <1>4, <1>6

----------------------------------------------------------------------------
(* The buffers, brought up to the present *)

(* the value of the accumulator at a time, if the pool keeps its price *)
ValueAt(time) == AccumulateNanos(accumulator.twap, accumulator.lastPrice, time - snap)

LEMMA ValueType ==
  ASSUME OracleInv, started, NEW time \in snap..now
  PROVE  ValueAt(time) \in Twap
<1>1. "aPerB" \in Directions
  BY DEF Directions
<1> QED
  BY <1>1, Interpolated DEF ValueAt

(* Every value of a buffer that is up to date is interpolated or kept. *)
LEMMA PresentEntries ==
  ASSUME OracleInv, started, NEW step \in Periods,
         NEW new, new = Present(step)
  PROVE  /\ new \in Seq(Twap)
         /\ Len(new) = BufferLength(Len(buffer[step]), Due(step))
         /\ Len(new) \in Nat /\ Len(new) <= BufferDepth
         /\ \A i \in 1..Len(new) :
              \/ /\ i <= WrittenOf(Due(step))
                 /\ new[i] = ValueAt(TimeOf(latest(step), step, i))
                 /\ TimeOf(latest(step), step, i) \in snap..now
              \/ /\ ~(i <= WrittenOf(Due(step)))
                 /\ i - Due(step) \in 1..Len(buffer[step])
                 /\ new[i] = buffer[step][i - Due(step)]
                 /\ TimeOf(latest(step), step, i) = TimeOf(updated[step], step, i - Due(step))
<1> DEFINE k == Due(step)
           w == WrittenOf(k)
           old == buffer[step]
           L == BufferLength(Len(old), k)
           first == FirstWritten(updated[step], latest(step), step)
           written == (latest(step) - first) \div step
           fresh == (latest(step) - updated[step]) \div step
           elapsed(i) == Nanos(NewestFirst(first, written, i, step)) - accumulator.snapshot
           entry(i) == IF i <= written THEN AccumulateNanos(accumulator.twap, accumulator.lastPrice, elapsed(i))
                       ELSE old[i - fresh]
<1>1. new = [i \in 1..L |-> entry(i)]
  <2>1. fresh = k
    BY CheckpointsDue
  <2>2. new = [i \in 1..BufferLength(Len(old), fresh) |-> entry(i)]
    BY DEF Present, Accumulate, latest
  <2> QED BY <2>1, <2>2
<1>2. fresh = k /\ k \in Nat /\ latest(step) = updated[step] + k * step /\ latest(step) \in Nat
  BY CheckpointsDue
<1>3. written = w /\ w \in Nat
  BY Writes
<1>4. step \in Nat \ {0} /\ updated[step] \in Nat
  BY ClockType
<1>5. old \in Seq(Twap) /\ Len(old) \in Nat /\ Len(old) <= BufferDepth
  BY DEF OracleInv, TypeOK
<1>6. L \in Nat /\ L <= BufferDepth /\ L <= Len(old) + k
  BY <1>2, <1>5 DEF BufferLength
<1> HIDE DEF entry, L
<1>7. \A i \in 1..L : new[i] = entry(i)
  BY <1>1
<1>8. ASSUME NEW i \in 1..L
      PROVE  /\ new[i] \in Twap
             /\ \/ /\ i <= w
                   /\ new[i] = ValueAt(TimeOf(latest(step), step, i))
                   /\ TimeOf(latest(step), step, i) \in snap..now
                \/ /\ ~(i <= w)
                   /\ i - k \in 1..Len(old)
                   /\ new[i] = old[i - k]
                   /\ TimeOf(latest(step), step, i) = TimeOf(updated[step], step, i - k)
  <2>1. CASE i <= w
    <3>1. i \in 1..w
      BY <1>3, <1>6, <2>1
    <3>2. /\ TimeOf(latest(step), step, i) \in snap..now
          /\ NewestFirst(first, w, i, step) = latest(step) - (i - 1) * step
      BY <3>1, FreshTimes
    <3>3. NewestFirst(first, written, i, step) = latest(step) - (i - 1) * step
      BY <1>3, <3>2
    <3> HIDE DEF w, first, written
    <3>4. elapsed(i) = TimeOf(latest(step), step, i) - snap
      BY <3>3 DEF TimeOf, snap
    <3>5. entry(i) = ValueAt(TimeOf(latest(step), step, i))
      <4>1. i <= written
        BY <1>3, <2>1
      <4>2. entry(i) = AccumulateNanos(accumulator.twap, accumulator.lastPrice, elapsed(i))
        BY <4>1 DEF entry
      <4> HIDE DEF elapsed
      <4> QED BY <3>4, <4>2 DEF ValueAt
    <3>6. new[i] = ValueAt(TimeOf(latest(step), step, i))
      BY <1>7, <3>5
    <3>7. new[i] \in Twap
      BY <3>2, <3>6, ValueType
    <3> QED BY <2>1, <3>2, <3>6, <3>7
  <2>2. CASE ~(i <= w)
    <3>1. w = k
      BY <1>2, <1>6, <2>2 DEF WrittenOf
    <3> HIDE DEF w
    <3>2. i - k \in 1..Len(old)
      BY <1>2, <1>5, <1>6, <2>2, <3>1
    <3>3. new[i] = old[i - k]
      <4>1. ~(i <= written)
        BY <1>3, <2>2
      <4>2. entry(i) = old[i - fresh]
        BY <4>1 DEF entry
      <4> QED BY <1>2, <1>7, <4>2
    <3>4. new[i] \in Twap
      BY <1>5, <3>2, <3>3
    <3>5. latest(step) - (i - 1) * step = updated[step] - ((i - k) - 1) * step
      <4> HIDE DEF k
      <4>1. i \in Int /\ k \in Int /\ step \in Int
        BY <1>2, <1>4, <1>6
      <4>2. /\ (i - 1) * step = i * step - step /\ ((i - k) - 1) * step = (i * step - k * step) - step
            /\ i * step \in Int /\ k * step \in Int
        BY ONLY <4>1, Shifted
      <4> QED BY <1>2, <1>4, <4>2
    <3>6. TimeOf(latest(step), step, i) = TimeOf(updated[step], step, i - k)
      BY <3>5 DEF TimeOf
    <3> QED BY <2>2, <3>2, <3>3, <3>4, <3>6
  <2> QED BY <2>1, <2>2
<1>9. new \in Seq(Twap) /\ Len(new) = L
  <2>1. \A i \in 1..L : entry(i) \in Twap
    BY <1>7, <1>8
  <2>2. new \in [1..L -> Twap]
    BY <1>1, <2>1
  <2> QED BY <1>6, <2>2
<1> HIDE DEF w, old, k
<1>10. \A i \in 1..Len(new) :
         \/ /\ i <= w
            /\ new[i] = ValueAt(TimeOf(latest(step), step, i))
            /\ TimeOf(latest(step), step, i) \in snap..now
         \/ /\ ~(i <= w)
            /\ i - k \in 1..Len(old)
            /\ new[i] = old[i - k]
            /\ TimeOf(latest(step), step, i) = TimeOf(updated[step], step, i - k)
  BY <1>8, <1>9
<1> QED
  BY <1>6, <1>9, <1>10 DEF L, w, k, old


(* What the values of a buffer that is up to date have lost. *)
LEMMA PresentLoss ==
  ASSUME OracleInv, started, NEW step \in Periods,
         NEW new, new = Present(step),
         NEW i \in 1..Len(new), NEW f \in Directions,
         NEW time, time = TimeOf(latest(step), step, i),
         NEW loss, loss = Loss(f, new[i], time)
  PROVE  /\ time \in began..now /\ time \in Int /\ loss \in Int
         /\ Tracks(f, new[i], time)
         /\ \/ /\ i <= WrittenOf(Due(step))
               /\ snap <= time
               /\ Lag(f) <= loss /\ loss <= Lag(f) + Digit
               /\ time = snap => loss = Lag(f)
            \/ /\ ~(i <= WrittenOf(Due(step)))
               /\ i - Due(step) \in 1..Len(buffer[step])
               /\ new[i] = buffer[step][i - Due(step)]
               /\ time = TimeOf(updated[step], step, i - Due(step))
               /\ time <= snap
               /\ loss <= Lag(f) + Digit
               /\ Lag(f) <= loss + Digit * (snap - time + 1)
<1>1. \/ /\ i <= WrittenOf(Due(step))
         /\ new[i] = ValueAt(time)
         /\ time \in snap..now
      \/ /\ ~(i <= WrittenOf(Due(step)))
         /\ i - Due(step) \in 1..Len(buffer[step])
         /\ new[i] = buffer[step][i - Due(step)]
         /\ time = TimeOf(updated[step], step, i - Due(step))
  BY PresentEntries
<1>2. began \in Nat /\ snap \in Nat /\ now \in Nat /\ began <= snap /\ snap <= now
  BY RunningType
<1>3. CASE i <= WrittenOf(Due(step))
  <2>1. new[i] = ValueAt(time) /\ time \in snap..now
    BY <1>1, <1>3
  <2>2. /\ loss \in Int /\ Lag(f) <= loss /\ loss <= Lag(f) + Digit
        /\ time = snap => loss = Lag(f)
        /\ Tracks(f, new[i], time)
    BY <2>1, Interpolated DEF ValueAt
  <2>3. time \in began..now /\ time \in Int /\ snap <= time
    BY <1>2, <2>1
  <2> QED BY <1>3, <2>2, <2>3
<1>4. CASE ~(i <= WrittenOf(Due(step)))
  <2> DEFINE j == i - Due(step)
  <2>1. /\ j \in 1..Len(buffer[step]) /\ new[i] = buffer[step][j]
        /\ time = TimeOf(updated[step], step, j)
    BY <1>1, <1>4
  <2> HIDE DEF j
  <2>2. /\ TimeOf(updated[step], step, j) \in began..now
        /\ Tracks(f, buffer[step][j], TimeOf(updated[step], step, j))
    BY <2>1 DEF OracleInv, Running, Tracked
  <2>3. Trails(f, buffer[step][j], TimeOf(updated[step], step, j))
    BY <2>1 DEF OracleInv, Running
  <2>4. time \in began..now /\ Tracks(f, new[i], time) /\ Trails(f, new[i], time)
    BY <2>1, <2>2, <2>3
  <2>5. loss \in Int
    BY <2>4 DEF Tracks
  <2>6. time \in Int
    BY <1>2, <2>4
  <2>7. time <= snap /\ loss <= Lag(f) + Digit /\ Lag(f) <= loss + Digit * (snap - time + 1)
    BY <2>4 DEF Trails
  <2> QED BY <1>4, <2>1, <2>4, <2>5, <2>6, <2>7 DEF j
<1> QED
  BY <1>3, <1>4

(* The times of the values of a buffer go back. *)
LEMMA TimesGoBack ==
  ASSUME NEW top \in Int, NEW step \in Nat, NEW i \in Int, NEW j \in Int, i <= j
  PROVE  TimeOf(top, step, j) <= TimeOf(top, step, i)
<1>1. step * (i - 1) <= step * (j - 1) /\ step * (i - 1) \in Int /\ step * (j - 1) \in Int
  BY Faster
<1>2. step * (i - 1) = (i - 1) * step /\ step * (j - 1) = (j - 1) * step
  OBVIOUS
<1>3. top - (j - 1) * step <= top - (i - 1) * step
      /\ top - (j - 1) * step \in Int /\ top - (i - 1) * step \in Int
  BY <1>1, <1>2
<1> QED
  BY <1>3, NanosFaster DEF TimeOf

(* Two values of a buffer that is up to date have lost about as much. *)
LEMMA PresentNear ==
  ASSUME OracleInv, started, NEW step \in Periods,
         NEW new, new = Present(step),
         NEW i \in 1..Len(new), NEW j \in 1..Len(new), i < j, NEW f \in Directions
  PROVE  Near(f, new[i], TimeOf(latest(step), step, i), new[j], TimeOf(latest(step), step, j))
<1> DEFINE time == TimeOf(latest(step), step, i)
           past == TimeOf(latest(step), step, j)
           lossI == Loss(f, new[i], time)
           lossJ == Loss(f, new[j], past)
           w == WrittenOf(Due(step))
           lag == Lag(f)
<1> HIDE DEF time, past, lossI, lossJ, w, lag
<1>1. /\ time \in Int /\ lossI \in Int
      /\ \/ i <= w /\ snap <= time /\ lag <= lossI /\ lossI <= lag + Digit /\ (time = snap => lossI = lag)
         \/ /\ ~(i <= w)
            /\ i - Due(step) \in 1..Len(buffer[step])
            /\ new[i] = buffer[step][i - Due(step)]
            /\ time = TimeOf(updated[step], step, i - Due(step))
  BY PresentLoss DEF time, lossI, w, lag
<1>2. /\ past \in Int /\ lossJ \in Int
      /\ \/ j <= w /\ snap <= past /\ lag <= lossJ /\ lossJ <= lag + Digit
         \/ /\ ~(j <= w)
            /\ j - Due(step) \in 1..Len(buffer[step])
            /\ new[j] = buffer[step][j - Due(step)]
            /\ past = TimeOf(updated[step], step, j - Due(step))
            /\ past <= snap /\ lossJ <= lag + Digit /\ lag <= lossJ + Digit * (snap - past + 1)
  BY PresentLoss DEF past, lossJ, w, lag
<1>3. /\ step \in Nat \ {0} /\ latest(step) \in Nat /\ snap \in Nat /\ lag \in Int
      /\ Due(step) \in Nat /\ w \in Nat
  BY ClockType, CheckpointsDue, RunningType DEF lag, w, WrittenOf
<1>4. i \in Int /\ j \in Int
  <2>1. Len(new) \in Nat
    BY PresentEntries
  <2> QED BY <2>1
<1>5. past <= time
  <2>1. step \in Nat /\ latest(step) \in Int /\ i <= j
    BY <1>3, <1>4
  <2> QED BY <1>4, <2>1, TimesGoBack DEF past, time
<1> SUFFICES lossJ <= lossI + Digit /\ lossI <= lossJ + Digit * (time - past + 1)
  BY DEF Near, time, past, lossI, lossJ
<1>6. CASE j <= w
  <2>1. /\ lag <= lossJ /\ lossJ <= lag + Digit /\ lag <= lossI /\ lossI <= lag + Digit
    BY <1>1, <1>2, <1>3, <1>4, <1>6
  <2> QED BY <1>1, <1>2, <1>3, <1>5, <2>1, NearInterpolated
<1>7. CASE i <= w /\ ~(j <= w)
  <2>1. snap <= time /\ lag <= lossI /\ lossI <= lag + Digit /\ (time = snap => lossI = lag)
    BY <1>1, <1>7
  <2>2. past <= snap /\ lossJ <= lag + Digit /\ lag <= lossJ + Digit * (snap - past + 1)
    BY <1>2, <1>7
  <2>3. lag \in Int /\ lossI \in Int /\ lossJ \in Int /\ snap \in Int /\ time \in Int /\ past \in Int
    BY <1>1, <1>2, <1>3
  <2> QED BY ONLY <2>1, <2>2, <2>3, NearTrailing
<1>8. CASE ~(i <= w)
  <2>1. ~(j <= w)
    BY <1>3, <1>4, <1>8
  <2> DEFINE a == i - Due(step)
             b == j - Due(step)
  <2>2. /\ a \in 1..Len(buffer[step]) /\ new[i] = buffer[step][a]
        /\ time = TimeOf(updated[step], step, a)
    BY <1>1, <1>8
  <2>3. /\ b \in 1..Len(buffer[step]) /\ new[j] = buffer[step][b]
        /\ past = TimeOf(updated[step], step, b)
    BY <1>2, <2>1
  <2>4. a < b
    BY <1>3, <1>4
  <2> HIDE DEF a, b
  <2>5. Near(f, buffer[step][a], TimeOf(updated[step], step, a),
                buffer[step][b], TimeOf(updated[step], step, b))
    BY <2>2, <2>3, <2>4 DEF OracleInv, Running, Tracked
  <2>6. Near(f, new[i], time, new[j], past)
    BY <2>2, <2>3, <2>5
  <2> QED BY <2>6 DEF Near, lossI, lossJ
<1> QED
  BY <1>6, <1>7, <1>8

(* A buffer that is up to date tracks the price. *)
LEMMA PresentTracked ==
  ASSUME OracleInv, started, NEW step \in Periods
  PROVE  Tracked(Present(step), latest(step), step)
<1> DEFINE new == Present(step)
<1>1. new = Present(step) /\ new \in Seq(Twap)
  BY PresentEntries
<1> HIDE DEF new
<1>2. ASSUME NEW i \in 1..Len(new), NEW f \in Directions
      PROVE  /\ TimeOf(latest(step), step, i) \in began..now
             /\ Tracks(f, new[i], TimeOf(latest(step), step, i))
  <2> DEFINE time == TimeOf(latest(step), step, i)
             loss == Loss(f, new[i], time)
  <2>1. time = TimeOf(latest(step), step, i) /\ loss = Loss(f, new[i], time)
    OBVIOUS
  <2> HIDE DEF time, loss
  <2>2. time \in began..now /\ Tracks(f, new[i], time)
    BY <1>1, <2>1, PresentLoss
  <2> QED BY <2>1, <2>2
<1>3. ASSUME NEW i \in 1..Len(new), NEW j \in 1..Len(new), NEW f \in Directions, i < j
      PROVE  Near(f, new[i], TimeOf(latest(step), step, i), new[j], TimeOf(latest(step), step, j))
  BY <1>1, <1>3, PresentNear
<1>4. Tracked(new, latest(step), step)
  BY <1>1, <1>2, <1>3 DEF Tracked
<1> QED
  BY <1>4 DEF new


----------------------------------------------------------------------------
(* The invariant is inductive. *)

LEMMA InitOracleInv ==
  ASSUME Init
  PROVE  OracleInv
<1>1. now \in Nat /\ 0 <= now /\ now \in 0..MaxTime
  BY DEF Init
<1>2. Seconds(now) \in Nat
  BY <1>1, SecondsType
<1>3. ZeroTwap \in Twap
  BY DEF ZeroTwap, Twap
<1>4. accumulator \in [snapshot : 0..now, lastPrice : Prices \cup {0}, twap : Twap]
  BY <1>1, <1>3 DEF Init
<1>5. updated \in [Periods -> 0..Seconds(now)]
  BY <1>2 DEF Init
<1>6. \A step \in Periods : buffer[step] \in Seq(Twap) /\ Len(buffer[step]) <= BufferDepth
  BY DEF Init
<1>7. started = FALSE /\ spot \in Prices \cup {0} /\ began \in 0..now /\ area \in Seq(Twap)
  BY <1>1 DEF Init
<1> QED
  BY <1>1, <1>4, <1>5, <1>6, <1>7 DEF OracleInv, TypeOK

LEMMA InitializeOracleInv ==
  ASSUME OracleInv, NEW price \in Prices, InitializeOracle(price)
  PROVE  OracleInv'
<1>1. now \in Nat /\ now' = now /\ now \in 0..MaxTime /\ Seconds(now) \in Nat
  <2>1. now \in 0..MaxTime
    BY DEF OracleInv, TypeOK
  <2> QED BY <2>1, SecondsType DEF InitializeOracle
<1>2. ZeroTwap \in Twap /\ ZeroTwap.aPerB = 0 /\ ZeroTwap.bPerA = 0
  BY DEF ZeroTwap, Twap
<1>3. /\ accumulator' = [snapshot |-> now, lastPrice |-> price, twap |-> ZeroTwap]
      /\ updated' = [step \in Periods |-> Seconds(now)]
      /\ buffer' = [step \in Periods |-> <<>>]
      /\ spot' = price /\ began' = now /\ area' = <<ZeroTwap>> /\ started' = TRUE
  BY DEF InitializeOracle, NewAccumulator
<1>4. snap' = now /\ accumulator.twap' = ZeroTwap /\ accumulator.lastPrice' = price
  BY <1>3 DEF snap
<1>5. TypeOK'
  <2>1. accumulator' \in [snapshot : 0..now', lastPrice : Prices \cup {0}, twap : Twap]
    BY <1>1, <1>2, <1>3
  <2>2. updated' \in [Periods -> 0..Seconds(now')]
    BY <1>1, <1>3
  <2>3. \A step \in Periods : buffer'[step] \in Seq(Twap) /\ Len(buffer'[step]) <= BufferDepth
    BY <1>3
  <2>4. /\ now' \in 0..MaxTime /\ started' \in BOOLEAN /\ spot' \in Prices \cup {0}
        /\ began' \in 0..now' /\ area' \in Seq(Twap)
    BY <1>1, <1>2, <1>3
  <2> QED BY <2>1, <2>2, <2>3, <2>4 DEF TypeOK
<1>6. AreaKnown'
  <2>1. area' \in Seq(Twap) /\ Len(area') = now' - began' + 1
    BY <1>1, <1>2, <1>3
  <2>2. ASSUME NEW f \in Directions, NEW time \in snap'..now'
        PROVE  AreaAt(time)'[f] = AreaAt(snap)'[f] + Quote(f, spot') * (time - snap')
    <3>1. time = now
      BY <1>1, <1>4
    <3>2. AreaAt(time)' = ZeroTwap /\ AreaAt(snap)' = ZeroTwap
      BY <1>1, <1>3, <1>4, <3>1 DEF AreaAt
    <3>3. price \in Nat \ {0}
      OBVIOUS
    <3>4. Quote(f, price) \in Nat
      BY <3>3, QuoteType
    <3>5. ZeroTwap[f] = 0
      BY <1>2 DEF Directions
    <3> QED BY <1>1, <1>3, <1>4, <3>1, <3>2, <3>4, <3>5
  <2> QED BY <2>1, <2>2 DEF AreaKnown
<1>7. ASSUME NEW f \in Directions
      PROVE  Tracks(f, accumulator.twap, snap)'
  <2>1. AreaAt(snap)' = ZeroTwap
    BY <1>1, <1>3, <1>4 DEF AreaAt
  <2>2. ZeroTwap[f] = 0 /\ 0 - 0 * NanosPerSecond = 0
    BY <1>2 DEF Directions
  <2>3. Loss(f, accumulator.twap, snap)' = AreaAt(snap)'[f] - accumulator.twap'[f] * NanosPerSecond
    BY DEF Loss
  <2>5. Loss(f, accumulator.twap, snap)' = 0
    BY <1>4, <2>1, <2>2, <2>3
  <2>4. snap' - began' = 0
    BY <1>1, <1>3, <1>4
  <2> QED BY <2>4, <2>5, DigitType DEF Tracks
<1>8. ASSUME NEW step \in Periods
      PROVE  /\ Clocked(step)'
             /\ Tracked(buffer[step], updated[step], step)'
             /\ Len(buffer[step])' = 0
  <2>1. step \in Nat \ {0} /\ updated'[step] = Seconds(now) /\ buffer'[step] = <<>>
    BY <1>3
  <2>2. Len(buffer'[step]) = 0 /\ buffer'[step] \in Seq(Twap)
    BY <2>1
  <2>3. Clocked(step)'
    <3>1. /\ updated'[step] <= Seconds(snap') /\ Seconds(snap') < updated'[step] + step
      BY <1>1, <1>4, <2>1
    <3>2. /\ 0 \in Nat /\ updated'[step] = Seconds(began') + 0 * step
          /\ Len(buffer'[step]) = IF 0 < BufferDepth THEN 0 ELSE BufferDepth
      BY <1>1, <1>3, <2>1, <2>2
    <3> QED BY <3>1, <3>2 DEF Clocked
  <2>4. Tracked(buffer[step], updated[step], step)'
    BY <2>2 DEF Tracked
  <2> QED BY <2>2, <2>3, <2>4
<1>9. Running'
  <2>1. spot' \in Prices /\ accumulator.lastPrice' = spot' /\ began' <= snap'
    BY <1>1, <1>3, <1>4
  <2>2. \A step \in Periods : \A i \in 1..Len(buffer[step])' : FALSE
    BY <1>8
  <2> QED BY <1>6, <1>7, <1>8, <2>1, <2>2 DEF Running
<1> QED
  BY <1>5, <1>9 DEF OracleInv


LEMMA TickInv ==
  ASSUME OracleInv, Tick
  PROVE  OracleInv'
<1>1. /\ now \in Nat /\ now' = now + 1 /\ now' \in 0..MaxTime /\ Seconds(now) \in Nat
      /\ Seconds(now') \in Nat /\ Seconds(now) <= Seconds(now')
  <2>1. now \in 0..MaxTime /\ now < MaxTime /\ now' = now + 1
    BY DEF OracleInv, TypeOK, Tick
  <2>2. now \in Nat /\ now' \in Nat /\ now <= now' /\ now' \in 0..MaxTime
    BY <2>1
  <2> QED BY <2>1, <2>2, SecondsFaster
<1>2. /\ started' = started /\ accumulator' = accumulator /\ updated' = updated
      /\ buffer' = buffer /\ spot' = spot /\ began' = began
  BY DEF Tick, oracleVars
<1>3. snap' = snap
  BY <1>2 DEF snap
<1> DEFINE added == [aPerB |-> area[Len(area)].aPerB + spot,
                     bPerA |-> area[Len(area)].bPerA + Inverse(spot)]
<1>4. area' = IF started THEN Append(area, added) ELSE area
  BY DEF Tick
<1>5. area \in Seq(Twap)
  BY DEF OracleInv, TypeOK
<1>6. /\ now' \in 0..MaxTime /\ started' \in BOOLEAN
      /\ accumulator' \in [snapshot : 0..now', lastPrice : Prices \cup {0}, twap : Twap]
      /\ updated' \in [Periods -> 0..Seconds(now')]
      /\ \A step \in Periods : buffer'[step] \in Seq(Twap) /\ Len(buffer'[step]) <= BufferDepth
      /\ spot' \in Prices \cup {0} /\ began' \in 0..now'
  <2>1. /\ accumulator \in [snapshot : 0..now, lastPrice : Prices \cup {0}, twap : Twap]
        /\ updated \in [Periods -> 0..Seconds(now)]
        /\ \A step \in Periods : buffer[step] \in Seq(Twap) /\ Len(buffer[step]) <= BufferDepth
        /\ spot \in Prices \cup {0} /\ began \in 0..now /\ started \in BOOLEAN
    BY DEF OracleInv, TypeOK
  <2>2. 0..now \subseteq 0..now' /\ 0..Seconds(now) \subseteq 0..Seconds(now')
    BY <1>1
  <2>3. accumulator' \in [snapshot : 0..now', lastPrice : Prices \cup {0}, twap : Twap]
    BY <1>2, <2>1, <2>2
  <2>4. updated' \in [Periods -> 0..Seconds(now')]
    BY <1>2, <2>1, <2>2
  <2> QED BY <1>1, <1>2, <2>1, <2>2, <2>3, <2>4
<1>7. CASE ~started
  <2>1. area' \in Seq(Twap) /\ ~started'
    BY <1>2, <1>4, <1>5, <1>7
  <2> QED BY <1>6, <2>1 DEF OracleInv, TypeOK
<1>8. CASE started
  <2>1. /\ began \in Nat /\ snap \in Nat /\ began <= snap /\ snap <= now /\ spot \in Nat \ {0}
        /\ Len(area) = now - began + 1 /\ Len(area) \in Nat \ {0}
    BY <1>8, RunningType DEF OracleInv, Running, AreaKnown
  <2>2. area[Len(area)] = AreaAt(now) /\ AreaAt(now) \in Twap
    <3>1. Len(area) \in 1..Len(area)
      BY <2>1
    <3> QED BY <1>5, <2>1, <3>1 DEF AreaAt
  <2>3. \A f \in Directions :
          added[f] = AreaAt(now)[f] + Quote(f, spot) /\ AreaAt(now)[f] \in Nat /\ Quote(f, spot) \in Nat
    <3>1. \A f \in Directions : Quote(f, spot) \in Nat
      BY <2>1, QuoteType
    <3>2. /\ added.aPerB = AreaAt(now).aPerB + spot
          /\ added.bPerA = AreaAt(now).bPerA + Inverse(spot)
          /\ AreaAt(now).aPerB \in Nat /\ AreaAt(now).bPerA \in Nat
      BY <2>2 DEF Twap
    <3>3. Quote("aPerB", spot) = spot /\ Quote("bPerA", spot) = Inverse(spot)
      BY DEF Quote
    <3> HIDE DEF added
    <3> QED BY <3>1, <3>2, <3>3 DEF Directions
  <2>4. added \in Twap
    <3>1. added.aPerB \in Nat /\ added.bPerA \in Nat
      <4> HIDE DEF added
      <4>1. "aPerB" \in Directions /\ "bPerA" \in Directions
        BY DEF Directions
      <4>2. \A x, y \in Nat : x + y \in Nat
        OBVIOUS
      <4> QED BY <2>3, <4>1, <4>2
    <3> QED BY <3>1 DEF Twap
  <2> HIDE DEF added
  <2>5. area' = Append(area, added)
    BY <1>4, <1>8
  <2>6. area' \in Seq(Twap) /\ Len(area') = now' - began' + 1
    BY <1>1, <1>2, <1>5, <2>1, <2>4, <2>5
  <2>7. ASSUME NEW time \in began..now
        PROVE  AreaAt(time)' = AreaAt(time)
    <3>1. time - began + 1 \in 1..Len(area)
      BY <1>1, <2>1
    <3>2. area'[time - began + 1] = area[time - began + 1]
      BY <1>5, <2>4, <2>5, <3>1
    <3> QED BY <1>2, <3>2 DEF AreaAt
  <2>8. ASSUME NEW time, time = now + 1
        PROVE  AreaAt(time)' = added
    <3>1. Len(area) + 1 = (now + 1) - began + 1
      BY <1>1, <2>1
    <3>2. area'[Len(area) + 1] = added
      BY <1>5, <2>4, <2>5
    <3>3. time - began + 1 = Len(area) + 1
      BY <2>8, <3>1
    <3> QED BY <1>2, <3>2, <3>3 DEF AreaAt
  <2>9. \A f \in Directions, time \in began..now : \A v :
          /\ Loss(f, v, time)' = Loss(f, v, time)
          /\ Tracks(f, v, time)' <=> Tracks(f, v, time)
    BY <1>2, <2>7 DEF Loss, Tracks
  <2>10. AreaKnown'
    <3>1. ASSUME NEW f \in Directions, NEW time \in snap'..now'
          PROVE  AreaAt(time)'[f] = AreaAt(snap)'[f] + Quote(f, spot') * (time - snap')
      <4>1. AreaAt(snap)' = AreaAt(snap)
        <5>1. snap \in began..now
          BY <1>1, <2>1
        <5> QED BY <1>3, <2>7, <5>1
      <4>2. \A t \in snap..now : AreaAt(t)[f] = AreaAt(snap)[f] + Quote(f, spot) * (t - snap)
        BY <1>8 DEF OracleInv, Running, AreaKnown
      <4>3. CASE time \in snap..now
        <5>1. AreaAt(time)' = AreaAt(time)
          BY <1>1, <2>1, <2>7, <4>3
        <5> QED BY <1>2, <1>3, <4>1, <4>2, <4>3, <5>1
      <4>4. CASE time = now + 1
        <5>1. AreaAt(time)'[f] = AreaAt(now)[f] + Quote(f, spot) /\ Quote(f, spot) \in Nat
          <6>1. AreaAt(time)' = added
            BY <2>8, <4>4
          <6> QED BY <2>3, <6>1
        <5>2. AreaAt(now)[f] = AreaAt(snap)[f] + Quote(f, spot) * (now - snap)
          BY <1>1, <2>1, <4>2
        <5>3. AreaAt(snap)[f] \in Nat
          BY <1>1, <1>8, <2>1, AreaType
        <5>4. /\ Quote(f, spot) * (now + 1 - snap) = Quote(f, spot) * (now - snap) + Quote(f, spot)
              /\ Quote(f, spot) * (now - snap) \in Int
          <6>1. now - snap \in Int /\ now + 1 - snap = (now - snap) + 1
            BY <1>1, <2>1
          <6> QED BY <5>1, <6>1, OneMore
        <5>5. time - snap' = now + 1 - snap
          BY <1>1, <1>3, <2>1, <4>4
        <5>6. AreaAt(time)'[f] = AreaAt(snap)[f] + Quote(f, spot) * (now + 1 - snap)
          BY ONLY <5>1, <5>2, <5>3, <5>4
        <5> QED BY <1>2, <1>3, <4>1, <5>5, <5>6
      <4> QED BY <1>1, <1>3, <2>1, <4>3, <4>4
    <3> QED BY <2>6, <3>1 DEF AreaKnown
  <2>11. \A f \in Directions : Lag(f)' = Lag(f) /\ Tracks(f, accumulator.twap, snap)'
    <3>1. snap \in began..now
      BY <1>1, <2>1
    <3>2. ASSUME NEW f \in Directions
          PROVE  /\ Loss(f, accumulator.twap, snap)' = Loss(f, accumulator.twap, snap)
                 /\ Tracks(f, accumulator.twap, snap)' <=> Tracks(f, accumulator.twap, snap)
      BY <1>2, <1>3, <2>9, <3>1
    <3>3. \A f \in Directions : Tracks(f, accumulator.twap, snap)
      BY <1>8 DEF OracleInv, Running
    <3> QED BY <3>2, <3>3 DEF Lag
  <2>12. ASSUME NEW step \in Periods
         PROVE  /\ Clocked(step)'
                /\ Tracked(buffer[step], updated[step], step)'
                /\ \A i \in 1..Len(buffer[step])', f \in Directions :
                     Trails(f, buffer[step][i], TimeOf(updated[step], step, i))'
    <3>1. /\ Clocked(step) /\ Tracked(buffer[step], updated[step], step)
          /\ \A i \in 1..Len(buffer[step]), f \in Directions :
               Trails(f, buffer[step][i], TimeOf(updated[step], step, i))
      BY <1>8 DEF OracleInv, Running
    <3>2. Clocked(step)'
      BY <1>2, <1>3, <3>1 DEF Clocked
    <3>3. \A i : TimeOf(updated[step], step, i)' = TimeOf(updated[step], step, i)
      BY <1>2 DEF TimeOf
    <3>4. \A i \in 1..Len(buffer[step]), f \in Directions :
            /\ TimeOf(updated[step], step, i) \in began..now
            /\ Tracks(f, buffer[step][i], TimeOf(updated[step], step, i))
      BY <3>1 DEF Tracked
    <3>5. \A i \in 1..Len(buffer[step]), f \in Directions :
            /\ TimeOf(updated[step], step, i)' \in began'..now'
            /\ Tracks(f, buffer[step][i], TimeOf(updated[step], step, i))'
            /\ Loss(f, buffer[step][i], TimeOf(updated[step], step, i))'
                 = Loss(f, buffer[step][i], TimeOf(updated[step], step, i))
      <4> SUFFICES ASSUME NEW i \in 1..Len(buffer[step]), NEW f \in Directions
                   PROVE  /\ TimeOf(updated[step], step, i)' \in began'..now'
                          /\ Tracks(f, buffer[step][i], TimeOf(updated[step], step, i))'
                          /\ Loss(f, buffer[step][i], TimeOf(updated[step], step, i))'
                               = Loss(f, buffer[step][i], TimeOf(updated[step], step, i))
        OBVIOUS
      <4>1. /\ TimeOf(updated[step], step, i) \in began..now
            /\ Tracks(f, buffer[step][i], TimeOf(updated[step], step, i))
        BY <3>4
      <4>2. TimeOf(updated[step], step, i)' \in began'..now'
        BY <1>1, <1>2, <2>1, <3>3, <4>1
      <4>3. /\ Loss(f, buffer[step][i], TimeOf(updated[step], step, i))'
                 = Loss(f, buffer[step][i], TimeOf(updated[step], step, i))
            /\ Tracks(f, buffer[step][i], TimeOf(updated[step], step, i))'
                 <=> Tracks(f, buffer[step][i], TimeOf(updated[step], step, i))
        BY <1>2, <2>9, <4>1
      <4> QED BY <4>1, <4>2, <4>3
    <3>6. Tracked(buffer[step], updated[step], step)'
      BY <1>2, <3>1, <3>3, <3>5 DEF Tracked, Near
    <3>7. \A i \in 1..Len(buffer[step])', f \in Directions :
            Trails(f, buffer[step][i], TimeOf(updated[step], step, i))'
      BY <1>2, <1>3, <2>11, <3>1, <3>3, <3>5 DEF Trails
    <3> QED BY <3>2, <3>6, <3>7
  <2>13. Running'
    <3>1. spot' \in Prices /\ accumulator.lastPrice' = spot' /\ began' <= snap'
      BY <1>2, <1>3, <1>8 DEF OracleInv, Running
    <3> QED BY <2>10, <2>11, <2>12, <3>1 DEF Running
  <2>14. TypeOK'
    BY <1>6, <2>6 DEF TypeOK
  <2> QED BY <2>13, <2>14 DEF OracleInv
<1> QED
  BY <1>7, <1>8


LEMMA SameBlockInv ==
  ASSUME OracleInv, NEW price \in Prices, StoreInSameBlock(price)
  PROVE  OracleInv'
<1>1. /\ started /\ now = snap /\ spot' = price
      /\ now' = now /\ started' = started /\ updated' = updated /\ buffer' = buffer
      /\ began' = began /\ area' = area
      /\ accumulator' = [accumulator EXCEPT !.lastPrice = price]
  BY DEF StoreInSameBlock, snap
<1>2. accumulator \in [snapshot : 0..now, lastPrice : Prices \cup {0}, twap : Twap]
  BY DEF OracleInv, TypeOK
<1>3. /\ accumulator' \in [snapshot : 0..now, lastPrice : Prices \cup {0}, twap : Twap]
      /\ snap' = snap /\ accumulator'.twap = accumulator.twap /\ accumulator'.lastPrice = price
  BY <1>1, <1>2 DEF snap
<1>4. TypeOK'
  <2>1. spot' \in Prices \cup {0} /\ accumulator' \in [snapshot : 0..now', lastPrice : Prices \cup {0}, twap : Twap]
    BY <1>1, <1>3
  <2>2. /\ now' \in 0..MaxTime /\ started' \in BOOLEAN /\ updated' \in [Periods -> 0..Seconds(now')]
        /\ \A step \in Periods : buffer'[step] \in Seq(Twap) /\ Len(buffer'[step]) <= BufferDepth
        /\ began' \in 0..now' /\ area' \in Seq(Twap)
    BY <1>1 DEF OracleInv, TypeOK
  <2> QED BY <2>1, <2>2 DEF TypeOK
<1>5. Running
  BY <1>1 DEF OracleInv
<1>6. AreaKnown'
  <2>1. area' \in Seq(Twap) /\ Len(area') = now' - began' + 1
    BY <1>1, <1>5 DEF Running, AreaKnown
  <2>2. ASSUME NEW f \in Directions, NEW time \in snap'..now'
        PROVE  AreaAt(time)'[f] = AreaAt(snap)'[f] + Quote(f, spot') * (time - snap')
    <3>1. snap \in Nat /\ began \in Nat /\ began <= snap /\ snap <= now /\ now \in Nat
      BY <1>1, RunningType
    <3>2. time = snap /\ time - snap' = 0
      BY <1>1, <1>3, <3>1
    <3>3. AreaAt(time)' = AreaAt(snap) /\ AreaAt(snap)' = AreaAt(snap)
      BY <1>1, <1>3, <3>2 DEF AreaAt
    <3>4. AreaAt(snap)[f] \in Nat
      BY <1>1, <3>1, AreaType
    <3>5. Quote(f, price) \in Nat
      <4>1. price \in Nat \ {0}
        OBVIOUS
      <4> QED BY <4>1, QuoteType
    <3>6. Quote(f, spot') * (time - snap') = 0
      BY <1>1, <3>2, <3>5
    <3> QED BY <3>3, <3>4, <3>6
  <2> QED BY <2>1, <2>2 DEF AreaKnown
<1>7. \A f \in Directions : Lag(f)' = Lag(f) /\ Tracks(f, accumulator.twap, snap)'
  BY <1>1, <1>3, <1>5 DEF Running, Lag, Tracks, Loss, AreaAt
<1>8. ASSUME NEW step \in Periods
      PROVE  /\ Clocked(step)'
             /\ Tracked(buffer[step], updated[step], step)'
             /\ \A i \in 1..Len(buffer[step])', f \in Directions :
                  Trails(f, buffer[step][i], TimeOf(updated[step], step, i))'
  <2>1. /\ Clocked(step) /\ Tracked(buffer[step], updated[step], step)
        /\ \A i \in 1..Len(buffer[step]), f \in Directions :
             Trails(f, buffer[step][i], TimeOf(updated[step], step, i))
    BY <1>5 DEF Running
  <2>2. Clocked(step)'
    BY <1>1, <1>3, <2>1 DEF Clocked
  <2>3. \A i : TimeOf(updated[step], step, i)' = TimeOf(updated[step], step, i)
    BY <1>1 DEF TimeOf
  <2>4. \A i, f : Loss(f, buffer[step][i], TimeOf(updated[step], step, i))'
                    = Loss(f, buffer[step][i], TimeOf(updated[step], step, i))
    BY <1>1, <2>3 DEF Loss, AreaAt
  <2>5. Tracked(buffer[step], updated[step], step)'
    <3> DEFINE prices == buffer'[step]
               top == updated'[step]
    <3>1. Tracked(prices, top, step)
      BY <1>1, <2>1
    <3>2. \A i : TimeOf(updated[step], step, i)' = TimeOf(top, step, i)
      BY DEF TimeOf
    <3>3. /\ \A f, v, time : Loss(f, v, time)' = Loss(f, v, time)
          /\ \A f, v, time : Tracks(f, v, time)' <=> Tracks(f, v, time)
      BY <1>1 DEF Loss, AreaAt, Tracks
    <3> HIDE DEF prices, top
    <3>4. /\ prices \in Seq(Twap)
          /\ \A i \in 1..Len(prices), f \in Directions :
               /\ TimeOf(top, step, i) \in began..now
               /\ Tracks(f, prices[i], TimeOf(top, step, i))
          /\ \A i, j \in 1..Len(prices), f \in Directions : i < j =>
               Near(f, prices[i], TimeOf(top, step, i), prices[j], TimeOf(top, step, j))
      BY <3>1 DEF Tracked
    <3>5. ASSUME NEW i \in 1..Len(prices), NEW f \in Directions
          PROVE  /\ TimeOf(updated[step], step, i)' \in began'..now'
                 /\ Tracks(f, buffer[step][i], TimeOf(updated[step], step, i))'
      <4>1. TimeOf(top, step, i) \in began..now /\ Tracks(f, prices[i], TimeOf(top, step, i))
        BY <3>4
      <4>2. TimeOf(updated[step], step, i)' = TimeOf(top, step, i)
        BY <3>2
      <4>3. prices[i] = buffer[step][i]
        BY <1>1 DEF prices
      <4>4. TimeOf(updated[step], step, i) = TimeOf(top, step, i)
        BY <1>1 DEF TimeOf, top
      <4>5. Tracks(f, buffer[step][i], TimeOf(updated[step], step, i))
        BY <4>1, <4>3, <4>4
      <4>6. Tracks(f, buffer[step][i], TimeOf(updated[step], step, i))'
        BY <1>1, <2>4, <4>2, <4>4, <4>5 DEF Tracks
      <4> QED BY <1>1, <4>1, <4>2, <4>6
    <3>6. \A i, j \in 1..Len(prices), f \in Directions : i < j =>
            Near(f, buffer[step][i], TimeOf(updated[step], step, i),
                    buffer[step][j], TimeOf(updated[step], step, j))'
      BY <3>2, <3>3, <3>4 DEF Near, prices
    <3>7. prices = buffer'[step]
      BY DEF prices
    <3>8. /\ buffer'[step] \in Seq(Twap)
          /\ \A i \in 1..Len(buffer'[step]), f \in Directions :
               /\ TimeOf(updated[step], step, i)' \in began'..now'
               /\ Tracks(f, buffer[step][i], TimeOf(updated[step], step, i))'
          /\ \A i, j \in 1..Len(buffer'[step]), f \in Directions : i < j =>
               Near(f, buffer[step][i], TimeOf(updated[step], step, i),
                       buffer[step][j], TimeOf(updated[step], step, j))'
      BY <3>4, <3>5, <3>6, <3>7 DEF prices
    <3> HIDE DEF prices
    <3> QED BY ONLY <3>8 DEF Tracked
  <2>6. \A i \in 1..Len(buffer[step])', f \in Directions :
          Trails(f, buffer[step][i], TimeOf(updated[step], step, i))'
    <3> SUFFICES ASSUME NEW i \in 1..Len(buffer[step]), NEW f \in Directions
                 PROVE  Trails(f, buffer[step][i], TimeOf(updated[step], step, i))'
      BY <1>1
    <3>1. Trails(f, buffer[step][i], TimeOf(updated[step], step, i))
      BY <2>1
    <3>2. Lag(f)' = Lag(f)
      BY <1>7
    <3>3. Loss(f, buffer[step][i], TimeOf(updated[step], step, i))'
            = Loss(f, buffer[step][i], TimeOf(updated[step], step, i))
      BY <2>4
    <3>4. TimeOf(updated[step], step, i)' = TimeOf(updated[step], step, i)
      BY <2>3
    <3> QED BY <1>3, <3>1, <3>2, <3>3, <3>4 DEF Trails
  <2> QED BY <2>2, <2>5, <2>6
<1>9. Running'
  <2>1. spot' \in Prices /\ accumulator.lastPrice' = spot' /\ began' <= snap'
    BY <1>1, <1>3, <1>5 DEF Running
  <2> QED BY <1>6, <1>7, <1>8, <2>1 DEF Running
<1> QED
  BY <1>4, <1>9 DEF OracleInv

LEMMA NewBlockInv ==
  ASSUME OracleInv, NEW price \in Prices, StoreInNewBlock(price)
  PROVE  OracleInv'
<1>1. /\ started /\ snap < now /\ spot' = price
      /\ now' = now /\ started' = started
      /\ buffer' = [step \in Periods |-> Present(step)]
      /\ updated' = [step \in Periods |-> latest(step)]
      /\ began' = began /\ area' = area
      /\ accumulator' = [snapshot |-> now, lastPrice |-> price, twap |-> ValueAt(now)]
  BY DEF StoreInNewBlock, snap, Present, latest, Update, ValueAt
<1>2. /\ began \in Nat /\ snap \in Nat /\ now \in Nat /\ began <= snap /\ snap <= now
      /\ now \in 0..MaxTime /\ Seconds(now) \in Nat
      /\ \A f \in Directions : Lag(f) \in Int
  BY <1>1, RunningType, SecondsType DEF OracleInv, TypeOK
<1>3. snap' = now /\ accumulator'.twap = ValueAt(now) /\ accumulator'.lastPrice = price
  BY <1>1 DEF snap
<1>4. now \in snap..now /\ now \in began..now
  BY <1>2
<1>5. /\ ValueAt(now) \in Twap
      /\ \A f \in Directions :
           /\ Loss(f, ValueAt(now), now) \in Int
           /\ Lag(f) <= Loss(f, ValueAt(now), now) /\ Loss(f, ValueAt(now), now) <= Lag(f) + Digit
           /\ Tracks(f, ValueAt(now), now)
  <2>1. ValueAt(now) \in Twap
    BY <1>1, <1>4, ValueType
  <2> QED BY <1>1, <1>4, <2>1, Interpolated DEF ValueAt
<1>6. TypeOK'
  <2>1. accumulator' \in [snapshot : 0..now', lastPrice : Prices \cup {0}, twap : Twap]
    BY <1>1, <1>2, <1>5
  <2>2. updated' \in [Periods -> 0..Seconds(now')]
    <3>1. \A step \in Periods : latest(step) \in 0..Seconds(now)
      BY <1>1, <1>2, CheckpointsDue
    <3> QED BY <1>1, <3>1
  <2>3. \A step \in Periods : buffer'[step] \in Seq(Twap) /\ Len(buffer'[step]) <= BufferDepth
    BY <1>1, PresentEntries
  <2>4. /\ now' \in 0..MaxTime /\ started' \in BOOLEAN /\ spot' \in Prices \cup {0}
        /\ began' \in 0..now' /\ area' \in Seq(Twap)
    BY <1>1, <1>2 DEF OracleInv, TypeOK
  <2> QED BY <2>1, <2>2, <2>3, <2>4 DEF TypeOK
<1>7. Running
  BY <1>1 DEF OracleInv
<1>8. AreaKnown'
  <2>1. area' \in Seq(Twap) /\ Len(area') = now' - began' + 1
    BY <1>1, <1>7 DEF Running, AreaKnown
  <2>2. ASSUME NEW f \in Directions, NEW time \in snap'..now'
        PROVE  AreaAt(time)'[f] = AreaAt(snap)'[f] + Quote(f, spot') * (time - snap')
    <3>1. time = now /\ time - snap' = 0
      BY <1>1, <1>2, <1>3
    <3>2. AreaAt(time)' = AreaAt(now) /\ AreaAt(snap)' = AreaAt(now)
      BY <1>1, <1>3, <3>1 DEF AreaAt
    <3>3. AreaAt(now)[f] \in Nat
      BY <1>1, <1>4, AreaType
    <3>4. Quote(f, price) \in Nat
      <4>1. price \in Nat \ {0}
        OBVIOUS
      <4> QED BY <4>1, QuoteType
    <3>5. Quote(f, spot') * (time - snap') = 0
      BY <1>1, <3>1, <3>4
    <3> QED BY <3>2, <3>3, <3>5
  <2> QED BY <2>1, <2>2 DEF AreaKnown
<1>9. /\ \A f, v, time : Loss(f, v, time)' = Loss(f, v, time)
      /\ \A f, v, time : Tracks(f, v, time)' <=> Tracks(f, v, time)
  BY <1>1 DEF Loss, AreaAt, Tracks
<1>10. \A f \in Directions : /\ Lag(f)' = Loss(f, ValueAt(now), now)
                             /\ Tracks(f, accumulator.twap, snap)'
  <2> SUFFICES ASSUME NEW f \in Directions
               PROVE  /\ Lag(f)' = Loss(f, ValueAt(now), now)
                      /\ Tracks(f, accumulator.twap, snap)'
    OBVIOUS
  <2>1. Lag(f)' = AreaAt(snap)'[f] - ValueAt(now)[f] * NanosPerSecond
    BY <1>3 DEF Lag, Loss
  <2>2. AreaAt(snap)' = AreaAt(now)
    BY <1>1, <1>3 DEF AreaAt
  <2>3. Lag(f)' = Loss(f, ValueAt(now), now)
    BY <2>1, <2>2 DEF Loss
  <2>4. Tracks(f, ValueAt(now), now)
    BY <1>5
  <2>5. Loss(f, accumulator.twap, snap)' = Loss(f, ValueAt(now), now)
    BY <2>3 DEF Lag
  <2>6. Tracks(f, accumulator.twap, snap)'
    BY <1>1, <1>3, <2>4, <2>5 DEF Tracks
  <2> QED BY <2>3, <2>6
<1>11. ASSUME NEW step \in Periods
       PROVE  Clocked(step)'
  <2>1. updated'[step] = latest(step) /\ buffer'[step] = Present(step)
    BY <1>1
  <2>2. /\ Due(step) \in Nat /\ latest(step) = updated[step] + Due(step) * step
        /\ latest(step) \in Nat
        /\ latest(step) <= Seconds(now) /\ Seconds(now) < latest(step) + step
    BY <1>1, CheckpointsDue
  <2>3. PICK passed \in Nat :
          /\ updated[step] = Seconds(began) + passed * step
          /\ Len(buffer[step]) = IF passed < BufferDepth THEN passed ELSE BufferDepth
    BY <1>7 DEF Running, Clocked
  <2>4. Len(Present(step)) = BufferLength(Len(buffer[step]), Due(step))
    BY <1>1, PresentEntries
  <2> DEFINE total == passed + Due(step)
  <2>5. total \in Nat /\ Len(Present(step)) = IF total < BufferDepth THEN total ELSE BufferDepth
    BY <2>2, <2>3, <2>4 DEF BufferLength
  <2>6. latest(step) = Seconds(began) + total * step
    <3>1. Seconds(began) \in Nat /\ step \in Nat
      BY <1>2, SecondsType
    <3>2. total * step = passed * step + Due(step) * step
          /\ passed * step \in Int /\ Due(step) * step \in Int
      BY <2>2, <3>1
    <3> HIDE DEF total
    <3> QED BY <2>2, <2>3, <3>1, <3>2
  <2> HIDE DEF total
  <2>7. /\ updated'[step] = Seconds(began') + total * step
        /\ Len(buffer'[step]) = IF total < BufferDepth THEN total ELSE BufferDepth
    BY <1>1, <2>1, <2>5, <2>6
  <2>8. updated'[step] <= Seconds(snap') /\ Seconds(snap') < updated'[step] + step
    BY <1>3, <2>1, <2>2
  <2> QED BY <2>5, <2>7, <2>8 DEF Clocked
<1>12. ASSUME NEW step \in Periods
       PROVE  Tracked(buffer[step], updated[step], step)'
  <2>1. updated'[step] = latest(step) /\ buffer'[step] = Present(step)
    BY <1>1
  <2>2. Tracked(Present(step), latest(step), step)
    BY <1>1, PresentTracked
  <2> DEFINE new == buffer'[step]
             top == updated'[step]
  <2>3. Tracked(new, top, step)
    BY <2>1, <2>2
  <2>4. \A i : TimeOf(updated[step], step, i)' = TimeOf(top, step, i)
    BY DEF TimeOf
  <2> QED BY <1>1, <1>9, <2>3, <2>4 DEF Tracked, Near, new, top
<1>13. ASSUME NEW step \in Periods
       PROVE  \A i \in 1..Len(buffer[step])', f \in Directions :
                Trails(f, buffer[step][i], TimeOf(updated[step], step, i))'
  <2> DEFINE new == Present(step)
             w == WrittenOf(Due(step))
  <2>1. updated'[step] = latest(step) /\ buffer'[step] = new
    BY <1>1
  <2> HIDE DEF new
  <2> SUFFICES ASSUME NEW i \in 1..Len(new), NEW f \in Directions
               PROVE  Trails(f, buffer[step][i], TimeOf(updated[step], step, i))'
    BY <2>1
  <2> DEFINE time == TimeOf(latest(step), step, i)
             loss == Loss(f, new[i], time)
             lag == Lag(f)
             next == Loss(f, ValueAt(now), now)
  <2> HIDE DEF time, loss, lag, next, w
  <2>2. /\ time \in began..now /\ time \in Int /\ loss \in Int
        /\ \/ snap <= time /\ lag <= loss /\ loss <= lag + Digit
           \/ time <= snap /\ loss <= lag + Digit /\ lag <= loss + Digit * (snap - time + 1)
    BY <1>1, PresentLoss DEF new, time, loss, lag, w
  <2>3. next \in Int /\ lag \in Int /\ lag <= next /\ next <= lag + Digit
    BY <1>2, <1>5 DEF next, lag
  <2>4. now \in Int /\ snap \in Int /\ snap < now /\ time <= now
    BY <1>1, <1>2, <2>2
  <2>5. loss <= next + Digit /\ next <= loss + Digit * (now - time + 1)
    <3>1. CASE snap <= time /\ lag <= loss /\ loss <= lag + Digit
      BY ONLY <2>2, <2>3, <2>4, <3>1, NearInterpolated
    <3>2. CASE time <= snap /\ loss <= lag + Digit /\ lag <= loss + Digit * (snap - time + 1)
      BY ONLY <2>2, <2>3, <2>4, <3>2, TrailsOn
    <3> QED BY <2>2, <3>1, <3>2
  <2>6. TimeOf(updated[step], step, i)' = time
    BY <2>1 DEF TimeOf, time
  <2>7. Loss(f, buffer[step][i], TimeOf(updated[step], step, i))' = loss
    <3>1. Loss(f, buffer[step][i], TimeOf(updated[step], step, i))'
            = AreaAt(TimeOf(updated[step], step, i))'[f] - buffer'[step][i][f] * NanosPerSecond
      BY DEF Loss
    <3>2. AreaAt(TimeOf(updated[step], step, i))' = AreaAt(time)
      BY <1>1, <2>6 DEF AreaAt
    <3> QED BY <2>1, <3>1, <3>2 DEF Loss, loss
  <2>8. Lag(f)' = next
    BY <1>10 DEF next
  <2> QED BY <1>3, <2>4, <2>5, <2>6, <2>7, <2>8 DEF Trails
<1>14. Running'
  <2>1. spot' \in Prices /\ accumulator.lastPrice' = spot' /\ began' <= snap'
    BY <1>1, <1>2, <1>3
  <2> QED BY <1>8, <1>10, <1>11, <1>12, <1>13, <2>1 DEF Running
<1> QED
  BY <1>6, <1>14 DEF OracleInv


(* The oracle keeps OracleInv, on which the theorems below rest. *)
THEOREM OracleInvKept == Spec => []OracleInv
<1>1. Init => OracleInv
  BY InitOracleInv
<1>2. OracleInv /\ [Next]_vars => OracleInv'
  <2> SUFFICES ASSUME OracleInv, [Next]_vars PROVE OracleInv'
    OBVIOUS
  <2>1. CASE Tick
    BY <2>1, TickInv
  <2>2. ASSUME NEW price \in Prices, InitializeOracle(price)
        PROVE  OracleInv'
    BY <2>2, InitializeOracleInv
  <2>3. ASSUME NEW price \in Prices, StoreOraclePrice(price)
        PROVE  OracleInv'
    BY <2>3, SameBlockInv, NewBlockInv DEF StoreOraclePrice
  <2>4. CASE UNCHANGED vars
    <3>1. /\ now' = now /\ started' = started /\ accumulator' = accumulator
          /\ updated' = updated /\ buffer' = buffer
          /\ spot' = spot /\ began' = began /\ area' = area
      BY <2>4 DEF vars, oracleVars, historyVars
    <3> QED BY <3>1 DEF OracleInv, TypeOK, Running, AreaKnown, Tracked, Tracks, Trails, Near,
                       Lag, Loss, AreaAt, TimeOf, Clocked, snap
  <2> QED BY <2>1, <2>2, <2>3, <2>4 DEF Next
<1> QED
  BY <1>1, <1>2, PTL DEF Spec

(* The state of the oracle always has its types: no buffer outgrows        *)
(* BUFFER_DEPTH and no checkpoint is in the future.                        *)
THEOREM OracleTypeCorrect == Spec => []TypeOK
<1>1. OracleInv => TypeOK
  BY DEF OracleInv
<1> QED
  BY <1>1, OracleInvKept, PTL

(* store_oracle_price and the queries never panic on the difference of     *)
(* times in Prices::accumulate: no checkpoint that is due lies before the  *)
(* accumulator's snapshot.                                                 *)
THEOREM NeverStuckAlways == Spec => []NeverStuck
<1>1. OracleInv => NeverStuck
  BY AlwaysInterpolable DEF NeverStuck
<1> QED
  BY <1>1, OracleInvKept, PTL

(* The buffers miss no checkpoint, however long nothing was stored. *)
THEOREM FullHistoryAlways == Spec => []FullHistory
<1>1. ASSUME OracleInv, started, NEW step \in Periods,
             NEW passed, passed = (updated[step] - Seconds(began)) \div step
      PROVE  Len(buffer[step]) = IF passed < BufferDepth THEN passed ELSE BufferDepth
  <2>1. PICK count \in Nat :
          /\ updated[step] = Seconds(began) + count * step
          /\ Len(buffer[step]) = IF count < BufferDepth THEN count ELSE BufferDepth
    BY <1>1 DEF OracleInv, Running, Clocked
  <2>2. step \in Nat \ {0} /\ Seconds(began) \in Nat
    BY <1>1, RunningType, SecondsType
  <2>3. (count * step) \div step = count /\ count * step \in Nat
    BY <2>2, DivMultiple
  <2>4. updated[step] - Seconds(began) = count * step
    BY <2>1, <2>2, <2>3
  <2> QED BY <1>1, <2>1, <2>3, <2>4
<1>2. OracleInv => FullHistory
  BY <1>1 DEF FullHistory
<1> QED
  BY <1>2, OracleInvKept, PTL

(* Every value in a buffer is the integral of the price the pool had up to *)
(* that value's own checkpoint, but for what rounding down may lose.       *)
THEOREM CheckpointsExactAlways == Spec => []CheckpointsExact
<1>1. ASSUME OracleInv, started, NEW step \in Periods, NEW i \in 1..Len(buffer[step]),
             NEW time, time = Nanos(updated[step] - (i - 1) * step), NEW f \in Directions
      PROVE  /\ time >= began
             /\ Follows(buffer[step][i][f], AreaAt(time)[f], time - began)
  <2>1. time = TimeOf(updated[step], step, i)
    BY <1>1 DEF TimeOf
  <2>2. Tracked(buffer[step], updated[step], step)
    BY <1>1 DEF OracleInv, Running
  <2>3. buffer[step][i] \in Twap /\ time \in began..now /\ Tracks(f, buffer[step][i], time)
    BY <2>1, <2>2 DEF Tracked
  <2>4. began \in Nat /\ now \in Nat
    BY <1>1, RunningType
  <2>5. buffer[step][i][f] \in Nat
    BY <2>3 DEF Twap, Directions
  <2>6. AreaAt(time)[f] \in Nat
    BY <1>1, <2>3, AreaType
  <2> DEFINE value == buffer[step][i][f]
             exact == AreaAt(time)[f]
  <2>7. exact - value * NanosPerSecond \in 0..((NanosPerSecond - 1) * (time - began))
    BY <2>3 DEF Tracks, Loss, Digit
  <2>8. value * NanosPerSecond \in Nat
    BY <2>5
  <2> HIDE DEF value, exact
  <2>9. exact \in Nat
    BY <2>6 DEF exact
  <2>10. Follows(value, exact, time - began)
    BY <2>7, <2>8, <2>9 DEF Follows
  <2> QED BY <2>3, <2>4, <2>10 DEF value, exact
<1>2. OracleInv => CheckpointsExact
  <2> SUFFICES ASSUME OracleInv, started, NEW step \in Periods, NEW i \in 1..Len(buffer[step])
               PROVE  LET time == Nanos(updated[step] - (i - 1) * step)
                      IN  /\ time >= began
                          /\ Follows(buffer[step][i].aPerB, AreaAt(time).aPerB, time - began)
                          /\ Follows(buffer[step][i].bPerA, AreaAt(time).bPerA, time - began)
    BY DEF CheckpointsExact
  <2>1. "aPerB" \in Directions /\ "bPerA" \in Directions
    BY DEF Directions
  <2> QED BY <1>1, <2>1
<1> QED
  BY <1>2, OracleInvKept, PTL

----------------------------------------------------------------------------
(* The averages *)

(* The quotient of any integer. *)
LEMMA IntQuotient ==
  ASSUME NEW x \in Int, NEW n \in Nat \ {0}
  PROVE  /\ x \div n \in Int
         /\ (x \div n) * n <= x
         /\ x < (x \div n) * n + n
<1> DEFINE q == x \div n
           r == x % n
<1>1. q \in Int /\ r \in 0..(n - 1) /\ x = n * q + r
  OBVIOUS
<1> HIDE DEF q, r
<1>2. n * q = q * n /\ q * n \in Int
  BY <1>1
<1>3. q \in Int /\ q * n <= x /\ x < q * n + n
  BY <1>1, <1>2
<1> QED
  BY <1>3 DEF q

(* The average of two values that have lost about as much. *)
LEMMA AverageOfNear ==
  ASSUME NEW nanos \in Nat \ {0},
         NEW exact \in Int, NEW d \in Int, NEW lossNew \in Int, NEW lossOld \in Int,
         d * NanosPerSecond = (exact - lossNew) + lossOld,
         lossOld <= lossNew + Digit,
         lossNew <= lossOld + Digit * (nanos + 1)
  PROVE  AverageOf((d \div nanos) * NanosPerSecond, exact, nanos)
<1> DEFINE q == d \div nanos
           N == NanosPerSecond
<1>1. q \in Int /\ q * nanos <= d /\ d <= q * nanos + nanos
  BY IntQuotient
<1>2. N \in Nat /\ N \in Int
  OBVIOUS
<1> HIDE DEF q, N
<1> DEFINE m == q * nanos
<1>3. m \in Int /\ m <= d /\ d <= m + nanos /\ (q * N) * nanos = N * m
  BY <1>1, <1>2
<1> HIDE DEF m
<1>4. N * m <= N * d /\ N * m \in Int /\ N * d \in Int /\ N * d = d * N
  BY <1>2, <1>3, Faster
<1>5. N * d <= N * (m + nanos)
  BY <1>2, <1>3, Faster
<1>6. N * (m + nanos) = N * m + N * nanos /\ N * nanos \in Int
  BY <1>2, <1>3
<1>7. Digit = N - 1 /\ Digit \in Nat /\ Digit * (nanos + 1) \in Int
  BY DigitType DEF Digit, N
<1>8. (q * N) * nanos <= exact + N - 1
  BY <1>2, <1>3, <1>4, <1>7 DEF N
<1>9. exact - (q * N) * nanos <= N * nanos + Digit * (nanos + 1)
  BY <1>2, <1>3, <1>4, <1>5, <1>6, <1>7 DEF N
<1> QED
  BY <1>7, <1>8, <1>9 DEF AverageOf, q, N

(* A query between two checkpoints returns the average of the price the    *)
(* pool had between them.                                                  *)
THEOREM RangeAveragesAlways == Spec => []RangeAverages
<1>1. ASSUME OracleInv, started, NEW step \in Periods, NEW new, new = Present(step),
             NEW start \in 1..(Len(new) - 1), NEW end \in 0..(start - 1), NEW f \in Directions,
             NEW nanos, nanos = Nanos(step) * (start - end),
             NEW top, top = latest(step)
      PROVE  AverageOf(((new[end + 1][f] - new[start + 1][f]) \div nanos) * NanosPerSecond,
                       AreaAt(Nanos(top - end * step))[f] - AreaAt(Nanos(top - start * step))[f],
                       nanos)
  <2>1. new \in Seq(Twap) /\ Len(new) \in Nat /\ step \in Nat \ {0} /\ top \in Nat
    BY <1>1, PresentEntries, ClockType, CheckpointsDue
  <2>2. /\ start \in Nat /\ end \in Nat /\ start - end \in Nat \ {0}
        /\ end + 1 \in 1..Len(new) /\ start + 1 \in 1..Len(new) /\ end + 1 < start + 1
        /\ (end + 1) - 1 = end /\ (start + 1) - 1 = start
    BY <2>1
  <2> DEFINE young == Nanos(top - end * step)
             past == Nanos(top - start * step)
  <2>3. young = TimeOf(top, step, end + 1) /\ past = TimeOf(top, step, start + 1)
    BY <2>2 DEF TimeOf
  <2>4. nanos \in Nat \ {0}
    <3>1. Nanos(step) \in Nat \ {0}
      BY <2>1 DEF Nanos
    <3> QED BY <1>1, <2>2, <3>1
  <2>5. young - past = nanos
    <3>1. young = (top - end * step) * NanosPerSecond /\ past = (top - start * step) * NanosPerSecond
      BY DEF Nanos
    <3>2. nanos = (step * NanosPerSecond) * (start - end)
      BY <1>1 DEF Nanos
    <3> HIDE DEF young, past
    <3> QED BY <2>1, <2>2, <3>1, <3>2
  <2> HIDE DEF young, past
  <2>6. Near(f, new[end + 1], young, new[start + 1], past)
    BY <1>1, <2>2, <2>3, PresentNear
  <2>7. young \in began..now /\ past \in began..now
    BY <1>1, <2>2, <2>3, PresentLoss
  <2>8. new[end + 1][f] \in Nat /\ new[start + 1][f] \in Nat
    <3>1. new[end + 1] \in Twap /\ new[start + 1] \in Twap
      BY <2>1, <2>2
    <3> QED BY <3>1 DEF Twap, Directions
  <2>9. AreaAt(young)[f] \in Nat /\ AreaAt(past)[f] \in Nat
    BY <1>1, <2>7, AreaType
  <2> DEFINE a == new[end + 1][f]
             b == new[start + 1][f]
             A == AreaAt(young)[f]
             B == AreaAt(past)[f]
             lossNew == A - a * NanosPerSecond
             lossOld == B - b * NanosPerSecond
             exact == A - B
             d == a - b
  <2>10. lossOld <= lossNew + Digit /\ lossNew <= lossOld + Digit * (young - past + 1)
    BY <2>6 DEF Near, Loss
  <2>11. lossNew <= lossOld + Digit * (nanos + 1)
    BY <2>5, <2>10
  <2> HIDE DEF a, b, A, B
  <2>12. a \in Nat /\ b \in Nat /\ A \in Nat /\ B \in Nat
    BY <2>8, <2>9 DEF a, b, A, B
  <2>13. a * NanosPerSecond \in Nat /\ b * NanosPerSecond \in Nat
         /\ d * NanosPerSecond = a * NanosPerSecond - b * NanosPerSecond
    BY <2>12
  <2>14. d * NanosPerSecond = (exact - lossNew) + lossOld
         /\ exact \in Int /\ d \in Int /\ lossNew \in Int /\ lossOld \in Int
    BY <2>12, <2>13
  <2> HIDE DEF d, exact, lossNew, lossOld
  <2>15. AverageOf((d \div nanos) * NanosPerSecond, exact, nanos)
    BY ONLY <2>4, <2>10, <2>11, <2>14, AverageOfNear
  <2> QED BY <2>15 DEF d, exact, a, b, A, B, young, past
<1>2. OracleInv => RangeAverages
  <2> SUFFICES ASSUME OracleInv, started, NEW step \in Periods,
                      NEW start \in 1..(Len(Present(step)) - 1), NEW end \in 0..(start - 1),
                      NEW f \in DOMAIN ZeroTwap
               PROVE  AverageOf(QueryRange(step, start, end)[f],
                                AreaAt(Nanos(latest(step) - end * step))[f]
                                  - AreaAt(Nanos(latest(step) - start * step))[f],
                                Nanos(step) * (start - end))
    BY DEF RangeAverages, latest
  <2>1. f \in Directions
    BY DEF ZeroTwap, Directions
  <2> DEFINE new == Present(step)
             nanos == Nanos(step) * (start - end)
  <2>2. QueryRange(step, start, end)[f]
          = ((new[end + 1][f] - new[start + 1][f]) \div nanos) * NanosPerSecond
    BY <2>1 DEF QueryRange, AveragePrice, Directions
  <2>3. AverageOf(((new[end + 1][f] - new[start + 1][f]) \div nanos) * NanosPerSecond,
                  AreaAt(Nanos(latest(step) - end * step))[f]
                    - AreaAt(Nanos(latest(step) - start * step))[f],
                  nanos)
    BY <1>1, <2>1
  <2> QED BY <2>2, <2>3
<1> QED
  BY <1>2, OracleInvKept, PTL
=============================================================================
