--------------------------- MODULE PairLsdProofs ---------------------------
(***************************************************************************)
(* Theorems about the stableswap pair, for any curve, fees, clock and      *)
(* answers of the hub.  First its amplification alone, for any limits,     *)
(* ramps and clock: it stays in range, only time moves it, and not too     *)
(* fast, whatever ramps are started and stopped.  Then access, the target  *)
(* rate and what the oracle is told.  Last Newton's method: what the       *)
(* solvers answer with, when they do, and so that the pools stay well      *)
(* formed, that every swap ends on the curve, and that LP tokens are       *)
(* minted and burned at nobody's expense.                                  *)
(***************************************************************************)
EXTENDS PairLsd, WellFoundedInduction, TLAPS

(* Part of an amount, passed out of whole, rounded down, is within it *)
LEMMA PartOf ==
  ASSUME NEW x \in Nat, NEW passed \in Nat, NEW whole \in Nat \ {0}, passed <= whole
  PROVE  (x * passed) \div whole \in 0..x
<1>1. x * passed <= x * whole
  OBVIOUS
<1> QED
  BY <1>1

LEMMA NothingPassed ==
  ASSUME NEW x \in Nat, NEW whole \in Nat \ {0}
  PROVE  (x * 0) \div whole = 0
OBVIOUS

(* What AmpAt computes lies between the ends of the ramp *)
LEMMA AmpAtRange ==
  ASSUME NEW low \in Nat, NEW high \in Nat,
         NEW ramp, ramp.init \in low..high, ramp.next \in low..high,
         ramp.since \in Nat, ramp.until \in Nat, NEW time \in Nat, ramp.since <= time
  PROVE  AmpAt(ramp, time) \in low..high
<1> DEFINE passed == time - ramp.since
           whole == ramp.until - ramp.since
           rise == ramp.next - ramp.init
           fall == ramp.init - ramp.next
<1>1. CASE time >= ramp.until
  BY <1>1 DEF AmpAt
<1>2. CASE ~(time >= ramp.until) /\ ramp.next > ramp.init
  <2>1. AmpAt(ramp, time) = ramp.init + (rise * passed) \div whole
    BY <1>2 DEF AmpAt
  <2>2. rise \in Nat /\ passed \in Nat /\ whole \in Nat \ {0} /\ passed <= whole
    BY <1>2
  <2>3. (rise * passed) \div whole \in 0..rise
    <3> HIDE DEF rise, passed, whole
    <3> QED BY <2>2, PartOf
  <2>4. ASSUME NEW q \in 0..rise PROVE ramp.init + q \in low..high
    OBVIOUS
  <2> QED BY <2>1, <2>3, <2>4
<1>3. CASE ~(time >= ramp.until) /\ ~(ramp.next > ramp.init)
  <2>1. AmpAt(ramp, time) = ramp.init - (fall * passed) \div whole
    BY <1>3 DEF AmpAt
  <2>2. fall \in Nat /\ passed \in Nat /\ whole \in Nat \ {0} /\ passed <= whole
    BY <1>3
  <2>3. (fall * passed) \div whole \in 0..fall
    <3> HIDE DEF fall, passed, whole
    <3> QED BY <2>2, PartOf
  <2>4. ASSUME NEW q \in 0..fall PROVE ramp.init - q \in low..high
    OBVIOUS
  <2> QED BY <2>1, <2>3, <2>4
<1> QED
  BY <1>1, <1>2, <1>3

(* A ramp has not moved yet at the moment it starts *)
LEMMA AmpAtStart ==
  ASSUME NEW ramp, ramp.init \in Nat, ramp.next \in Nat, ramp.since \in Nat, ramp.until \in Nat,
         ramp.since < ramp.until
  PROVE  AmpAt(ramp, ramp.since) = ramp.init
<1> DEFINE whole == ramp.until - ramp.since
<1>1. ~(ramp.since >= ramp.until) /\ ramp.since - ramp.since = 0 /\ whole \in Nat \ {0}
  OBVIOUS
<1>2. CASE ramp.next > ramp.init
  <2>1. AmpAt(ramp, ramp.since) = ramp.init + ((ramp.next - ramp.init) * 0) \div whole
    BY <1>1, <1>2 DEF AmpAt
  <2>2. ramp.next - ramp.init \in Nat
    BY <1>2
  <2>3. ((ramp.next - ramp.init) * 0) \div whole = 0
    <3> HIDE DEF whole
    <3> QED BY <1>1, <2>2, NothingPassed
  <2> QED BY <2>1, <2>3
<1>3. CASE ~(ramp.next > ramp.init)
  <2>1. AmpAt(ramp, ramp.since) = ramp.init - ((ramp.init - ramp.next) * 0) \div whole
    BY <1>1, <1>3 DEF AmpAt
  <2>2. ramp.init - ramp.next \in Nat
    BY <1>3
  <2>3. ((ramp.init - ramp.next) * 0) \div whole = 0
    <3> HIDE DEF whole
    <3> QED BY <1>1, <2>2, NothingPassed
  <2> QED BY <2>1, <2>3
<1> QED
  BY <1>2, <1>3
----------------------------------------------------------------------------
Coefficients == AmpPrecision..(MaxAmp * AmpPrecision)

LEMMA CoefficientOf ==
  ASSUME NEW n \in 1..MaxAmp
  PROVE  n * AmpPrecision \in Coefficients
<1>1. MaxAmp \in Nat /\ AmpPrecision \in Nat \ {0}
  BY AmpAssumption, ScaleAssumption
<1>2. 1 * AmpPrecision <= n * AmpPrecision /\ n * AmpPrecision <= MaxAmp * AmpPrecision
  BY <1>1
<1> QED
  BY <1>1, <1>2 DEF Coefficients

LEMMA AmpInitType == AmpInit => AmpTypeOK
<1> SUFFICES ASSUME AmpInit PROVE AmpTypeOK
  OBVIOUS
<1>1. PICK initial \in InitialAmps : amp = Constant(initial * AmpPrecision)
  BY DEF AmpInit
<1>2. initial * AmpPrecision \in Coefficients
  BY CoefficientOf, AmpAssumption
<1>3. now = Genesis /\ Genesis \in Nat /\ Genesis \in Genesis..MaxTime
  BY AmpAssumption DEF AmpInit
<1>4. CurrentAmp = initial * AmpPrecision
  BY <1>1, <1>3 DEF CurrentAmp, AmpAt, Constant
<1> QED
  BY <1>1, <1>2, <1>3, <1>4 DEF AmpTypeOK, Constant, Coefficients

LEMMA AmpTickType ==
  ASSUME AmpTypeOK, AmpTick
  PROVE  AmpTypeOK'
<1>1. now' \in Genesis..MaxTime /\ amp' = amp /\ amp.since \in Genesis..now'
  BY AmpAssumption DEF AmpTypeOK, AmpTick
<1>2. CurrentAmp' = AmpAt(amp, now')
  BY <1>1 DEF CurrentAmp
<1>3. AmpAt(amp, now') \in Coefficients
  <2>1. AmpPrecision \in Nat /\ MaxAmp * AmpPrecision \in Nat /\ Genesis \in Nat
    BY AmpAssumption, ScaleAssumption
  <2>2. now' \in Nat /\ amp.since \in Nat /\ amp.until \in Nat /\ amp.since <= now'
    BY <1>1, <2>1 DEF AmpTypeOK
  <2> QED BY <2>1, <2>2, AmpAtRange DEF AmpTypeOK, Coefficients
<1> QED
  BY <1>1, <1>2, <1>3 DEF AmpTypeOK, Coefficients

(* A ramp that starts leaves the coefficient of this block as it is *)
LEMMA StartSteady ==
  ASSUME AmpTypeOK, NEW next \in 1..MaxAmp, NEW until \in Nat, StartChangingAmp(next, until)
  PROVE  AmpTypeOK' /\ CurrentAmp' = CurrentAmp
<1>1. now \in Nat /\ MinAmpChangingTime \in Nat \ {0}
  BY AmpAssumption DEF AmpTypeOK
<1>2. now < until /\ now' = now /\ amp' = RampTo(next, until)
  BY <1>1 DEF StartChangingAmp
<1>3. CurrentAmp \in Nat /\ next * AmpPrecision \in Coefficients /\ next * AmpPrecision \in Nat
  BY CoefficientOf, ScaleAssumption, AmpAssumption DEF AmpTypeOK, Coefficients
<1>4. /\ amp'.init = CurrentAmp /\ amp'.since = now
      /\ amp'.next = next * AmpPrecision /\ amp'.until = until
  BY <1>2 DEF RampTo
<1>5. CurrentAmp' = CurrentAmp
  <2>1. CurrentAmp' = AmpAt(amp', amp'.since)
    BY <1>2, <1>4 DEF CurrentAmp
  <2> QED BY <1>1, <1>2, <1>3, <1>4, <2>1, AmpAtStart
<1> QED
  BY <1>1, <1>2, <1>3, <1>4, <1>5 DEF AmpTypeOK, Coefficients

LEMMA StopSteady ==
  ASSUME AmpTypeOK, StopChangingAmp
  PROVE  AmpTypeOK' /\ CurrentAmp' = CurrentAmp
<1>1. now \in Nat /\ now' = now
  BY AmpAssumption DEF AmpTypeOK, StopChangingAmp
<1>2. /\ amp'.init = CurrentAmp /\ amp'.since = now /\ amp'.next = CurrentAmp /\ amp'.until = now
  BY DEF StopChangingAmp, Constant
<1>3. CurrentAmp' = CurrentAmp
  BY <1>1, <1>2 DEF CurrentAmp, AmpAt
<1> QED
  BY <1>1, <1>2, <1>3 DEF AmpTypeOK

LEMMA AmpNextType ==
  ASSUME AmpTypeOK, [AmpNext]_ampVars
  PROVE  AmpTypeOK' /\ (now' = now => CurrentAmp' = CurrentAmp)
<1>1. CASE UNCHANGED ampVars
  BY <1>1 DEF ampVars, AmpTypeOK, CurrentAmp
<1>2. CASE AmpTick
  <2>1. now' # now
    BY <1>2, AmpAssumption DEF AmpTypeOK, AmpTick
  <2> QED BY <1>2, <2>1, AmpTickType
<1>3. ASSUME NEW next \in 1..MaxAmp, NEW until \in Genesis..(MaxTime + MinAmpChangingTime),
             StartChangingAmp(next, until)
      PROVE  AmpTypeOK' /\ CurrentAmp' = CurrentAmp
  <2>1. until \in Nat
    BY AmpAssumption
  <2> QED BY <1>3, <2>1, StartSteady
<1>4. CASE StopChangingAmp
  BY <1>4, StopSteady
<1> QED
  BY <1>1, <1>2, <1>3, <1>4 DEF AmpNext

(* The coefficient is at least one and at most MAX_AMP, and between the ends *)
(* of its ramp, whatever ramps are started and stopped and when.             *)
THEOREM AmpInRange == AmpSpec => []AmpTypeOK
<1>1. AmpTypeOK /\ [AmpNext]_ampVars => AmpTypeOK'
  BY AmpNextType
<1> QED
  BY <1>1, AmpInitType, PTL DEF AmpSpec

(* Starting or stopping a ramp never makes the coefficient jump: in every    *)
(* block it is what compute_current_amp said before the message.             *)
THEOREM AmpSteady == AmpSpec => AmpContinuous
<1>1. AmpTypeOK /\ [AmpNext]_ampVars => [now' = now => CurrentAmp' = CurrentAmp]_ampVars
  BY AmpNextType
<1> QED
  BY <1>1, AmpInRange, PTL DEF AmpSpec, AmpContinuous

----------------------------------------------------------------------------
(* How fast the coefficient moves *)

USE AmpAssumption

(* what start_changing_amp makes of a ramp, or a constant *)
RampOK(ramp) ==
  /\ ramp.init \in Nat \ {0} /\ ramp.next \in Nat \ {0}
  /\ ramp.since \in Nat /\ ramp.until \in Nat /\ ramp.since <= ramp.until
  /\ \/ ramp.init = ramp.next
     \/ /\ ramp.since + MinAmpChangingTime <= ramp.until
        /\ ramp.next <= MaxAmpChange * ramp.init
        /\ ramp.init <= MaxAmpChange * ramp.next

Whole(ramp) == ramp.until - ramp.since

(* how much of its time has passed *)
Gone(ramp, time) == IF time >= ramp.until THEN Whole(ramp) ELSE time - ramp.since

(* a value that climbs, or falls, by `change` in `whole` has come this far *)
Climbed(value, init, change, whole, gone) ==
  value * whole <= init * whole + change * gone /\ init * whole + change * gone < value * whole + whole

Fallen(value, init, change, whole, gone) ==
  init * whole - change * gone <= value * whole /\ value * whole < (init * whole - change * gone) + whole

LEMMA TimesMono ==
  ASSUME NEW c \in Nat, NEW x \in Int, NEW y \in Int, x <= y
  PROVE  c * x <= c * y /\ c * x \in Int /\ c * y \in Int
<1>1. c * (y - x) \in Nat
  OBVIOUS
<1>2. c * (y - x) = c * y - c * x /\ c * x \in Int /\ c * y \in Int
  OBVIOUS
<1> QED
  BY <1>1, <1>2

LEMMA TimesLess ==
  ASSUME NEW c \in Nat, NEW x \in Nat, NEW y \in Nat
  PROVE  /\ (c + 1) * (x - y) = c * x + x - (c + 1) * y
         /\ c * x \in Int /\ (c + 1) * y \in Int
OBVIOUS

LEMMA TimesCancel ==
  ASSUME NEW n \in Nat \ {0}, NEW x \in Int, NEW y \in Int, x * n < y * n
  PROVE  x < y
<1> SUFFICES ASSUME y <= x PROVE FALSE
  OBVIOUS
<1>1. n * y <= n * x /\ n * y = y * n /\ n * x = x * n
  BY TimesMono
<1> QED
  BY <1>1

LEMMA Floor ==
  ASSUME NEW x \in Nat, NEW whole \in Nat \ {0}
  PROVE  /\ x \div whole \in Nat
         /\ (x \div whole) * whole <= x /\ x < (x \div whole) * whole + whole
<1> DEFINE q == x \div whole
           r == x % whole
<1>1. q \in Nat /\ r \in 0..(whole - 1) /\ x = whole * q + r
  OBVIOUS
<1> HIDE DEF q, r
<1>2. whole * q = q * whole /\ q * whole \in Nat
  BY <1>1
<1>3. q \in Nat /\ q * whole <= x /\ x < q * whole + whole
  BY <1>1, <1>2
<1> QED
  BY <1>3 DEF q

(* Where a ramp that climbs has come to. *)
LEMMA ClimbValue ==
  ASSUME NEW ramp, RampOK(ramp), ramp.init < ramp.next,
         NEW time \in Nat, ramp.since <= time
  PROVE  /\ Whole(ramp) \in Nat \ {0} /\ MinAmpChangingTime <= Whole(ramp)
         /\ Gone(ramp, time) \in 0..Whole(ramp)
         /\ AmpAt(ramp, time) \in ramp.init..ramp.next
         /\ Climbed(AmpAt(ramp, time), ramp.init, ramp.next - ramp.init, Whole(ramp), Gone(ramp, time))
<1> DEFINE L == Whole(ramp)
           p == Gone(ramp, time)
           K == ramp.next - ramp.init
           v == AmpAt(ramp, time)
<1>1. ramp.init \in Nat \ {0} /\ ramp.next \in Nat \ {0} /\ ramp.since \in Nat /\ ramp.until \in Nat
  BY DEF RampOK
<1>2. L \in Nat \ {0} /\ MinAmpChangingTime <= L
  BY <1>1 DEF RampOK, Whole
<1>3. p \in 0..L
  BY <1>1, <1>2 DEF Gone, Whole
<1>4. v \in ramp.init..ramp.next
  <2>1. ramp.init \in ramp.init..ramp.next /\ ramp.next \in ramp.init..ramp.next
    BY <1>1
  <2> QED BY <1>1, <2>1, AmpAtRange
<1>5. K \in Nat
  BY <1>1
<1>6. Climbed(v, ramp.init, K, L, p)
  <2>1. CASE time >= ramp.until
    <3>1. v = ramp.init + K /\ p = L
      BY <1>1, <2>1 DEF AmpAt, Gone
    <3>2. v * L = ramp.init * L + K * p /\ v * L \in Int
      <4> HIDE DEF L, p, K, v
      <4> QED BY <1>1, <1>2, <1>5, <3>1
    <3> HIDE DEF L, p, K, v
    <3> QED BY <1>2, <3>2 DEF Climbed
  <2>2. CASE ~(time >= ramp.until)
    <3>1. p = time - ramp.since
      BY <2>2 DEF Gone
    <3>2. v = ramp.init + (K * p) \div L
      BY <2>2, <3>1 DEF AmpAt, Whole
    <3> HIDE DEF L, p, K, v
    <3>3. K * p \in Nat
      BY <1>3, <1>5
    <3> DEFINE w == (K * p) \div L
    <3>4. w \in Nat /\ w * L <= K * p /\ K * p < w * L + L
      BY <1>2, <3>3, Floor
    <3> HIDE DEF w
    <3>5. v * L = ramp.init * L + w * L /\ ramp.init * L \in Nat /\ w * L \in Nat
      BY <1>1, <1>2, <3>2, <3>4 DEF w
    <3> QED BY <1>2, <3>3, <3>4, <3>5 DEF Climbed
  <2> QED BY <2>1, <2>2
<1> QED
  BY <1>2, <1>3, <1>4, <1>6

(* Where a ramp that falls has come to. *)
LEMMA FallValue ==
  ASSUME NEW ramp, RampOK(ramp), ramp.next < ramp.init,
         NEW time \in Nat, ramp.since <= time
  PROVE  /\ Whole(ramp) \in Nat \ {0} /\ MinAmpChangingTime <= Whole(ramp)
         /\ Gone(ramp, time) \in 0..Whole(ramp)
         /\ AmpAt(ramp, time) \in ramp.next..ramp.init
         /\ Fallen(AmpAt(ramp, time), ramp.init, ramp.init - ramp.next, Whole(ramp), Gone(ramp, time))
<1> DEFINE L == Whole(ramp)
           p == Gone(ramp, time)
           K == ramp.init - ramp.next
           v == AmpAt(ramp, time)
<1>1. ramp.init \in Nat \ {0} /\ ramp.next \in Nat \ {0} /\ ramp.since \in Nat /\ ramp.until \in Nat
  BY DEF RampOK
<1>2. L \in Nat \ {0} /\ MinAmpChangingTime <= L
  BY <1>1 DEF RampOK, Whole
<1>3. p \in 0..L
  BY <1>1, <1>2 DEF Gone, Whole
<1>4. v \in ramp.next..ramp.init
  <2>1. ramp.init \in ramp.next..ramp.init /\ ramp.next \in ramp.next..ramp.init
    BY <1>1
  <2> QED BY <1>1, <2>1, AmpAtRange
<1>5. K \in Nat
  BY <1>1
<1>6. Fallen(v, ramp.init, K, L, p)
  <2>1. CASE time >= ramp.until
    <3>1. v = ramp.init - K /\ p = L
      BY <1>1, <2>1 DEF AmpAt, Gone
    <3>2. v * L = ramp.init * L - K * p /\ v * L \in Int
      <4> HIDE DEF L, p, K, v
      <4> QED BY <1>1, <1>2, <1>5, <3>1
    <3> HIDE DEF L, p, K, v
    <3> QED BY <1>2, <3>2 DEF Fallen
  <2>2. CASE ~(time >= ramp.until)
    <3>1. p = time - ramp.since
      BY <2>2 DEF Gone
    <3>2. v = ramp.init - (K * p) \div L
      BY <1>1, <2>2, <3>1 DEF AmpAt, Whole
    <3> HIDE DEF L, p, K, v
    <3>3. K * p \in Nat
      BY <1>3, <1>5
    <3> DEFINE w == (K * p) \div L
    <3>4. w \in Nat /\ w * L <= K * p /\ K * p < w * L + L
      BY <1>2, <3>3, Floor
    <3> HIDE DEF w
    <3>5. v * L = ramp.init * L - w * L /\ ramp.init * L \in Nat /\ w * L \in Nat
      BY <1>1, <1>2, <3>2, <3>4 DEF w
    <3> QED BY <1>2, <3>3, <3>4, <3>5 DEF Fallen
  <2> QED BY <2>1, <2>2
<1> QED
  BY <1>2, <1>3, <1>4, <1>6

----------------------------------------------------------------------------
(* Two ramps in the same direction: what is left of the time for the second *)
(* one, after the first has used its part, is too short to exceed the limit *)
(* together.  The values are multiples of the duration of the first ramp.   *)

LEMMA TwoClimbs ==
  ASSUME NEW v0 \in Nat, NEW K \in Nat, NEW L \in Nat, NEW U \in Nat, NEW c \in Nat,
         NEW a \in Nat, NEW q \in Nat, NEW b \in Nat,
         U <= L, U <= q, q <= L, a <= q, b + q <= U + a, K <= c * v0,
         NEW x \in Int, NEW y \in Int, x = v0 * L + K * a, y = v0 * L + K * q
  PROVE  y * (U + c * b) <= (c + 1) * (U * x)
<1> DEFINE g == q - a
           left == U - g
           P == U * K
<1>1. g \in Nat /\ left \in Nat /\ b <= left /\ U = left + g /\ q = a + g
  BY DEF g, left
<1> HIDE DEF g, left
<1>2. y = x + K * g /\ K * g \in Nat /\ x \in Nat /\ y \in Nat
  <2>1. K * q = K * a + K * g /\ K * a \in Nat /\ K * g \in Nat /\ K * q \in Nat /\ v0 * L \in Nat
    BY <1>1
  <2> QED BY <2>1
<1>3. y * (U + c * b) <= y * (U + c * left) /\ y * (U + c * b) \in Int
  <2>1. c * b <= c * left /\ c * b \in Int /\ c * left \in Int
    BY <1>1, TimesMono
  <2>2. U + c * b <= U + c * left /\ U + c * b \in Int /\ U + c * left \in Int
    BY <2>1
  <2> QED BY <1>2, <2>2, TimesMono
<1>4. y * (U + c * left) = y * U + c * (y * left) /\ y * U \in Nat /\ y * left \in Nat
  BY <1>1, <1>2
<1>5. y * left = y * U - y * g /\ y * g \in Nat
  BY <1>1, <1>2
<1>6. U * x = y * U - P * g /\ P \in Nat /\ P * g \in Nat
  <2>1. P \in Nat /\ U * (K * g) = P * g
    BY <1>1
  <2>2. U * y = U * x + U * (K * g) /\ U * y = y * U /\ U * x \in Int
    BY <1>1, <1>2
  <2> HIDE DEF P
  <2> QED BY <1>1, <1>4, <2>1, <2>2
<1>7. P <= c * y - c * P /\ c * y \in Int /\ c * P \in Int
  <2>1. K * U <= K * L /\ K * L \in Nat
    BY TimesMono
  <2>2. L * K <= L * (c * v0)
    BY TimesMono
  <2>3. L * (c * v0) = c * (v0 * L) /\ v0 * L \in Nat /\ L * K = K * L /\ K * U = P
    OBVIOUS
  <2>4. K * U <= K * q /\ K * q \in Int
    BY TimesMono
  <2>5. y = v0 * L + K * q /\ c * y = c * (v0 * L) + c * (K * q)
    BY <2>3, <2>4
  <2>6. c * P <= c * (K * q) /\ c * P \in Int /\ c * (K * q) \in Int
    BY <2>3, <2>4, TimesMono
  <2>7. c * (v0 * L) \in Int /\ P \in Int
    BY <2>3
  <2> HIDE DEF P
  <2> QED BY <2>1, <2>2, <2>3, <2>5, <2>6, <2>7
<1> HIDE DEF P
<1>8. P * g <= c * (y * g) - c * (P * g) /\ c * (y * g) \in Int /\ c * (P * g) \in Int
  <2>1. g * P <= g * (c * y - c * P) /\ c * y - c * P \in Int
    BY <1>1, <1>6, <1>7, TimesMono
  <2>2. g * P = P * g /\ g * (c * y - c * P) = c * (y * g) - c * (P * g)
    BY <1>1, <1>2, <1>6
  <2>3. c * (y * g) \in Int /\ c * (P * g) \in Int
    BY <1>5, <1>6
  <2> QED BY <2>1, <2>2, <2>3
<1>9. /\ (c + 1) * (U * x) = c * (y * U - P * g) + (y * U - P * g)
      /\ c * (y * U - P * g) = c * (y * U) - c * (P * g)
      /\ c * (y * left) = c * (y * U) - c * (y * g)
      /\ c * (y * U) \in Int
  BY <1>4, <1>5, <1>6
<1> QED
  BY <1>3, <1>4, <1>6, <1>8, <1>9

LEMMA TwoFalls ==
  ASSUME NEW v0 \in Nat, NEW K \in Nat, NEW L \in Nat, NEW U \in Nat, NEW c \in Nat,
         NEW a \in Nat, NEW q \in Nat, NEW b \in Nat,
         U <= L, U <= q, q <= L, a <= q, b + q <= U + a, (c + 1) * K <= c * v0,
         NEW x \in Int, NEW y \in Nat, x = v0 * L - K * a, y = v0 * L - K * q
  PROVE  x * U <= y * ((c + 1) * U - c * b)
<1> DEFINE g == q - a
           left == U - g
           P == U * K
<1>1. g \in Nat /\ left \in Nat /\ b <= left /\ U = left + g /\ q = a + g
  BY DEF g, left
<1> HIDE DEF g, left
<1>2. x = y + K * g /\ K * g \in Nat
  <2>1. K * q = K * a + K * g /\ K * a \in Nat /\ K * g \in Nat /\ K * q \in Nat /\ v0 * L \in Nat
    BY <1>1
  <2> QED BY <2>1
<1>3. U + c * g <= (c + 1) * U - c * b /\ (c + 1) * U - c * b \in Int /\ U + c * g \in Int
  <2>1. c * b <= c * left /\ c * b \in Int /\ c * left \in Int
    BY <1>1, TimesMono
  <2>2. (c + 1) * U = U + c * left + c * g /\ c * g \in Int /\ (c + 1) * U \in Int
    BY <1>1
  <2> QED BY <1>1, <2>1, <2>2
<1>4. y * (U + c * g) <= y * ((c + 1) * U - c * b)
      /\ y * (U + c * g) \in Int /\ y * ((c + 1) * U - c * b) \in Int
  BY <1>3, TimesMono
<1>5. y * (U + c * g) = y * U + c * (y * g) /\ y * U \in Nat /\ y * g \in Nat
  BY <1>1
<1>6. x * U = y * U + P * g /\ P \in Nat /\ P * g \in Nat
  <2>1. P \in Nat /\ (K * g) * U = P * g
    BY <1>1
  <2>2. x * U = y * U + (K * g) * U
    BY <1>1, <1>2
  <2> HIDE DEF P
  <2> QED BY <1>1, <2>1, <2>2
<1>7. P <= c * y /\ c * y \in Int
  <2>1. L * ((c + 1) * K) <= L * (c * v0)
    BY TimesMono
  <2>2. L * ((c + 1) * K) = c * (K * L) + K * L /\ L * (c * v0) = c * (v0 * L) /\ v0 * L \in Nat /\ K * L \in Nat
    OBVIOUS
  <2>3. K * q <= K * L /\ K * q \in Int
    BY TimesMono
  <2>4. c * (K * q) <= c * (K * L) /\ c * (K * q) \in Int /\ c * (K * L) \in Int
    BY <2>2, <2>3, TimesMono
  <2>5. K * U <= K * L /\ K * U = P
    BY TimesMono
  <2>6. c * y = c * (v0 * L) - c * (K * q) /\ c * (v0 * L) \in Int
    BY <2>2, <2>3
  <2> HIDE DEF P
  <2> QED BY <1>6, <2>1, <2>2, <2>4, <2>5, <2>6
<1> HIDE DEF P
<1>8. P * g <= c * (y * g)
  <2>1. g * P <= g * (c * y)
    BY <1>1, <1>6, <1>7, TimesMono
  <2>2. g * P = P * g /\ g * (c * y) = c * (y * g)
    BY <1>1, <1>6
  <2> QED BY <2>1, <2>2
<1>9. c * (y * g) \in Int
  BY <1>5
<1> QED
  BY <1>4, <1>5, <1>6, <1>8, <1>9

----------------------------------------------------------------------------
(* One ramp and two *)

LEMMA ConstantValue ==
  ASSUME NEW ramp, RampOK(ramp), ramp.init = ramp.next, NEW time \in Nat, ramp.since <= time
  PROVE  AmpAt(ramp, time) = ramp.init
<1>1. ramp.init \in ramp.init..ramp.init /\ ramp.next \in ramp.init..ramp.init /\ ramp.init \in Nat
      /\ ramp.since \in Nat /\ ramp.until \in Nat
  BY DEF RampOK
<1>2. AmpAt(ramp, time) \in ramp.init..ramp.init
  BY <1>1, AmpAtRange
<1> QED
  BY <1>1, <1>2

(* Two values of one ramp are within the limit. *)
LEMMA OneRamp ==
  ASSUME NEW ramp, RampOK(ramp), NEW time \in Nat, NEW later \in Nat,
         ramp.since <= time, ramp.since <= later
  PROVE  /\ AmpAt(ramp, time) \in Nat \ {0}
         /\ AmpAt(ramp, later) <= MaxAmpChange * AmpAt(ramp, time)
<1> DEFINE v == AmpAt(ramp, time)
           z == AmpAt(ramp, later)
           low == IF ramp.init <= ramp.next THEN ramp.init ELSE ramp.next
           high == IF ramp.init <= ramp.next THEN ramp.next ELSE ramp.init
<1>1. ramp.init \in Nat \ {0} /\ ramp.next \in Nat \ {0} /\ ramp.since \in Nat /\ ramp.until \in Nat
  BY DEF RampOK
<1>2. /\ low \in Nat \ {0} /\ high \in Nat /\ ramp.init \in low..high /\ ramp.next \in low..high
  BY <1>1
<1>3. high <= MaxAmpChange * low
  <2>1. MaxAmpChange \in Nat \ {0}
    OBVIOUS
  <2>2. CASE ramp.init = ramp.next
    <3>1. ramp.init * 1 <= ramp.init * MaxAmpChange
      BY <1>1, <2>1, TimesMono
    <3> QED BY <1>1, <2>1, <2>2, <3>1
  <2>3. CASE ramp.init # ramp.next
    BY <1>1, <2>1, <2>3 DEF RampOK
  <2> QED BY <2>2, <2>3
<1> HIDE DEF low, high
<1>4. v \in low..high /\ z \in low..high
  BY <1>1, <1>2, AmpAtRange
<1> HIDE DEF v, z
<1>5. MaxAmpChange * low <= MaxAmpChange * v /\ MaxAmpChange * low \in Int /\ MaxAmpChange * v \in Int
  BY <1>2, <1>4, TimesMono
<1>6. v \in Nat \ {0} /\ z <= MaxAmpChange * v
  BY <1>2, <1>3, <1>4, <1>5
<1> QED
  BY <1>6 DEF v, z

LEMMA GoneOn ==
  ASSUME NEW ramp, ramp.since \in Nat, ramp.until \in Nat, ramp.since <= ramp.until,
         NEW time \in Nat, NEW later \in Nat,
         ramp.since <= time, time <= later
  PROVE  /\ Gone(ramp, time) <= Gone(ramp, later)
         /\ Gone(ramp, later) <= later - ramp.since
         /\ Gone(ramp, later) - Gone(ramp, time) <= later - time
         /\ Gone(ramp, time) \in Nat /\ Gone(ramp, later) \in Nat
BY DEF Gone, Whole

(* A ramp that climbs never falls, and the other way round. *)
LEMMA RampMoves ==
  ASSUME NEW ramp, RampOK(ramp), NEW time \in Nat, NEW later \in Nat,
         ramp.since <= time, time <= later
  PROVE  /\ ramp.init < ramp.next => AmpAt(ramp, time) <= AmpAt(ramp, later)
         /\ ramp.next < ramp.init => AmpAt(ramp, later) <= AmpAt(ramp, time)
<1> DEFINE L == Whole(ramp)
           p == Gone(ramp, time)
           q == Gone(ramp, later)
           v == AmpAt(ramp, time)
           z == AmpAt(ramp, later)
<1>1. ramp.init \in Nat \ {0} /\ ramp.next \in Nat \ {0} /\ ramp.since \in Nat /\ ramp.until \in Nat
      /\ ramp.since <= ramp.until /\ ramp.since <= later
  BY DEF RampOK
<1>2. p <= q /\ p \in Nat /\ q \in Nat
  BY <1>1, GoneOn
<1>3. ASSUME ramp.init < ramp.next PROVE v <= z
  <2> DEFINE K == ramp.next - ramp.init
  <2>1. /\ L \in Nat \ {0} /\ v \in Int /\ z \in Int
        /\ Climbed(v, ramp.init, K, L, p) /\ Climbed(z, ramp.init, K, L, q)
    BY <1>1, <1>3, ClimbValue
  <2>2. K \in Nat
    BY <1>1, <1>3
  <2> HIDE DEF K, L, p, q, v, z
  <2>3. K * p <= K * q /\ K * p \in Int /\ K * q \in Int
    BY <1>2, <2>2, TimesMono
  <2>4. v * L < z * L + L
    <3>1. ramp.init * L \in Int /\ v * L \in Int /\ z * L \in Int
      BY <1>1, <2>1
    <3> QED BY <2>1, <2>3, <3>1 DEF Climbed
  <2>5. z * L + L = (z + 1) * L
    BY <2>1
  <2>6. v < z + 1
    <3>1. z + 1 \in Int /\ v * L < (z + 1) * L
      BY <2>1, <2>4, <2>5
    <3> QED BY ONLY <2>1, <3>1, TimesCancel
  <2> QED BY <2>1, <2>6
<1>4. ASSUME ramp.next < ramp.init PROVE z <= v
  <2> DEFINE K == ramp.init - ramp.next
  <2>1. /\ L \in Nat \ {0} /\ v \in Int /\ z \in Int
        /\ Fallen(v, ramp.init, K, L, p) /\ Fallen(z, ramp.init, K, L, q)
    BY <1>1, <1>4, FallValue
  <2>2. K \in Nat
    BY <1>1, <1>4
  <2> HIDE DEF K, L, p, q, v, z
  <2>3. K * p <= K * q /\ K * p \in Int /\ K * q \in Int
    BY <1>2, <2>2, TimesMono
  <2>4. z * L < v * L + L
    <3>1. ramp.init * L \in Int /\ v * L \in Int /\ z * L \in Int
      BY <1>1, <2>1
    <3> QED BY <2>1, <2>3, <3>1 DEF Fallen
  <2>5. v * L + L = (v + 1) * L
    BY <2>1
  <2>6. z < v + 1
    <3>1. v + 1 \in Int /\ z * L < (v + 1) * L
      BY <2>1, <2>4, <2>5
    <3> QED BY ONLY <2>1, <3>1, TimesCancel
  <2> QED BY <2>1, <2>6
<1> HIDE DEF v, z
<1> QED
  BY <1>3, <1>4 DEF v, z

(* the second ramp starts where the first one is, at least its shortest    *)
(* time after the first one started                                        *)
Continues(ramp, old) ==
  /\ old.since + MinAmpChangingTime <= ramp.since
  /\ ramp.init = AmpAt(old, ramp.since)

(* the times of two ramps that one look back sees *)
LEMMA TimeLeft ==
  ASSUME NEW old, RampOK(old), old.init # old.next, NEW ramp, RampOK(ramp), Continues(ramp, old),
         NEW time \in Nat, NEW later \in Nat,
         old.since <= time, time <= ramp.since, ramp.since <= later,
         later - time <= MinAmpChangingTime
  PROVE  /\ MinAmpChangingTime <= Gone(old, ramp.since)
         /\ Gone(old, time) <= Gone(old, ramp.since)
         /\ Gone(ramp, later) + Gone(old, ramp.since) <= MinAmpChangingTime + Gone(old, time)
         /\ Gone(ramp, later) \in Nat
<1>1. /\ old.since \in Nat /\ old.until \in Nat /\ old.since + MinAmpChangingTime <= old.until
      /\ ramp.since \in Nat /\ ramp.until \in Nat /\ ramp.since <= ramp.until
      /\ MinAmpChangingTime \in Nat
      /\ old.since + MinAmpChangingTime <= ramp.since
  BY DEF RampOK, Continues
<1>2. MinAmpChangingTime <= Gone(old, ramp.since)
  BY <1>1 DEF Gone, Whole
<1>3. Gone(old, time) <= Gone(old, ramp.since) /\ Gone(old, ramp.since) - Gone(old, time) <= ramp.since - time
      /\ Gone(old, time) \in Nat /\ Gone(old, ramp.since) \in Nat
  BY <1>1, GoneOn
<1>4. Gone(ramp, later) <= later - ramp.since /\ Gone(ramp, later) \in Nat
  BY <1>1, GoneOn
<1> QED
  BY <1>1, <1>2, <1>3, <1>4

(* The value at the start of a ramp and its end, in the units of the limit. *)
LEMMA ClimbOn ==
  ASSUME NEW m \in Nat, NEW z \in Nat, NEW K \in Nat, NEW L \in Nat, NEW U \in Nat, NEW b \in Nat,
         NEW c \in Nat, U <= L, m <= z, K <= c * m, Climbed(z, m, K, L, b)
  PROVE  z * U <= m * (U + c * b)
<1> DEFINE g == z - m
<1>1. g \in Nat /\ z = m + g
  OBVIOUS
<1> HIDE DEF g
<1>2. g * L <= K * b /\ g * L \in Int /\ K * b \in Int
  <2>1. z * L = m * L + g * L /\ m * L \in Int /\ g * L \in Int /\ K * b \in Int
    BY <1>1
  <2> QED BY <2>1 DEF Climbed
<1>3. g * U <= g * L /\ g * U \in Int
  BY <1>1, TimesMono
<1>4. b * K <= b * (c * m) /\ b * K = K * b
  BY TimesMono
<1>5. z * U = m * U + g * U /\ m * (U + c * b) = m * U + b * (c * m) /\ m * U \in Int /\ b * (c * m) \in Int
  BY <1>1
<1> QED
  BY <1>2, <1>3, <1>4, <1>5

LEMMA FallOn ==
  ASSUME NEW m \in Nat, NEW z \in Nat, NEW K \in Nat, NEW L \in Nat, NEW U \in Nat, NEW b \in Nat,
         NEW c \in Nat, U <= L, z <= m, (c + 1) * K <= c * m, Fallen(z, m, K, L, b)
  PROVE  m * ((c + 1) * U - c * b) <= (c + 1) * (U * z)
<1> DEFINE g == m - z
           e == c + 1
<1>1. g \in Nat /\ m = z + g /\ e \in Nat /\ e * K <= c * m
  OBVIOUS
<1> HIDE DEF g, e
<1>2. g * L <= K * b /\ g * L \in Int /\ K * b \in Int
  <2>1. m * L = z * L + g * L /\ z * L \in Int /\ g * L \in Int /\ K * b \in Int
    BY <1>1
  <2> QED BY <2>1 DEF Fallen
<1>3. g * U <= g * L /\ g * U \in Int
  BY <1>1, TimesMono
<1>4. e * (g * U) <= e * (K * b) /\ e * (g * U) \in Int /\ e * (K * b) \in Int
  <2>1. g * U <= K * b
    BY <1>2, <1>3
  <2> QED BY <1>1, <1>2, <1>3, <2>1, TimesMono
<1>5. b * (e * K) <= b * (c * m) /\ b * (e * K) = e * (K * b) /\ b * (c * m) \in Int
  <2>1. e * K \in Int /\ c * m \in Int
    BY <1>1
  <2>2. b * (e * K) <= b * (c * m) /\ b * (c * m) \in Int
    BY <1>1, <2>1, TimesMono
  <2> QED BY <1>1, <2>2
<1>6. m * (e * U - c * b) = e * (m * U) - b * (c * m) /\ e * (m * U) \in Int
  BY <1>1
<1>7. e * (U * z) = e * (m * U) - e * (g * U) /\ e * (U * z) \in Int
  <2>1. U * z = m * U - g * U /\ m * U \in Int /\ g * U \in Int
    BY <1>1
  <2> QED BY <1>1, <2>1
<1>8. m * (e * U - c * b) <= e * (U * z)
  BY <1>4, <1>5, <1>6, <1>7
<1> QED
  BY <1>8 DEF e

(* Both ramps climb. *)
LEMMA ClimbThenClimb ==
  ASSUME NEW old, RampOK(old), old.init < old.next,
         NEW ramp, RampOK(ramp), ramp.init < ramp.next, Continues(ramp, old),
         NEW time \in Nat, NEW later \in Nat,
         old.since <= time, time <= ramp.since, ramp.since <= later,
         later - time <= MinAmpChangingTime
  PROVE  AmpAt(ramp, later) < MaxAmpChange * (AmpAt(old, time) + 1)
<1> DEFINE U == MinAmpChangingTime
           c == MaxAmpChange - 1
           v0 == old.init
           K == old.next - old.init
           L == Whole(old)
           a == Gone(old, time)
           q == Gone(old, ramp.since)
           r == AmpAt(old, time)
           m == ramp.init
           D2 == ramp.next - ramp.init
           L2 == Whole(ramp)
           b == Gone(ramp, later)
           z == AmpAt(ramp, later)
           x == v0 * L + K * a
           y == v0 * L + K * q
<1>1. /\ U \in Nat \ {0} /\ c \in Nat /\ MaxAmpChange = c + 1
      /\ v0 \in Nat /\ K \in Nat /\ m \in Nat /\ D2 \in Nat
      /\ old.since \in Nat /\ ramp.since \in Nat /\ old.since <= ramp.since
      /\ old.next <= MaxAmpChange * v0 /\ ramp.next <= MaxAmpChange * m
      /\ old.next \in Nat /\ ramp.next \in Nat
  BY DEF RampOK, Continues
<1>2. /\ L \in Nat \ {0} /\ U <= L /\ a \in 0..L /\ r \in v0..old.next
      /\ Climbed(r, v0, K, L, a)
  BY ClimbValue
<1>3. q \in 0..L /\ Climbed(m, v0, K, L, q)
  <2>1. q \in 0..L /\ Climbed(AmpAt(old, ramp.since), v0, K, L, q)
    BY <1>1, ClimbValue
  <2>2. m = AmpAt(old, ramp.since)
    BY DEF Continues
  <2> HIDE DEF L, q, v0, K, m
  <2> QED BY <2>1, <2>2
<1>4. /\ L2 \in Nat \ {0} /\ U <= L2 /\ b \in 0..L2 /\ z \in m..ramp.next
      /\ Climbed(z, m, D2, L2, b)
  BY ClimbValue
<1>5. U <= q /\ a <= q /\ b + q <= U + a
  <2>1. old.init # old.next
    BY <1>1
  <2> QED BY <2>1, TimeLeft
<1>6. K <= c * v0 /\ D2 <= c * m
  <2>1. MaxAmpChange * v0 = c * v0 + v0 /\ c * v0 \in Int /\ MaxAmpChange * m = c * m + m /\ c * m \in Int
    <3> HIDE DEF c, v0, m
    <3> QED BY <1>1
  <2> HIDE DEF c
  <2> QED BY <1>1, <2>1
<1> HIDE DEF U, c, v0, K, L, a, q, r, m, D2, L2, b, z
<1>7. /\ L \in Nat /\ U \in Nat /\ a \in Nat /\ q \in Nat /\ b \in Nat /\ q <= L
      /\ r \in Nat /\ z \in Nat /\ m <= z /\ L2 \in Nat
  BY <1>1, <1>2, <1>3, <1>4
<1>8. x \in Nat /\ y \in Nat
  <2>1. v0 * L \in Nat /\ K * a \in Nat /\ K * q \in Nat
    BY <1>1, <1>7
  <2> QED BY <2>1
<1>9. y * (U + c * b) <= (c + 1) * (U * x)
  <2> HIDE DEF x, y
  <2>1. x = v0 * L + K * a /\ y = v0 * L + K * q
    BY DEF x, y
  <2> QED BY ONLY <1>1, <1>2, <1>5, <1>6, <1>7, <1>8, <2>1, TwoClimbs
<1>10. z * U <= m * (U + c * b)
  BY ONLY <1>1, <1>4, <1>6, <1>7, ClimbOn
<1>11. m * L <= y /\ x < (r + 1) * L
  <2>1. (r + 1) * L = r * L + L
    BY <1>7
  <2> QED BY <1>2, <1>3, <2>1 DEF Climbed
<1> HIDE DEF x, y
<1> DEFINE F == U + c * b
           G == (c + 1) * U
<1>12. F \in Nat /\ G \in Nat \ {0}
  <2>1. c * b \in Nat
    BY <1>1, <1>7
  <2>2. c * U \in Nat /\ G = c * U + U
    BY <1>1
  <2> QED BY <1>1, <2>1, <2>2
<1>13. (z * U) * L <= y * F
  <2> HIDE DEF F
  <2>1. L * (z * U) <= L * (m * F) /\ z * U \in Int /\ m * F \in Int
    BY <1>1, <1>7, <1>10, <1>12, TimesMono DEF F
  <2>2. F * (m * L) <= F * y
    <3>1. m * L \in Int
      BY <1>1, <1>7
    <3> QED BY <1>8, <1>11, <1>12, <3>1, TimesMono
  <2>3. L * (z * U) = (z * U) * L /\ L * (m * F) = F * (m * L) /\ F * y = y * F
        /\ L * (z * U) \in Int /\ F * (m * L) \in Int /\ F * y \in Int
    BY <1>1, <1>7, <1>8, <1>12
  <2> QED BY <2>1, <2>2, <2>3
<1>14. G * x < G * ((r + 1) * L)
  <2> HIDE DEF G
  <2>1. (r + 1) * L \in Int
    BY <1>7
  <2>2. G * (x + 1) <= G * ((r + 1) * L) /\ G * (x + 1) = G * x + G /\ G * x \in Int
    BY <1>8, <1>11, <1>12, <2>1, TimesMono
  <2>3. G * ((r + 1) * L) \in Int
    BY <1>12, <2>1
  <2> QED BY <1>12, <2>2, <2>3
<1>15. z * (U * L) < ((c + 1) * (r + 1)) * (U * L)
  <2>1. (c + 1) * (U * x) = G * x /\ z * (U * L) = (z * U) * L
        /\ ((c + 1) * (r + 1)) * (U * L) = G * ((r + 1) * L)
    BY <1>1, <1>7, <1>8
  <2>2. z * (U * L) \in Int /\ y * F \in Int /\ G * x \in Int /\ G * ((r + 1) * L) \in Int
    <3> HIDE DEF F, G
    <3> QED BY <1>1, <1>7, <1>8, <1>12
  <2>3. y * F <= G * x
    BY <1>9, <2>1
  <2> HIDE DEF F, G
  <2> QED BY <1>13, <1>14, <2>1, <2>2, <2>3
<1>16. U * L \in Nat \ {0} /\ (c + 1) * (r + 1) \in Int /\ z \in Int
  BY <1>1, <1>2, <1>7
<1>17. z < (c + 1) * (r + 1)
  BY ONLY <1>15, <1>16, TimesCancel
<1> QED
  BY <1>1, <1>17 DEF z, r

(* Both ramps fall. *)
LEMMA FallThenFall ==
  ASSUME NEW old, RampOK(old), old.next < old.init,
         NEW ramp, RampOK(ramp), ramp.next < ramp.init, Continues(ramp, old),
         NEW time \in Nat, NEW later \in Nat,
         old.since <= time, time <= ramp.since, ramp.since <= later,
         later - time <= MinAmpChangingTime
  PROVE  AmpAt(old, time) - 1 < MaxAmpChange * AmpAt(ramp, later)
<1> DEFINE U == MinAmpChangingTime
           c == MaxAmpChange - 1
           v0 == old.init
           K == old.init - old.next
           L == Whole(old)
           a == Gone(old, time)
           q == Gone(old, ramp.since)
           r == AmpAt(old, time)
           m == ramp.init
           D2 == ramp.init - ramp.next
           L2 == Whole(ramp)
           b == Gone(ramp, later)
           z == AmpAt(ramp, later)
           x == v0 * L - K * a
           y == v0 * L - K * q
<1>1. /\ U \in Nat \ {0} /\ c \in Nat /\ MaxAmpChange = c + 1
      /\ v0 \in Nat /\ K \in Nat /\ m \in Nat /\ D2 \in Nat
      /\ old.since \in Nat /\ ramp.since \in Nat /\ old.since <= ramp.since
      /\ v0 <= MaxAmpChange * old.next /\ m <= MaxAmpChange * ramp.next
      /\ old.next \in Nat /\ ramp.next \in Nat /\ old.next = v0 - K /\ ramp.next = m - D2
      /\ K <= v0
  BY DEF RampOK, Continues
<1>2. /\ L \in Nat \ {0} /\ U <= L /\ a \in 0..L /\ r \in old.next..v0
      /\ Fallen(r, v0, K, L, a)
  BY FallValue
<1>3. q \in 0..L /\ Fallen(m, v0, K, L, q)
  <2>1. q \in 0..L /\ Fallen(AmpAt(old, ramp.since), v0, K, L, q)
    BY <1>1, FallValue
  <2>2. m = AmpAt(old, ramp.since)
    BY DEF Continues
  <2> HIDE DEF L, q, v0, K, m
  <2> QED BY <2>1, <2>2
<1>4. /\ L2 \in Nat \ {0} /\ U <= L2 /\ b \in 0..L2 /\ z \in ramp.next..m
      /\ Fallen(z, m, D2, L2, b)
  BY FallValue
<1>5. U <= q /\ a <= q /\ b + q <= U + a
  <2>1. old.init # old.next
    BY <1>1
  <2> QED BY <2>1, TimeLeft
<1> HIDE DEF U, c, v0, K, L, a, q, r, m, D2, L2, b, z
<1>6. (c + 1) * K <= c * v0 /\ (c + 1) * D2 <= c * m
  <2>1. v0 <= (c + 1) * (v0 - K) /\ m <= (c + 1) * (m - D2)
    BY <1>1
  <2>2. /\ (c + 1) * (v0 - K) = c * v0 + v0 - (c + 1) * K
        /\ (c + 1) * (m - D2) = c * m + m - (c + 1) * D2
        /\ c * v0 \in Int /\ (c + 1) * K \in Int /\ c * m \in Int /\ (c + 1) * D2 \in Int
    <3>1. c \in Nat /\ v0 \in Nat /\ K \in Nat /\ m \in Nat /\ D2 \in Nat
      BY <1>1
    <3> QED BY ONLY <3>1, TimesLess
  <2> QED BY <1>1, <2>1, <2>2
<1>7. /\ L \in Nat /\ U \in Nat /\ a \in Nat /\ q \in Nat /\ b \in Nat /\ q <= L
      /\ r \in Nat /\ z \in Nat /\ z <= m /\ L2 \in Nat
  BY <1>1, <1>2, <1>3, <1>4
<1>8. x \in Int /\ y \in Nat
  <2>1. v0 * L \in Nat /\ K * a \in Nat /\ K * q \in Nat
    BY <1>1, <1>7
  <2>2. K * q <= K * L /\ L * K <= L * v0 /\ K * L = L * K /\ L * v0 = v0 * L /\ L * K \in Int
    BY <1>1, <1>7, TimesMono
  <2> QED BY <2>1, <2>2
<1>9. x * U <= y * ((c + 1) * U - c * b)
  <2> HIDE DEF x, y
  <2>1. x = v0 * L - K * a /\ y = v0 * L - K * q
    BY DEF x, y
  <2> QED BY ONLY <1>1, <1>2, <1>5, <1>6, <1>7, <1>8, <2>1, TwoFalls
<1>10. m * ((c + 1) * U - c * b) <= (c + 1) * (U * z)
  BY ONLY <1>1, <1>4, <1>6, <1>7, FallOn
<1>11. y <= m * L /\ (r - 1) * L < x
  <2>1. (r - 1) * L = r * L - L /\ r * L \in Int
    BY <1>7
  <2> QED BY <1>2, <1>3, <1>7, <1>8, <2>1 DEF Fallen
<1> HIDE DEF x, y
<1> DEFINE F == (c + 1) * U - c * b
           G == (c + 1) * U
<1>12. F \in Nat /\ G \in Nat \ {0}
  <2>1. c * b <= c * U /\ c * b \in Int /\ c * U \in Nat
    <3>1. b <= U
      BY <1>5, <1>7
    <3> QED BY <1>1, <1>7, <3>1, TimesMono
  <2>2. G = c * U + U
    BY <1>1
  <2> QED BY <1>1, <2>1, <2>2
<1>13. y * F <= ((c + 1) * z) * (U * L)
  <2> HIDE DEF F
  <2>1. F * y <= F * (m * L) /\ m * L \in Int
    <3>1. m * L \in Int
      BY <1>1, <1>7
    <3> QED BY <1>8, <1>11, <1>12, <3>1, TimesMono
  <2>2. L * (m * F) <= L * ((c + 1) * (U * z))
    <3>1. m * F \in Int /\ (c + 1) * (U * z) \in Int /\ m * F <= (c + 1) * (U * z)
      BY <1>1, <1>7, <1>10, <1>12 DEF F
    <3> QED BY <1>7, <3>1, TimesMono
  <2>3. F * y = y * F /\ F * (m * L) = L * (m * F) /\ L * ((c + 1) * (U * z)) = ((c + 1) * z) * (U * L)
        /\ F * y \in Int /\ F * (m * L) \in Int /\ ((c + 1) * z) * (U * L) \in Int
    BY <1>1, <1>7, <1>8, <1>12
  <2> QED BY <2>1, <2>2, <2>3
<1>14. (r - 1) * (U * L) < x * U
  <2>1. (r - 1) * L \in Int
    BY <1>7
  <2>2. U * ((r - 1) * L + 1) <= U * x /\ U * ((r - 1) * L + 1) = U * ((r - 1) * L) + U
    BY <1>1, <1>7, <1>8, <1>11, <2>1, TimesMono
  <2>3. (r - 1) * (U * L) = U * ((r - 1) * L) /\ U * x = x * U /\ U * x \in Int /\ U * ((r - 1) * L) \in Int
    BY <1>1, <1>7, <1>8
  <2> QED BY <1>1, <2>2, <2>3
<1>15. (r - 1) * (U * L) < ((c + 1) * z) * (U * L)
  <2>1. (r - 1) * (U * L) \in Int /\ x * U \in Int /\ y * F \in Int /\ ((c + 1) * z) * (U * L) \in Int
    <3> HIDE DEF F, G
    <3> QED BY <1>1, <1>7, <1>8, <1>12
  <2>2. x * U <= y * F
    BY <1>9
  <2> HIDE DEF F, G
  <2> QED BY <1>13, <1>14, <2>1, <2>2
<1>16. U * L \in Nat \ {0} /\ (c + 1) * z \in Int /\ r - 1 \in Int
  BY <1>1, <1>2, <1>7
<1>17. r - 1 < (c + 1) * z
  BY ONLY <1>15, <1>16, TimesCancel
<1> QED
  BY <1>1, <1>17 DEF z, r

LEMMA StartValue ==
  ASSUME NEW ramp, RampOK(ramp)
  PROVE  AmpAt(ramp, ramp.since) = ramp.init
<1>1. /\ ramp.init \in Nat /\ ramp.next \in Nat /\ ramp.since \in Nat /\ ramp.until \in Nat
      /\ MinAmpChangingTime \in Nat \ {0}
  BY DEF RampOK
<1>2. CASE ramp.init = ramp.next
  BY <1>1, <1>2, ConstantValue
<1>3. CASE ramp.init # ramp.next
  <2>1. ramp.since < ramp.until
    BY <1>1, <1>3 DEF RampOK
  <2> QED BY <1>1, <2>1, AmpAtStart
<1> QED
  BY <1>2, <1>3

(* What one look back of MinAmpChangingTime may see. *)
LEMMA TwoRamps ==
  ASSUME NEW old, RampOK(old), NEW ramp, RampOK(ramp), Continues(ramp, old),
         NEW time \in Nat, NEW later \in Nat,
         old.since <= time, time <= ramp.since, ramp.since <= later,
         later - time <= MinAmpChangingTime
  PROVE  /\ AmpAt(ramp, later) - 1 <= (AmpAt(old, time) + 1) * MaxAmpChange
         /\ AmpAt(old, time) - 1 <= (AmpAt(ramp, later) + 1) * MaxAmpChange
<1> DEFINE r == AmpAt(old, time)
           m == ramp.init
           z == AmpAt(ramp, later)
           C == MaxAmpChange
<1>1. /\ old.init \in Nat /\ old.next \in Nat /\ ramp.init \in Nat /\ ramp.next \in Nat
      /\ old.since \in Nat /\ ramp.since \in Nat /\ old.since <= ramp.since
      /\ C \in Nat \ {0} /\ m = AmpAt(old, ramp.since) /\ ramp.since <= ramp.until /\ ramp.until \in Nat
  BY DEF RampOK, Continues
<1>2. /\ r \in Nat /\ m \in Nat /\ z \in Nat
      /\ m <= C * r /\ r <= C * m
  BY <1>1, OneRamp
<1>3. AmpAt(ramp, ramp.since) = m
  BY StartValue
<1>4. z <= C * m /\ m <= C * z
  BY <1>1, <1>3, OneRamp
<1>5. old.init < old.next => r <= m
  BY <1>1, RampMoves
<1>6. old.next < old.init => m <= r
  BY <1>1, RampMoves
<1>7. old.init = old.next => m = r
  BY <1>1, ConstantValue
<1>8. ramp.init < ramp.next => m <= z
  BY <1>1, <1>3, RampMoves
<1>9. ramp.next < ramp.init => z <= m
  BY <1>1, <1>3, RampMoves
<1>10. ramp.init = ramp.next => z = m
  BY <1>1, ConstantValue
<1>11. old.init < old.next /\ ramp.init < ramp.next => z < C * (r + 1)
  BY ClimbThenClimb
<1>12. old.next < old.init /\ ramp.next < ramp.init => r - 1 < C * z
  BY FallThenFall
<1> HIDE DEF r, m, z, C
<1>13. /\ C * (r + 1) = C * r + C /\ (r + 1) * C = C * r + C /\ C * r \in Nat
       /\ (z + 1) * C = C * z + C /\ C * z \in Nat /\ C * m \in Nat
  BY <1>1, <1>2
<1>14. /\ m <= r => C * m <= C * r
       /\ m <= z => C * m <= C * z
  BY <1>1, <1>2, TimesMono
<1>15. z - 1 <= (r + 1) * C
  <2>1. CASE old.init < old.next
    <3>1. CASE ramp.init < ramp.next
      <4>1. z < C * (r + 1)
        BY <1>11, <2>1, <3>1
      <4> QED BY <1>1, <1>2, <1>13, <4>1
    <3>2. CASE ~(ramp.init < ramp.next)
      <4>1. z <= m
        BY <1>1, <1>2, <1>9, <1>10, <3>2
      <4> QED BY <1>1, <1>2, <1>13, <4>1
    <3> QED BY <3>1, <3>2
  <2>2. CASE ~(old.init < old.next)
    <3>1. m <= r
      BY <1>1, <1>2, <1>6, <1>7, <2>2
    <3> QED BY <1>1, <1>2, <1>4, <1>13, <1>14, <3>1
  <2> QED BY <2>1, <2>2
<1>16. r - 1 <= (z + 1) * C
  <2>1. CASE old.next < old.init
    <3>1. CASE ramp.next < ramp.init
      <4>1. r - 1 < C * z
        BY <1>12, <2>1, <3>1
      <4> QED BY <1>1, <1>2, <1>13, <4>1
    <3>2. CASE ~(ramp.next < ramp.init)
      <4>1. m <= z
        BY <1>1, <1>2, <1>8, <1>10, <3>2
      <4> QED BY <1>1, <1>2, <1>13, <1>14, <4>1
    <3> QED BY <3>1, <3>2
  <2>2. CASE ~(old.next < old.init)
    <3>1. r <= m
      BY <1>1, <1>2, <1>5, <1>7, <2>2
    <3> QED BY <1>1, <1>2, <1>4, <1>13, <3>1
  <2> QED BY <2>1, <2>2
<1> QED
  BY <1>15, <1>16 DEF r, z, C

----------------------------------------------------------------------------
(* Every coefficient remembered is of the last two ramps that were started. *)

(* the pair is on `ramp`, or stopped with the value it had at a time *)
Shows(ramp, time) ==
  \/ amp = ramp /\ time = now
  \/ amp.init = amp.next /\ amp.init = AmpAt(ramp, time) /\ time <= amp.since

Remembers(k, old, ramp, time) ==
  /\ RampOK(old) /\ RampOK(ramp) /\ time \in Nat
  /\ old.since <= now - k /\ recent[k] = AmpAt(old, now - k)
  /\ ramp = old \/ (Continues(ramp, old) /\ now - k <= ramp.since)
  /\ ramp.since <= time /\ now - k <= time /\ time <= now
  /\ Shows(ramp, time)

AmpHistory ==
  /\ RampOK(amp)
  /\ recent \in Seq(Nat) /\ Len(recent) <= MinAmpChangingTime
  /\ \A k \in 1..Len(recent) : \E old, ramp, time : Remembers(k, old, ramp, time)

AmpInv == AmpTypeOK /\ AmpHistory

LEMMA AmpInvType ==
  ASSUME AmpInv
  PROVE  /\ now \in Nat /\ amp.since \in Nat /\ amp.since <= now
         /\ CurrentAmp \in Nat \ {0} /\ CurrentAmp = AmpAt(amp, now)
         /\ amp.init = amp.next => CurrentAmp = amp.init
<1>1. /\ now \in Nat /\ amp.since \in Nat /\ amp.since <= now
      /\ CurrentAmp \in AmpPrecision..(MaxAmp * AmpPrecision)
  BY DEF AmpInv, AmpTypeOK
<1>2. AmpPrecision \in Nat \ {0} /\ MaxAmp * AmpPrecision \in Nat
  BY ScaleAssumption
<1>3. CurrentAmp = AmpAt(amp, now)
  BY DEF CurrentAmp
<1>4. amp.init = amp.next => CurrentAmp = amp.init
  BY <1>1, <1>3, ConstantValue DEF AmpInv, AmpHistory
<1> QED
  BY <1>1, <1>2, <1>3, <1>4

LEMMA RemembersType ==
  ASSUME AmpInv, NEW k \in 1..Len(recent), NEW old, NEW ramp, NEW time, Remembers(k, old, ramp, time)
  PROVE  /\ k \in Nat \ {0} /\ k <= MinAmpChangingTime /\ now - k \in Nat
         /\ old.since \in Nat /\ ramp.since \in Nat
         /\ CurrentAmp = AmpAt(ramp, time)
<1>1. k \in Nat \ {0} /\ k <= MinAmpChangingTime
  BY DEF AmpInv, AmpHistory
<1>2. old.since \in Nat /\ ramp.since \in Nat /\ old.since <= now - k
  BY DEF Remembers, RampOK
<1>3. CurrentAmp = AmpAt(ramp, time)
  BY AmpInvType DEF Remembers, Shows
<1> QED
  BY <1>1, <1>2, <1>3, AmpInvType

LEMMA AmpInitInv == AmpInit => AmpInv
<1> SUFFICES ASSUME AmpInit PROVE AmpInv
  OBVIOUS
<1>1. AmpTypeOK
  BY AmpInitType
<1>2. PICK initial \in InitialAmps : amp = Constant(initial * AmpPrecision)
  BY DEF AmpInit
<1>3. initial * AmpPrecision \in Coefficients
  BY CoefficientOf
<1>4. initial * AmpPrecision \in Nat \ {0} /\ now \in Nat
  BY <1>3, ScaleAssumption DEF Coefficients, AmpInit
<1>5. RampOK(amp)
  BY <1>2, <1>4 DEF RampOK, Constant
<1>6. recent = <<>>
  BY DEF AmpInit
<1> QED
  BY <1>1, <1>5, <1>6 DEF AmpInv, AmpHistory

LEMMA AmpTickInv ==
  ASSUME AmpInv, AmpTick
  PROVE  AmpInv'
<1>1. AmpTypeOK'
  BY AmpTickType DEF AmpInv
<1>2. now \in Nat /\ now' = now + 1 /\ amp' = amp /\ amp.since <= now /\ amp.since \in Nat
  BY AmpInvType DEF AmpTick
<1>3. /\ RampOK(amp) /\ recent \in Seq(Nat) /\ Len(recent) \in Nat /\ Len(recent) <= MinAmpChangingTime
      /\ CurrentAmp \in Nat
  BY AmpInvType DEF AmpInv, AmpHistory
<1> DEFINE n == IF Len(recent) < MinAmpChangingTime THEN Len(recent) + 1 ELSE MinAmpChangingTime
           all == <<CurrentAmp>> \o recent
<1>4. recent' = SubSeq(all, 1, n)
  BY DEF AmpTick
<1>5. n \in Nat \ {0} /\ n <= Len(recent) + 1 /\ n <= MinAmpChangingTime
  BY <1>3
<1>6. /\ all \in Seq(Nat) /\ Len(all) = Len(recent) + 1 /\ all[1] = CurrentAmp
      /\ \A k \in 2..(Len(recent) + 1) : all[k] = recent[k - 1]
  BY <1>3
<1> HIDE DEF n, all
<1>7. /\ recent' \in Seq(Nat) /\ Len(recent') = n
      /\ \A k \in 1..n : recent'[k] = all[k]
  BY <1>3, <1>4, <1>5, <1>6
<1>8. ASSUME NEW k \in 1..n
      PROVE  \E old, ramp, time : Remembers(k, old, ramp, time)'
  <2>1. CASE k = 1
    <3>1. recent'[k] = AmpAt(amp, now)
      BY <1>5, <1>6, <1>7, <2>1 DEF CurrentAmp
    <3>2. now' - k = now /\ now' \in Nat
      BY <1>2, <2>1
    <3>3. PICK later \in Nat, ramp \in {amp} : later = now' /\ ramp = amp
      BY <3>2
    <3>4. Shows(ramp, later)'
      BY <1>2, <3>3 DEF Shows
    <3>5. /\ RampOK(ramp) /\ ramp.since <= now' - k /\ recent'[k] = AmpAt(ramp, now' - k)
          /\ ramp.since <= later /\ now' - k <= later /\ later <= now'
      BY <1>2, <1>3, <2>1, <3>1, <3>2, <3>3
    <3>6. Remembers(k, ramp, ramp, later)'
      BY <3>3, <3>4, <3>5 DEF Remembers
    <3> QED BY <3>6
  <2>2. CASE k # 1
    <3> DEFINE j == k - 1
    <3>1. j \in 1..Len(recent) /\ now' - k = now - j /\ recent'[k] = recent[j]
      <4>1. k \in 2..(Len(recent) + 1)
        BY <1>3, <1>5, <2>2
      <4>2. all[k] = recent[k - 1] /\ recent'[k] = all[k]
        BY ONLY <1>6, <1>7, <4>1, k \in 1..n
      <4> QED BY ONLY <1>2, <1>3, <4>1, <4>2 DEF j
    <3> HIDE DEF j
    <3>2. PICK old, ramp, time : Remembers(j, old, ramp, time)
      BY <3>1 DEF AmpInv, AmpHistory
    <3>3. CASE amp = ramp /\ time = now
      <4>1. PICK later \in Nat : later = now'
        BY <1>2
      <4>2. Remembers(k, old, ramp, later)'
        <5>1. ramp.since <= later /\ now' - k <= later /\ later <= now'
          BY <1>2, <3>1, <3>2, <3>3, <4>1 DEF Remembers
        <5>2. Shows(ramp, later)'
          BY <1>2, <3>3, <4>1 DEF Shows
        <5>3. /\ RampOK(old) /\ RampOK(ramp)
              /\ old.since <= now' - k /\ recent'[k] = AmpAt(old, now' - k)
              /\ ramp = old \/ (Continues(ramp, old) /\ now' - k <= ramp.since)
          BY <3>1, <3>2 DEF Remembers
        <5> QED BY <4>1, <5>1, <5>2, <5>3 DEF Remembers
      <4> QED BY <4>2
    <3>4. CASE ~(amp = ramp /\ time = now)
      <4>1. Shows(ramp, time)'
        BY <1>2, <3>2, <3>4 DEF Remembers, Shows
      <4>2. /\ RampOK(old) /\ RampOK(ramp) /\ time \in Nat
            /\ old.since <= now' - k /\ recent'[k] = AmpAt(old, now' - k)
            /\ ramp = old \/ (Continues(ramp, old) /\ now' - k <= ramp.since)
            /\ ramp.since <= time /\ now' - k <= time /\ time <= now'
        BY <1>2, <3>1, <3>2 DEF Remembers
      <4>3. Remembers(k, old, ramp, time)'
        BY <4>1, <4>2 DEF Remembers
      <4> QED BY <4>3
    <3> QED BY <3>3, <3>4
  <2> QED BY <2>1, <2>2
<1>9. AmpHistory'
  BY <1>2, <1>3, <1>5, <1>7, <1>8 DEF AmpHistory
<1> QED
  BY <1>1, <1>9 DEF AmpInv

(* A ramp may start only when what is remembered is of the present one. *)
LEMMA OfThePresentRamp ==
  ASSUME AmpInv, amp.since + MinAmpChangingTime <= now, NEW k \in 1..Len(recent)
  PROVE  amp.since <= now - k /\ recent[k] = AmpAt(amp, now - k)
<1>1. PICK old, ramp, time : Remembers(k, old, ramp, time)
  BY DEF AmpInv, AmpHistory
<1>2. /\ k \in Nat /\ k <= MinAmpChangingTime /\ now \in Nat /\ amp.since \in Nat
      /\ ramp.since \in Nat /\ time \in Nat /\ amp.since <= now - k
  <2>1. k \in Nat /\ k <= MinAmpChangingTime /\ ramp.since \in Nat
    BY <1>1, RemembersType
  <2>2. now \in Nat /\ amp.since \in Nat /\ MinAmpChangingTime \in Nat
    BY AmpInvType, AmpAssumption
  <2>3. time \in Nat
    BY <1>1 DEF Remembers
  <2>4. amp.since <= now - k
    BY ONLY <2>1, <2>2, amp.since + MinAmpChangingTime <= now
  <2> QED BY <2>1, <2>2, <2>3, <2>4
<1>3. RampOK(amp) /\ RampOK(ramp)
  BY <1>1 DEF AmpInv, AmpHistory, Remembers
<1>4. recent[k] = AmpAt(old, now - k)
  BY <1>1 DEF Remembers
<1>5. CASE ramp = old /\ amp = ramp
  BY <1>2, <1>4, <1>5
<1>6. CASE ramp # old /\ amp = ramp
  <2>1. ramp.init = AmpAt(old, ramp.since) /\ now - k <= ramp.since
    BY <1>1, <1>6 DEF Remembers, Continues
  <2>2. now - k = amp.since
    BY <1>2, <1>6, <2>1
  <2>3. AmpAt(amp, amp.since) = amp.init
    BY <1>3, StartValue
  <2> QED BY <1>2, <1>4, <1>6, <2>1, <2>2, <2>3
<1>7. CASE amp # ramp
  <2>1. /\ amp.init = amp.next /\ amp.init = AmpAt(ramp, time) /\ time <= amp.since
        /\ now - k <= time /\ ramp.since <= time
    BY <1>1, <1>7 DEF Remembers, Shows
  <2>2. time = amp.since /\ now - k = time
    BY <1>2, <2>1
  <2>3. AmpAt(amp, amp.since) = amp.init
    BY <1>3, StartValue
  <2>4. AmpAt(old, now - k) = AmpAt(ramp, time)
    <3>1. CASE ramp = old
      BY <2>2, <3>1
    <3>2. CASE ramp # old
      <4>1. ramp.init = AmpAt(old, ramp.since) /\ now - k <= ramp.since
        BY <1>1, <3>2 DEF Remembers, Continues
      <4>2. ramp.since = time
        BY <1>2, <2>1, <2>2, <4>1
      <4>3. AmpAt(ramp, ramp.since) = ramp.init
        BY <1>3, StartValue
      <4> QED BY <2>2, <4>1, <4>2, <4>3
    <3> QED BY <3>1, <3>2
  <2> QED BY <1>2, <1>4, <2>1, <2>2, <2>3, <2>4
<1> QED
  BY <1>5, <1>6, <1>7

LEMMA AmpStartInv ==
  ASSUME AmpInv, NEW next \in 1..MaxAmp, NEW until \in Nat, StartChangingAmp(next, until)
  PROVE  AmpInv'
<1>1. AmpTypeOK'
  BY StartSteady DEF AmpInv
<1>2. /\ now \in Nat /\ now' = now /\ recent' = recent /\ amp' = RampTo(next, until)
      /\ amp.since + MinAmpChangingTime <= now /\ now + MinAmpChangingTime <= until
      /\ WithinLimit(next)
  BY AmpInvType DEF StartChangingAmp
<1>3. /\ amp'.init = CurrentAmp /\ amp'.since = now
      /\ amp'.next = next * AmpPrecision /\ amp'.until = until
  BY <1>2 DEF RampTo
<1>4. CurrentAmp \in Nat \ {0} /\ CurrentAmp = AmpAt(amp, now)
  BY AmpInvType
<1>5. next * AmpPrecision \in Nat \ {0}
  BY ScaleAssumption
<1>6. RampOK(amp')
  <2>1. /\ next * AmpPrecision * MaxAmpChange >= CurrentAmp
        /\ next * AmpPrecision <= CurrentAmp * MaxAmpChange
    BY <1>2 DEF WithinLimit
  <2> DEFINE target == next * AmpPrecision
             limit == MaxAmpChange
  <2>2. target \in Nat \ {0} /\ limit \in Nat /\ target * limit >= CurrentAmp /\ target <= CurrentAmp * limit
    BY <1>5, <2>1
  <2> HIDE DEF target, limit
  <2>3. target * limit = limit * target /\ CurrentAmp * limit = limit * CurrentAmp
    BY <1>4, <2>2
  <2>4. CurrentAmp <= limit * target /\ target <= limit * CurrentAmp
    BY <2>2, <2>3
  <2>5. amp'.next = target /\ MaxAmpChange = limit
    BY <1>3 DEF target, limit
  <2> QED BY <1>2, <1>3, <1>4, <2>2, <2>4, <2>5 DEF RampOK
<1>7. RampOK(amp) /\ Continues(amp', amp)
  BY <1>2, <1>3, <1>4 DEF AmpInv, AmpHistory, Continues
<1>8. ASSUME NEW k \in 1..Len(recent)
      PROVE  \E old, ramp, time : Remembers(k, old, ramp, time)'
  <2>1. amp.since <= now - k /\ recent[k] = AmpAt(amp, now - k)
    BY <1>2, OfThePresentRamp
  <2>2. PICK old, ramp, time : old = amp /\ ramp = amp' /\ time = now
    OBVIOUS
  <2>3. k \in Nat /\ now - k <= now
    BY <1>2 DEF AmpInv, AmpHistory
  <2>4. Shows(ramp, time)'
    BY <1>2, <2>2 DEF Shows
  <2>5. /\ RampOK(old) /\ RampOK(ramp) /\ time \in Nat
        /\ old.since <= now' - k /\ recent'[k] = AmpAt(old, now' - k)
        /\ Continues(ramp, old) /\ now' - k <= ramp.since
        /\ ramp.since <= time /\ now' - k <= time /\ time <= now'
    BY <1>2, <1>3, <1>6, <1>7, <2>1, <2>2, <2>3
  <2>6. Remembers(k, old, ramp, time)'
    BY <2>4, <2>5 DEF Remembers
  <2> QED BY <2>6
<1>9. AmpHistory'
  BY <1>2, <1>6, <1>8 DEF AmpInv, AmpHistory
<1> QED
  BY <1>1, <1>9 DEF AmpInv

LEMMA AmpStopInv ==
  ASSUME AmpInv, StopChangingAmp
  PROVE  AmpInv'
<1>1. AmpTypeOK'
  BY StopSteady DEF AmpInv
<1>2. now \in Nat /\ now' = now /\ recent' = recent
  BY AmpInvType DEF StopChangingAmp
<1>3. /\ amp'.init = CurrentAmp /\ amp'.since = now /\ amp'.next = CurrentAmp /\ amp'.until = now
  BY DEF StopChangingAmp, Constant
<1>4. RampOK(amp')
  BY <1>2, <1>3, AmpInvType DEF RampOK
<1>5. ASSUME NEW k \in 1..Len(recent)
      PROVE  \E old, ramp, time : Remembers(k, old, ramp, time)'
  <2>1. PICK old, ramp, time : Remembers(k, old, ramp, time)
    BY DEF AmpInv, AmpHistory
  <2>2. CurrentAmp = AmpAt(ramp, time) /\ time \in Nat /\ time <= now
    BY <2>1, RemembersType DEF Remembers
  <2>3. Shows(ramp, time)'
    BY <1>3, <2>2 DEF Shows
  <2>4. Remembers(k, old, ramp, time)'
    BY <1>2, <2>1, <2>3 DEF Remembers
  <2> QED BY <2>4
<1>6. AmpHistory'
  BY <1>2, <1>4, <1>5 DEF AmpInv, AmpHistory
<1> QED
  BY <1>1, <1>6 DEF AmpInv

(* Whatever ramps are started and stopped, within MinAmpChangingTime the     *)
(* coefficient changes by no more than the factor MaxAmpChange, but for the  *)
(* digit that compute_current_amp rounds off.                                *)
THEOREM AmpSlow == AmpSpec => []AmpChangesSlowly
<1>1. AmpInv /\ [AmpNext]_ampVars => AmpInv'
  <2> SUFFICES ASSUME AmpInv, [AmpNext]_ampVars PROVE AmpInv'
    OBVIOUS
  <2>1. CASE AmpTick
    BY <2>1, AmpTickInv
  <2>2. ASSUME NEW next \in 1..MaxAmp, NEW until \in Genesis..(MaxTime + MinAmpChangingTime),
               StartChangingAmp(next, until)
        PROVE  AmpInv'
    <3>1. until \in Nat
      OBVIOUS
    <3> QED BY <2>2, <3>1, AmpStartInv
  <2>3. CASE StopChangingAmp
    BY <2>3, AmpStopInv
  <2>4. CASE UNCHANGED ampVars
    <3>1. now' = now /\ amp' = amp /\ recent' = recent
      BY <2>4 DEF ampVars
    <3> QED BY <3>1 DEF AmpInv, AmpTypeOK, AmpHistory, Remembers, Shows, CurrentAmp
  <2> QED BY <2>1, <2>2, <2>3, <2>4 DEF AmpNext
<1>2. AmpInv => AmpChangesSlowly
  <2> SUFFICES ASSUME AmpInv, NEW k \in 1..Len(recent)
               PROVE  /\ CurrentAmp - 1 <= (recent[k] + 1) * MaxAmpChange
                      /\ recent[k] - 1 <= (CurrentAmp + 1) * MaxAmpChange
    BY DEF AmpChangesSlowly
  <2>1. PICK old, ramp, time : Remembers(k, old, ramp, time)
    BY DEF AmpInv, AmpHistory
  <2>2. /\ k \in Nat /\ k <= MinAmpChangingTime /\ now - k \in Nat /\ now \in Nat /\ time \in Nat
        /\ CurrentAmp = AmpAt(ramp, time)
    BY <2>1, RemembersType, AmpInvType DEF Remembers
  <2> DEFINE past == now - k
  <2>3. /\ RampOK(old) /\ RampOK(ramp) /\ old.since <= past /\ recent[k] = AmpAt(old, past)
        /\ ramp.since <= time /\ past <= time /\ time <= now
        /\ ramp = old \/ (Continues(ramp, old) /\ past <= ramp.since)
    BY <2>1 DEF Remembers
  <2>4. past \in Nat /\ time - past <= MinAmpChangingTime
    BY <2>2, <2>3
  <2> HIDE DEF past
  <2>5. CASE ramp = old
    <3> DEFINE r == recent[k]
               z == CurrentAmp
               C == MaxAmpChange
    <3>1. r \in Nat /\ z \in Nat /\ z <= C * r /\ r <= C * z /\ C \in Nat
      BY <2>2, <2>3, <2>4, <2>5, OneRamp
    <3> HIDE DEF r, z, C
    <3>2. (r + 1) * C = C * r + C /\ (z + 1) * C = C * z + C /\ C * r \in Nat /\ C * z \in Nat
      BY <3>1
    <3>3. z - 1 <= (r + 1) * C /\ r - 1 <= (z + 1) * C
      BY <3>1, <3>2
    <3> QED BY <3>3 DEF r, z, C
  <2>6. CASE ramp # old
    <3>1. Continues(ramp, old) /\ past <= ramp.since
      BY <2>3, <2>6
    <3> QED BY <2>2, <2>3, <2>4, <3>1, TwoRamps
  <2> QED BY <2>5, <2>6
<1> QED
  BY <1>1, <1>2, AmpInitInv, PTL DEF AmpSpec

----------------------------------------------------------------------------
(* The amplification inside the pair *)

LEMMA InitAmp == Init => AmpInit
BY DEF Init

LEMMA NextAmp == [Next]_vars => [AmpNext]_ampVars
<1> SUFFICES ASSUME [Next]_vars PROVE [AmpNext]_ampVars
  OBVIOUS
<1>1. CASE UNCHANGED vars
  BY <1>1 DEF vars
<1>2. CASE Tick
  BY <1>2 DEF Tick, AmpNext
<1>3. CASE Provide
  BY <1>3 DEF Provide, ProvideLiquidity
<1>4. CASE Withdraw
  BY <1>4 DEF Withdraw, WithdrawLiquidity
<1>5. ASSUME NEW listed \in Orders, WithdrawListed(listed) PROVE [AmpNext]_ampVars
  BY <1>5 DEF WithdrawListed, WithdrawImbalanced
<1>6. CASE Trade
  BY <1>6 DEF Trade, Swap
<1>7. CASE UpdateConfig
  BY <1>7 DEF UpdateConfig, AmpNext
<1>8. CASE Administer /\ ~UpdateConfig
  BY <1>8 DEF Administer, UpdateFees, ProposeNewOwner, DropOwnershipProposal, ClaimOwnership,
     Freeze, UpdateFreeze, ChangeMigration
<1> QED
  BY <1>1, <1>2, <1>3, <1>4, <1>5, <1>6, <1>7, <1>8 DEF Next, UserNext

(* The pair moves its amplification as Amplification says and in no other    *)
(* way: no deposit, swap, freeze or change of owner touches it, and only the *)
(* clock and update_config do (contract.rs 1480-1580).                       *)
THEOREM PairImplementsAmp == Spec => AmpSpec
BY InitAmp, NextAmp, PTL DEF Spec, AmpSpec

(* So in the pair, too, the coefficient is in range, never jumps and moves   *)
(* no faster than the limits let it.                                         *)
THEOREM PairAmp == Spec => []AmpTypeOK /\ AmpContinuous /\ []AmpChangesSlowly
BY PairImplementsAmp, AmpInRange, AmpSteady, AmpSlow
----------------------------------------------------------------------------
(* The target rate of the hub *)

RateTypeOK == /\ now \in Nat
              /\ rate \in [target : Nat \ {0}, queried : Nat, epoch : RateEpochs]

(* Whether or not the handler writes the config, what is saved afterwards is *)
(* the rate that the message has used.                                       *)
LEMMA SavedAsUsed ==
  ASSUME NEW old, NEW answer, SaveConfig(old, Refreshed(answer))
  PROVE  rate' = Refreshed(answer)
BY DEF SaveConfig, Refreshed

LEMMA RefreshedType ==
  ASSUME RateTypeOK, NEW answer \in HubRates
  PROVE  /\ Refreshed(answer) \in [target : Nat \ {0}, queried : Nat, epoch : RateEpochs]
         /\ LsdAsset # NONE => \/ Refreshed(answer).queried = now
                               \/ now < Refreshed(answer).queried + Refreshed(answer).epoch
<1>1. answer \in Nat \ {0} /\ RateEpochs \subseteq Nat
  BY RateAssumption
<1>2. CASE Outdated
  BY <1>1, <1>2 DEF Refreshed, RateTypeOK
<1>3. CASE ~Outdated
  <2>1. Refreshed(answer) = rate
    BY <1>3 DEF Refreshed
  <2>2. LsdAsset # NONE => ~(now >= rate.queried + rate.epoch)
    BY <1>3 DEF Outdated
  <2>3. rate.queried \in Nat /\ rate.epoch \in Nat /\ now \in Nat
    BY <1>1 DEF RateTypeOK
  <2>4. LsdAsset # NONE => now < rate.queried + rate.epoch
    BY <2>2, <2>3
  <2> QED BY <2>1, <2>4 DEF RateTypeOK
<1> QED
  BY <1>2, <1>3

(* a message that uses a rate, and saves it *)
Quoted == \E answer \in HubRates : rate' = Refreshed(answer) /\ now' = now

LEMMA MovesQuoted ==
  ASSUME Next
  PROVE  /\ Quoted \/ UNCHANGED <<rate, pool>>
         /\ pool' # pool /\ ~Misordered => oracle'.price = PriceOf(pool', rate'.target)
<1> DEFINE Goal == /\ Quoted \/ UNCHANGED <<rate, pool>>
                   /\ pool' # pool /\ ~Misordered => oracle'.price = PriceOf(pool', rate'.target)
<1>1. ASSUME NEW deposits, NEW answer \in HubRates, NEW factoryRate,
             ProvideLiquidity(deposits, answer, factoryRate)
      PROVE  Goal
  <2>1. rate' = Refreshed(answer) /\ now' = now
    BY <1>1, SavedAsUsed DEF ProvideLiquidity, ampVars
  <2>2. oracle'.price = PriceOf(pool', Refreshed(answer).target)
    BY <1>1 DEF ProvideLiquidity, StorePrice, InitializePrice
  <2> QED BY <2>1, <2>2 DEF Quoted
<1>2. ASSUME NEW burn, NEW answer \in HubRates, WithdrawLiquidity(burn, answer)
      PROVE  Goal
  <2>1. rate' = Refreshed(answer) /\ now' = now
    BY <1>2, SavedAsUsed DEF WithdrawLiquidity, ampVars
  <2>2. oracle'.price = PriceOf(pool', Refreshed(answer).target)
    BY <1>2 DEF WithdrawLiquidity, StorePrice
  <2> QED BY <2>1, <2>2 DEF Quoted
<1>3. ASSUME NEW listed \in Orders, NEW asked \in Withdrawals, NEW answer \in HubRates,
             NEW factoryRate \in FactoryRates,
             WithdrawImbalanced(asked, listed, answer, factoryRate)
      PROVE  Goal
  <2>1. rate' = Refreshed(answer) /\ now' = now
    BY <1>3, SavedAsUsed DEF WithdrawImbalanced, ampVars
  <2>2. listed = <<2, 1>> => Misordered
    BY <1>3 DEF Misordered, WithdrawListed
  <2>3. ASSUME listed = <<1, 2>> PROVE oracle'.price = PriceOf(pool', Refreshed(answer).target)
    <3>1. \A i \in Assets : listed[i] = i
      BY <2>3 DEF Assets
    <3>2. [i \in Assets |-> pool[i] - asked[listed[i]]] = [i \in Assets |-> pool[i] - asked[i]]
      BY <3>1
    <3> QED BY <1>3, <3>2 DEF WithdrawImbalanced, StorePrice
  <2> QED BY <2>1, <2>2, <2>3 DEF Quoted, Orders
<1>4. ASSUME NEW i \in Assets, NEW amount, NEW belief, NEW maxSpread, NEW referral,
             NEW answer \in HubRates, Swap(i, amount, belief, maxSpread, referral, answer)
      PROVE  Goal
  <2>1. rate' = Refreshed(answer) /\ now' = now
    BY <1>4, SavedAsUsed DEF Swap, ampVars
  <2>2. oracle'.price = PriceOf(pool', Refreshed(answer).target)
    BY <1>4 DEF Swap, StorePrice, PoolsAfterSwap
  <2> QED BY <2>1, <2>2 DEF Quoted
<1>5. ASSUME Tick PROVE Goal
  BY <1>5 DEF Tick, books
<1>6. ASSUME Administer PROVE Goal
  BY <1>6 DEF Administer, UpdateFees, UpdateConfig, ProposeNewOwner, DropOwnershipProposal,
     ClaimOwnership, Freeze, UpdateFreeze, ChangeMigration, books
<1> HIDE DEF Goal
<1>7. ASSUME Provide PROVE Goal
  BY <1>1, <1>7 DEF Provide
<1>8. ASSUME Withdraw PROVE Goal
  BY <1>2, <1>8 DEF Withdraw
<1>9. ASSUME \E listed \in Orders : WithdrawListed(listed) PROVE Goal
  BY <1>3, <1>9 DEF WithdrawListed
<1>10. ASSUME Trade PROVE Goal
  BY <1>4, <1>10 DEF Trade
<1>11. Goal
  BY <1>5, <1>6, <1>7, <1>8, <1>9, <1>10 DEF Next, UserNext
<1> QED
  BY <1>11 DEF Goal

LEMMA InitRate == Init => RateTypeOK
<1> SUFFICES ASSUME Init PROVE RateTypeOK
  OBVIOUS
<1>1. now \in Nat
  BY AmpAssumption DEF Init, AmpInit
<1>2. DecimalOne \in Nat \ {0}
  BY ScaleAssumption DEF DecimalOne
<1> QED
  BY <1>1, <1>2 DEF Init, RateTypeOK

LEMMA NextRate ==
  ASSUME RateTypeOK, [Next]_vars
  PROVE  /\ RateTypeOK'
         /\ pool' # pool /\ LsdAsset # NONE =>
              rate'.queried = now' \/ now' < rate'.queried + rate'.epoch
<1>1. ASSUME Next, Quoted
      PROVE  /\ RateTypeOK'
             /\ LsdAsset # NONE => rate'.queried = now' \/ now' < rate'.queried + rate'.epoch
  <2>1. PICK answer \in HubRates : rate' = Refreshed(answer) /\ now' = now
    BY <1>1 DEF Quoted
  <2>2. /\ rate' \in [target : Nat \ {0}, queried : Nat, epoch : RateEpochs]
        /\ LsdAsset # NONE => rate'.queried = now \/ now < rate'.queried + rate'.epoch
    BY <2>1, RefreshedType
  <2> QED BY <2>1, <2>2 DEF RateTypeOK
<1>2. ASSUME [Next]_vars, UNCHANGED <<rate, pool>> PROVE RateTypeOK'
  <2>1. [AmpNext]_ampVars
    BY <1>2, NextAmp
  <2>2. now' = now \/ now' = now + 1
    BY <2>1 DEF AmpNext, AmpTick, StartChangingAmp, StopChangingAmp, ampVars
  <2> QED BY <1>2, <2>2 DEF RateTypeOK
<1>3. CASE UNCHANGED vars
  BY <1>2, <1>3 DEF vars, books
<1>4. CASE Next
  BY <1>1, <1>2, <1>4, MovesQuoted
<1> QED
  BY <1>3, <1>4

(* No message that moves tokens quotes with a rate older than the epoch, or  *)
(* leaves another rate saved than it quoted with, although handlers write    *)
(* the config only if prices were accumulated or the rate was refreshed.     *)
THEOREM RateIsFresh == Spec => RateFresh
<1>1. RateTypeOK /\ [Next]_vars => RateTypeOK'
  BY NextRate
<1>2. RateTypeOK /\ [Next]_vars =>
        [pool' # pool /\ LsdAsset # NONE =>
           rate'.queried = now' \/ now' < rate'.queried + rate'.epoch]_vars
  BY NextRate
<1> QED
  BY <1>1, <1>2, InitRate, PTL DEF Spec, RateFresh

(* The price reported before any transfer is the price of the pools after    *)
(* all of them, for any curve, fee, referral and rate, unless a withdrawal   *)
(* lists the assets the other way round.                                     *)
THEOREM OracleSeesPair == Spec => OracleSeesPools
<1>1. [Next]_vars =>
        [pool' # pool /\ ~Misordered => oracle'.price = PriceOf(pool', rate'.target)]_vars
  BY MovesQuoted
<1> QED
  BY <1>1, PTL DEF Spec, OracleSeesPools

----------------------------------------------------------------------------
(* Newton's method, of any function, from any start *)

(* What holds of zero, and of the successor of each number it holds of,      *)
(* holds of every number: there is no first one it fails for.                *)
LEMMA EveryNumber ==
  ASSUME NEW T \in SUBSET Nat, 0 \in T, \A n \in T : n + 1 \in T
  PROVE  \A n \in Nat : n \in T
<1> SUFFICES ASSUME NEW m \in Nat, m \notin T PROVE FALSE
  OBVIOUS
<1> DEFINE F == Nat \ T
<1>1. F \subseteq Nat /\ F # {}
  OBVIOUS
<1>2. PICK n \in F : \A k \in F : ~(<<k, n>> \in OpToRel(<, Nat))
  <2> HIDE DEF F
  <2> QED BY <1>1, WFMin, NatLessThanWellFounded
<1>3. \A k \in F : ~(k < n)
  BY <1>1, <1>2 DEF OpToRel
<1>4. n \in Nat /\ n # 0 /\ n - 1 \in Nat /\ (n - 1) + 1 = n /\ n - 1 < n
  OBVIOUS
<1>5. n - 1 \in T
  BY <1>3, <1>4
<1> QED
  BY <1>4, <1>5

(* where the method ends that has `left` more steps to go, and stands at last *)
NewtonFrom(f, step, tolerance, left) ==
  [last \in Nat |->
     LET value == step[last]
         done == value # NONE /\ Distance(value, last) <= tolerance
     IN IF done \/ value = NONE \/ left = 0 THEN [value |-> value, done |-> done]
        ELSE f[left - 1][value]]

Unfolds(f, step, tolerance, m) == f = [left \in 0..m |-> NewtonFrom(f, step, tolerance, left)]

(* The recursive function of Newton exists, for any number of steps *)
LEMMA NewtonDefined ==
  ASSUME NEW step, NEW tolerance
  PROVE  \A m \in Nat : \E f : Unfolds(f, step, tolerance, m)
<1> DEFINE E(f, left) == NewtonFrom(f, step, tolerance, left)
           T == {m \in Nat : \E f : Unfolds(f, step, tolerance, m)}
<1>1. \A f, g : E(f, 0) = E(g, 0)
  BY DEF NewtonFrom
<1>2. ASSUME NEW f, NEW g, NEW left, f[left - 1] = g[left - 1] PROVE E(f, left) = E(g, left)
  BY <1>2 DEF NewtonFrom
<1>3. \A f, m : Unfolds(f, step, tolerance, m) <=> f = [left \in 0..m |-> E(f, left)]
  BY DEF Unfolds
<1> HIDE DEF E
<1>4. 0 \in T
  <2> DEFINE f == [left \in 0..0 |-> E(0, left)]
  <2>1. \A left \in 0..0 : E(0, left) = E(f, left)
    BY <1>1
  <2>2. f = [left \in 0..0 |-> E(f, left)]
    BY <2>1
  <2> HIDE DEF f
  <2> QED BY <1>3, <2>2
<1>5. ASSUME NEW m \in T PROVE m + 1 \in T
  <2>1. PICK f : f = [left \in 0..m |-> E(f, left)]
    BY <1>3
  <2> DEFINE g == [left \in 0..(m + 1) |-> IF left <= m THEN f[left] ELSE E(f, left)]
  <2>2. \A left \in 0..m : left \in 0..(m + 1) /\ g[left] = f[left] /\ f[left] = E(f, left)
    BY <2>1
  <2>3. g[m + 1] = E(f, m + 1) /\ m + 1 \in 0..(m + 1)
    OBVIOUS
  <2>4. \A left \in 0..(m + 1) : left = 0 \/ (left - 1 \in 0..m /\ (left \in 0..m \/ left = m + 1))
    OBVIOUS
  <2>5. ASSUME NEW left \in 0..(m + 1) PROVE g[left] = E(g, left)
    <3>1. g[left] = E(f, left)
      <4>1. left \in 0..m \/ left = m + 1
        BY <2>4
      <4> HIDE DEF g
      <4> QED BY <2>2, <2>3, <4>1
    <3>2. CASE left = 0
      BY <1>1, <3>1, <3>2
    <3>3. CASE left # 0
      <4>1. f[left - 1] = g[left - 1]
        <5> HIDE DEF g
        <5> QED BY <2>2, <2>4, <3>3
      <4> QED BY <1>2, <3>1, <4>1
    <3> QED BY <3>2, <3>3
  <2>6. g = [left \in 0..(m + 1) |-> E(g, left)]
    BY <2>5
  <2> HIDE DEF g
  <2> QED BY <1>3, <2>6
<1>6. \A m \in Nat : m \in T
  <2> HIDE DEF T
  <2>1. T \in SUBSET Nat
    BY DEF T
  <2> QED BY <1>4, <1>5, <2>1, EveryNumber
<1> QED
  BY <1>6

(* Newton's method goes on from where it stands *)
LEMMA NewtonIs ==
  ASSUME NEW start, NEW step, NEW tolerance
  PROVE  \E f : /\ Unfolds(f, step, tolerance, Iterations - 1)
                /\ Newton(start, step, tolerance) = f[Iterations - 1][start]
<1>1. Iterations - 1 \in Nat
  BY ScaleAssumption
<1> DEFINE from == CHOOSE f : Unfolds(f, step, tolerance, Iterations - 1)
<1>2. Unfolds(from, step, tolerance, Iterations - 1)
  BY <1>1, NewtonDefined
<1>3. Newton(start, step, tolerance) = from[Iterations - 1][start]
  BY DEF Newton, Unfolds, NewtonFrom
<1> QED
  BY <1>2, <1>3

Values == Nat \cup {NONE}

(* a value that a step within the tolerance has led to *)
Settled(value, step, tolerance) ==
  /\ value \in Nat /\ value # NONE
  /\ \E last \in Nat : value = step[last] /\ Distance(value, last) <= tolerance

(* It answers with a number, or with none where a step fails, and says that  *)
(* it is done only if its last step was within the tolerance.                *)
LEMMA NewtonType ==
  ASSUME NEW start \in Nat, NEW step \in [Nat -> Values], NEW tolerance
  PROVE  LET end == Newton(start, step, tolerance) IN
         /\ end.value \in Values /\ end.done \in BOOLEAN
         /\ end.done => Settled(end.value, step, tolerance)
<1> DEFINE Ends(end) == /\ end.value \in Values /\ end.done \in BOOLEAN
                        /\ end.done => Settled(end.value, step, tolerance)
           N == Iterations - 1
<1>1. N \in Nat
  BY ScaleAssumption
<1>2. PICK f : Unfolds(f, step, tolerance, N) /\ Newton(start, step, tolerance) = f[N][start]
  BY NewtonIs
<1> DEFINE T == {m \in Nat : m <= N => \A last \in Nat : Ends(f[m][last])}
<1>3. ASSUME NEW m \in 0..N, NEW last \in Nat,
             m # 0 => \A value \in Nat : Ends(f[m - 1][value])
      PROVE  Ends(f[m][last])
  <2> DEFINE value == step[last]
             done == value # NONE /\ Distance(value, last) <= tolerance
  <2>1. f[m][last] = IF done \/ value = NONE \/ m = 0 THEN [value |-> value, done |-> done]
                     ELSE f[m - 1][value]
    <3>1. f[m] = NewtonFrom(f, step, tolerance, m)
      BY <1>2, Zenon DEF Unfolds
    <3>2. NewtonFrom(f, step, tolerance, m)[last]
            = IF done \/ value = NONE \/ m = 0 THEN [value |-> value, done |-> done]
              ELSE f[m - 1][value]
      BY DEF NewtonFrom
    <3> QED BY <3>1, <3>2
  <2>2. value \in Values /\ done \in BOOLEAN
    OBVIOUS
  <2>3. done => Settled(value, step, tolerance)
    BY <2>2 DEF Settled, Values
  <2>4. CASE done \/ value = NONE \/ m = 0
    <3>1. f[m][last].value = value /\ f[m][last].done = done
      <4> HIDE DEF value, done
      <4> QED BY <2>1, <2>4
    <3> HIDE DEF value, done
    <3> QED BY <2>2, <2>3, <3>1
  <2>5. CASE ~(done \/ value = NONE \/ m = 0)
    <3>1. f[m][last] = f[m - 1][value] /\ value \in Nat /\ m # 0
      <4> HIDE DEF value, done
      <4> QED BY <2>1, <2>2, <2>5 DEF Values
    <3> HIDE DEF value, done, Ends
    <3> QED BY <1>3, <3>1
  <2> HIDE DEF value, done, Ends
  <2> QED BY <2>4, <2>5
<1> HIDE DEF Ends
<1>4. 0 \in T
  BY <1>1, <1>3
<1>5. ASSUME NEW m \in T PROVE m + 1 \in T
  <2>1. SUFFICES ASSUME m + 1 <= N, NEW last \in Nat PROVE Ends(f[m + 1][last])
    OBVIOUS
  <2>2. m + 1 \in 0..N /\ (m + 1) - 1 = m /\ m <= N
    BY <1>1, <2>1
  <2> QED BY <1>3, <2>2
<1>6. N \in T
  <2> HIDE DEF T
  <2>1. T \in SUBSET Nat
    BY DEF T
  <2> QED BY <1>1, <1>4, <1>5, <2>1, EveryNumber
<1>7. Ends(f[N][start])
  BY <1>1, <1>6
<1> QED
  BY <1>2, <1>7 DEF Ends

(* y solves y^2 + (b - d) y = c, rounded down to a whole unit, or up if that *)
(* makes the left side larger by one only                                    *)
RootOf(y, b, c, d) == y * (y + b) <= (y * d + c) + 1 /\ (y + 1) * d + c < (y + 1) * ((y + 1) + b)

LEMMA QuotientOf ==
  ASSUME NEW x \in Nat, NEW whole \in Nat \ {0}
  PROVE  x \div whole \in Nat
OBVIOUS

(* a step y = (last^2 + c) / (2 last + b - d) that moves by one at most *)
LEMMA StepToRoot ==
  ASSUME NEW last \in Nat, NEW b \in Nat, NEW c \in Nat, NEW d \in Nat, d < 2 * last + b,
         NEW y \in Nat, y = (last * last + c) \div ((2 * last + b) - d),
         y - last \in {-1, 0, 1}
  PROVE  RootOf(y, b, c, d)
<1> DEFINE q == (2 * last + b) - d
           s == last * last + c
<1>1. q \in Nat \ {0} /\ s \in Nat
  OBVIOUS
<1>2. y * q <= s /\ s < y * q + q
  <2> HIDE DEF q, s
  <2>1. y = s \div q
    BY DEF q, s
  <2> QED BY <1>1, <2>1, Floor
<1> DEFINE e == y - last
<1>3. e \in {-1, 0, 1} /\ last = y - e
  OBVIOUS
<1>4. e * e \in {0, 1} /\ e \in Int /\ 0 <= (e * e + 2 * e) + 1
  BY <1>3
<1>5. s = ((y * y - 2 * (e * y)) + e * e) + c
  <2>1. ASSUME NEW z \in {-1, 0, 1} PROVE (y - z) * (y - z) = (y * y - 2 * (z * y)) + z * z
    BY ONLY y \in Nat, z \in {-1, 0, 1}
  <2>2. (y - e) * (y - e) = (y * y - 2 * (e * y)) + e * e
    BY <1>3, <2>1
  <2>3. last * last = (y - e) * (y - e)
    BY <1>3, Zenon
  <2> QED BY <2>2, <2>3
<1>6. q = ((2 * y - 2 * e) + b) - d
  <2> HIDE DEF e
  <2>1. last = y - e /\ e \in Int
    BY <1>3
  <2>2. q = (2 * last + b) - d
    OBVIOUS
  <2> HIDE DEF q
  <2> QED BY ONLY <2>1, <2>2, y \in Nat, b \in Nat, d \in Nat, last \in Nat
<1>7. y * q = ((2 * (y * y) - 2 * (e * y)) + y * b) - y * d
  <2>1. ASSUME NEW m \in Int PROVE y * ((m + b) - d) = (y * m + y * b) - y * d
    BY ONLY y \in Nat, b \in Nat, d \in Nat, m \in Int
  <2>2. ASSUME NEW z \in Int PROVE y * (2 * y - 2 * z) = 2 * (y * y) - 2 * (z * y)
    BY ONLY y \in Nat, z \in Int
  <2> HIDE DEF e, q
  <2> DEFINE m == 2 * y - 2 * e
  <2>3. m \in Int /\ y * m = 2 * (y * y) - 2 * (e * y) /\ q = (m + b) - d
    BY <1>4, <1>6, <2>2
  <2> HIDE DEF m
  <2>4. y * q = (y * m + y * b) - y * d
    BY <2>1, <2>3
  <2> QED BY <2>3, <2>4
<1>8. /\ y * (y + b) = y * y + y * b /\ (y + 1) * d = y * d + d
      /\ (y + 1) * ((y + 1) + b) = y * y + 2 * y + 1 + y * b + b
  OBVIOUS
<1>9. y * y \in Nat /\ y * b \in Nat /\ y * d \in Nat /\ e * y \in Int
  BY <1>3
<1> DEFINE yy == y * y
           yb == y * b
           yd == y * d
           ey == e * y
           ee == e * e
           yq == y * q
           ysum == y * (y + b)
           zd == (y + 1) * d
           zsum == (y + 1) * ((y + 1) + b)
<1>10. /\ yq <= s /\ s < yq + q /\ s = ((yy - 2 * ey) + ee) + c
       /\ q = ((2 * y - 2 * e) + b) - d /\ yq = ((2 * yy - 2 * ey) + yb) - yd
       /\ ysum = yy + yb /\ zd = yd + d /\ zsum = yy + 2 * y + 1 + yb + b
       /\ yy \in Nat /\ yb \in Nat /\ yd \in Nat /\ ey \in Int
       /\ ee \in {0, 1} /\ e \in Int /\ 0 <= (ee + 2 * e) + 1
  BY <1>2, <1>4, <1>5, <1>6, <1>7, <1>8, <1>9
<1>11. ysum <= (yd + c) + 1 /\ zd + c < zsum
  <2> HIDE DEF yy, yb, yd, ey, ee, yq, ysum, zd, zsum, q, s, e
  <2> QED BY <1>10
<1> QED
  BY <1>11 DEF RootOf

LEMMA StepOfYType ==
  ASSUME NEW b \in Nat, NEW c \in Nat, NEW d \in Nat
  PROVE  StepOfY(b, c, d) \in [Nat -> Values]
<1>1. ASSUME NEW y \in Nat, ~(2 * y + b <= d)
      PROVE  (y * y + c) \div ((2 * y + b) - d) \in Nat
  <2>1. y * y + c \in Nat /\ (2 * y + b) - d \in Nat \ {0}
    BY <1>1
  <2> QED BY <2>1, QuotientOf
<1> QED
  BY <1>1 DEF StepOfY, Values

(* calc_y ends on the quadratic it solves: for every D, amplification and    *)
(* pool, if the method says it is done, the balance is the root of           *)
(* y^2 + (b - d) y = c up to the unit of the rounding.                       *)
THEOREM SolverLands ==
  ASSUME NEW from \in Nat \ {0}, NEW ann \in Nat \ {0}, NEW d \in Nat,
         SolveY(from, ann, d).done
  PROVE  /\ SolveY(from, ann, d).value \in Nat
         /\ RootOf(SolveY(from, ann, d).value, BOfY(from, ann, d), COfY(from, ann, d), d)
<1> DEFINE b == BOfY(from, ann, d)
           c == COfY(from, ann, d)
           y == SolveY(from, ann, d).value
<1>1. b \in Nat
  BY QuotientOf DEF BOfY
<1>2. c \in Nat
  <2>1. d * d \in Nat /\ 2 * from \in Nat \ {0} /\ 2 * ann \in Nat \ {0}
    OBVIOUS
  <2>2. (d * d) \div (2 * from) \in Nat
    BY <2>1, QuotientOf
  <2>3. ((d * d) \div (2 * from)) * d \in Nat
    BY <2>2
  <2> QED BY <2>1, <2>3, QuotientOf DEF COfY
<1> HIDE DEF b, c
<1>3. SolveY(from, ann, d) = Newton(d, StepOfY(b, c, d), 1)
  BY DEF SolveY, b, c
<1>4. StepOfY(b, c, d) \in [Nat -> Values]
  BY <1>1, <1>2, StepOfYType
<1>5. Settled(y, StepOfY(b, c, d), 1)
  BY <1>3, <1>4, NewtonType
<1> HIDE DEF y
<1>6. PICK last \in Nat : y = StepOfY(b, c, d)[last] /\ Distance(y, last) <= 1
  BY <1>5 DEF Settled
<1>7. y \in Nat /\ y # NONE
  BY <1>5 DEF Settled
<1>8. d < 2 * last + b /\ y = (last * last + c) \div ((2 * last + b) - d)
  BY <1>1, <1>6, <1>7 DEF StepOfY
<1>9. y - last \in {-1, 0, 1}
  BY <1>6, <1>7 DEF Distance
<1>10. RootOf(y, b, c, d)
  BY <1>1, <1>2, <1>7, <1>8, <1>9, StepToRoot
<1> QED
  BY <1>7, <1>10 DEF y, b, c

----------------------------------------------------------------------------
(* What the solvers and quotes answer with *)

LEMMA DecimalType == DecimalOne \in Nat \ {0} /\ Fine \in Nat \ {0} /\ AmpPrecision \in Nat \ {0}
<1>1. One \in Nat \ {0} /\ Fine \in Nat \ {0} /\ AmpPrecision \in Nat \ {0}
  BY ScaleAssumption
<1> QED
  BY <1>1 DEF DecimalOne

LEMMA TimesType ==
  ASSUME NEW a \in Nat, NEW b \in Nat
  PROVE  Times(a, b) \in Nat
<1>1. a * b \in Nat
  OBVIOUS
<1> QED
  BY <1>1, DecimalType, QuotientOf DEF Times

LEMMA OverType ==
  ASSUME NEW a \in Nat, NEW b \in Nat \ {0}
  PROVE  Over(a, b) \in Nat
<1>1. a * DecimalOne \in Nat
  BY DecimalType
<1> QED
  BY <1>1, QuotientOf DEF Over

(* A number of at least `least` parts of a whole is at least `least` after   *)
(* the division                                                              *)
LEMMA QuotientAtLeast ==
  ASSUME NEW x \in Nat, NEW whole \in Nat \ {0}, NEW least \in Nat, least * whole <= x
  PROVE  least <= x \div whole
<1> DEFINE q == x \div whole
<1>1. q \in Nat /\ x < q * whole + whole
  BY Floor
<1> HIDE DEF q
<1>2. ASSUME q < least PROVE FALSE
  <2>1. (q + 1) * whole <= least * whole
    BY <1>1, <1>2
  <2>2. (q + 1) * whole = q * whole + whole /\ q * whole \in Nat /\ least * whole \in Nat
    BY <1>1
  <2> QED BY <1>1, <2>1, <2>2
<1>3. least <= q
  BY <1>1, <1>2
<1> QED
  BY <1>3 DEF q

LEMMA AnnType ==
  ASSUME NEW coefficient \in Nat, AmpPrecision <= coefficient
  PROVE  /\ Ann(coefficient) \in Nat \ {0}
         /\ (coefficient * 2 * DecimalOne) \div AmpPrecision \in Nat
         /\ DecimalOne <= (coefficient * 2 * DecimalOne) \div AmpPrecision
<1>1. DecimalOne \in Nat \ {0} /\ AmpPrecision \in Nat \ {0}
  BY DecimalType
<1>2. coefficient * 2 \in Nat /\ 1 * AmpPrecision <= coefficient * 2
  BY <1>1
<1>3. Ann(coefficient) \in Nat /\ 1 <= Ann(coefficient)
  BY <1>1, <1>2, QuotientOf, QuotientAtLeast DEF Ann
<1>4. coefficient * 2 * DecimalOne \in Nat /\ DecimalOne * AmpPrecision <= coefficient * 2 * DecimalOne
  <2>1. DecimalOne * AmpPrecision <= DecimalOne * (coefficient * 2)
    BY <1>1, <1>2, TimesMono
  <2>2. DecimalOne * (coefficient * 2) = coefficient * 2 * DecimalOne
    BY <1>1
  <2> QED BY <1>1, <2>1, <2>2
<1> QED
  BY <1>1, <1>3, <1>4, QuotientOf, QuotientAtLeast

LEMMA StepOfDType ==
  ASSUME NEW ann \in Nat, DecimalOne <= ann, NEW x \in [Assets -> Nat], x[1] # 0, x[2] # 0
  PROVE  StepOfD(ann, x) \in [Nat -> Values]
<1>1. 2 * x[1] \in Nat \ {0} /\ 2 * x[2] \in Nat \ {0} /\ x[1] + x[2] \in Nat
  BY DEF Assets
<1>2. ASSUME NEW d \in Nat
      PROVE  LET product == (((d * d) \div (2 * x[1])) * d) \div (2 * x[2])
                 below == Times(ann - DecimalOne, d) + 3 * product
             IN  below # 0 => Over(Times(Times(ann, x[1] + x[2]) + 2 * product, d), below) \in Nat
  <2> DEFINE first == (d * d) \div (2 * x[1])
             product == (first * d) \div (2 * x[2])
             below == Times(ann - DecimalOne, d) + 3 * product
             above == Times(Times(ann, x[1] + x[2]) + 2 * product, d)
  <2>1. d * d \in Nat
    OBVIOUS
  <2>2. first \in Nat
    <3> HIDE DEF product
    <3> QED BY <1>1, <2>1, QuotientOf
  <2>3. product \in Nat
    <3> HIDE DEF first
    <3>1. first * d \in Nat
      BY <2>2
    <3> QED BY <1>1, <3>1, QuotientOf
  <2> HIDE DEF product
  <2>4. below \in Nat
    <3>1. ann - DecimalOne \in Nat
      BY DecimalType
    <3>2. Times(ann - DecimalOne, d) \in Nat
      BY <3>1, TimesType
    <3> QED BY <2>3, <3>2
  <2>5. above \in Nat
    <3>1. Times(ann, x[1] + x[2]) \in Nat
      BY <1>1, TimesType
    <3>2. Times(ann, x[1] + x[2]) + 2 * product \in Nat
      BY <2>3, <3>1
    <3> QED BY <3>2, TimesType
  <2> HIDE DEF below, above
  <2>6. below # 0 => Over(above, below) \in Nat
    BY <2>4, <2>5, OverType
  <2> QED BY <2>6, Zenon DEF product, first, below, above
<1>3. \A d \in Nat : StepOfD(ann, x)[d] \in Values
  BY <1>2 DEF StepOfD, Values
<1> QED
  BY <1>3 DEF StepOfD

(* compute_d gives a number, zero if a pool is empty, unless it divides by   *)
(* zero                                                                      *)
LEMMA ComputeDType ==
  ASSUME NEW coefficient \in Nat, AmpPrecision <= coefficient, NEW x \in [Assets -> Nat]
  PROVE  /\ ComputeD(coefficient, x) \in Values
         /\ x[1] = 0 \/ x[2] = 0 => ComputeD(coefficient, x) = 0
<1>1. CASE x[1] = 0 \/ x[2] = 0
  BY <1>1 DEF ComputeD, Values
<1>2. CASE ~(x[1] = 0 \/ x[2] = 0)
  <2> DEFINE ann == (coefficient * 2 * DecimalOne) \div AmpPrecision
             end == Newton(x[1] + x[2], StepOfD(ann, x), Fine)
  <2>1. ComputeD(coefficient, x) = end.value
    BY <1>2 DEF ComputeD
  <2>2. ann \in Nat /\ DecimalOne <= ann
    BY AnnType
  <2> HIDE DEF ann
  <2>3. StepOfD(ann, x) \in [Nat -> Values]
    BY <1>2, <2>2, StepOfDType
  <2>4. x[1] + x[2] \in Nat
    BY DEF Assets
  <2>5. end.value \in Values
    BY <2>3, <2>4, NewtonType
  <2> QED BY <1>2, <2>1, <2>5
<1> QED
  BY <1>1, <1>2

LEMMA AtRateType ==
  ASSUME NEW i, NEW amount \in Nat, NEW target \in Nat \ {0}
  PROVE  AtRate(i, amount, target) \in Nat /\ InverseRate(i, amount, target) \in Nat
<1>1. amount * DecimalOne \in Nat /\ target \in Nat
  BY DecimalType
<1>2. Times(amount, target) \in Nat /\ (amount * DecimalOne) \div target \in Nat
  BY <1>1, TimesType, QuotientOf
<1> QED
  BY <1>2 DEF AtRate, InverseRate

AllAtRate(x, target) == [j \in Assets |-> AtRate(j, x[j], target)]

(* y is where the quadratic of calc_y leads when the pool of asset i, of the *)
(* pools x, becomes `changed`                                                *)
Solves(y, i, changed, x, coefficient, target) ==
  LET d == ComputeD(coefficient, AllAtRate(x, target)) \div Fine
      from == AtRate(i, changed, target) \div Fine
  IN y \in Nat /\ RootOf(y, BOfY(from, Ann(coefficient), d), COfY(from, Ann(coefficient), d), d)

LEMMA CalcYSolves ==
  ASSUME NEW coefficient \in Nat, AmpPrecision <= coefficient, NEW x \in [Assets -> Nat],
         NEW i \in Assets, NEW changed \in Nat, NEW target \in Nat \ {0},
         CalcY(i, changed, x, coefficient, target) # NONE
  PROVE  \E y \in Nat : /\ Solves(y, i, changed, x, coefficient, target)
                        /\ CalcY(i, changed, x, coefficient, target) = InverseRate(Other(i), y, target)
<1> DEFINE d == ComputeD(coefficient, AllAtRate(x, target))
           from == AtRate(i, changed, target) \div Fine
           solved == SolveY(from, Ann(coefficient), d \div Fine)
<1>1. CalcY(i, changed, x, coefficient, target)
        = IF from = 0 \/ d = NONE THEN NONE
          ELSE IF ~solved.done THEN NONE ELSE InverseRate(Other(i), solved.value, target)
  BY DEF CalcY, AllAtRate
<1>2. AllAtRate(x, target) \in [Assets -> Nat]
  BY AtRateType DEF AllAtRate
<1>3. d \in Values
  BY <1>2, ComputeDType
<1>4. from \in Nat
  BY AtRateType, DecimalType, QuotientOf
<1>5. Ann(coefficient) \in Nat \ {0}
  BY AnnType
<1>6. /\ from # 0 /\ d # NONE /\ solved.done
      /\ CalcY(i, changed, x, coefficient, target) = InverseRate(Other(i), solved.value, target)
  <2> HIDE DEF from, d, solved
  <2> QED BY <1>1
<1>7. d \in Nat /\ d \div Fine \in Nat
  <2>1. d \in Nat
    BY <1>3, <1>6 DEF Values
  <2> HIDE DEF d
  <2> QED BY <2>1, DecimalType, QuotientOf
<1>8. Solves(solved.value, i, changed, x, coefficient, target) /\ solved.value \in Nat
  <2>1. /\ solved.value \in Nat
        /\ RootOf(solved.value, BOfY(from, Ann(coefficient), d \div Fine),
                  COfY(from, Ann(coefficient), d \div Fine), d \div Fine)
    <3> HIDE DEF from, d
    <3> QED BY <1>4, <1>5, <1>6, <1>7, SolverLands
  <2> QED BY <2>1 DEF Solves
<1> QED
  BY <1>6, <1>8

LEMMA OtherOf == \A i \in Assets : Other(i) \in Assets /\ Other(i) # i
BY DEF Assets, Other

(* A swap pays at most what the pool holds, and leaves in it at least what   *)
(* the solver says.                                                          *)
LEMMA SwapSolves ==
  ASSUME NEW coefficient \in Nat, AmpPrecision <= coefficient, NEW x \in [Assets -> Nat],
         NEW i \in Assets, NEW offer \in Nat, NEW target \in Nat \ {0},
         ComputeSwap(i, offer, x, coefficient, target) # NONE
  PROVE  LET return == ComputeSwap(i, offer, x, coefficient, target).return
             held == x[Other(i)] \div Fine
         IN /\ held \in Nat /\ return \in 0..held
            /\ \E y \in Nat : /\ Solves(y, i, x[i] + offer, x, coefficient, target)
                              /\ held - return = InverseRate(Other(i), y, target)
<1> DEFINE swap == ComputeSwap(i, offer, x, coefficient, target)
           left == CalcY(i, x[i] + offer, x, coefficient, target)
           held == x[Other(i)] \div Fine
<1>1. x[i] \in Nat /\ x[Other(i)] \in Nat /\ x[i] + offer \in Nat
  BY OtherOf
<1>2. held \in Nat
  BY <1>1, DecimalType, QuotientOf
<1>3. left # NONE /\ ~(left > held) /\ swap.return = held - left
  BY DEF ComputeSwap, SwapTo
<1> DEFINE changed == x[i] + offer
<1>4. PICK y \in Nat : /\ Solves(y, i, changed, x, coefficient, target)
                       /\ left = InverseRate(Other(i), y, target)
  <2>1. changed \in Nat /\ CalcY(i, changed, x, coefficient, target) # NONE
        /\ left = CalcY(i, changed, x, coefficient, target)
    BY <1>1, <1>3
  <2> HIDE DEF changed, left
  <2> QED BY <2>1, CalcYSolves
<1>5. left \in Nat
  BY <1>4, AtRateType
<1>6. swap.return \in 0..held /\ held - swap.return = left
  <2> HIDE DEF swap, left, held
  <2> QED BY <1>2, <1>3, <1>5
<1> QED
  BY <1>2, <1>4, <1>6

(* Nothing can be bought with the second asset from an empty pool of the     *)
(* first: its price is zero; an empty pool of the second has no price.       *)
LEMMA EmptyPrice ==
  ASSUME NEW coefficient \in Nat, AmpPrecision <= coefficient, NEW x \in [Assets -> Nat],
         NEW target \in Nat \ {0}, SpotPrice(2, x, coefficient, target) # NONE
  PROVE  x[2] # 0 /\ (x[1] = 0 => SpotPrice(2, x, coefficient, target) = 0)
<1> DEFINE swap == ComputeSwap(2, DecimalOne, x, coefficient, target)
<1>1. SpotPrice(2, x, coefficient, target) = IF swap = NONE THEN NONE ELSE swap.return
  BY DEF SpotPrice, ReturnOf
<1>2. swap # NONE /\ SpotPrice(2, x, coefficient, target) = swap.return
  <2> HIDE DEF swap
  <2> QED BY <1>1
<1>3. x[2] # 0
  BY <1>2 DEF ComputeSwap
<1>4. ASSUME x[1] = 0 PROVE swap.return = 0
  <2>1. Other(2) = 1 /\ 2 \in Assets /\ DecimalOne \in Nat
    BY DecimalType DEF Other, Assets
  <2>2. swap.return \in 0..(x[1] \div Fine)
    BY <1>2, <2>1, SwapSolves
  <2>3. x[1] \div Fine = 0
    BY <1>4, DecimalType
  <2> HIDE DEF swap
  <2> QED BY <2>2, <2>3
<1> QED
  BY <1>2, <1>3, <1>4

----------------------------------------------------------------------------
(* What deposits and withdrawals mint and burn *)

AmpIsSet == CurrentAmp \in Nat /\ AmpPrecision <= CurrentAmp

LEMMA AmpSet == AmpTypeOK => AmpIsSet
<1>1. AmpPrecision \in Nat /\ MaxAmp * AmpPrecision \in Nat
  BY AmpAssumption, DecimalType
<1> QED
  BY <1>1 DEF AmpTypeOK, AmpIsSet

LEMMA AtomicsType ==
  ASSUME NEW p \in [Assets -> Nat]
  PROVE  /\ Atomics(p) \in [Assets -> Nat]
         /\ \A i \in Assets : Atomics(p)[i] = p[i] * Fine /\ Atomics(p)[i] \div Fine = p[i]
                              /\ (Atomics(p)[i] = 0 <=> p[i] = 0)
<1>1. ASSUME NEW n \in Nat PROVE n * Fine \in Nat /\ (n * Fine) \div Fine = n /\ (n * Fine = 0 <=> n = 0)
  BY DecimalType
<1> QED
  BY <1>1 DEF Atomics

LEMMA DType ==
  ASSUME AmpIsSet, NEW p \in [Assets -> Nat]
  PROVE  D(p) \in Values /\ (p[1] = 0 \/ p[2] = 0 => D(p) = 0)
<1>1. Atomics(p) \in [Assets -> Nat] /\ (p[1] = 0 \/ p[2] = 0 => Atomics(p)[1] = 0 \/ Atomics(p)[2] = 0)
  BY AtomicsType DEF Assets
<1> QED
  BY <1>1, ComputeDType DEF D, AmpIsSet

LEMMA AfterFeeType ==
  ASSUME NEW old \in [Assets -> Nat], NEW new \in [Assets -> Nat],
         NEW oldD \in Nat \ {0}, NEW newD \in Nat, NEW factoryRate \in Nat
  PROVE  /\ AfterFee(old, new, oldD, newD, factoryRate) \in [Assets -> Int]
         /\ \A j \in Assets : newD = 0 /\ new[j] = 0 => AfterFee(old, new, oldD, newD, factoryRate)[j] = 0
<1> DEFINE fee == Times(factoryRate, FromRatio(2, 4))
           ideal(i) == (newD * old[i] * Fine) \div oldD
<1>1. Fine \in Nat \ {0} /\ DecimalOne \in Nat \ {0}
  BY DecimalType
<1>2. fee \in Nat
  <2>1. FromRatio(2, 4) \in Nat
    BY <1>1 DEF FromRatio
  <2> QED BY <2>1, TimesType
<1>3. ASSUME NEW i \in Assets PROVE ideal(i) \in Nat /\ (newD = 0 => ideal(i) = 0)
  <2>1. newD * old[i] * Fine \in Nat /\ (newD = 0 => newD * old[i] * Fine = 0)
    BY <1>1
  <2>2. 0 \div oldD = 0
    OBVIOUS
  <2> QED BY <2>1, <2>2, QuotientOf
<1> HIDE DEF ideal
<1>4. ASSUME NEW i \in Assets
      PROVE  /\ Distance(ideal(i), new[i] * Fine) \in Nat
             /\ newD = 0 /\ new[i] = 0 => Distance(ideal(i), new[i] * Fine) = 0 /\ new[i] * Fine = 0
             /\ new[i] * Fine \in Nat
  <2>1. new[i] * Fine \in Nat /\ (new[i] = 0 => new[i] * Fine = 0)
    BY <1>1
  <2> QED BY <1>3, <2>1 DEF Distance
<1> HIDE DEF fee
<1>5. Times(fee, 0) = 0
  <2>1. fee * 0 = 0 /\ 0 \div DecimalOne = 0
    BY <1>1, <1>2
  <2> QED BY <2>1 DEF Times
<1>6. ASSUME NEW i \in Assets
      PROVE  /\ new[i] * Fine - Times(fee, Distance(ideal(i), new[i] * Fine)) \in Int
             /\ newD = 0 /\ new[i] = 0 => new[i] * Fine - Times(fee, Distance(ideal(i), new[i] * Fine)) = 0
  <2> DEFINE distance == Distance(ideal(i), new[i] * Fine)
             held == new[i] * Fine
  <2>1. Times(fee, distance) \in Nat
    BY <1>2, <1>4, TimesType
  <2>2. newD = 0 /\ new[i] = 0 => Times(fee, distance) = 0 /\ held = 0
    BY <1>4, <1>5
  <2>3. held \in Nat
    BY <1>4
  <2> HIDE DEF distance, held
  <2>4. held - Times(fee, distance) \in Int
    BY <2>1, <2>3
  <2>5. newD = 0 /\ new[i] = 0 => held - Times(fee, distance) = 0
    BY <2>2
  <2> QED BY <2>4, <2>5 DEF distance, held
<1>7. AfterFee(old, new, oldD, newD, factoryRate)
        = [i \in Assets |-> new[i] * Fine - Times(fee, Distance(ideal(i), new[i] * Fine))]
  BY DEF AfterFee, fee, ideal
<1> QED
  BY <1>6, <1>7

LEMMA WithoutType ==
  ASSUME NEW m \in Nat, NEW n \in Nat
  PROVE  Without(m, n) \in Nat
BY DEF Without

LEMMA ShareType ==
  ASSUME AmpIsSet, supply \in Nat, NEW old \in [Assets -> Nat], NEW new \in [Assets -> Nat],
         NEW factoryRate \in Nat, D(old) \notin {0, NONE}, D(new) # NONE
  PROVE  ShareOf(old, new, factoryRate) \in Nat
<1> DEFINE left == AfterFee(old, new, D(old), D(new), factoryRate)
           after == ComputeD(CurrentAmp, left)
           minted == supply * Fine * Without(after, D(old))
<1>1. D(old) \in Nat \ {0} /\ D(new) \in Nat
  BY DType DEF Values
<1>2. left \in [Assets -> Int]
  BY <1>1, AfterFeeType
<1>3. ShareOf(old, new, factoryRate)
        = IF (\E i \in Assets : left[i] < 0) \/ after = NONE THEN 0
          ELSE (minted \div D(old)) \div Fine
  BY DEF ShareOf
<1>4. ASSUME ~(\E i \in Assets : left[i] < 0), after # NONE
      PROVE  (minted \div D(old)) \div Fine \in Nat
  <2>1. left \in [Assets -> Nat]
    <3> HIDE DEF left
    <3>1. \A i \in Assets : left[i] \in Nat
      BY <1>2, <1>4
    <3> QED BY <1>2, <3>1
  <2>2. after \in Nat
    <3> HIDE DEF left
    <3> QED BY <1>4, <2>1, ComputeDType DEF AmpIsSet, Values
  <2>3. minted \in Nat
    <3> HIDE DEF after
    <3>1. Without(after, D(old)) \in Nat
      BY <1>1, <2>2, WithoutType
    <3> QED BY <3>1, DecimalType
  <2> HIDE DEF minted
  <2> QED BY <1>1, <2>3, DecimalType, QuotientOf
<1> HIDE DEF left, after, minted
<1> QED
  BY <1>3, <1>4

(* Taking the whole of a pool would cost more LP tokens than there are *)
LEMMA BurnType ==
  ASSUME AmpIsSet, supply \in Nat, NEW old \in [Assets -> Nat], NEW new \in [Assets -> Nat],
         NEW factoryRate \in Nat, D(old) \notin {0, NONE}, D(new) # NONE,
         BurnFor(old, new, factoryRate) # NONE
  PROVE  /\ BurnFor(old, new, factoryRate) \in Nat \ {0}
         /\ new[1] = 0 \/ new[2] = 0 => BurnFor(old, new, factoryRate) = supply + 1
<1> DEFINE left == AfterFee(old, new, D(old), D(new), factoryRate)
           after == ComputeD(CurrentAmp, left)
           lost == D(old) - after
<1>1. D(old) \in Nat \ {0} /\ D(new) \in Nat /\ (new[1] = 0 \/ new[2] = 0 => D(new) = 0)
  BY DType DEF Values
<1>2. left \in [Assets -> Int] /\ (\A j \in Assets : D(new) = 0 /\ new[j] = 0 => left[j] = 0)
  <2> DEFINE oldD == D(old)
             newD == D(new)
  <2>1. oldD \in Nat \ {0} /\ newD \in Nat /\ left = AfterFee(old, new, oldD, newD, factoryRate)
    BY <1>1
  <2> HIDE DEF oldD, newD, left
  <2> DEFINE fee == AfterFee(old, new, oldD, newD, factoryRate)
  <2>2. fee \in [Assets -> Int] /\ (\A j \in Assets : newD = 0 /\ new[j] = 0 => fee[j] = 0)
    BY ONLY <2>1, AfterFeeType, old \in [Assets -> Nat], new \in [Assets -> Nat], factoryRate \in Nat
  <2> HIDE DEF fee
  <2>3. left = fee
    BY <2>1 DEF fee
  <2>4. left \in [Assets -> Int] /\ (\A j \in Assets : newD = 0 /\ new[j] = 0 => left[j] = 0)
    BY ONLY <2>2, <2>3
  <2> QED BY <2>4 DEF newD
<1>3. BurnFor(old, new, factoryRate)
        = IF (\E i \in Assets : left[i] < 0) \/ after = NONE THEN NONE
          ELSE IF after > D(old) THEN NONE
          ELSE (supply * lost) \div D(old) + 1
  BY DEF BurnFor
<1>4. /\ ~(\E i \in Assets : left[i] < 0) /\ after # NONE /\ ~(after > D(old))
      /\ BurnFor(old, new, factoryRate) = (supply * lost) \div D(old) + 1
  <2> HIDE DEF left, after, lost
  <2> QED BY <1>3
<1>5. left \in [Assets -> Nat]
  <2> HIDE DEF left
  <2>1. \A i \in Assets : left[i] \in Nat
    BY <1>2, <1>4
  <2> QED BY <1>2, <2>1
<1>6. new[1] = 0 \/ new[2] = 0 => left[1] = 0 \/ left[2] = 0
  <2> HIDE DEF left
  <2> QED BY <1>1, <1>2 DEF Assets
<1>7. after \in Nat /\ (new[1] = 0 \/ new[2] = 0 => after = 0)
  <2> HIDE DEF left
  <2> QED BY <1>4, <1>5, <1>6, ComputeDType DEF AmpIsSet, Values
<1> HIDE DEF left, after
<1>8. lost \in Nat /\ (after = 0 => lost = D(old))
  BY <1>1, <1>4, <1>7
<1> HIDE DEF lost
<1>9. (supply * lost) \div D(old) \in Nat
  <2>1. supply * lost \in Nat
    BY <1>8
  <2> QED BY <1>1, <2>1, QuotientOf
<1>10. (supply * D(old)) \div D(old) = supply
  <2>1. \A n \in Nat, k \in Nat \ {0} : (n * k) \div k = n
    OBVIOUS
  <2> QED BY <1>1, <2>1
<1> QED
  BY <1>4, <1>7, <1>8, <1>9, <1>10

----------------------------------------------------------------------------
(* The types of the pair.  The LP tokens locked in the first deposit are     *)
(* never burned, so the supply does not fall back to nothing.                *)

LiquidityOK ==
  /\ pool \in [Assets -> Nat]
  /\ lp \in [users : Nat, pair : Nat]
  /\ supply > 0 => lp.pair > 0
  /\ (oracle.price = NONE) <=> (supply = 0)
  /\ supply > 0 => pool[2] > 0 /\ (pool[1] > 0 \/ oracle.price = 0)

LEMMA PriceTells ==
  ASSUME AmpIsSet, NEW p \in [Assets -> Nat], NEW target \in Nat \ {0}, PriceOf(p, target) # NONE
  PROVE  p[2] > 0 /\ (p[1] > 0 \/ PriceOf(p, target) = 0)
<1>1. Atomics(p) \in [Assets -> Nat] /\ 1 \in Assets /\ 2 \in Assets
  BY AtomicsType DEF Assets
<1>2. Atomics(p)[2] # 0 /\ (Atomics(p)[1] = 0 => PriceOf(p, target) = 0)
  BY <1>1, EmptyPrice DEF PriceOf, AmpIsSet
<1>3. (Atomics(p)[1] = 0 <=> p[1] = 0) /\ (Atomics(p)[2] = 0 <=> p[2] = 0) /\ p[1] \in Nat /\ p[2] \in Nat
  BY <1>1, AtomicsType
<1> QED
  BY <1>2, <1>3

LEMMA QuotedTarget ==
  ASSUME RateTypeOK, NEW answer \in HubRates
  PROVE  Refreshed(answer).target \in Nat \ {0}
BY RefreshedType

LEMMA ProvideTyped ==
  ASSUME AmpIsSet, RateTypeOK, LiquidityOK, NEW deposits \in Deposits, NEW answer \in HubRates,
         NEW factoryRate \in FactoryRates, ProvideLiquidity(deposits, answer, factoryRate)
  PROVE  LiquidityOK' /\ lp' # lp
<1> DEFINE new == [i \in Assets |-> pool[i] + deposits[i]]
           target == Refreshed(answer).target
           first == D(new) \div Fine - MinLiquidity
           share == ShareOf(pool, new, factoryRate)
<1>1. deposits \in [Assets -> Nat] /\ factoryRate \in Nat /\ MinLiquidity \in Nat \ {0}
  BY AmountAssumption, FeeAssumption, PositiveAssumption, DecimalType
<1>2. new \in [Assets -> Nat]
  BY <1>1 DEF LiquidityOK
<1>3. pool' = new
  BY DEF ProvideLiquidity
<1>4. target \in Nat \ {0}
  BY QuotedTarget
<1>5. oracle'.price = PriceOf(new, target) /\ PriceOf(new, target) # NONE
  BY DEF ProvideLiquidity, InitializePrice, StorePrice
<1>6. new[2] > 0 /\ (new[1] > 0 \/ oracle'.price = 0)
  <2> HIDE DEF new, target
  <2> QED BY <1>2, <1>4, <1>5, PriceTells
<1>7. supply \in Nat /\ supply = lp.users + lp.pair
  BY DEF supply, LiquidityOK
<1>8. \/ /\ supply = 0 /\ D(new) # NONE /\ first > 0 /\ lp' = [users |-> first, pair |-> MinLiquidity]
      \/ /\ supply # 0 /\ D(pool) \notin {0, NONE} /\ D(new) # NONE
         /\ share > 0 /\ lp' = [lp EXCEPT !.users = @ + share]
  BY DEF ProvideLiquidity
<1>9. /\ lp' \in [users : Nat, pair : Nat] /\ lp'.users + lp'.pair > supply /\ lp'.pair > 0
  <2>1. CASE supply = 0 /\ D(new) # NONE /\ first > 0 /\ lp' = [users |-> first, pair |-> MinLiquidity]
    <3>1. D(new) \in Nat
      <4> HIDE DEF new
      <4> QED BY <1>2, <2>1, DType DEF Values
    <3>2. D(new) \div Fine \in Nat
      <4> HIDE DEF new
      <4> QED BY <3>1, DecimalType, QuotientOf
    <3>3. first \in Nat
      <4> HIDE DEF new
      <4> QED BY <1>1, <2>1, <3>2
    <3> HIDE DEF first
    <3> QED BY <1>1, <2>1, <3>3
  <2>2. CASE /\ supply # 0 /\ D(pool) \notin {0, NONE} /\ D(new) # NONE
             /\ share > 0 /\ lp' = [lp EXCEPT !.users = @ + share]
    <3>1. share \in Nat
      <4> HIDE DEF new
      <4> QED BY <1>1, <1>2, <1>7, <2>2, ShareType DEF LiquidityOK
    <3>2. lp \in [users : Nat, pair : Nat] /\ lp.pair > 0
      BY <1>7, <2>2 DEF LiquidityOK
    <3> HIDE DEF share
    <3> QED BY <1>7, <2>2, <3>1, <3>2
  <2> QED BY <1>8, <2>1, <2>2
<1>10. supply' = lp'.users + lp'.pair
  BY DEF supply
<1> HIDE DEF new, target
<1> QED
  BY <1>2, <1>3, <1>5, <1>6, <1>7, <1>9, <1>10 DEF LiquidityOK

LEMMA RefundType ==
  ASSUME LiquidityOK, NEW burn \in Nat, burn <= lp.users, supply # 0, NEW i \in Assets
  PROVE  Refund(i, burn) \in 0..pool[i]
<1> DEFINE part == FromRatio(burn, supply)
<1>1. supply \in Nat \ {0} /\ burn <= supply /\ pool[i] \in Nat
  BY DEF supply, LiquidityOK
<1>2. burn * DecimalOne \in Nat /\ burn * DecimalOne <= supply * DecimalOne /\ DecimalOne \in Nat \ {0}
  <2>1. DecimalOne * burn <= DecimalOne * supply
    BY <1>1, TimesMono, DecimalType
  <2>2. DecimalOne * burn = burn * DecimalOne /\ DecimalOne * supply = supply * DecimalOne
    BY <1>1, DecimalType
  <2> QED BY <2>1, <2>2, DecimalType
<1>3. part \in Nat /\ part <= DecimalOne
  <2>1. part \in Nat /\ part * supply <= burn * DecimalOne
    BY <1>1, <1>2, Floor DEF FromRatio
  <2> HIDE DEF part
  <2>2. ASSUME DecimalOne < part PROVE FALSE
    <3>1. (DecimalOne + 1) * supply <= part * supply
      <4>1. supply * (DecimalOne + 1) <= supply * part
        BY <1>1, <1>2, <2>1, <2>2, TimesMono
      <4>2. supply * (DecimalOne + 1) = (DecimalOne + 1) * supply /\ supply * part = part * supply
        BY <1>1, <1>2, <2>1
      <4> QED BY <4>1, <4>2
    <3>2. (DecimalOne + 1) * supply = supply * DecimalOne + supply
      BY <1>1, <1>2
    <3>3. supply * DecimalOne \in Nat /\ part * supply \in Nat
      BY <1>1, <1>2, <2>1
    <3> QED BY <1>1, <1>2, <2>1, <3>1, <3>2, <3>3
  <2> QED BY <1>2, <2>1, <2>2
<1>4. (pool[i] * part) \div DecimalOne \in 0..pool[i]
  <2> HIDE DEF part
  <2> QED BY <1>1, <1>2, <1>3, PartOf
<1> QED
  BY <1>4 DEF Refund, Scaled

LEMMA WithdrawTyped ==
  ASSUME AmpIsSet, RateTypeOK, LiquidityOK, NEW burn \in Burns, burn <= lp.users,
         NEW answer \in HubRates, WithdrawLiquidity(burn, answer)
  PROVE  LiquidityOK' /\ \A i \in Assets : pool'[i] <= pool[i]
<1> DEFINE new == [i \in Assets |-> pool[i] - Refund(i, burn)]
           target == Refreshed(answer).target
<1>1. burn \in Nat /\ oracle.price # NONE
  BY AmountAssumption DEF WithdrawLiquidity, StorePrice
<1>2. supply \in Nat /\ supply = lp.users + lp.pair /\ supply # 0 /\ lp.pair > 0
      /\ lp \in [users : Nat, pair : Nat]
  BY <1>1 DEF supply, LiquidityOK
<1>3. new \in [Assets -> Nat] /\ \A i \in Assets : new[i] <= pool[i]
  <2>1. ASSUME NEW i \in Assets
        PROVE  pool[i] - Refund(i, burn) \in Nat /\ pool[i] - Refund(i, burn) <= pool[i]
    <3>1. pool[i] \in Nat /\ Refund(i, burn) \in 0..pool[i]
      BY <1>1, <1>2, RefundType DEF LiquidityOK
    <3> QED BY <3>1
  <2> QED BY <2>1
<1>4. target \in Nat \ {0}
  BY QuotedTarget
<1>5. pool' = new /\ oracle'.price = PriceOf(new, target) /\ PriceOf(new, target) # NONE
  BY DEF WithdrawLiquidity, StorePrice
<1>6. new[2] > 0 /\ (new[1] > 0 \/ oracle'.price = 0)
  <2> HIDE DEF new, target
  <2> QED BY <1>3, <1>4, <1>5, PriceTells
<1>7. lp' = [lp EXCEPT !.users = @ - burn]
  BY DEF WithdrawLiquidity
<1>8. lp' \in [users : Nat, pair : Nat] /\ lp'.pair > 0 /\ lp'.users + lp'.pair > 0
  <2>1. lp.users - burn \in Nat
    BY <1>1, <1>2
  <2> QED BY <1>2, <1>7, <2>1
<1>9. supply' = lp'.users + lp'.pair
  BY DEF supply
<1> HIDE DEF new, target
<1> QED
  BY <1>3, <1>5, <1>6, <1>8, <1>9 DEF LiquidityOK

LEMMA ImbalancedTyped ==
  ASSUME AmpIsSet, LiquidityOK, NEW asked \in Withdrawals, NEW listed, NEW answer,
         NEW factoryRate \in FactoryRates, WithdrawImbalanced(asked, listed, answer, factoryRate)
  PROVE  LiquidityOK' /\ \A i \in Assets : pool'[i] <= pool[i]
<1> DEFINE new == [i \in Assets |-> pool[i] - asked[i]]
           burn == BurnFor(pool, new, factoryRate)
<1>1. asked \in [Assets -> Nat] /\ factoryRate \in Nat
  BY AmountAssumption, FeeAssumption, DecimalType
<1>2. supply \in Nat /\ supply = lp.users + lp.pair /\ supply # 0 /\ lp.pair > 0
      /\ lp \in [users : Nat, pair : Nat]
  BY DEF supply, LiquidityOK, WithdrawImbalanced
<1>3. new \in [Assets -> Nat] /\ \A i \in Assets : new[i] <= pool[i]
  <2>1. \A i \in Assets : new[i] >= 0
    BY DEF WithdrawImbalanced
  <2>2. \A i \in Assets : new[i] \in Int /\ new[i] <= pool[i]
    BY <1>1 DEF LiquidityOK
  <2> QED BY <2>1, <2>2
<1>4. /\ D(pool) \notin {0, NONE} /\ D(new) # NONE /\ burn # NONE /\ burn <= lp.users
      /\ pool' = new /\ lp' = [lp EXCEPT !.users = @ - burn]
  BY DEF WithdrawImbalanced
<1>5. oracle.price # NONE /\ oracle'.price # NONE
  BY DEF WithdrawImbalanced, StorePrice
<1>6. burn \in Nat \ {0} /\ (new[1] = 0 \/ new[2] = 0 => burn = supply + 1)
  <2> HIDE DEF new
  <2> QED BY <1>1, <1>2, <1>3, <1>4, BurnType DEF LiquidityOK
<1> HIDE DEF burn
<1>7. new[1] > 0 /\ new[2] > 0
  <2>1. new[1] \in Nat /\ new[2] \in Nat
    BY <1>3 DEF Assets
  <2>2. burn # supply + 1
    BY <1>2, <1>4, <1>6
  <2> HIDE DEF new
  <2> QED BY <1>6, <2>1, <2>2
<1>8. lp' \in [users : Nat, pair : Nat] /\ lp'.pair > 0 /\ lp'.users + lp'.pair > 0
  <2>1. lp.users - burn \in Nat
    BY <1>2, <1>4, <1>6
  <2> QED BY <1>2, <1>4, <2>1
<1>9. supply' = lp'.users + lp'.pair
  BY DEF supply
<1> HIDE DEF new
<1> QED
  BY <1>3, <1>4, <1>5, <1>7, <1>8, <1>9 DEF LiquidityOK

LEMMA ScaledType ==
  ASSUME NEW n \in Nat, NEW decimal \in 0..DecimalOne
  PROVE  Scaled(n, decimal) \in 0..n
<1>1. decimal \in Nat /\ decimal <= DecimalOne /\ DecimalOne \in Nat \ {0}
  BY DecimalType
<1> QED
  BY <1>1, PartOf DEF Scaled

(* The next balance of one asset when the other, i, is paid in solves the    *)
(* quadratic of calc_y, or is more.                                          *)
KeepsCurve(i, target) ==
  \E y \in Nat : /\ Solves(y, i, pool'[i] * Fine, Atomics(pool), CurrentAmp, target)
                 /\ pool'[Other(i)] >= InverseRate(Other(i), y, target)

LEMMA SwapTyped ==
  ASSUME AmpIsSet, RateTypeOK, LiquidityOK, fees \in FeeConfigs,
         NEW i \in Assets, NEW amount \in Offers, NEW belief, NEW maxSpread, NEW referral \in Referrals,
         NEW answer \in HubRates, Swap(i, amount, belief, maxSpread, referral, answer)
  PROVE  /\ LiquidityOK'
         /\ pool'[i] > pool[i] /\ pool'[Other(i)] <= pool[Other(i)]
         /\ KeepsCurve(i, Refreshed(answer).target)
<1> DEFINE target == Refreshed(answer).target
           offer == amount - Scaled(amount, referral)
           swap == ComputeSwap(i, offer * Fine, Atomics(pool), CurrentAmp, target)
           commission == Scaled(swap.return, fees.total)
           net == swap.return - commission
           protocol == ProtocolFee(commission)
           o == Other(i)
<1>1. /\ target \in Nat \ {0} /\ o \in Assets /\ o # i
  BY QuotedTarget, OtherOf
<1>2. offer \in Nat \ {0}
  <2>1. amount \in Nat /\ referral \in 0..DecimalOne
    <3>1. amount \in Nat /\ referral \in Nat /\ MaxReferral \in 0..DecimalOne /\ referral <= MaxReferral
      BY AmountAssumption DEF Swap
    <3> QED BY <3>1, DecimalType
  <2>2. Scaled(amount, referral) \in 0..amount
    BY <2>1, ScaledType
  <2>3. offer # 0
    BY DEF Swap
  <2> QED BY <2>1, <2>2, <2>3
<1>3. fees.total \in 0..DecimalOne /\ fees.protocol \in 0..DecimalOne
  BY FeeAssumption
<1>4. swap # NONE /\ oracle.price # NONE
  BY DEF Swap, StorePrice
<1>5. /\ pool' = [pool EXCEPT ![i] = @ + offer, ![o] = (@ - net) - protocol]
      /\ oracle'.price = PriceOf(pool', target) /\ PriceOf(pool', target) # NONE /\ lp' = lp
  BY DEF Swap, StorePrice, PoolsAfterSwap
<1>6. pool \in [Assets -> Nat] /\ pool[i] \in Nat /\ pool[o] \in Nat
  BY <1>1 DEF LiquidityOK
<1>7. /\ Atomics(pool) \in [Assets -> Nat] /\ Atomics(pool)[o] \div Fine = pool[o]
      /\ Atomics(pool)[i] = pool[i] * Fine
  BY <1>1, <1>6, AtomicsType
<1>8. /\ swap.return \in 0..pool[o]
      /\ \E y \in Nat : /\ Solves(y, i, pool[i] * Fine + offer * Fine, Atomics(pool), CurrentAmp, target)
                        /\ pool[o] - swap.return = InverseRate(o, y, target)
  <2>1. offer * Fine \in Nat
    BY <1>2, DecimalType
  <2> DEFINE brought == offer * Fine
  <2>2. brought \in Nat
    BY <2>1
  <2> HIDE DEF target, offer, brought
  <2>3. swap = ComputeSwap(i, brought, Atomics(pool), CurrentAmp, target)
    BY DEF brought
  <2> HIDE DEF swap
  <2>4. /\ swap.return \in 0..(Atomics(pool)[o] \div Fine)
        /\ \E y \in Nat : /\ Solves(y, i, Atomics(pool)[i] + brought, Atomics(pool), CurrentAmp, target)
                          /\ Atomics(pool)[o] \div Fine - swap.return = InverseRate(o, y, target)
    BY <1>1, <1>4, <1>7, <2>2, <2>3, SwapSolves DEF AmpIsSet
  <2> QED BY <1>7, <2>4 DEF brought
<1> HIDE DEF swap
<1>9. commission \in 0..swap.return /\ net \in 0..swap.return /\ net + commission = swap.return
  <2>1. swap.return \in Nat
    BY <1>6, <1>8
  <2>2. commission \in 0..swap.return
    BY <1>3, <2>1, ScaledType
  <2> HIDE DEF commission
  <2> QED BY <2>1, <2>2
<1> HIDE DEF commission
<1>10. protocol \in 0..commission
  <2>1. commission \in Nat
    BY <1>6, <1>8, <1>9
  <2> QED BY <1>3, <2>1, ScaledType DEF ProtocolFee
<1> HIDE DEF net, protocol, offer, target
<1>11. /\ pool'[i] = pool[i] + offer /\ pool'[o] = (pool[o] - net) - protocol
       /\ DOMAIN pool' = Assets /\ \A j \in Assets : j = i \/ j = o
  <2>1. \A j \in Assets : j = i \/ j = o
    BY DEF Assets, Other
  <2> HIDE DEF o
  <2> QED BY <1>1, <1>5, <1>6, <2>1
<1>12. pool'[i] \in Nat /\ pool'[i] > pool[i]
  BY <1>2, <1>6, <1>11
<1>13. pool'[o] \in Nat /\ pool'[o] <= pool[o] /\ pool'[o] >= pool[o] - swap.return
  BY <1>6, <1>8, <1>9, <1>10, <1>11
<1>14. pool' \in [Assets -> Nat]
  <2>1. pool' = [j \in Assets |-> pool'[j]]
    BY <1>5, <1>6
  <2>2. \A j \in Assets : pool'[j] \in Nat
    BY <1>11, <1>12, <1>13
  <2> QED BY <2>1, <2>2
<1>15. pool'[2] > 0 /\ (pool'[1] > 0 \/ oracle'.price = 0)
  BY <1>1, <1>5, <1>14, PriceTells
<1>16. supply' = supply /\ supply # 0
  BY <1>4, <1>5 DEF supply, LiquidityOK
<1>17. LiquidityOK'
  BY <1>5, <1>14, <1>15, <1>16 DEF LiquidityOK
<1>18. KeepsCurve(i, target)
  <2>1. PICK y \in Nat : /\ Solves(y, i, pool[i] * Fine + offer * Fine, Atomics(pool), CurrentAmp, target)
                         /\ pool[o] - swap.return = InverseRate(o, y, target)
    BY <1>8
  <2>2. pool[i] * Fine + offer * Fine = pool'[i] * Fine
    BY <1>2, <1>6, <1>11, DecimalType
  <2>3. pool'[o] >= InverseRate(o, y, target)
    BY <1>13, <2>1
  <2> QED BY <2>1, <2>2, <2>3 DEF KeepsCurve
<1> QED
  BY <1>12, <1>13, <1>17, <1>18 DEF target

(* the rest of the types; times saved are not in the future *)
BooksOK ==
  /\ owner \in Users \cup {NONE}
  /\ proposal = NONE \/ (proposal.owner \in Users /\ proposal.ttl \in Nat)
  /\ {frozen, breaker, toMigrate} \subseteq BOOLEAN
  /\ fees \in FeeConfigs
  /\ rate.queried \in 0..now
  /\ "last" \in DOMAIN cumulative /\ cumulative.last \in 0..now

PairTyped == AmpTypeOK /\ RateTypeOK /\ LiquidityOK /\ BooksOK

LEMMA TypedIsTyped == PairTyped => TypeOK
BY DEF PairTyped, RateTypeOK, LiquidityOK, BooksOK, TypeOK

LEMMA InitTyped == Init => PairTyped
<1> SUFFICES ASSUME Init PROVE PairTyped
  OBVIOUS
<1>1. AmpTypeOK /\ RateTypeOK
  BY InitAmp, AmpInitType, InitRate
<1>2. LiquidityOK
  BY DEF Init, LiquidityOK, supply
<1>3. BooksOK
  <2>1. now \in Nat
    BY <1>1 DEF RateTypeOK
  <2>2. 0 \in 0..now
    BY <2>1
  <2>3. owner \in Users \cup {NONE}
    BY OwnerAssumption DEF Init
  <2>4. proposal = NONE /\ {frozen, breaker, toMigrate} \subseteq BOOLEAN /\ fees \in FeeConfigs
    BY DEF Init
  <2>5. rate.queried = 0
    BY DEF Init
  <2>6. "last" \in DOMAIN cumulative /\ cumulative.last = 0
    BY DEF Init
  <2> QED BY <2>2, <2>3, <2>4, <2>5, <2>6 DEF BooksOK
<1> QED
  BY <1>1, <1>2, <1>3 DEF PairTyped

(* What a message that moves tokens does to the liquidity *)
LEMMA MovesTyped ==
  ASSUME PairTyped, Provide \/ Withdraw \/ (\E listed \in Orders : WithdrawListed(listed)) \/ Trade
  PROVE  /\ LiquidityOK'
         /\ \A i \in Assets : lp' = lp /\ pool'[i] > pool[i] => KeepsCurve(i, rate'.target)
<1>1. AmpIsSet /\ RateTypeOK /\ LiquidityOK /\ fees \in FeeConfigs
  BY AmpSet DEF PairTyped, BooksOK
<1> DEFINE Goal == /\ LiquidityOK'
                   /\ \A i \in Assets : lp' = lp /\ pool'[i] > pool[i] => KeepsCurve(i, rate'.target)
<1>2. ASSUME LiquidityOK', \A i \in Assets : pool'[i] <= pool[i] PROVE Goal
  <2>1. \A i \in Assets : pool'[i] \in Nat /\ pool[i] \in Nat
    BY <1>1, <1>2 DEF LiquidityOK
  <2> QED BY <1>2, <2>1
<1>3. ASSUME Provide PROVE Goal
  BY <1>1, <1>3, ProvideTyped DEF Provide
<1>4. ASSUME Withdraw PROVE Goal
  BY <1>1, <1>2, <1>4, WithdrawTyped DEF Withdraw
<1>5. ASSUME NEW listed \in Orders, WithdrawListed(listed) PROVE Goal
  BY <1>1, <1>2, <1>5, ImbalancedTyped DEF WithdrawListed
<1>6. ASSUME NEW i \in Assets, NEW amount \in Offers, NEW belief, NEW maxSpread,
             NEW referral \in Referrals, NEW answer \in HubRates,
             Swap(i, amount, belief, maxSpread, referral, answer)
      PROVE  Goal
  <2>1. /\ LiquidityOK' /\ pool'[i] > pool[i] /\ pool'[Other(i)] <= pool[Other(i)]
        /\ KeepsCurve(i, Refreshed(answer).target)
    BY <1>1, <1>6, SwapTyped
  <2>2. rate' = Refreshed(answer)
    BY <1>6, SavedAsUsed DEF Swap
  <2>3. ASSUME NEW j \in Assets, pool'[j] > pool[j] PROVE j = i
    <3>1. j = i \/ j = Other(i)
      BY DEF Assets, Other
    <3>2. pool'[Other(i)] \in Nat /\ pool[Other(i)] \in Nat
      BY <1>1, <2>1, OtherOf DEF LiquidityOK
    <3>3. ~(pool'[Other(i)] > pool[Other(i)])
      BY <2>1, <3>2
    <3> QED BY <2>3, <3>1, <3>3
  <2> QED BY <2>1, <2>2, <2>3
<1> HIDE DEF Goal
<1>7. ASSUME Trade PROVE Goal
  BY <1>6, <1>7 DEF Trade
<1>8. Goal
  BY <1>3, <1>4, <1>5, <1>7
<1> QED
  BY <1>8 DEF Goal

LEMMA SaveTyped ==
  ASSUME BooksOK, NEW old, NEW quoted, SaveConfig(old, quoted)
  PROVE  "last" \in DOMAIN cumulative' /\ cumulative'.last \in {cumulative.last, now}
<1>1. \/ cumulative' = cumulative
      \/ cumulative' = CumulativeNow(old, quoted.target) /\ CumulativeNow(old, quoted.target) # NONE
  BY DEF SaveConfig
<1>2. ASSUME cumulative' = CumulativeNow(old, quoted.target), CumulativeNow(old, quoted.target) # NONE
      PROVE  \/ cumulative' = cumulative
             \/ cumulative' = [cumulative EXCEPT !.last = now]
             \/ \E p : cumulative' = [last |-> now, price |-> p]
  BY <1>2 DEF CumulativeNow
<1>3. "last" \in DOMAIN cumulative
  BY DEF BooksOK
<1> QED
  BY <1>1, <1>2, <1>3

LEMMA NextTyped ==
  ASSUME PairTyped, [Next]_vars
  PROVE  /\ PairTyped'
         /\ \A i \in Assets : lp' = lp /\ pool'[i] > pool[i] => KeepsCurve(i, rate'.target)
<1>1. AmpTypeOK' /\ RateTypeOK'
  BY NextAmp, AmpNextType, NextRate DEF PairTyped
<1>2. now \in Nat /\ now' \in Nat /\ now <= now'
  <2>1. now \in Nat /\ [AmpNext]_ampVars
    BY NextAmp DEF PairTyped, RateTypeOK
  <2>2. now' = now \/ now' = now + 1
    BY <2>1 DEF AmpNext, AmpTick, StartChangingAmp, StopChangingAmp, ampVars
  <2> QED BY <2>1, <2>2
<1>3. rate.queried \in 0..now /\ cumulative.last \in 0..now /\ "last" \in DOMAIN cumulative
      /\ BooksOK /\ LiquidityOK
  BY DEF PairTyped, BooksOK
<1> DEFINE Goal == /\ LiquidityOK' /\ BooksOK'
                   /\ \A i \in Assets : lp' = lp /\ pool'[i] > pool[i] => KeepsCurve(i, rate'.target)
<1>4. ASSUME UNCHANGED <<pool, lp, oracle>>
      PROVE  /\ LiquidityOK'
             /\ \A i \in Assets : lp' = lp /\ pool'[i] > pool[i] => KeepsCurve(i, rate'.target)
  <2>1. \A i \in Assets : pool'[i] \in Nat /\ pool'[i] = pool[i]
    BY <1>3, <1>4 DEF LiquidityOK
  <2>2. \A i \in Assets : ~(pool'[i] > pool[i])
    BY <2>1
  <2> QED BY <1>3, <1>4, <2>2 DEF LiquidityOK, supply
<1>5. ASSUME UNCHANGED <<rate, cumulative>>
      PROVE  rate'.queried \in 0..now' /\ cumulative'.last \in 0..now' /\ "last" \in DOMAIN cumulative'
  BY <1>2, <1>3, <1>5
<1>6. ASSUME UNCHANGED vars PROVE Goal
  BY <1>3, <1>4, <1>5, <1>6 DEF vars, books, access, BooksOK
<1>7. ASSUME Tick PROVE Goal
  BY <1>3, <1>4, <1>5, <1>7 DEF Tick, books, access, BooksOK
<1>8. ASSUME Administer PROVE Goal
  <2>1. UNCHANGED <<pool, lp, oracle>> /\ UNCHANGED <<rate, cumulative>>
    BY <1>8 DEF Administer, UpdateFees, UpdateConfig, ProposeNewOwner, DropOwnershipProposal,
       ClaimOwnership, Freeze, UpdateFreeze, ChangeMigration, books
  <2>2. /\ owner' \in Users \cup {NONE}
        /\ proposal' = NONE \/ (proposal'.owner \in Users /\ proposal'.ttl \in Nat)
    <3>1. ASSUME NEW new \in Users, NEW expiresIn \in 0..MaxProposalTtl, ProposeNewOwner(new, expiresIn)
          PROVE  owner' = owner /\ proposal'.owner \in Users /\ proposal'.ttl \in Nat
      <4>1. expiresIn \in Nat
        BY OwnerAssumption
      <4> QED BY <1>2, <3>1, <4>1 DEF ProposeNewOwner
    <3>2. \/ \E new \in Users, expiresIn \in 0..MaxProposalTtl : ProposeNewOwner(new, expiresIn)
          \/ DropOwnershipProposal \/ ClaimOwnership
          \/ UNCHANGED <<owner, proposal>>
      BY <1>8 DEF Administer, UpdateFees, UpdateConfig, Freeze, UpdateFreeze, ChangeMigration, access
    <3> QED BY <1>3, <3>1, <3>2 DEF DropOwnershipProposal, ClaimOwnership, BooksOK
  <2>3. frozen' \in BOOLEAN /\ breaker' \in BOOLEAN /\ toMigrate' \in BOOLEAN
    BY <1>3, <1>8 DEF Administer, UpdateFees, UpdateConfig, ProposeNewOwner, DropOwnershipProposal,
       ClaimOwnership, Freeze, UpdateFreeze, ChangeMigration, access, BooksOK
  <2>4. fees' \in FeeConfigs
    BY <1>3, <1>8 DEF Administer, UpdateFees, UpdateConfig, ProposeNewOwner, DropOwnershipProposal,
       ClaimOwnership, Freeze, UpdateFreeze, ChangeMigration, BooksOK
  <2> QED BY <1>4, <1>5, <2>1, <2>2, <2>3, <2>4 DEF BooksOK
<1>9. ASSUME Next, Provide \/ Withdraw \/ (\E listed \in Orders : WithdrawListed(listed)) \/ Trade
      PROVE  Goal
  <2> DEFINE Saved == UNCHANGED <<ampVars, access, fees>> /\ \E old, quoted : SaveConfig(old, quoted)
  <2>a. ASSUME Provide PROVE Saved
    <3>1. PICK deposits \in Deposits, answer \in HubRates, factoryRate \in FactoryRates :
            ProvideLiquidity(deposits, answer, factoryRate)
      BY <2>a DEF Provide
    <3>2. SaveConfig(pool, Refreshed(answer)) /\ UNCHANGED <<ampVars, access, fees>>
      BY <3>1 DEF ProvideLiquidity
    <3> QED BY <3>2
  <2>b. ASSUME Withdraw PROVE Saved
    <3>1. PICK burn \in Burns, answer \in HubRates : WithdrawLiquidity(burn, answer)
      BY <2>b DEF Withdraw
    <3>2. SaveConfig(pool, Refreshed(answer)) /\ UNCHANGED <<ampVars, access, fees>>
      BY <3>1 DEF WithdrawLiquidity
    <3> QED BY <3>2
  <2>c. ASSUME NEW listed \in Orders, WithdrawListed(listed) PROVE Saved
    <3>1. PICK asked \in Withdrawals, answer \in HubRates, factoryRate \in FactoryRates :
            WithdrawImbalanced(asked, listed, answer, factoryRate)
      BY <2>c DEF WithdrawListed
    <3>2. SaveConfig(pool, Refreshed(answer)) /\ UNCHANGED <<ampVars, access, fees>>
      BY <3>1 DEF WithdrawImbalanced
    <3> QED BY <3>2
  <2>d. ASSUME Trade PROVE Saved
    <3>1. PICK i \in Assets, amount \in Offers, belief \in Beliefs, maxSpread \in Spreads,
               referral \in Referrals, answer \in HubRates :
            Swap(i, amount, belief, maxSpread, referral, answer)
      BY <2>d DEF Trade
    <3>2. SaveConfig(pool, Refreshed(answer)) /\ UNCHANGED <<ampVars, access, fees>>
      BY <3>1 DEF Swap
    <3> QED BY <3>2
  <2> HIDE DEF Saved
  <2>e. Saved
    BY <1>9, <2>a, <2>b, <2>c, <2>d
  <2>1. UNCHANGED <<ampVars, access, fees>> /\ \E old, quoted : SaveConfig(old, quoted)
    BY <2>e DEF Saved
  <2>2. "last" \in DOMAIN cumulative' /\ cumulative'.last \in {cumulative.last, now}
    BY <1>3, <2>1, SaveTyped
  <2>3. now' = now
    BY <2>1 DEF ampVars
  <2>4. rate'.queried \in 0..now'
    <3>1. Next
      BY <1>9
    <3>2. Quoted \/ rate' = rate
      BY <3>1, MovesQuoted
    <3>3. ASSUME NEW answer, rate' = Refreshed(answer) PROVE rate'.queried \in {rate.queried, now}
      BY <3>3 DEF Refreshed, PairTyped, RateTypeOK
    <3> QED BY <1>2, <1>3, <2>3, <3>2, <3>3 DEF Quoted
  <2>5. BooksOK'
    BY <1>2, <1>3, <2>1, <2>2, <2>3, <2>4 DEF access, BooksOK
  <2> QED BY <1>9, <2>5, MovesTyped
<1> HIDE DEF Goal
<1>10. ASSUME Next PROVE Goal
  <2>1. Tick \/ Administer \/ Provide \/ Withdraw \/ (\E listed \in Orders : WithdrawListed(listed)) \/ Trade
    BY <1>10 DEF Next, UserNext
  <2> QED BY <1>7, <1>8, <1>9, <1>10, <2>1
<1>11. Goal
  BY <1>6, <1>10
<1> QED
  BY <1>1, <1>11 DEF Goal, PairTyped

(* For every fee, rate, curve and sequence of messages the state of the pair *)
(* is well-formed: the oracle is initialised as long as there are LP tokens, *)
(* the second pool never empties, and the first only in a swap that takes    *)
(* all of it at the price of zero; the solvers, where they answer at all,    *)
(* answer with balances that the pools hold.                                 *)
THEOREM PairIsTyped == Spec => []TypeOK
<1>1. PairTyped /\ [Next]_vars => PairTyped'
  BY NextTyped
<1> QED
  BY <1>1, InitTyped, TypedIsTyped, PTL DEF Spec

(* Every swap ends on the curve, or above: what is left of the asset paid    *)
(* out is at least the root of the quadratic that calc_y quotes, up to the   *)
(* unit of the rounding, for the balance that is there of the other asset    *)
(* and the D of the pools before (math.rs 66-148; swap).                     *)
SwapsKeepCurve ==
  [][\A i \in Assets : lp' = lp /\ pool'[i] > pool[i] => KeepsCurve(i, rate'.target)]_vars

THEOREM SwapsLandOnCurve == Spec => SwapsKeepCurve
<1>1. PairTyped /\ [Next]_vars => PairTyped'
  BY NextTyped
<1>2. PairTyped /\ [Next]_vars =>
        [\A i \in Assets : lp' = lp /\ pool'[i] > pool[i] => KeepsCurve(i, rate'.target)]_vars
  BY NextTyped
<1> QED
  BY <1>1, <1>2, InitTyped, PTL DEF Spec, SwapsKeepCurve

(* There are LP tokens and none of the first asset *)
Emptied == supply > 0 /\ pool[1] = 0

LEMMA EmptiedBlocks ==
  ASSUME AmpIsSet, LiquidityOK, Emptied, Next
  PROVE  UNCHANGED <<pool, lp, oracle>>
<1>1. /\ pool \in [Assets -> Nat] /\ 1 \in Assets /\ pool[1] = 0 /\ supply # 0
      /\ D(pool) = 0
  <2>1. pool \in [Assets -> Nat] /\ 1 \in Assets /\ pool[1] = 0 /\ supply \in Nat
    BY DEF LiquidityOK, Emptied, Assets, supply
  <2>2. supply # 0
    BY <2>1 DEF Emptied
  <2> QED BY <2>1, <2>2, DType
<1>2. ~Provide
  <2> SUFFICES ASSUME NEW deposits \in Deposits, NEW answer \in HubRates, NEW factoryRate \in FactoryRates,
                      ProvideLiquidity(deposits, answer, factoryRate)
               PROVE  FALSE
    BY DEF Provide
  <2> QED BY <1>1 DEF ProvideLiquidity
<1>3. ~(\E listed \in Orders : WithdrawListed(listed))
  <2> SUFFICES ASSUME NEW listed \in Orders, NEW asked \in Withdrawals, NEW answer \in HubRates,
                      NEW factoryRate \in FactoryRates,
                      WithdrawImbalanced(asked, listed, answer, factoryRate)
               PROVE  FALSE
    BY DEF WithdrawListed
  <2> QED BY <1>1 DEF WithdrawImbalanced
<1>4. ~Withdraw
  <2> SUFFICES ASSUME NEW burn \in Burns, NEW answer \in HubRates, burn <= lp.users,
                      WithdrawLiquidity(burn, answer)
               PROVE  FALSE
    BY DEF Withdraw
  <2>1. burn \in Nat
    BY AmountAssumption
  <2>2. Refund(1, burn) \in 0..0
    BY <1>1, <2>1, RefundType
  <2>3. Refund(1, burn) # 0
    BY <1>1 DEF WithdrawLiquidity
  <2> QED BY <2>2, <2>3
<1>5. ~Trade
  <2> SUFFICES ASSUME NEW i \in Assets, NEW amount \in Offers, NEW belief \in Beliefs, NEW maxSpread \in Spreads,
                      NEW referral \in Referrals, NEW answer \in HubRates,
                      Swap(i, amount, belief, maxSpread, referral, answer)
               PROVE  FALSE
    BY DEF Trade
  <2> QED BY <1>1 DEF Swap
<1>6. Tick \/ Administer
  BY <1>2, <1>3, <1>4, <1>5 DEF Next, UserNext
<1>7. CASE Tick
  BY <1>7 DEF Tick, books
<1>8. CASE Administer
  BY <1>8 DEF Administer, UpdateFees, UpdateConfig, ProposeNewOwner, DropOwnershipProposal,
     ClaimOwnership, Freeze, UpdateFreeze, ChangeMigration, books
<1> QED
  BY <1>6, <1>7, <1>8

(* Once a swap has taken all of the first asset, nothing that the pair's     *)
(* messages do brings it back: no deposit, withdrawal or swap succeeds any   *)
(* more, and the other pool stays where it is.  Only tokens sent to the pair *)
(* by a plain transfer, which are not modelled, could help it.               *)
EmptiedForGood == [](Emptied => [][UNCHANGED <<pool, lp, oracle>>]_vars)

THEOREM EmptyPoolIsStuck == Spec => EmptiedForGood
<1>1. PairTyped /\ [Next]_vars => PairTyped'
  BY NextTyped
<1>2. PairTyped /\ Emptied /\ [Next]_vars => UNCHANGED <<pool, lp, oracle>>
  <2> SUFFICES ASSUME PairTyped, Emptied, [Next]_vars PROVE UNCHANGED <<pool, lp, oracle>>
    OBVIOUS
  <2>1. CASE Next
    BY <2>1, EmptiedBlocks, AmpSet DEF PairTyped
  <2>2. CASE UNCHANGED vars
    BY <2>2 DEF vars, books
  <2> QED BY <2>1, <2>2
<1>3. Emptied /\ UNCHANGED <<pool, lp, oracle>> => Emptied'
  BY DEF Emptied, supply
<1>4. PairTyped /\ Emptied /\ [Next]_vars => Emptied' /\ [UNCHANGED <<pool, lp, oracle>>]_vars
  BY <1>2, <1>3
<1> QED
  BY <1>1, <1>4, InitTyped, PTL DEF Spec, EmptiedForGood

----------------------------------------------------------------------------
(* What LP tokens are worth, in the D that compute_d answers *)

LEMMA Cancelled ==
  ASSUME NEW n \in Nat \ {0}, NEW x \in Int, NEW y \in Nat, n * x <= n * y
  PROVE  x <= y
<1> SUFFICES ASSUME y + 1 <= x PROVE FALSE
  OBVIOUS
<1>1. x \in Nat /\ n * (y + 1) <= n * x
  BY TimesMono
<1>2. n * (y + 1) = n * y + n /\ n * y \in Nat /\ n * x \in Nat
  BY <1>1
<1> QED
  BY <1>1, <1>2

(* two divisions that round down, one after the other *)
LEMMA MintedBound ==
  ASSUME NEW held \in Nat, NEW d \in Nat \ {0}, NEW fine \in Nat \ {0}, NEW gained \in Nat
  PROVE  LET share == ((held * fine * gained) \div d) \div fine
         IN share \in Nat /\ share * d <= held * gained
<1> DEFINE minted == held * fine * gained
           u == minted \div d
           share == u \div fine
           part == share * d
           worth == held * gained
<1>1. minted \in Nat
  OBVIOUS
<1>2. u \in Nat /\ u * d <= minted
  <2> HIDE DEF minted
  <2> QED BY <1>1, Floor
<1>3. share \in Nat /\ share * fine <= u
  <2> HIDE DEF u
  <2> QED BY <1>2, Floor
<1> HIDE DEF share, u
<1>4. part \in Nat /\ worth \in Nat
  BY <1>3
<1>5. d * (share * fine) <= d * u
  BY <1>2, <1>3, TimesMono
<1>6. d * (share * fine) = fine * part /\ d * u = u * d
  BY <1>2, <1>3
<1>7. minted = fine * worth
  OBVIOUS
<1>8. fine * part <= fine * worth
  <2>1. fine * part \in Int /\ u * d \in Int /\ minted \in Int
    BY <1>1, <1>2, <1>4
  <2> HIDE DEF part, worth, minted
  <2> QED BY <1>2, <1>5, <1>6, <1>7, <2>1
<1>9. part <= worth
  <2> HIDE DEF part, worth
  <2> QED BY <1>4, <1>8, Cancelled
<1> QED
  BY <1>3, <1>9 DEF share, u

(* A deposit that is not the first mints no more than its part of D, after   *)
(* the fee on its imbalance.                                                 *)
LEMMA ShareBound ==
  ASSUME AmpIsSet, supply \in Nat, NEW old \in [Assets -> Nat], NEW new \in [Assets -> Nat],
         NEW factoryRate \in Nat, D(old) \notin {0, NONE}, D(new) # NONE,
         ShareOf(old, new, factoryRate) > 0
  PROVE  LET after == ComputeD(CurrentAmp, AfterFee(old, new, D(old), D(new), factoryRate))
         IN after \in Nat /\ (supply + ShareOf(old, new, factoryRate)) * D(old) <= supply * after
<1> DEFINE left == AfterFee(old, new, D(old), D(new), factoryRate)
           after == ComputeD(CurrentAmp, left)
           share == ShareOf(old, new, factoryRate)
           d == D(old)
           gained == Without(after, d)
<1>1. d \in Nat \ {0} /\ D(new) \in Nat
  BY DType DEF Values
<1>2. left \in [Assets -> Int]
  BY <1>1, AfterFeeType
<1>3. share = IF (\E i \in Assets : left[i] < 0) \/ after = NONE THEN 0
              ELSE ((supply * Fine * gained) \div d) \div Fine
  BY DEF ShareOf
<1>4. /\ ~(\E i \in Assets : left[i] < 0) /\ after # NONE
      /\ share = ((supply * Fine * gained) \div d) \div Fine
  <2>1. share > 0
    OBVIOUS
  <2> HIDE DEF share, after, left, d, gained
  <2> QED BY <1>3, <2>1
<1>5. left \in [Assets -> Nat]
  <2> HIDE DEF left
  <2>1. \A i \in Assets : left[i] \in Nat
    BY <1>2, <1>4
  <2> QED BY <1>2, <2>1
<1>6. after \in Nat
  <2> HIDE DEF left
  <2> QED BY <1>4, <1>5, ComputeDType DEF AmpIsSet, Values
<1> HIDE DEF d, left, after
<1>7. gained \in Nat
  BY <1>1, <1>6, WithoutType
<1>8. share \in Nat /\ share * d <= supply * gained
  <2> HIDE DEF gained, share
  <2> QED BY <1>1, <1>4, <1>7, DecimalType, MintedBound
<1>9. share > 0
  OBVIOUS
<1> HIDE DEF share
<1>10. gained # 0
  <2>1. share * d > 0
    BY <1>1, <1>8, <1>9
  <2>2. supply * 0 = 0
    OBVIOUS
  <2> HIDE DEF gained
  <2> QED BY <1>1, <1>8, <2>1, <2>2
<1>11. gained = after - d
  BY <1>1, <1>6, <1>10 DEF Without
<1>12. (supply + share) * d <= supply * after
  <2>1. (supply + share) * d = supply * d + share * d /\ supply * (after - d) = supply * after - supply * d
    BY <1>1, <1>6, <1>8
  <2>2. supply * d \in Int /\ share * d \in Int /\ supply * after \in Int /\ (supply + share) * d \in Int
        /\ supply * gained = supply * (after - d)
    BY <1>1, <1>6, <1>8, <1>11
  <2> QED BY <1>8, <2>1, <2>2
<1> QED
  BY <1>6, <1>12 DEF share, after, left, d

(* A withdrawal by list burns at least its part of D, the fee included *)
LEMMA BurnBound ==
  ASSUME AmpIsSet, supply \in Nat, NEW old \in [Assets -> Nat], NEW new \in [Assets -> Nat],
         NEW factoryRate \in Nat, D(old) \notin {0, NONE}, D(new) # NONE,
         BurnFor(old, new, factoryRate) # NONE
  PROVE  LET after == ComputeD(CurrentAmp, AfterFee(old, new, D(old), D(new), factoryRate))
         IN after \in Nat /\ (supply - BurnFor(old, new, factoryRate)) * D(old) <= supply * after
<1> DEFINE left == AfterFee(old, new, D(old), D(new), factoryRate)
           after == ComputeD(CurrentAmp, left)
           burn == BurnFor(old, new, factoryRate)
           d == D(old)
           lost == d - after
           worth == supply * lost
           part == worth \div d
<1>1. d \in Nat \ {0} /\ D(new) \in Nat
  BY DType DEF Values
<1>2. left \in [Assets -> Int]
  BY <1>1, AfterFeeType
<1>3. burn = IF (\E i \in Assets : left[i] < 0) \/ after = NONE THEN NONE
             ELSE IF after > d THEN NONE
             ELSE part + 1
  BY DEF BurnFor
<1>4. /\ ~(\E i \in Assets : left[i] < 0) /\ after # NONE /\ ~(after > d)
      /\ burn = part + 1
  <2>1. burn # NONE
    OBVIOUS
  <2> HIDE DEF burn, left, after, part, d
  <2> QED BY <1>3, <2>1
<1>5. left \in [Assets -> Nat]
  <2> HIDE DEF left
  <2>1. \A i \in Assets : left[i] \in Nat
    BY <1>2, <1>4
  <2> QED BY <1>2, <2>1
<1>6. after \in Nat
  <2> HIDE DEF left
  <2> QED BY <1>4, <1>5, ComputeDType DEF AmpIsSet, Values
<1> HIDE DEF d, left, after, burn
<1>7. lost \in Nat /\ worth \in Nat
  <2>1. lost \in Nat
    BY <1>1, <1>4, <1>6
  <2> HIDE DEF lost
  <2> QED BY <2>1
<1>8. part \in Nat /\ worth < part * d + d
  <2> HIDE DEF worth
  <2> QED BY <1>1, <1>7, Floor
<1> HIDE DEF part
<1>9. (supply - burn) * d = (supply * d - part * d) - d
  <2>1. \A s, q, k \in Int : (s - (q + 1)) * k = (s * k - q * k) - k
    OBVIOUS
  <2> QED BY <1>1, <1>4, <1>8, <2>1
<1>10. worth = supply * d - supply * after
  <2>1. \A s, x, y \in Int : s * (x - y) = s * x - s * y
    OBVIOUS
  <2>2. worth = supply * (d - after)
    OBVIOUS
  <2> HIDE DEF worth
  <2> QED BY <1>1, <1>6, <2>1, <2>2
<1>11. supply * d \in Int /\ part * d \in Int /\ supply * after \in Int
  BY <1>1, <1>6, <1>8
<1> DEFINE sd == supply * d
           pd == part * d
           sa == supply * after
           rest == (supply - burn) * d
<1>12. rest = (sd - pd) - d /\ worth = sd - sa /\ worth < pd + d
       /\ sd \in Int /\ pd \in Int /\ sa \in Int /\ d \in Int
  BY <1>1, <1>8, <1>9, <1>10, <1>11
<1>13. rest <= sa
  <2> HIDE DEF rest, sd, pd, sa, worth
  <2> QED BY <1>12
<1> QED
  BY <1>6, <1>13 DEF after, left, burn, d

(* A withdrawal in proportion refunds no more of an asset than its part *)
LEMMA RefundBound ==
  ASSUME LiquidityOK, NEW burn \in Nat, burn <= lp.users, supply # 0, NEW i \in Assets
  PROVE  Refund(i, burn) * supply <= pool[i] * burn
<1> DEFINE part == FromRatio(burn, supply)
           refund == Refund(i, burn)
           held == pool[i]
           one == DecimalOne
<1>1. supply \in Nat \ {0} /\ held \in Nat /\ one \in Nat \ {0}
  BY DecimalType DEF supply, LiquidityOK
<1>2. part \in Nat /\ part * supply <= burn * one
  <2>1. burn * one \in Nat
    BY <1>1
  <2>2. part = (burn * one) \div supply
    BY DEF FromRatio
  <2> HIDE DEF part, one
  <2> QED BY <1>1, <2>1, <2>2, Floor
<1>3. refund \in Nat /\ refund * one <= held * part
  <2>1. refund = (held * part) \div one
    BY <1>1 DEF Refund, Scaled
  <2> HIDE DEF refund, held, part, one
  <2>2. held * part \in Nat
    BY <1>1, <1>2
  <2> QED BY <1>1, <2>1, <2>2, Floor
<1> HIDE DEF part, refund, held, one
<1>4. supply * (refund * one) <= supply * (held * part)
  BY <1>1, <1>2, <1>3, TimesMono
<1>5. held * (part * supply) <= held * (burn * one)
  BY <1>1, <1>2, TimesMono
<1> DEFINE paid == refund * supply
           due == held * burn
<1>6. supply * (refund * one) = one * paid /\ held * (burn * one) = one * due
      /\ supply * (held * part) = held * (part * supply)
      /\ paid \in Nat /\ due \in Nat
  BY <1>1, <1>2, <1>3
<1>7. one * paid <= one * due
  <2>1. one * paid \in Int /\ one * due \in Int /\ held * (part * supply) \in Int
    BY <1>1, <1>2, <1>6
  <2> HIDE DEF paid, due
  <2> QED BY <1>4, <1>5, <1>6, <2>1
<1>8. paid <= due
  <2> HIDE DEF paid, due
  <2> QED BY <1>1, <1>6, <1>7, Cancelled
<1> QED
  BY <1>8 DEF refund, held

(* D of the pools that the message leaves, less the fee on their imbalance *)
DAfterFee(factoryRate) == ComputeD(CurrentAmp, AfterFee(pool, pool', D(pool), D(pool'), factoryRate))

PricedByD(factoryRate) ==
  /\ D(pool) > 0 /\ DAfterFee(factoryRate) \in Nat
  /\ supply' * D(pool) <= supply * DAfterFee(factoryRate)

PricedInProportion == \A i \in Assets : (pool[i] - pool'[i]) * supply <= pool[i] * (supply - supply')

LEMMA ProvidePriced ==
  ASSUME AmpIsSet, LiquidityOK, NEW deposits \in Deposits, NEW answer,
         NEW factoryRate \in FactoryRates, ProvideLiquidity(deposits, answer, factoryRate), supply > 0
  PROVE  PricedByD(factoryRate)
<1> DEFINE new == [i \in Assets |-> pool[i] + deposits[i]]
           share == ShareOf(pool, new, factoryRate)
<1>1. deposits \in [Assets -> Nat] /\ factoryRate \in Nat
  BY AmountAssumption, FeeAssumption, DecimalType
<1>2. new \in [Assets -> Nat] /\ pool \in [Assets -> Nat]
  BY <1>1 DEF LiquidityOK
<1>3. lp \in [users : Nat, pair : Nat] /\ supply \in Nat /\ supply = lp.users + lp.pair /\ supply # 0
  BY DEF supply, LiquidityOK
<1>4. /\ pool' = new /\ D(pool) \notin {0, NONE} /\ D(new) # NONE
      /\ share > 0 /\ lp' = [lp EXCEPT !.users = @ + share]
  BY <1>3 DEF ProvideLiquidity
<1>5. supply' = lp'.users + lp'.pair
  BY DEF supply
<1> HIDE DEF new
<1>6. share \in Nat
  BY <1>1, <1>2, <1>3, <1>4, ShareType
<1>7. supply' = supply + share
  <2> HIDE DEF share
  <2> QED BY <1>3, <1>4, <1>5, <1>6
<1> DEFINE after == ComputeD(CurrentAmp, AfterFee(pool, new, D(pool), D(new), factoryRate))
<1>8. after \in Nat /\ (supply + share) * D(pool) <= supply * after
  BY <1>1, <1>2, <1>3, <1>4, ShareBound
<1>9. D(pool) > 0
  <2>1. D(pool) \in Nat /\ D(pool) # 0
    BY <1>2, <1>4, DType DEF Values
  <2> QED BY <2>1
<1> HIDE DEF share
<1>10. DAfterFee(factoryRate) = after
  BY <1>4 DEF DAfterFee
<1> HIDE DEF after
<1> QED
  BY <1>7, <1>8, <1>9, <1>10 DEF PricedByD

LEMMA ImbalancedPriced ==
  ASSUME AmpIsSet, LiquidityOK, NEW asked \in Withdrawals, NEW listed, NEW answer,
         NEW factoryRate \in FactoryRates, WithdrawImbalanced(asked, listed, answer, factoryRate)
  PROVE  PricedByD(factoryRate)
<1> DEFINE new == [i \in Assets |-> pool[i] - asked[i]]
           burn == BurnFor(pool, new, factoryRate)
<1>1. asked \in [Assets -> Nat] /\ factoryRate \in Nat
  BY AmountAssumption, FeeAssumption, DecimalType
<1>2. new \in [Assets -> Nat] /\ pool \in [Assets -> Nat]
  <2>1. \A i \in Assets : new[i] >= 0
    BY DEF WithdrawImbalanced
  <2>2. \A i \in Assets : new[i] \in Int
    BY <1>1 DEF LiquidityOK
  <2> QED BY <2>1, <2>2 DEF LiquidityOK
<1>3. lp \in [users : Nat, pair : Nat] /\ supply \in Nat /\ supply = lp.users + lp.pair
  BY DEF supply, LiquidityOK
<1>4. /\ pool' = new /\ D(pool) \notin {0, NONE} /\ D(new) # NONE
      /\ burn # NONE /\ lp' = [lp EXCEPT !.users = @ - burn]
  BY DEF WithdrawImbalanced
<1>5. supply' = lp'.users + lp'.pair
  BY DEF supply
<1> HIDE DEF new
<1>6. burn \in Nat
  BY <1>1, <1>2, <1>3, <1>4, BurnType
<1>7. supply' = supply - burn
  <2> HIDE DEF burn
  <2> QED BY <1>3, <1>4, <1>5, <1>6
<1> DEFINE after == ComputeD(CurrentAmp, AfterFee(pool, new, D(pool), D(new), factoryRate))
<1>8. after \in Nat /\ (supply - burn) * D(pool) <= supply * after
  BY <1>1, <1>2, <1>3, <1>4, BurnBound
<1>9. D(pool) > 0
  <2>1. D(pool) \in Nat /\ D(pool) # 0
    BY <1>2, <1>4, DType DEF Values
  <2> QED BY <2>1
<1> HIDE DEF burn
<1>10. DAfterFee(factoryRate) = after
  BY <1>4 DEF DAfterFee
<1> HIDE DEF after
<1> QED
  BY <1>7, <1>8, <1>9, <1>10 DEF PricedByD

LEMMA WithdrawPriced ==
  ASSUME LiquidityOK, NEW burn \in Burns, burn <= lp.users, NEW answer,
         WithdrawLiquidity(burn, answer)
  PROVE  PricedInProportion
<1>1. burn \in Nat
  BY AmountAssumption
<1>2. lp \in [users : Nat, pair : Nat] /\ supply = lp.users + lp.pair /\ pool \in [Assets -> Nat]
  BY DEF supply, LiquidityOK
<1>3. supply # 0
  <2>1. Refund(1, burn) # 0
    BY DEF WithdrawLiquidity, Assets
  <2> QED BY <2>1 DEF Refund
<1>4. supply' = supply - burn /\ \A i \in Assets : pool'[i] = pool[i] - Refund(i, burn)
  <2>1. lp' = [lp EXCEPT !.users = @ - burn] /\ supply' = lp'.users + lp'.pair
    BY DEF WithdrawLiquidity, supply
  <2>2. \A i \in Assets : pool'[i] = pool[i] - Refund(i, burn)
    BY DEF WithdrawLiquidity
  <2> QED BY <1>1, <1>2, <2>1, <2>2
<1>5. ASSUME NEW i \in Assets PROVE (pool[i] - pool'[i]) * supply <= pool[i] * (supply - supply')
  <2>1. Refund(i, burn) \in Nat /\ Refund(i, burn) * supply <= pool[i] * burn /\ pool[i] \in Nat
    BY <1>1, <1>2, <1>3, RefundType, RefundBound
  <2>2. pool[i] - pool'[i] = Refund(i, burn) /\ supply - supply' = burn
    BY <1>1, <1>2, <1>4, <2>1
  <2> QED BY <2>1, <2>2
<1> QED
  BY <1>5 DEF PricedInProportion

(* No message that mints or burns LP tokens does so at the expense of the    *)
(* other holders, in the D that compute_d answers: after a deposit or a      *)
(* withdrawal by list D, less the fee, per LP token is no less than before,  *)
(* and a withdrawal in proportion takes no more than its part of either      *)
(* pool (contract.rs 533-568 and 787-852, get_share_in_assets).              *)
SharesPriced ==
  [][supply > 0 /\ lp' # lp =>
       (\E factoryRate \in FactoryRates : PricedByD(factoryRate)) \/ PricedInProportion]_vars

THEOREM SharesPricedAlways == Spec => SharesPriced
<1> DEFINE Priced == (\E factoryRate \in FactoryRates : PricedByD(factoryRate)) \/ PricedInProportion
<1>1. PairTyped /\ [Next]_vars => PairTyped'
  BY NextTyped
<1>2. ASSUME PairTyped, [Next]_vars, supply > 0, lp' # lp PROVE Priced
  <2>1. AmpIsSet /\ LiquidityOK
    BY <1>2, AmpSet DEF PairTyped
  <2>2. ASSUME Provide PROVE Priced
    BY <1>2, <2>1, <2>2, ProvidePriced DEF Provide
  <2>3. ASSUME NEW listed \in Orders, WithdrawListed(listed) PROVE Priced
    BY <2>1, <2>3, ImbalancedPriced DEF WithdrawListed
  <2>4. ASSUME Withdraw PROVE Priced
    BY <2>1, <2>4, WithdrawPriced DEF Withdraw
  <2>5. ASSUME Trade PROVE lp' = lp
    BY <2>5 DEF Trade, Swap
  <2>6. ASSUME Tick \/ Administer PROVE lp' = lp
    BY <2>6 DEF Tick, Administer, UpdateFees, UpdateConfig, ProposeNewOwner, DropOwnershipProposal,
       ClaimOwnership, Freeze, UpdateFreeze, ChangeMigration, books
  <2>7. UNCHANGED vars => lp' = lp
    BY DEF vars, books
  <2> HIDE DEF Priced
  <2>8. Provide \/ Withdraw \/ (\E listed \in Orders : WithdrawListed(listed))
    BY <1>2, <2>5, <2>6, <2>7 DEF Next, UserNext
  <2> QED BY <2>2, <2>3, <2>4, <2>8
<1>3. PairTyped /\ [Next]_vars => [supply > 0 /\ lp' # lp => Priced]_vars
  BY <1>2
<1> QED
  BY <1>1, <1>3, InitTyped, PTL DEF Spec, SharesPriced
=============================================================================
