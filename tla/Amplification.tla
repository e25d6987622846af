--------------------------- MODULE Amplification ---------------------------
(***************************************************************************)
(* The amplification coefficient of a stableswap pair, and how its owner   *)
(* moves it (contracts/pair_lsd/src/contract.rs, start_changing_amp and    *)
(* stop_changing_amp; utils.rs, compute_current_amp).  The pair stores a   *)
(* ramp: a value with the time it held, and a value with the time it is to *)
(* be reached; in between the coefficient of a block is interpolated.      *)
(***************************************************************************)
EXTENDS StableMath, Sequences

CONSTANTS
  MaxAmp,             \* MAX_AMP
  MaxAmpChange,       \* MAX_AMP_CHANGE
  MinAmpChangingTime, \* MIN_AMP_CHANGING_TIME
  InitialAmps,        \* amplifications a pair may be instantiated with
  Genesis,            \* the block time the pair is instantiated at
  MaxTime             \* bound: the last block time

ASSUME AmpAssumption ==
  /\ {MaxAmp, MaxAmpChange, MinAmpChangingTime} \subseteq Nat \ {0}
  /\ InitialAmps \subseteq 1..MaxAmp
  /\ Genesis \in Nat /\ MaxTime \in Nat /\ Genesis <= MaxTime

VARIABLES
  now,   \* env.block.time, in seconds
  amp,   \* init_amp, init_amp_time, next_amp and next_amp_time
  recent \* the coefficients at the end of each of the last MinAmpChangingTime
         \* seconds, the latest first (read by the properties only)

ampVars == <<now, amp, recent>>

(* A bug: the fall is taken from the target *)
FallsFromTarget(ramp, time) ==
  IF time >= ramp.until THEN ramp.next
  ELSE LET passed == time - ramp.since
           whole == ramp.until - ramp.since
       IN IF ramp.next > ramp.init
          THEN ramp.init + ((ramp.next - ramp.init) * passed) \div whole
          ELSE ramp.next - ((ramp.init - ramp.next) * passed) \div whole

(* compute_current_amp: the coefficient of a ramp at a time *)
AmpAt(ramp, time) ==
  IF time >= ramp.until THEN ramp.next
  ELSE LET passed == time - ramp.since
           whole == ramp.until - ramp.since
       IN IF ramp.next > ramp.init
          THEN ramp.init + ((ramp.next - ramp.init) * passed) \div whole
          ELSE ramp.init - ((ramp.init - ramp.next) * passed) \div whole

CurrentAmp == AmpAt(amp, now)

Constant(value) == [init |-> value, since |-> now, next |-> value, until |-> now]

AmpInit ==
  /\ now = Genesis
  /\ \E initial \in InitialAmps : amp = Constant(initial * AmpPrecision)
  /\ recent = <<>>

(* the block time moves on by one *)
AmpTick ==
  /\ now < MaxTime
  /\ now' = now + 1
  /\ recent' = SubSeq(<<CurrentAmp>> \o recent, 1,
                      IF Len(recent) < MinAmpChangingTime THEN Len(recent) + 1 ELSE MinAmpChangingTime)
  /\ UNCHANGED amp

(* A bug: the limit is checked against where the last ramp began *)
WithinLimitOfStart(next) ==
  /\ next * AmpPrecision * MaxAmpChange >= amp.init
  /\ next * AmpPrecision <= amp.init * MaxAmpChange

WithinLimit(next) ==
  /\ next * AmpPrecision * MaxAmpChange >= CurrentAmp
  /\ next * AmpPrecision <= CurrentAmp * MaxAmpChange

(* A bug: the new ramp starts where the old one did *)
RampFromInit(next, until) == [amp EXCEPT !.since = now, !.next = next * AmpPrecision, !.until = until]

RampTo(next, until) ==
  [init |-> CurrentAmp, since |-> now, next |-> next * AmpPrecision, until |-> until]

(* start_changing_amp *)
StartChangingAmp(next, until) ==
  /\ next \in 1..MaxAmp
  /\ WithinLimit(next)
  /\ now >= amp.since + MinAmpChangingTime
  /\ until >= now + MinAmpChangingTime
  /\ amp' = RampTo(next, until)
  /\ UNCHANGED <<now, recent>>

(* stop_changing_amp *)
StopChangingAmp ==
  /\ amp' = Constant(CurrentAmp)
  /\ UNCHANGED <<now, recent>>

AmpNext ==
  \/ AmpTick
  \/ \E next \in 1..MaxAmp, until \in Genesis..(MaxTime + MinAmpChangingTime) :
       StartChangingAmp(next, until)
  \/ StopChangingAmp

AmpSpec == AmpInit /\ [][AmpNext]_ampVars
----------------------------------------------------------------------------
(* The coefficient is never zero, which the solvers divide by, nor above the *)
(* limit, and stays between the two ends of its ramp.                        *)
AmpTypeOK ==
  /\ now \in Genesis..MaxTime
  /\ amp.init \in AmpPrecision..(MaxAmp * AmpPrecision)
  /\ amp.next \in AmpPrecision..(MaxAmp * AmpPrecision)
  /\ amp.since \in Genesis..now
  /\ amp.until \in Nat /\ amp.since <= amp.until
  /\ CurrentAmp \in AmpPrecision..(MaxAmp * AmpPrecision)

(* Within MinAmpChangingTime the coefficient changes by no more than a       *)
(* factor of MaxAmpChange, but for the digit lost in the interpolation,      *)
(* whatever ramps are started in the middle of others and stopped.           *)
AmpChangesSlowly ==
  \A k \in 1..Len(recent) :
    /\ CurrentAmp - 1 <= (recent[k] + 1) * MaxAmpChange
    /\ recent[k] - 1 <= (CurrentAmp + 1) * MaxAmpChange

(* The coefficient moves with time only: starting or stopping a ramp leaves  *)
(* the coefficient of this block as it is, so D and with it every price and  *)
(* LP token does not jump (compute_current_amp, start_changing_amp).         *)
AmpContinuous == [][now' = now => CurrentAmp' = CurrentAmp]_ampVars
=============================================================================
