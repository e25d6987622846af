----------------------------- MODULE StableMath -----------------------------
(***************************************************************************)
(* The stableswap mathematics of contracts/pair_lsd/src/math.rs and        *)
(* utils.rs: the invariant D of two pools and the balance of one pool that *)
(* keeps D when the other changes, both by Newton's method with the        *)
(* roundings of the code, and the swap computed from them.                 *)
(*                                                                         *)
(* A balance is a number of base units, One of them to a token; a          *)
(* Decimal256 (pools, offers) a number of atomics, Fine of them to a base  *)
(* unit.  Both assets have the same precision, so adjust_precision         *)
(* changes nothing.                                                        *)
(* An error or a panic of the code is the result NONE.                     *)
(***************************************************************************)
EXTENDS Integers

CONSTANTS
  NONE,         \* no result, or a parameter that is not given
  One,          \* 10^precision: base units in a token
  Fine,         \* 10^(18 - precision): atomics in a base unit
  AmpPrecision, \* AMP_PRECISION: an amplification of 1 is stored as this
  Iterations,   \* ITERATIONS
  LsdAsset      \* which of the assets has a target rate (Config.lsd), or NONE

ASSUME ScaleAssumption == {One, Fine, AmpPrecision, Iterations} \subseteq Nat \ {0}
ASSUME LsdAssumption == LsdAsset \in {1, 2, NONE}

Assets == 1..2
Other(i) == 3 - i

(* Decimal::one() and Decimal256::one(), in atomics *)
DecimalOne == One * Fine

(* the product and the quotient of two decimals *)
Times(a, b) == (a * b) \div DecimalOne
Over(a, b) == (a * DecimalOne) \div b

(* with_precision: balances as decimals *)
Atomics(x) == [i \in Assets |-> x[i] * Fine]

Distance(m, n) == IF m > n THEN m - n ELSE n - m
Without(m, n) == IF m > n THEN m - n ELSE 0

(* Newton's method from `start`: the value after the first step within the   *)
(* tolerance, or the last one, and whether there was such a step.  A step    *)
(* that fails has no value.                                                  *)
Newton(start, step, tolerance) ==
  LET from[left \in 0..(Iterations - 1)] ==
        [last \in Nat |->
           LET value == step[last]
               done == value # NONE /\ Distance(value, last) <= tolerance
           IN IF done \/ value = NONE \/ left = 0 THEN [value |-> value, done |-> done]
              ELSE from[left - 1][value]]
  IN from[Iterations - 1][start]

(* the iteration of compute_d, in atomics: it divides by zero once d is zero *)
StepOfD(ann, x) ==
  [d \in Nat |->
     LET product == (((d * d) \div (2 * x[1])) * d) \div (2 * x[2])
         below == Times(ann - DecimalOne, d) + 3 * product
     IN IF below = 0 THEN NONE
        ELSE Over(Times(Times(ann, x[1] + x[2]) + 2 * product, d), below)]

(* compute_d, of pools in atomics; unlike calc_y it keeps the fraction of    *)
(* amp * n_coins and returns the last iterate even if the method did not end *)
ComputeD(amp, x) ==
  IF x[1] = 0 \/ x[2] = 0 THEN 0
  ELSE Newton(x[1] + x[2], StepOfD((amp * 2 * DecimalOne) \div AmpPrecision, x), Fine).value

(* apply_rate_decimal and apply_rate *)
AtRate(i, amount, rate) == IF i = LsdAsset THEN Times(amount, rate) ELSE amount

(* inverse_rate *)
InverseRate(i, amount, rate) == IF i = LsdAsset THEN (amount * DecimalOne) \div rate ELSE amount

(* A bug: the number of coins is forgotten *)
AnnOfOne(amp) == amp \div AmpPrecision

(* ann in calc_y *)
Ann(amp) == (amp * 2) \div AmpPrecision

(* y_1 = (y^2 + c) / (2 y + b - d): the iteration of calc_y, in base units,  *)
(* which panics where 2 y + b is not above d                                 *)
StepOfY(b, c, d) ==
  [y \in Nat |-> IF 2 * y + b <= d THEN NONE ELSE (y * y + c) \div ((2 * y + b) - d)]

(* b and c of calc_y, and the balance they lead to *)
BOfY(from, ann, d) == from + d \div ann
COfY(from, ann, d) == (((d * d) \div (2 * from)) * d) \div (2 * ann)

SolveY(from, ann, d) == Newton(d, StepOfY(BOfY(from, ann, d), COfY(from, ann, d), d), 1)

(* calc_y: the balance of the other asset, in base units, once the pool of    *)
(* asset i is `changed`.  Below D it counts in base units, and amp * n_coins *)
(* loses its fraction.                                                       *)
CalcY(i, changed, x, amp, rate) ==
  LET d == ComputeD(amp, [j \in Assets |-> AtRate(j, x[j], rate)])
      from == AtRate(i, changed, rate) \div Fine
      solved == SolveY(from, Ann(amp), d \div Fine)
  IN IF from = 0 \/ d = NONE THEN NONE
     ELSE IF ~solved.done THEN NONE
     ELSE InverseRate(Other(i), solved.value, rate)

(* what the pool of the other asset gives until y is left of it, and the     *)
(* spread against the target rate, in base units                             *)
SwapTo(i, offer, x, y, rate) ==
  IF y = NONE \/ y > x[Other(i)] \div Fine THEN NONE
  ELSE LET return == x[Other(i)] \div Fine - y IN
       [return |-> return,
        spread |-> Without(AtRate(i, offer \div Fine, rate), AtRate(Other(i), return, rate))]

(* compute_swap of an offer and pools in atomics: calc_y refuses an offer    *)
(* that equals the pool after it, that is, an empty pool                     *)
ComputeSwap(i, offer, x, amp, rate) ==
  IF x[i] = 0 THEN NONE
  ELSE SwapTo(i, offer, x, CalcY(i, x[i] + offer, x, amp, rate), rate)

ReturnOf(swap) == IF swap = NONE THEN NONE ELSE swap.return

(* calc_spot_price: what one token of asset i buys, in base units *)
SpotPrice(i, x, amp, rate) == ReturnOf(ComputeSwap(i, DecimalOne, x, amp, rate))

(* A bug: the bisection goes on in the wrong half *)
HalfAbove(price, target, lo, half, hi) == IF price < target THEN <<half, hi>> ELSE <<lo, half>>

(* the half recurse_bisect_spot_price goes on in: the price falls with trade *)
HalfOf(price, target, lo, half, hi) == IF price > target THEN <<half, hi>> ELSE <<lo, half>>

(* pools_after_swap, in the order of the assets: the amount is divided by    *)
(* the rate when the derivative is reached, for it and for those after it    *)
PoolsAfterTrade(i, x, trade, rate) ==
  LET moved(j) == IF LsdAsset # NONE /\ j >= LsdAsset THEN Over(trade, rate) ELSE trade IN
  [j \in Assets |-> IF j = i THEN x[j] + moved(j) ELSE x[j] - moved(j)]

(* calc_spot_price of those pools, or NONE: a pool below zero is a panic *)
PriceAfterTrade(i, x, trade, amp, rate) ==
  LET after == PoolsAfterTrade(i, x, trade, rate) IN
  IF after[Other(i)] < 0 THEN NONE ELSE SpotPrice(i, after, amp, rate)

(* recurse_bisect_spot_price, from no trade at all to `most` *)
Bisect(i, x, most, target, amp, rate, iterations) ==
  LET among[left \in 0..iterations, bounds \in Nat \X Nat] ==
        LET half == (bounds[1] + bounds[2]) \div 2
            price == PriceAfterTrade(i, x, half, amp, rate)
        IN IF left = 0 THEN half
           ELSE IF price = NONE THEN NONE
           ELSE IF price = target THEN half
           ELSE among[left - 1, HalfOf(price, target, bounds[1], half, bounds[2])]
  IN among[iterations, <<0, most>>]

(* find_spot_price: how many base units of asset i to sell, `most` at most,  *)
(* until one token of it brings the target price, or NONE                    *)
FindSpotPrice(i, x, most, target, amp, rate, iterations) ==
  LET current == SpotPrice(i, x, amp, rate)
      allIn == PriceAfterTrade(i, x, most * Fine, amp, rate)
      trade == Bisect(i, x, most * Fine, target, amp, rate, iterations)
  IN IF current = NONE THEN NONE
     ELSE IF current <= target \/ allIn = NONE THEN NONE
     ELSE IF allIn >= target THEN most
     ELSE IF trade = NONE THEN NONE ELSE trade \div Fine
=============================================================================
