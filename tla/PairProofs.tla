----------------------------- MODULE PairProofs -----------------------------
(***************************************************************************)
(* Theorems about the constant product pair, for every supply, fee,        *)
(* precision and clock: nothing is paid out that is not there, an LP token *)
(* keeps what it is worth, the oracle is told of the pools that the        *)
(* transfers leave, and the cumulative prices follow the pools.            *)
(***************************************************************************)
EXTENDS Pair, WellFoundedInduction, TLAPS

USE DecimalAssumption, LiquidityAssumption, FeeAssumption, InputAssumption,
    NoneAssumption, TimeAssumption

----------------------------------------------------------------------------
(* Rounding *)

LEMMA DivAtMost ==
  ASSUME NEW n \in Nat, NEW m \in Nat \ {0}, NEW k \in Nat, n <= k * m
  PROVE  n \div m \in 0..k
<1> DEFINE q == n \div m
<1>1. q \in Nat /\ m * q <= n
  OBVIOUS
<1>2. ASSUME q >= k + 1 PROVE FALSE
  <2>1. m * q >= m * (k + 1)
    BY <1>1, <1>2
  <2>2. m * (k + 1) = k * m + m
    OBVIOUS
  <2> QED BY <1>1, <2>1, <2>2
<1> QED
  BY <1>1, <1>2

LEMMA DivBelow ==
  ASSUME NEW n \in Nat, NEW m \in Nat \ {0}, NEW k \in Nat, n < k * m
  PROVE  n \div m < k
<1> DEFINE q == n \div m
<1>1. q \in Nat /\ m * q <= n
  OBVIOUS
<1>2. ASSUME q >= k PROVE FALSE
  <2>1. m * q >= m * k
    BY <1>1, <1>2
  <2> QED BY <1>1, <2>1
<1> QED
  BY <1>1, <1>2

LEMMA ScaledPart ==
  ASSUME NEW n \in Nat, NEW d \in 0..DecimalOne
  PROVE  Scaled(n, d) \in 0..n /\ (n > 0 /\ d < DecimalOne => Scaled(n, d) < n)
<1>1. n * d \in Nat /\ n * d <= n * DecimalOne
  OBVIOUS
<1>2. ASSUME n > 0, d < DecimalOne PROVE n * d < n * DecimalOne
  BY <1>2
<1> QED
  BY <1>1, <1>2, DivAtMost, DivBelow DEF Scaled

LEMMA ScaledType ==
  ASSUME NEW n \in Nat, NEW d \in Nat
  PROVE  Scaled(n, d) \in Nat
BY DEF Scaled

LEMMA RatioType ==
  ASSUME NEW a \in Nat, NEW b \in Nat \ {0}
  PROVE  /\ FromRatio(a, b) \in Nat
         /\ a <= b => FromRatio(a, b) <= DecimalOne
         /\ a < b => FromRatio(a, b) < DecimalOne
<1>1. a * DecimalOne \in Nat
  OBVIOUS
<1>2. ASSUME a <= b PROVE a * DecimalOne <= DecimalOne * b
  BY <1>2
<1>3. ASSUME a < b PROVE a * DecimalOne < DecimalOne * b
  BY <1>3
<1> QED
  BY <1>1, <1>2, <1>3, DivAtMost, DivBelow DEF FromRatio

(* the integer square root exists *)
LEMMA RootType ==
  ASSUME NEW n \in Nat
  PROVE  SquareRoot(n) \in Nat
<1> DEFINE T == {k \in Nat : n < k * k}
<1>1. n + 1 \in T
  BY n < (n + 1) * (n + 1)
<1>2. PICK k \in T : \A j \in T : ~(<<j, k>> \in OpToRel(<, Nat))
  BY <1>1, WFMin, NatLessThanWellFounded
<1>3. \A j \in T : ~(j < k)
  BY <1>2 DEF OpToRel
<1>4. k \in Nat /\ k # 0 /\ n < k * k
  OBVIOUS
<1> DEFINE r == k - 1
<1>5. r \in Nat /\ k = r + 1 /\ r * r <= n
  BY <1>3, <1>4
<1>6. r <= n
  <2>1. r = 0 \/ r <= r * r
    BY <1>5
  <2> QED BY <1>5, <2>1
<1>7. r \in 0..n /\ r * r <= n /\ n < (r + 1) * (r + 1)
  BY <1>4, <1>5, <1>6
<1>8. \E x \in 0..n : x * x <= n /\ n < (x + 1) * (x + 1)
  BY <1>7
<1> HIDE DEF r, T
<1>9. SquareRoot(n) \in 0..n
  BY ONLY <1>8, Zenon DEF SquareRoot
<1> QED
  BY <1>9

(* What a swap pays and the protocol gets is in the pool of what is asked   *)
(* for; it takes the whole pool only if the amounts are beyond the          *)
(* precision of a Decimal.                                                  *)
LEMMA GrossType ==
  ASSUME NEW o \in Nat \ {0}, NEW a \in Nat \ {0}, NEW n \in Nat
  PROVE  /\ GrossReturn(o, a, n) \in 0..a
         /\ o + n <= DecimalOne => GrossReturn(o, a, n) < a
<1> DEFINE k == FromRatio(o * a, o + n)
           full == a * DecimalOne
<1>1. o * a \in Nat \ {0} /\ o + n \in Nat \ {0} /\ full \in Nat \ {0}
  OBVIOUS
<1>2. (o * a) * DecimalOne \in Nat /\ (o * a) * DecimalOne <= full * (o + n)
  <2>1. (o * a) * DecimalOne = o * full
    OBVIOUS
  <2>2. full * (o + n) = o * full + n * full
    BY <1>1
  <2>3. n * full \in Nat /\ o * full \in Nat
    BY <1>1
  <2> HIDE DEF full
  <2> QED BY <2>1, <2>2, <2>3
<1>3. k \in 0..full
  BY <1>1, <1>2, DivAtMost DEF FromRatio
<1>4. ASSUME o + n <= DecimalOne PROVE k # 0
  <2>1. o + n <= (o * a) * DecimalOne
    <3>1. DecimalOne <= (o * a) * DecimalOne
      BY <1>1
    <3> QED BY <1>1, <1>4, <3>1
  <2> DEFINE x == (o * a) * DecimalOne
             m == o + n
  <2>2. x \in Nat /\ m \in Nat \ {0} /\ m <= x
    BY <1>1, <1>2, <2>1
  <2>3. k = x \div m
    BY DEF FromRatio
  <2> HIDE DEF x, m, k
  <2> QED BY <2>2, <2>3
<1>5. GrossReturn(o, a, n) = (full - k) \div DecimalOne
  BY DEF GrossReturn
<1> HIDE DEF k
<1>6. full - k \in Nat /\ full - k <= a * DecimalOne
  BY <1>1, <1>3
<1>7. (full - k) \div DecimalOne \in 0..a
  BY <1>6, DivAtMost
<1>8. ASSUME o + n <= DecimalOne PROVE (full - k) \div DecimalOne < a
  <2>1. full - k < a * DecimalOne
    BY <1>1, <1>3, <1>4, <1>8
  <2> QED BY <1>6, <2>1, DivBelow
<1> QED
  BY <1>5, <1>7, <1>8

LEMMA SwapType ==
  ASSUME NEW o \in Nat \ {0}, NEW a \in Nat \ {0}, NEW n \in Nat, fees \in FeeConfigs
  PROVE  LET swap == ComputeSwap(o, a, n) IN
         /\ swap.return \in Nat /\ swap.protocol \in Nat
         /\ swap.protocol + swap.return <= a
         /\ swap.protocol + swap.return <= GrossReturn(o, a, n)
         /\ o + n <= DecimalOne => swap.protocol + swap.return < a
<1> DEFINE gross == GrossReturn(o, a, n)
           commission == Scaled(gross, fees.total)
           protocol == IF HasFeeAddress THEN Scaled(commission, fees.protocol) ELSE 0
<1>1. fees.total \in 0..DecimalOne /\ fees.protocol \in 0..DecimalOne
  OBVIOUS
<1>2. gross \in 0..a /\ (o + n <= DecimalOne => gross < a)
  BY GrossType
<1>3. commission \in 0..gross
  <2>1. gross \in Nat
    BY <1>2
  <2> HIDE DEF gross
  <2> QED BY <1>1, <2>1, ScaledPart
<1>4. protocol \in 0..commission
  <2>1. commission \in Nat
    BY <1>2, <1>3
  <2> HIDE DEF commission
  <2>2. Scaled(commission, fees.protocol) \in 0..commission
    BY <1>1, <2>1, ScaledPart
  <2>3. 0 \in 0..commission
    BY <2>1
  <2> QED BY <2>2, <2>3
<1>5. /\ ComputeSwap(o, a, n).return = gross - commission
      /\ ComputeSwap(o, a, n).protocol = protocol
  BY DEF ComputeSwap
<1>6. gross = GrossReturn(o, a, n)
  OBVIOUS
<1> HIDE DEF gross, commission, protocol
<1> QED
  BY <1>2, <1>3, <1>4, <1>5, <1>6

----------------------------------------------------------------------------
(* What each message does *)

PoolType == [Assets -> 0..TokenSupply]
LpType == [users : Nat, pair : Nat]

(* The minimum liquidity stays in the pair: LP tokens never run out again. *)
Kept == supply = 0 \/ lp.pair = MinLiquidity

(* what every message that moves tokens leaves behind *)
Outcome ==
  /\ pool' \in PoolType
  /\ lp' \in LpType /\ lp'.pair = MinLiquidity
  /\ pool'[2] # 0
  /\ lastPrice' = FromRatio(pool'[1], pool'[2])
  /\ lastStored' = now
  /\ cumulative' = CumulativeNow(pool)
  /\ UNCHANGED <<now, fees, toMigrate>>
  /\ TokenSupply <= DecimalOne /\ NeverEmpty => pool'[1] > 0

LEMMA AssetsAre == Assets = {1, 2} /\ Other(1) = 2 /\ Other(2) = 1
BY DEF Assets, Other

LEMMA ProvideFirstOutcome ==
  ASSUME TypeOK, Kept, NEW m \in Owned(1), NEW n \in Owned(2), ProvideFirst(<<m, n>>)
  PROVE  Outcome
<1>1. m \in Nat \ {0} /\ n \in Nat \ {0} /\ pool \in PoolType
      /\ pool[1] + m <= TokenSupply /\ pool[2] + n <= TokenSupply
  BY AssetsAre DEF Owned, TypeOK, PoolType
<1>2. pool' = [i \in Assets |-> pool[i] + <<m, n>>[i]]
  BY DEF ProvideFirst, AddTo
<1>3. pool' \in PoolType /\ pool'[1] > 0 /\ pool'[2] # 0
  BY <1>1, <1>2, AssetsAre DEF PoolType
<1> DEFINE root == SquareRoot(m * n)
<1>4. root \in Nat
  BY <1>1, RootType
<1>5. root > MinLiquidity /\ lp' = [users |-> root - MinLiquidity, pair |-> MinLiquidity]
  BY DEF ProvideFirst, FirstMint
<1> HIDE DEF root
<1>6. lp' \in LpType /\ lp'.pair = MinLiquidity
  BY <1>4, <1>5 DEF LpType
<1>7. /\ lastPrice' = FromRatio(pool'[1], pool'[2]) /\ lastStored' = now
      /\ cumulative' = CumulativeNow(pool)
      /\ UNCHANGED <<now, fees, toMigrate>>
  BY DEF ProvideFirst, InitializePrice, AccumulatePrices
<1> QED
  BY <1>3, <1>6, <1>7 DEF Outcome

LEMMA MintType ==
  ASSUME TypeOK, Kept, NEW deposits \in [Assets -> Nat], NEW p \in [Assets -> Nat],
         NEW tolerance, MintShare(deposits, p, tolerance)
  PROVE  lp' \in LpType /\ lp'.pair = MinLiquidity
<1>1. supply \in Nat /\ lp \in LpType
  BY DEF TypeOK, supply, LpType
<1>2. \A i \in Assets : (deposits[i] * supply) \div p[i] \in Nat
  BY <1>1 DEF MintShare
<1>3. ShareOf(deposits, p) \in Nat
  BY <1>2, AssetsAre DEF ShareOf, Lesser
<1>4. lp' = [lp EXCEPT !.users = @ + ShareOf(deposits, p)] /\ lp.pair = MinLiquidity
  BY DEF MintShare, Kept
<1> HIDE DEF supply
<1> QED
  BY <1>1, <1>3, <1>4 DEF LpType

LEMMA ProvideOutcome ==
  ASSUME TypeOK, Kept, NEW m \in Owned(1), NEW n \in Owned(2), NEW tolerance,
         ProvideLiquidity(<<m, n>>, tolerance)
  PROVE  Outcome
<1>1. m \in Nat \ {0} /\ n \in Nat \ {0} /\ pool \in PoolType
      /\ pool[1] + m <= TokenSupply /\ pool[2] + n <= TokenSupply
  BY AssetsAre DEF Owned, TypeOK, PoolType
<1>2. pool' = [i \in Assets |-> pool[i] + <<m, n>>[i]]
  BY DEF ProvideLiquidity, AddTo
<1>3. pool' \in PoolType /\ pool'[1] > 0 /\ pool'[2] # 0
  BY <1>1, <1>2, AssetsAre DEF PoolType
<1>4. <<m, n>> \in [Assets -> Nat] /\ pool \in [Assets -> Nat]
  BY <1>1, AssetsAre DEF PoolType
<1>5. lp' \in LpType /\ lp'.pair = MinLiquidity
  BY <1>4, MintType DEF ProvideLiquidity
<1>6. /\ lastPrice' = FromRatio(pool'[1], pool'[2]) /\ lastStored' = now
      /\ cumulative' = CumulativeNow(pool)
      /\ UNCHANGED <<now, fees, toMigrate>>
  BY DEF ProvideLiquidity, StorePrice, AccumulatePrices
<1> QED
  BY <1>3, <1>5, <1>6 DEF Outcome

LEMMA WithdrawOutcome ==
  ASSUME TypeOK, Kept, NEW n \in 1..lp.users, WithdrawLiquidity(n)
  PROVE  Outcome
<1>1. lp \in LpType /\ pool \in PoolType /\ lp.users \in Nat /\ n \in Nat \ {0}
  BY DEF TypeOK, LpType, PoolType
<1>2. lp.pair = MinLiquidity /\ supply \in Nat \ {0} /\ n < supply
  BY <1>1 DEF Kept, supply, LpType
<1>3. FromRatio(n, supply) \in 0..DecimalOne /\ FromRatio(n, supply) < DecimalOne
  <2> HIDE DEF supply
  <2> QED BY <1>1, <1>2, RatioType
<1>4. \A i \in Assets : pool[i] \in Nat /\ pool[i] <= TokenSupply
  BY <1>1 DEF PoolType
<1>5. \A i \in Assets : Refund(i, n) \in 0..pool[i] /\ (pool[i] > 0 => Refund(i, n) < pool[i])
  BY <1>3, <1>4, ScaledPart DEF Refund
<1>6. pool' = [i \in Assets |-> pool[i] - Refund(i, n)]
  BY DEF WithdrawLiquidity
<1>7. pool' \in PoolType
  BY <1>4, <1>5, <1>6 DEF PoolType
<1>8. NeverEmpty => pool'[1] > 0
  BY <1>2, <1>4, <1>5, <1>6, AssetsAre DEF NeverEmpty
<1>9. lp' \in LpType /\ lp'.pair = MinLiquidity
  BY <1>1, <1>2 DEF WithdrawLiquidity, LpType
<1>10. /\ pool'[2] # 0
       /\ lastPrice' = FromRatio(pool'[1], pool'[2]) /\ lastStored' = now
       /\ cumulative' = CumulativeNow(pool)
       /\ UNCHANGED <<now, fees, toMigrate>>
  BY DEF WithdrawLiquidity, StorePrice, AccumulatePrices
<1> QED
  BY <1>7, <1>8, <1>9, <1>10 DEF Outcome

(* the pools after a swap of n of asset i *)
LEMMA SwapPools ==
  ASSUME TypeOK, NEW i \in Assets, NEW n \in Nat, pool[i] + n <= TokenSupply,
         NEW swap, swap = ComputeSwap(pool[i], pool[Other(i)], n), pool[1] # 0, pool[2] # 0,
         NEW p, p = PoolsAfterSwap(pool, i, n, swap)
  PROVE  /\ Other(i) \in Assets /\ Other(i) # i
         /\ pool \in PoolType
         /\ swap.return \in Nat /\ swap.protocol \in Nat
         /\ swap.protocol + swap.return <= pool[Other(i)]
         /\ p \in PoolType /\ p[i] = pool[i] + n
         /\ p[Other(i)] = pool[Other(i)] - swap.protocol - swap.return
         /\ TokenSupply <= DecimalOne => p[1] > 0 /\ p[2] > 0
<1>1. Other(i) \in Assets /\ Other(i) # i /\ \A j \in Assets : j = i \/ j = Other(i)
  BY AssetsAre
<1>2. pool \in PoolType /\ fees \in FeeConfigs
  BY DEF TypeOK, PoolType
<1>3. /\ pool[i] \in Nat \ {0} /\ pool[Other(i)] \in Nat \ {0}
      /\ pool[Other(i)] <= TokenSupply
  BY <1>1, <1>2, AssetsAre DEF PoolType
<1>4. /\ swap.return \in Nat /\ swap.protocol \in Nat
      /\ swap.protocol + swap.return <= pool[Other(i)]
      /\ pool[i] + n <= DecimalOne => swap.protocol + swap.return < pool[Other(i)]
  BY <1>2, <1>3, SwapType
<1>5. p = [pool EXCEPT ![i] = @ + n, ![Other(i)] = @ - swap.protocol - swap.return]
  BY DEF PoolsAfterSwap
<1>6. /\ p[i] = pool[i] + n
      /\ p[Other(i)] = pool[Other(i)] - swap.protocol - swap.return
      /\ p = [j \in Assets |-> p[j]]
  BY <1>1, <1>2, <1>5 DEF PoolType
<1>7. p[i] \in 0..TokenSupply /\ p[Other(i)] \in 0..TokenSupply
  BY <1>3, <1>4, <1>6
<1>8. p \in PoolType
  BY <1>1, <1>6, <1>7 DEF PoolType
<1>9. ASSUME TokenSupply <= DecimalOne PROVE p[i] > 0 /\ p[Other(i)] > 0
  BY <1>3, <1>4, <1>6, <1>9
<1>10. ASSUME TokenSupply <= DecimalOne PROVE p[1] > 0 /\ p[2] > 0
  BY <1>9, <1>10, AssetsAre
<1> QED
  BY <1>1, <1>2, <1>4, <1>6, <1>8, <1>10

LEMMA ReferralPart ==
  ASSUME NEW n \in Nat, NEW referral \in Referrals, referral <= MaxReferral
  PROVE  AfterReferral(n, referral) \in 0..n
<1>1. referral \in 0..DecimalOne
  OBVIOUS
<1>2. Scaled(n, referral) \in 0..n
  BY <1>1, ScaledPart
<1> QED
  BY <1>2 DEF AfterReferral

LEMMA SwapOutcome ==
  ASSUME TypeOK, Kept, NEW i \in Assets, NEW n \in Owned(i), NEW belief, NEW maxSpread,
         NEW referral \in Referrals, Swap(i, n, belief, maxSpread, referral)
  PROVE  Outcome
<1> DEFINE offer == AfterReferral(n, referral)
           swap == ComputeSwap(pool[i], pool[Other(i)], offer)
           p == PoolsAfterSwap(pool, i, offer, swap)
<1>1. n \in Nat /\ pool[i] + n <= TokenSupply /\ pool[i] \in Nat
  BY DEF Owned, TypeOK
<1>2. offer \in 0..n
  BY <1>1, ReferralPart DEF Swap
<1>3. pool[1] # 0 /\ pool[2] # 0
  BY DEF Swap, SwapAllowed
<1>4. StorePrice(p) /\ AccumulatePrices(pool) /\ UNCHANGED <<now, lp, fees, toMigrate>>
  BY DEF Swap
<1>5. pool' = [pool EXCEPT ![i] = @ + n - (n - offer), ![Other(i)] = @ - swap.return - swap.protocol]
  BY DEF Swap
<1> HIDE DEF offer, swap, p
<1>6. offer \in Nat /\ pool[i] + offer <= TokenSupply
  BY <1>1, <1>2
<1>7. /\ Other(i) \in Assets /\ Other(i) # i /\ pool \in PoolType
      /\ swap.return \in Nat /\ swap.protocol \in Nat
      /\ p \in PoolType
      /\ TokenSupply <= DecimalOne => p[1] > 0 /\ p[2] > 0
  BY <1>3, <1>6, SwapPools DEF swap, p
<1>8. pool' = p
  <2>1. p = [pool EXCEPT ![i] = @ + offer, ![Other(i)] = @ - swap.protocol - swap.return]
    BY DEF p, PoolsAfterSwap
  <2>2. pool[i] + n - (n - offer) = pool[i] + offer
    BY <1>1, <1>6
  <2>3. pool[Other(i)] \in Nat
    BY <1>7 DEF PoolType
  <2>4. pool[Other(i)] - swap.return - swap.protocol = pool[Other(i)] - swap.protocol - swap.return
    BY <1>7, <2>3
  <2> QED BY <1>5, <1>7, <2>1, <2>2, <2>4
<1>9. supply # 0
  <2>1. lastPrice # NONE
    BY <1>4 DEF StorePrice
  <2> QED BY <2>1 DEF TypeOK
<1>10. lp' \in LpType /\ lp'.pair = MinLiquidity
  BY <1>4, <1>9 DEF TypeOK, LpType, Kept
<1>11. /\ pool'[2] # 0
       /\ lastPrice' = FromRatio(pool'[1], pool'[2]) /\ lastStored' = now
       /\ cumulative' = CumulativeNow(pool)
  BY <1>4, <1>8 DEF StorePrice, AccumulatePrices
<1> QED
  BY <1>4, <1>7, <1>8, <1>10, <1>11 DEF Outcome

LEMMA SingleOutcome ==
  ASSUME TypeOK, Kept, NEW i \in Assets, NEW n \in Owned(i), NEW tolerance,
         ProvideSingle(i, n, tolerance)
  PROVE  Outcome
<1> DEFINE half == n \div 2
           swap == ComputeSwap(pool[i], pool[Other(i)], half)
           p == PoolsAfterSwap(pool, i, half, swap)
           deposits == [j \in Assets |-> IF j = i THEN n - half ELSE swap.return]
           q == AddTo(p, deposits)
<1>1. n \in Nat /\ pool[i] + n <= TokenSupply /\ pool[i] \in Nat
  BY DEF Owned, TypeOK
<1>2. half \in 0..n
  BY <1>1
<1>3. pool[1] # 0 /\ pool[2] # 0
  BY DEF ProvideSingle, SwapAllowed
<1>4. /\ MintShare(deposits, p, tolerance)
      /\ StorePrice(q) /\ AccumulatePrices(pool) /\ UNCHANGED <<now, fees, toMigrate>>
  BY DEF ProvideSingle
<1>5. pool' = [pool EXCEPT ![i] = @ + n, ![Other(i)] = @ - swap.protocol]
  BY DEF ProvideSingle
<1> HIDE DEF half
<1>6. half \in Nat /\ pool[i] + half <= TokenSupply
  BY <1>1, <1>2
<1> HIDE DEF swap, p
<1>7. /\ Other(i) \in Assets /\ Other(i) # i /\ pool \in PoolType
      /\ swap.return \in Nat /\ swap.protocol \in Nat
      /\ swap.protocol + swap.return <= pool[Other(i)]
      /\ p \in PoolType /\ p[i] = pool[i] + half
      /\ p[Other(i)] = pool[Other(i)] - swap.protocol - swap.return
      /\ TokenSupply <= DecimalOne => p[1] > 0 /\ p[2] > 0
  BY <1>3, <1>6, SwapPools DEF swap, p
<1>8. deposits \in [Assets -> Nat] /\ p \in [Assets -> Nat]
  BY <1>1, <1>2, <1>7 DEF PoolType
<1>9. lp' \in LpType /\ lp'.pair = MinLiquidity
  <2> HIDE DEF deposits
  <2> QED BY <1>4, <1>8, MintType
<1>10. pool[Other(i)] \in Nat /\ pool[Other(i)] <= TokenSupply
  BY <1>7 DEF PoolType
<1>11. q[i] = pool[i] + n /\ q[Other(i)] = pool[Other(i)] - swap.protocol
  BY <1>1, <1>2, <1>7, <1>10 DEF AddTo
<1>12. \A j \in Assets : j = i \/ j = Other(i)
  BY AssetsAre
<1>13. pool' = q /\ pool' \in PoolType
  <2>1. q = [j \in Assets |-> q[j]]
    BY DEF AddTo
  <2>2. pool'[i] = pool[i] + n /\ pool'[Other(i)] = pool[Other(i)] - swap.protocol
    BY <1>5, <1>7 DEF PoolType
  <2>3. pool' = [j \in Assets |-> pool'[j]]
    BY <1>5, <1>7 DEF PoolType
  <2> HIDE DEF q
  <2>4. pool' = q
    BY <1>11, <1>12, <2>1, <2>2, <2>3
  <2>5. pool'[i] \in 0..TokenSupply /\ pool'[Other(i)] \in 0..TokenSupply
    BY <1>1, <1>7, <1>10, <2>2
  <2> QED BY <1>12, <2>3, <2>4, <2>5 DEF PoolType
<1>14. ASSUME TokenSupply <= DecimalOne PROVE pool'[1] > 0
  <2>1. q[1] >= p[1]
    BY <1>7, <1>8, AssetsAre DEF AddTo, PoolType
  <2> HIDE DEF q
  <2>2. p[1] \in Nat /\ p[1] > 0 /\ q[1] \in Int
    BY <1>7, <1>13, <1>14, AssetsAre DEF PoolType
  <2> QED BY <1>13, <2>1, <2>2
<1> HIDE DEF q
<1>15. /\ pool'[2] # 0
       /\ lastPrice' = FromRatio(pool'[1], pool'[2]) /\ lastStored' = now
       /\ cumulative' = CumulativeNow(pool)
  BY <1>4, <1>13 DEF StorePrice, AccumulatePrices
<1> QED
  BY <1>4, <1>9, <1>13, <1>14, <1>15 DEF Outcome

(* every step that is not one of these is a message that moves tokens *)
Otherwise == Donating \/ UNCHANGED <<pool, lp, lastPrice, lastStored, cumulative>>

LEMMA NextOutcome ==
  ASSUME TypeOK, Kept, Next
  PROVE  Outcome \/ Otherwise
<1>1. CASE Tick
  BY <1>1 DEF Tick, Otherwise
<1>2. CASE Donating
  BY <1>2 DEF Otherwise
<1>3. ASSUME NEW m \in Owned(1), NEW n \in Owned(2),
             ProvideFirst(<<m, n>>) \/ \E tolerance \in Slippages : ProvideLiquidity(<<m, n>>, tolerance)
      PROVE  Outcome
  BY <1>3, ProvideFirstOutcome, ProvideOutcome
<1>4. ASSUME NEW i \in Assets, NEW n \in Owned(i), NEW tolerance \in Slippages, ProvideSingle(i, n, tolerance)
      PROVE  Outcome
  BY <1>4, SingleOutcome
<1>5. ASSUME NEW n \in 1..lp.users, WithdrawLiquidity(n)
      PROVE  Outcome
  BY <1>5, WithdrawOutcome
<1>6. ASSUME NEW i \in Assets, NEW n \in Owned(i), NEW belief \in Beliefs, NEW maxSpread \in Slippages,
             NEW referral \in Referrals, Swap(i, n, belief, maxSpread, referral)
      PROVE  Outcome
  BY <1>6, SwapOutcome
<1>7. ASSUME NEW new \in FeeConfigs, UpdateFees(new) PROVE Otherwise
  BY <1>7 DEF UpdateFees, Otherwise
<1>8. CASE ChangeMigration
  BY <1>8 DEF ChangeMigration, Otherwise
<1> QED
  BY <1>1, <1>2, <1>3, <1>4, <1>5, <1>6, <1>7, <1>8 DEF Next, Donating

(* the cumulative prices stay in their width *)
LEMMA CumulativeType ==
  ASSUME TypeOK
  PROVE  CumulativeNow(pool) \in [last : 0..now, price : [Assets -> 0..(Modulus - 1)]]
<1> DEFINE price == [i \in Assets |->
             (cumulative.price[i] + PriceOverTime(pool[i], pool[Other(i)], now - cumulative.last)) % Modulus]
<1>1. /\ cumulative \in [last : 0..now, price : [Assets -> 0..(Modulus - 1)]]
      /\ now \in Nat
  BY DEF TypeOK
<1>2. ASSUME now > cumulative.last, pool[1] # 0, pool[2] # 0
      PROVE  price \in [Assets -> 0..(Modulus - 1)]
  <2> SUFFICES ASSUME NEW i \in Assets PROVE price[i] \in 0..(Modulus - 1)
    OBVIOUS
  <2> DEFINE n == (now - cumulative.last) * PricePrecision * pool[Other(i)]
             x == n \div pool[i]
  <2>1. pool[i] \in Nat \ {0} /\ pool[Other(i)] \in Nat
    BY <1>2, AssetsAre DEF TypeOK
  <2>2. n \in Nat
    <3>1. now - cumulative.last \in Nat
      BY <1>1, <1>2
    <3>2. (now - cumulative.last) * PricePrecision \in Nat
      BY <3>1
    <3> QED BY <2>1, <3>2
  <2>3. x \in Nat
    <3> HIDE DEF n
    <3> QED BY <2>1, <2>2
  <2>4. price[i] = (cumulative.price[i] + x) % Modulus
    BY DEF PriceOverTime
  <2>5. cumulative.price[i] \in Nat
    BY <1>1
  <2> HIDE DEF price, x
  <2>6. cumulative.price[i] + x \in Nat
    BY <2>3, <2>5
  <2> QED BY <2>4, <2>6
<1>3. [cumulative EXCEPT !.last = now] \in [last : 0..now, price : [Assets -> 0..(Modulus - 1)]]
  BY <1>1
<1>4. CumulativeNow(pool) = IF now <= cumulative.last THEN cumulative
                            ELSE IF pool[1] = 0 \/ pool[2] = 0 THEN [cumulative EXCEPT !.last = now]
                            ELSE [last |-> now, price |-> price]
  BY DEF CumulativeNow
<1> HIDE DEF price
<1> QED
  BY <1>1, <1>2, <1>3, <1>4

LEMMA SupplyOf ==
  /\ lp \in LpType => supply \in Nat /\ (lp.pair = MinLiquidity => supply >= MinLiquidity)
  /\ lp' \in LpType => supply' \in Nat /\ (lp'.pair = MinLiquidity => supply' >= MinLiquidity)
BY DEF supply, LpType

LEMMA OutcomeType ==
  ASSUME TypeOK, Kept, Outcome
  PROVE  TypeOK' /\ Kept' /\ supply' >= MinLiquidity
<1>1. supply' \in Nat /\ supply' >= MinLiquidity /\ supply' # 0
  BY SupplyOf DEF Outcome
<1>2. lastPrice' \in Nat
  <2>1. pool'[1] \in Nat /\ pool'[2] \in Nat \ {0}
    BY AssetsAre DEF Outcome, PoolType
  <2> QED BY <2>1, RatioType DEF Outcome
<1>3. lastPrice' # NONE
  BY <1>2
<1>4. now' \in 0..MaxTime /\ lastStored' \in 0..now' /\ fees' \in FeeConfigs /\ toMigrate' \in BOOLEAN
  BY DEF Outcome, TypeOK
<1>5. cumulative' \in [last : 0..now', price : [Assets -> 0..(Modulus - 1)]]
  BY CumulativeType DEF Outcome
<1>6. Kept'
  BY DEF Outcome, Kept
<1> QED
  BY <1>1, <1>2, <1>3, <1>4, <1>5, <1>6 DEF Outcome, TypeOK, PoolType, LpType

LEMMA NextType ==
  ASSUME TypeOK, Kept, [Next]_vars
  PROVE  TypeOK' /\ Kept'
<1>1. CASE UNCHANGED vars
  BY <1>1 DEF vars, TypeOK, Kept, supply
<1>2. CASE Tick
  BY <1>2 DEF Tick, TypeOK, Kept, supply
<1>3. ASSUME NEW i \in Assets, NEW n \in Owned(i), Donate(i, n) PROVE TypeOK' /\ Kept'
  <2>1. pool' \in [Assets -> 0..TokenSupply]
    BY <1>3 DEF Donate, Owned, TypeOK
  <2> QED BY <1>3, <2>1 DEF Donate, TypeOK, Kept, supply
<1>4. ASSUME NEW new \in FeeConfigs, UpdateFees(new) PROVE TypeOK' /\ Kept'
  BY <1>4 DEF UpdateFees, TypeOK, Kept, supply
<1>5. CASE ChangeMigration
  BY <1>5 DEF ChangeMigration, TypeOK, Kept, supply
<1>6. CASE Outcome
  BY <1>6, OutcomeType
<1>7. ASSUME Next, ~Outcome
      PROVE  \/ Tick \/ Donating \/ ChangeMigration \/ \E new \in FeeConfigs : UpdateFees(new)
  BY <1>7, ProvideFirstOutcome, ProvideOutcome, SingleOutcome, WithdrawOutcome, SwapOutcome
     DEF Next, Donating
<1> QED
  BY <1>1, <1>2, <1>3, <1>4, <1>5, <1>6, <1>7 DEF Donating

LEMMA InitType == Init => TypeOK /\ Kept
<1> SUFFICES ASSUME Init PROVE TypeOK /\ Kept
  OBVIOUS
<1>1. supply = 0
  BY DEF Init, supply
<1>2. now \in 0..MaxTime /\ lastStored \in 0..now /\ pool \in [Assets -> 0..TokenSupply]
  BY DEF Init
<1>3. lp \in [users : Nat, pair : Nat]
  BY DEF Init
<1>4. cumulative \in [last : 0..now, price : [Assets -> 0..(Modulus - 1)]]
  <2>1. 0 \in 0..(Modulus - 1) /\ 0 \in 0..now
    BY DEF Init
  <2> QED BY <2>1 DEF Init
<1>5. lastPrice = NONE /\ fees \in FeeConfigs /\ toMigrate \in BOOLEAN
  BY DEF Init
<1> QED
  BY <1>1, <1>2, <1>3, <1>4, <1>5 DEF TypeOK, Kept

(* Whatever is deposited, withdrawn, swapped and sent, no balance goes below *)
(* zero, cumulative prices stay in their width, and the oracle is            *)
(* initialised exactly while there are LP tokens.                            *)
THEOREM TypeCorrect == Spec => []TypeOK
<1>1. TypeOK /\ Kept /\ [Next]_vars => (TypeOK /\ Kept)'
  BY NextType
<1> QED
  BY <1>1, InitType, PTL DEF Spec

(* The price that a message computes for the oracle before its transfers is  *)
(* the ratio of the pools after them, in every branch of every handler.      *)
THEOREM OracleSeesPair == Spec => OracleSeesPools
<1>1. TypeOK /\ Kept /\ [Next]_vars => (TypeOK /\ Kept)'
  BY NextType
<1>2. TypeOK /\ Kept /\ [Next]_vars =>
        [(pool' # pool \/ lastPrice' # lastPrice) /\ ~Donating
           => lastPrice' = FromRatio(pool'[1], pool'[2])]_vars
  BY NextOutcome DEF Outcome, Otherwise, vars
<1> QED
  BY <1>1, <1>2, InitType, PTL DEF Spec, OracleSeesPools

(* While there is less of an asset than a Decimal has parts, 10^18 base      *)
(* units, the rounding of compute_swap cannot take the last of a pool, and   *)
(* nothing else can: a pair with LP tokens always has both assets.           *)
THEOREM NeverEmpties ==
  ASSUME TokenSupply <= DecimalOne
  PROVE  Spec => []NeverEmpty
<1>1. TypeOK /\ Kept /\ NeverEmpty /\ [Next]_vars => (TypeOK /\ Kept /\ NeverEmpty)'
  <2> SUFFICES ASSUME TypeOK, Kept, NeverEmpty, [Next]_vars PROVE NeverEmpty'
    BY NextType
  <2>1. CASE Outcome
    <3>1. pool'[1] > 0 /\ pool'[2] > 0
      BY <2>1, AssetsAre DEF Outcome, PoolType
    <3> QED BY <2>1, <3>1, OutcomeType DEF NeverEmpty
  <2>2. CASE UNCHANGED <<pool, lp, lastPrice, lastStored, cumulative>>
    BY <2>2 DEF NeverEmpty, supply
  <2>3. ASSUME NEW i \in Assets, NEW n \in Owned(i), Donate(i, n) PROVE NeverEmpty'
    <3>1. \A j \in Assets : pool'[j] >= pool[j] /\ pool[j] \in Nat /\ pool'[j] \in Int
      BY <2>3 DEF Donate, Owned, TypeOK
    <3>2. lp' = lp
      BY <2>3 DEF Donate
    <3> QED BY <3>1, <3>2, AssetsAre DEF NeverEmpty, supply
  <2> QED BY <2>1, <2>2, <2>3, NextOutcome DEF Otherwise, Donating, vars
<1>2. Init => NeverEmpty
  BY DEF Init, NeverEmpty, supply
<1> QED
  BY <1>1, <1>2, InitType, PTL DEF Spec


----------------------------------------------------------------------------
(* What an LP token is worth *)

LEMMA ProductOrder ==
  ASSUME NEW a \in Nat, NEW b \in Nat, NEW c \in Nat, NEW d \in Nat, a <= b, c <= d
  PROVE  a * c <= b * d /\ a * c \in Nat /\ b * d \in Nat
<1>1. a * c <= b * c
  OBVIOUS
<1>2. b * c <= b * d
  OBVIOUS
<1>3. a * c \in Nat /\ b * c \in Nat /\ b * d \in Nat
  OBVIOUS
<1> QED
  BY ONLY <1>1, <1>2, <1>3

(* Products may be taken in any order. *)
LEMMA ProductOfFour ==
  ASSUME NEW a \in Nat, NEW b \in Nat, NEW c \in Nat, NEW d \in Nat
  PROVE  (a * c) * (b * d) = ((a * b) * c) * d /\ ((a * b) * c) * d \in Nat
<1>1. (a * c) * (b * d) = ((a * b) * c) * d
  OBVIOUS
<1>2. a * b \in Nat /\ (a * b) * c \in Nat /\ ((a * b) * c) * d \in Nat
  OBVIOUS
<1> QED
  BY ONLY <1>1, <1>2

(* Pools p become r and then q while the supply goes from s to t: the value *)
(* of an LP token does not fall if the product p1 * p2 loses no more than   *)
(* the digit e on the way to r, and each pool per token does not on the way *)
(* to q.                                                                    *)
LEMMA WorthKept ==
  ASSUME NEW p1 \in Nat, NEW p2 \in Nat, NEW r1 \in Nat, NEW r2 \in Nat,
         NEW q1 \in Nat, NEW q2 \in Nat, NEW s \in Nat, NEW t \in Nat, NEW e \in Nat,
         p1 * p2 * DecimalOne <= r1 * r2 * DecimalOne + e, e <= q1 + q2,
         r1 * t <= q1 * s, r2 * t <= q2 * s
  PROVE  q1 * q2 * DecimalOne * s * s + (q1 + q2) * t * t >= p1 * p2 * DecimalOne * t * t
<1> DEFINE P == p1 * p2 * DecimalOne
           R == r1 * r2 * DecimalOne
           Q == q1 * q2 * DecimalOne
           T == t * t
<1>1. P \in Nat /\ R \in Nat /\ Q \in Nat /\ T \in Nat /\ q1 + q2 \in Nat
  OBVIOUS
<1>2. ((r1 * r2) * t) * t <= ((q1 * q2) * s) * s
  <2>1. r1 * t \in Nat /\ r2 * t \in Nat /\ q1 * s \in Nat /\ q2 * s \in Nat
    OBVIOUS
  <2>2. (r1 * t) * (r2 * t) <= (q1 * s) * (q2 * s)
    BY <2>1, ProductOrder
  <2>3. (r1 * t) * (r2 * t) = ((r1 * r2) * t) * t
    BY ProductOfFour
  <2>4. (q1 * s) * (q2 * s) = ((q1 * q2) * s) * s
    BY ProductOfFour
  <2> QED BY ONLY <2>2, <2>3, <2>4
<1>3. R * T <= Q * s * s
  <2> DEFINE x == ((r1 * r2) * t) * t
             y == ((q1 * q2) * s) * s
  <2>1. x \in Nat /\ y \in Nat /\ x <= y
    BY <1>2, ProductOfFour
  <2>2. R * T = DecimalOne * x
    OBVIOUS
  <2>3. Q * s * s = DecimalOne * y
    OBVIOUS
  <2> HIDE DEF x, y, R, Q, T
  <2>4. DecimalOne * x <= DecimalOne * y
    BY <2>1
  <2> QED BY ONLY <2>2, <2>3, <2>4
<1>4. P * T <= R * T + (q1 + q2) * T
  <2> HIDE DEF P, R, T
  <2> DEFINE u == q1 + q2
  <2>1. P <= R + u /\ u \in Nat
    <3>1. P <= R + e
      BY DEF P, R
    <3> QED BY ONLY <1>1, <3>1, e \in Nat, e <= q1 + q2 DEF u
  <2> HIDE DEF u
  <2>2. P * T <= (R + u) * T
    BY <1>1, <2>1, ProductOrder
  <2>3. (R + u) * T = R * T + u * T
    BY ONLY <1>1, <2>1
  <2> QED BY ONLY <2>2, <2>3 DEF u
<1>5. /\ P * T = p1 * p2 * DecimalOne * t * t
      /\ (q1 + q2) * T = (q1 + q2) * t * t
  OBVIOUS
<1>6. Q * s * s = q1 * q2 * DecimalOne * s * s
  OBVIOUS
<1>7. P * T \in Nat /\ R * T \in Nat /\ (q1 + q2) * T \in Nat /\ Q * s * s \in Nat
  <2> HIDE DEF P, R, Q, T
  <2>1. Q * s \in Nat
    BY ONLY <1>1, s \in Nat
  <2> QED BY ONLY <1>1, <2>1, s \in Nat
<1> HIDE DEF P, R, Q, T
<1> QED
  BY ONLY <1>3, <1>4, <1>5, <1>6, <1>7

(* The product of the pools loses less than the last digit in a swap. *)
LEMMA GrossKeepsProduct ==
  ASSUME NEW o \in Nat \ {0}, NEW a \in Nat \ {0}, NEW n \in Nat
  PROVE  o * a * DecimalOne <= (o + n) * (a - GrossReturn(o, a, n)) * DecimalOne + (o + n)
<1> DEFINE m == o + n
           x == (o * a) * DecimalOne
           k == x \div m
           full == a * DecimalOne
           g == GrossReturn(o, a, n)
<1>1. m \in Nat \ {0} /\ x \in Nat /\ full \in Nat
  OBVIOUS
<1>2. k \in Nat /\ x <= m * k + m
  <2> HIDE DEF m, x
  <2> QED BY <1>1
<1>3. g = (full - k) \div DecimalOne
  BY DEF GrossReturn, FromRatio
<1>4. g \in 0..a
  BY GrossType
<1> HIDE DEF g, k, full
<1>5. DecimalOne * g <= full - k
  BY ONLY <1>1, <1>2, <1>3, DecimalOne \in Nat \ {0}
<1>6. k <= (a - g) * DecimalOne
  <2>1. (a - g) * DecimalOne = full - DecimalOne * g
    BY <1>4 DEF full
  <2>2. full \in Int /\ DecimalOne * g \in Int /\ k \in Int
    BY <1>1, <1>2, <1>4
  <2> QED BY ONLY <1>5, <2>1, <2>2
<1>7. m * k <= m * ((a - g) * DecimalOne)
  <2>1. (a - g) * DecimalOne \in Nat
    BY <1>4
  <2> HIDE DEF m
  <2> QED BY <1>1, <1>2, <1>6, <2>1, ProductOrder
<1>8. m * ((a - g) * DecimalOne) = (o + n) * (a - g) * DecimalOne
  BY <1>4
<1>9. m * k \in Nat /\ m * ((a - g) * DecimalOne) \in Nat
  <2>1. (a - g) * DecimalOne \in Nat
    BY <1>4
  <2> HIDE DEF m
  <2> QED BY <1>1, <1>2, <2>1
<1> QED
  BY ONLY <1>1, <1>2, <1>7, <1>8, <1>9 DEF m, x, g


LEMMA SwapKeepsProduct ==
  ASSUME TypeOK, NEW i \in Assets, NEW n \in Nat, pool[i] + n <= TokenSupply,
         NEW swap, swap = ComputeSwap(pool[i], pool[Other(i)], n), pool[1] # 0, pool[2] # 0,
         NEW p, p = PoolsAfterSwap(pool, i, n, swap)
  PROVE  pool[1] * pool[2] * DecimalOne <= p[1] * p[2] * DecimalOne + (p[1] + p[2])
<1> DEFINE o == pool[i]
           a == pool[Other(i)]
           g == GrossReturn(o, a, n)
           c == swap.protocol + swap.return
<1>1. /\ Other(i) \in Assets /\ Other(i) # i /\ pool \in PoolType /\ p \in PoolType
      /\ swap.return \in Nat /\ swap.protocol \in Nat /\ c <= a
      /\ p[i] = o + n /\ p[Other(i)] = a - swap.protocol - swap.return
  BY SwapPools
<1>2. o \in Nat \ {0} /\ a \in Nat \ {0} /\ fees \in FeeConfigs
  BY <1>1, AssetsAre DEF PoolType, TypeOK
<1>3. c <= g
  BY <1>2, SwapType
<1>4. g \in 0..a
  BY <1>2, GrossType
<1>5. o * a * DecimalOne <= (o + n) * (a - g) * DecimalOne + (o + n)
  BY <1>2, GrossKeepsProduct
<1>6. p[Other(i)] = a - c /\ c \in Nat
  BY <1>1, <1>2
<1> HIDE DEF g, c, o, a
<1>7. a - g \in Nat /\ a - c \in Nat /\ a - g <= a - c
  BY ONLY <1>2, <1>3, <1>4, <1>6
<1> DEFINE m == o + n
<1>8. m \in Nat
  BY <1>2
<1> HIDE DEF m
<1>9. /\ m * (a - g) <= m * (a - c) /\ m * (a - g) \in Nat /\ m * (a - c) \in Nat
  BY <1>7, <1>8, ProductOrder
<1>10. /\ m * (a - g) * DecimalOne <= m * (a - c) * DecimalOne
       /\ m * (a - g) * DecimalOne \in Nat /\ m * (a - c) * DecimalOne \in Nat
  BY <1>9, ProductOrder
<1>11. o * a * DecimalOne \in Nat
  BY <1>2
<1>12. o * a * DecimalOne <= m * (a - c) * DecimalOne + (m + (a - c))
  BY ONLY <1>5, <1>7, <1>8, <1>10, <1>11 DEF m
<1>13. CASE i = 1
  <2>1. pool[1] = o /\ pool[2] = a /\ p[1] = m /\ p[2] = a - c
    BY <1>1, <1>6, <1>13, AssetsAre DEF m, o, a
  <2> QED BY ONLY <1>12, <2>1
<1>14. CASE i = 2
  <2>1. pool[1] = a /\ pool[2] = o /\ p[1] = a - c /\ p[2] = m
    BY <1>1, <1>6, <1>14, AssetsAre DEF m, o, a
  <2>2. a * o * DecimalOne = o * a * DecimalOne /\ (a - c) * m * DecimalOne = m * (a - c) * DecimalOne
    BY <1>2, <1>7, <1>8
  <2>3. (a - c) + m = m + (a - c)
    BY <1>7, <1>8
  <2> QED BY ONLY <1>12, <2>1, <2>2, <2>3
<1> QED
  BY <1>13, <1>14, AssetsAre

(* Minting takes no share beyond what either deposit adds to its pool. *)
LEMMA MintKeeps ==
  ASSUME TypeOK, NEW deposits \in [Assets -> Nat], NEW p \in [Assets -> Nat],
         NEW tolerance, MintShare(deposits, p, tolerance), NEW i \in Assets
  PROVE  /\ supply \in Nat /\ supply' \in Nat
         /\ p[i] * supply' <= (p[i] + deposits[i]) * supply
<1> DEFINE s == supply
           of(j) == (deposits[j] * s) \div p[j]
           share == ShareOf(deposits, p)
           x == deposits[i] * s
<1>1. s \in Nat /\ lp \in [users : Nat, pair : Nat]
  BY DEF TypeOK, supply
<1>2. \A j \in Assets : of(j) \in Nat /\ p[j] \in Nat \ {0}
  BY <1>1 DEF MintShare
<1>3. share \in Nat /\ share <= of(i)
  <2> HIDE DEF of
  <2>1. share = Lesser(of(1), of(2))
    BY DEF ShareOf, of
  <2> QED BY <1>2, <2>1, AssetsAre DEF Lesser
<1>4. supply' = s + share
  <2>1. lp' = [lp EXCEPT !.users = @ + share]
    BY DEF MintShare
  <2> HIDE DEF share
  <2> QED BY <1>1, <1>3, <2>1 DEF supply
<1> HIDE DEF share, s
<1>5. x \in Nat
  BY <1>1
<1>6. p[i] * of(i) <= x /\ of(i) \in Nat /\ p[i] \in Nat
  <2>1. of(i) = x \div p[i]
    OBVIOUS
  <2>2. p[i] \in Nat \ {0}
    BY <1>2
  <2> HIDE DEF of, x
  <2> QED BY ONLY <1>5, <2>1, <2>2
<1> HIDE DEF of
<1>7. p[i] * share <= p[i] * of(i) /\ p[i] * share \in Nat /\ p[i] * of(i) \in Nat
  BY <1>3, <1>6, ProductOrder
<1>8. p[i] * (s + share) = p[i] * s + p[i] * share
  BY <1>1, <1>3, <1>6
<1>9. (p[i] + deposits[i]) * s = p[i] * s + x
  BY <1>1, <1>6
<1>10. p[i] * s \in Nat
  BY <1>1, <1>6
<1> HIDE DEF x
<1>11. p[i] * (s + share) <= (p[i] + deposits[i]) * s
  BY ONLY <1>5, <1>6, <1>7, <1>8, <1>9, <1>10
<1> QED
  BY <1>1, <1>3, <1>4, <1>11 DEF s

(* A withdrawal pays out no more of an asset than its part of the supply. *)
LEMMA RefundKeeps ==
  ASSUME NEW p \in Nat, NEW s \in Nat \ {0}, NEW n \in 0..s
  PROVE  LET refund == Scaled(p, FromRatio(n, s)) IN
         /\ refund \in 0..p
         /\ p * (s - n) <= (p - refund) * s
<1> DEFINE k == (n * DecimalOne) \div s
           f == (p * k) \div DecimalOne
<1>1. k \in Nat /\ s * k <= n * DecimalOne
  <2> DEFINE x == n * DecimalOne
  <2>1. x \in Nat
    OBVIOUS
  <2> HIDE DEF x
  <2> QED BY ONLY <2>1, s \in Nat \ {0} DEF k, x
<1>2. k \in 0..DecimalOne
  <2>1. k = FromRatio(n, s)
    BY DEF FromRatio
  <2> QED BY <2>1, <1>1, RatioType
<1>3. f = Scaled(p, FromRatio(n, s)) /\ f \in 0..p
  <2>1. f = Scaled(p, k) /\ k = FromRatio(n, s)
    BY DEF Scaled, FromRatio
  <2> HIDE DEF f, k
  <2> QED BY <1>2, <2>1, ScaledPart
<1>4. DecimalOne * f <= p * k /\ p * k \in Nat
  <2> DEFINE x == p * k
  <2>1. x \in Nat
    BY <1>1
  <2>2. f = x \div DecimalOne
    OBVIOUS
  <2> HIDE DEF x, f
  <2> QED BY ONLY <2>1, <2>2, DecimalOne \in Nat \ {0} DEF x
<1> HIDE DEF k, f
<1>5. f * s <= p * n
  <2>1. (DecimalOne * f) * s <= (p * k) * s
    <3>1. DecimalOne * f \in Nat
      BY <1>3
    <3> QED BY <1>4, <3>1, ProductOrder
  <2>2. (p * k) * s = p * (s * k)
    BY <1>1
  <2>3. p * (s * k) <= p * (n * DecimalOne)
    <3>1. s * k \in Nat /\ n * DecimalOne \in Nat
      BY <1>1
    <3> QED BY <1>1, <3>1, ProductOrder
  <2>4. (DecimalOne * f) * s = DecimalOne * (f * s) /\ p * (n * DecimalOne) = DecimalOne * (p * n)
    BY <1>3
  <2>5. f * s \in Nat /\ p * n \in Nat
    BY <1>3
  <2>6. DecimalOne * (f * s) <= DecimalOne * (p * n)
    <3>1. DecimalOne * (f * s) \in Nat /\ DecimalOne * (p * n) \in Nat /\ p * (s * k) \in Nat
      BY <1>1, <2>5
    <3> QED BY ONLY <2>1, <2>2, <2>3, <2>4, <3>1
  <2> DEFINE y == f * s
             z == p * n
  <2> HIDE DEF y, z
  <2>7. ASSUME y >= z + 1 PROVE FALSE
    <3>1. DecimalOne * (z + 1) <= DecimalOne * y
      BY <2>5, <2>7, ProductOrder DEF y, z
    <3>2. DecimalOne * (z + 1) = DecimalOne * z + DecimalOne
      BY <2>5 DEF z
    <3>3. DecimalOne * z \in Nat /\ DecimalOne * y \in Nat /\ DecimalOne * y <= DecimalOne * z
      BY <2>5, <2>6 DEF y, z
    <3> QED BY ONLY <3>1, <3>2, <3>3, DecimalOne \in Nat \ {0}
  <2> QED BY ONLY <2>5, <2>7 DEF y, z
<1>6. p * (s - n) = p * s - p * n /\ (p - f) * s = p * s - f * s
  BY <1>3
<1>7. p * s \in Nat /\ p * n \in Nat /\ f * s \in Nat
  BY <1>3
<1>8. p * (s - n) <= (p - f) * s
  BY ONLY <1>5, <1>6, <1>7
<1> QED
  BY <1>3, <1>8


(* ShareValueKept, of one step *)
ValueKept ==
  supply > 0 =>
    pool[1]' * pool[2]' * DecimalOne * supply * supply
      + (pool[1]' + pool[2]') * supply' * supply'
      >= pool[1] * pool[2] * DecimalOne * supply' * supply'

(* The step goes from the pools by way of r. *)
LEMMA ValueKeptBy ==
  ASSUME pool \in [Assets -> Nat], pool' \in [Assets -> Nat], NEW r \in [Assets -> Nat],
         supply \in Nat, supply' \in Nat, NEW e \in Nat,
         pool[1] * pool[2] * DecimalOne <= r[1] * r[2] * DecimalOne + e, e <= pool'[1] + pool'[2],
         \A i \in Assets : r[i] * supply' <= pool'[i] * supply
  PROVE  ValueKept
<1> DEFINE s == supply
           t == supply'
<1>1. /\ pool[1] \in Nat /\ pool[2] \in Nat /\ pool'[1] \in Nat /\ pool'[2] \in Nat
      /\ r[1] \in Nat /\ r[2] \in Nat /\ s \in Nat /\ t \in Nat
      /\ r[1] * t <= pool'[1] * s /\ r[2] * t <= pool'[2] * s
  BY AssetsAre
<1> HIDE DEF s, t
<1>2. pool'[1] * pool'[2] * DecimalOne * s * s + (pool'[1] + pool'[2]) * t * t
        >= pool[1] * pool[2] * DecimalOne * t * t
  BY <1>1, WorthKept
<1> QED
  BY <1>2 DEF ValueKept, s, t

LEMMA PoolNumbers ==
  /\ pool \in PoolType => pool \in [Assets -> Nat]
  /\ pool' \in PoolType => pool' \in [Assets -> Nat]
BY DEF PoolType

LEMMA StepNumbers ==
  ASSUME TypeOK, Kept, Outcome
  PROVE  /\ pool \in [Assets -> Nat] /\ pool' \in [Assets -> Nat]
         /\ supply \in Nat /\ supply' \in Nat
<1>1. lp \in LpType /\ pool \in PoolType
  BY DEF TypeOK, LpType, PoolType
<1> QED
  BY <1>1, SupplyOf, PoolNumbers DEF Outcome

LEMMA ProvideKeepsValue ==
  ASSUME TypeOK, Kept, NEW m \in Owned(1), NEW n \in Owned(2), NEW tolerance,
         ProvideLiquidity(<<m, n>>, tolerance)
  PROVE  ValueKept
<1> DEFINE d == <<m, n>>
<1>1. /\ pool \in [Assets -> Nat] /\ pool' \in [Assets -> Nat]
      /\ supply \in Nat /\ supply' \in Nat
  BY ProvideOutcome, StepNumbers
<1>2. d \in [Assets -> Nat]
  BY <1>1, AssetsAre DEF Owned
<1>3. MintShare(d, pool, tolerance) /\ pool' = AddTo(pool, d)
  BY DEF ProvideLiquidity
<1> HIDE DEF d
<1>4. \A i \in Assets : pool[i] * supply' <= pool'[i] * supply
  <2> SUFFICES ASSUME NEW i \in Assets PROVE pool[i] * supply' <= pool'[i] * supply
    OBVIOUS
  <2>1. pool[i] * supply' <= (pool[i] + d[i]) * supply
    BY <1>1, <1>2, <1>3, MintKeeps
  <2>2. pool'[i] = pool[i] + d[i]
    BY <1>3 DEF AddTo
  <2> QED BY <2>1, <2>2
<1>5. pool[1] * pool[2] * DecimalOne <= pool[1] * pool[2] * DecimalOne + 0
  BY <1>1, AssetsAre
<1>6. 0 <= pool'[1] + pool'[2]
  BY <1>1, AssetsAre
<1> QED
  BY <1>1, <1>4, <1>5, <1>6, ValueKeptBy

LEMMA WithdrawKeepsValue ==
  ASSUME TypeOK, Kept, NEW n \in 1..lp.users, WithdrawLiquidity(n)
  PROVE  ValueKept
<1>1. /\ pool \in [Assets -> Nat] /\ pool' \in [Assets -> Nat]
      /\ supply \in Nat /\ supply' \in Nat
  BY WithdrawOutcome, StepNumbers
<1>2. lp \in [users : Nat, pair : Nat] /\ n \in 0..supply /\ supply # 0 /\ supply' = supply - n
  BY DEF TypeOK, supply, WithdrawLiquidity
<1>3. \A i \in Assets : pool[i] * supply' <= pool'[i] * supply
  <2> SUFFICES ASSUME NEW i \in Assets PROVE pool[i] * supply' <= pool'[i] * supply
    OBVIOUS
  <2>1. pool'[i] = pool[i] - Scaled(pool[i], FromRatio(n, supply))
    BY DEF WithdrawLiquidity, Refund
  <2> DEFINE s == supply
             p == pool[i]
  <2>2. p \in Nat /\ s \in Nat \ {0} /\ n \in 0..s
    BY <1>1, <1>2
  <2> HIDE DEF p, s
  <2>3. p * (s - n) <= (p - Scaled(p, FromRatio(n, s))) * s
    BY <2>2, RefundKeeps
  <2> QED BY <1>2, <2>1, <2>3 DEF p, s
<1>4. pool[1] * pool[2] * DecimalOne <= pool[1] * pool[2] * DecimalOne + 0
  BY <1>1, AssetsAre
<1>5. 0 <= pool'[1] + pool'[2]
  BY <1>1, AssetsAre
<1> QED
  BY <1>1, <1>3, <1>4, <1>5, ValueKeptBy

LEMMA SwapKeepsValue ==
  ASSUME TypeOK, Kept, NEW i \in Assets, NEW n \in Owned(i), NEW belief, NEW maxSpread,
         NEW referral \in Referrals, Swap(i, n, belief, maxSpread, referral)
  PROVE  ValueKept
<1> DEFINE offer == AfterReferral(n, referral)
           swap == ComputeSwap(pool[i], pool[Other(i)], offer)
           p == PoolsAfterSwap(pool, i, offer, swap)
<1>1. /\ pool \in [Assets -> Nat] /\ pool' \in [Assets -> Nat]
      /\ supply \in Nat /\ supply' \in Nat
  BY SwapOutcome, StepNumbers
<1>2. n \in Nat /\ pool[i] + n <= TokenSupply /\ pool[i] \in Nat
  BY DEF Owned, TypeOK
<1>3. offer \in 0..n
  BY <1>2, ReferralPart DEF Swap
<1>4. pool[1] # 0 /\ pool[2] # 0
  BY DEF Swap, SwapAllowed
<1>5. lp' = lp
  BY DEF Swap
<1>6. pool' = [pool EXCEPT ![i] = @ + n - (n - offer), ![Other(i)] = @ - swap.return - swap.protocol]
  BY DEF Swap
<1> HIDE DEF offer, swap, p
<1>7. offer \in Nat /\ pool[i] + offer <= TokenSupply
  BY <1>2, <1>3
<1>8. /\ Other(i) \in Assets /\ Other(i) # i
      /\ swap.return \in Nat /\ swap.protocol \in Nat
  BY <1>4, <1>7, SwapPools DEF swap
<1>9. pool' = p
  <2>1. p = [pool EXCEPT ![i] = @ + offer, ![Other(i)] = @ - swap.protocol - swap.return]
    BY DEF p, PoolsAfterSwap
  <2>2. pool[i] + n - (n - offer) = pool[i] + offer
    BY <1>2, <1>7
  <2>3. pool[Other(i)] \in Nat
    BY <1>1, <1>8
  <2>4. pool[Other(i)] - swap.return - swap.protocol = pool[Other(i)] - swap.protocol - swap.return
    BY <1>8, <2>3
  <2> QED BY <1>6, <1>8, <2>1, <2>2, <2>4
<1>10. pool[1] * pool[2] * DecimalOne <= p[1] * p[2] * DecimalOne + (p[1] + p[2])
  BY <1>4, <1>7, SwapKeepsProduct DEF swap, p
<1>11. supply' = supply
  BY <1>5 DEF supply
<1>12. /\ \A j \in Assets : pool'[j] * supply' <= pool'[j] * supply
       /\ pool'[1] + pool'[2] \in Nat
  BY <1>1, <1>11, AssetsAre
<1>13. pool'[1] + pool'[2] <= pool'[1] + pool'[2]
  BY <1>12
<1> QED
  BY <1>1, <1>9, <1>10, <1>12, <1>13, ValueKeptBy

LEMMA SingleKeepsValue ==
  ASSUME TypeOK, Kept, NEW i \in Assets, NEW n \in Owned(i), NEW tolerance,
         ProvideSingle(i, n, tolerance)
  PROVE  ValueKept
<1> DEFINE half == n \div 2
           swap == ComputeSwap(pool[i], pool[Other(i)], half)
           p == PoolsAfterSwap(pool, i, half, swap)
           deposits == [j \in Assets |-> IF j = i THEN n - half ELSE swap.return]
<1>1. /\ pool \in [Assets -> Nat] /\ pool' \in [Assets -> Nat]
      /\ supply \in Nat /\ supply' \in Nat
  BY SingleOutcome, StepNumbers
<1>2. n \in Nat /\ pool[i] + n <= TokenSupply /\ pool[i] \in Nat
  BY DEF Owned, TypeOK
<1>3. half \in 0..n
  BY <1>2
<1>4. pool[1] # 0 /\ pool[2] # 0
  BY DEF ProvideSingle, SwapAllowed
<1>5. /\ MintShare(deposits, p, tolerance)
      /\ pool' = [pool EXCEPT ![i] = @ + n, ![Other(i)] = @ - swap.protocol]
  BY DEF ProvideSingle
<1> HIDE DEF half
<1>6. half \in Nat /\ pool[i] + half <= TokenSupply
  BY <1>2, <1>3
<1> HIDE DEF swap, p
<1>7. /\ Other(i) \in Assets /\ Other(i) # i
      /\ swap.return \in Nat /\ swap.protocol \in Nat
      /\ p \in [Assets -> Nat] /\ p[i] = pool[i] + half
      /\ p[Other(i)] = pool[Other(i)] - swap.protocol - swap.return
  BY <1>4, <1>6, SwapPools DEF swap, p, PoolType
<1>8. deposits \in [Assets -> Nat]
  BY <1>2, <1>3, <1>7
<1>9. pool[1] * pool[2] * DecimalOne <= p[1] * p[2] * DecimalOne + (p[1] + p[2])
  BY <1>4, <1>6, SwapKeepsProduct DEF swap, p
<1>10. \A j \in Assets : pool'[j] = p[j] + deposits[j]
  <2>1. pool'[i] = p[i] + deposits[i]
    BY <1>1, <1>2, <1>3, <1>5, <1>7
  <2>2. pool'[Other(i)] = p[Other(i)] + deposits[Other(i)]
    <3>1. pool'[Other(i)] = pool[Other(i)] - swap.protocol /\ pool[Other(i)] \in Nat
      BY <1>1, <1>5, <1>7
    <3>2. deposits[Other(i)] = swap.return
      BY <1>7
    <3> QED BY <1>7, <3>1, <3>2
  <2>3. \A j \in Assets : j = i \/ j = Other(i)
    BY AssetsAre
  <2> QED BY <2>1, <2>2, <2>3
<1> HIDE DEF deposits
<1>11. \A j \in Assets : p[j] * supply' <= pool'[j] * supply
  <2> SUFFICES ASSUME NEW j \in Assets PROVE p[j] * supply' <= pool'[j] * supply
    OBVIOUS
  <2>1. p[j] * supply' <= (p[j] + deposits[j]) * supply
    BY <1>5, <1>7, <1>8, MintKeeps
  <2> QED BY <1>10, <2>1
<1>12. p[1] + p[2] \in Nat /\ p[1] + p[2] <= pool'[1] + pool'[2]
  <2>1. /\ p[1] \in Nat /\ p[2] \in Nat /\ deposits[1] \in Nat /\ deposits[2] \in Nat
        /\ pool'[1] = p[1] + deposits[1] /\ pool'[2] = p[2] + deposits[2]
    BY <1>7, <1>8, <1>10, AssetsAre
  <2> QED BY ONLY <2>1
<1> QED
  BY <1>1, <1>7, <1>9, <1>11, <1>12, ValueKeptBy

LEMMA NextKeepsValue ==
  ASSUME TypeOK, Kept, Next
  PROVE  ValueKept
<1>1. ASSUME NEW m \in Owned(1), NEW n \in Owned(2), ProvideFirst(<<m, n>>)
      PROVE  ValueKept
  BY <1>1 DEF ProvideFirst, ValueKept
<1>2. ASSUME NEW m \in Owned(1), NEW n \in Owned(2), NEW tolerance \in Slippages,
             ProvideLiquidity(<<m, n>>, tolerance)
      PROVE  ValueKept
  BY <1>2, ProvideKeepsValue
<1>3. ASSUME NEW i \in Assets, NEW n \in Owned(i), NEW tolerance \in Slippages, ProvideSingle(i, n, tolerance)
      PROVE  ValueKept
  BY <1>3, SingleKeepsValue
<1>4. ASSUME NEW n \in 1..lp.users, WithdrawLiquidity(n)
      PROVE  ValueKept
  BY <1>4, WithdrawKeepsValue
<1>5. ASSUME NEW i \in Assets, NEW n \in Owned(i), NEW belief \in Beliefs, NEW maxSpread \in Slippages,
             NEW referral \in Referrals, Swap(i, n, belief, maxSpread, referral)
      PROVE  ValueKept
  BY <1>5, SwapKeepsValue
<1>6. ASSUME lp' = lp, pool' \in [Assets -> Nat], \A i \in Assets : pool[i] <= pool'[i]
      PROVE  ValueKept
  <2>1. pool \in [Assets -> Nat] /\ lp \in LpType
    BY DEF TypeOK, LpType
  <2>2. supply' = supply /\ supply \in Nat
    BY <1>6, <2>1, SupplyOf DEF supply
  <2>3. \A i \in Assets : pool[i] * supply' <= pool'[i] * supply
    BY <1>6, <2>1, <2>2, ProductOrder
  <2>4. pool[1] * pool[2] * DecimalOne <= pool[1] * pool[2] * DecimalOne + 0 /\ 0 <= pool'[1] + pool'[2]
    BY <1>6, <2>1, AssetsAre
  <2> QED BY <1>6, <2>1, <2>2, <2>3, <2>4, ValueKeptBy
<1>7. ASSUME NEW i \in Assets, NEW n \in Owned(i), Donate(i, n)
      PROVE  ValueKept
  <2>1. lp' = lp /\ pool' \in [Assets -> Nat] /\ \A j \in Assets : pool[j] <= pool'[j]
    BY <1>7 DEF Donate, Owned, TypeOK
  <2> QED BY <1>6, <2>1
<1>8. CASE UNCHANGED <<pool, lp>>
  <2>1. pool' \in [Assets -> Nat] /\ \A j \in Assets : pool[j] <= pool'[j]
    BY <1>8 DEF TypeOK
  <2> QED BY <1>6, <1>8, <2>1
<1>9. CASE Tick \/ ChangeMigration \/ \E new \in FeeConfigs : UpdateFees(new)
  BY <1>8, <1>9 DEF Tick, ChangeMigration, UpdateFees
<1> QED
  BY <1>1, <1>2, <1>3, <1>4, <1>5, <1>7, <1>9 DEF Next

(* No message, no sequence of them and no rounding takes from what an LP    *)
(* token is worth, but for the last digit of compute_swap, whatever the     *)
(* pools, fees, referrals and supplies.                                     *)
THEOREM ShareValueAlwaysKept == Spec => ShareValueKept
<1>1. TypeOK /\ Kept /\ [Next]_vars => (TypeOK /\ Kept)'
  BY NextType
<1>2. TypeOK /\ Kept /\ [Next]_vars =>
        [supply > 0 =>
           pool[1]' * pool[2]' * DecimalOne * supply * supply
             + (pool[1]' + pool[2]') * supply' * supply'
             >= pool[1] * pool[2] * DecimalOne * supply' * supply']_vars
  BY NextKeepsValue DEF ValueKept
<1> QED
  BY <1>1, <1>2, InitType, PTL DEF Spec, ShareValueKept


----------------------------------------------------------------------------
(* The cumulative prices *)

(* A quotient and a remainder are the only ones. *)
LEMMA DivUnique ==
  ASSUME NEW m \in Nat \ {0}, NEW q \in Nat, NEW r \in 0..(m - 1), NEW n \in Nat, n = m * q + r
  PROVE  n \div m = q /\ n % m = r
<1> DEFINE x == n \div m
           y == n % m
<1>1. x \in Nat /\ y \in 0..(m - 1) /\ n = m * x + y
  OBVIOUS
<1> HIDE DEF x, y
<1>2. m * q \in Nat /\ m * x \in Nat
  BY <1>1
<1>3. ASSUME x >= q + 1 PROVE FALSE
  <2>1. m * (q + 1) <= m * x
    BY <1>1, <1>3, ProductOrder
  <2>2. m * (q + 1) = m * q + m
    OBVIOUS
  <2> QED BY ONLY <1>1, <1>2, <2>1, <2>2, m \in Nat \ {0}, r \in 0..(m - 1), n = m * q + r
<1>4. ASSUME q >= x + 1 PROVE FALSE
  <2>1. m * (x + 1) <= m * q
    BY <1>1, <1>4, ProductOrder
  <2>2. m * (x + 1) = m * x + m
    BY <1>1
  <2> QED BY ONLY <1>1, <1>2, <2>1, <2>2, m \in Nat \ {0}, r \in 0..(m - 1), n = m * q + r
<1>5. x = q
  BY ONLY <1>1, <1>3, <1>4, q \in Nat
<1>6. y = r
  BY ONLY <1>1, <1>2, <1>5, n = m * q + r, r \in 0..(m - 1), m \in Nat \ {0}
<1> QED
  BY <1>5, <1>6 DEF x, y

LEMMA DivMod ==
  ASSUME NEW n \in Nat, NEW m \in Nat \ {0}
  PROVE  n \div m \in Nat /\ n % m \in 0..(m - 1) /\ n = m * (n \div m) + (n % m)
OBVIOUS

(* What is divided in one piece gives at most one more than in two. *)
LEMMA DivOfSum ==
  ASSUME NEW a \in Nat, NEW b \in Nat, NEW m \in Nat \ {0}, NEW n \in Nat, n = a + b
  PROVE  (n \div m) - ((a \div m) + (b \div m)) \in 0..1
<1> DEFINE q == a \div m
           r == a % m
           s == b \div m
           t == b % m
<1>1. q \in Nat /\ r \in 0..(m - 1) /\ a = m * q + r
  BY DivMod
<1>2. s \in Nat /\ t \in 0..(m - 1) /\ b = m * s + t
  BY DivMod
<1> HIDE DEF q, r, s, t
<1>3. m * q \in Nat /\ m * s \in Nat /\ m * (q + s) = m * q + m * s
  BY <1>1, <1>2
<1>4. CASE r + t < m
  <2> DEFINE k == q + s
             u == r + t
  <2>1. u \in 0..(m - 1) /\ k \in Nat /\ n \in Nat /\ n = m * k + u
    BY ONLY <1>1, <1>2, <1>3, <1>4, n = a + b, a \in Nat, b \in Nat, m \in Nat \ {0}
  <2> HIDE DEF k, u
  <2>2. n \div m = k
    BY <2>1, DivUnique
  <2>3. (n \div m) - (q + s) = 0
    BY <1>1, <1>2, <2>2 DEF k
  <2> QED BY <2>3 DEF q, s
<1>5. CASE ~(r + t < m)
  <2>1. m * (q + s + 1) = m * (q + s) + m
    BY <1>1, <1>2
  <2> DEFINE k == q + s + 1
             u == (r + t) - m
  <2>2. u \in 0..(m - 1) /\ k \in Nat /\ n \in Nat /\ n = m * k + u
    BY ONLY <1>1, <1>2, <1>3, <1>5, <2>1, n = a + b, a \in Nat, b \in Nat, m \in Nat \ {0}
  <2> HIDE DEF k, u
  <2>3. n \div m = k
    BY <2>2, DivUnique
  <2>4. (n \div m) - (q + s) = 1
    BY <1>1, <1>2, <2>3 DEF k
  <2> QED BY <2>4 DEF q, s
<1> QED
  BY <1>4, <1>5

LEMMA ModOfSum ==
  ASSUME NEW a \in Nat, NEW b \in Nat, NEW m \in Nat \ {0}
  PROVE  ((a % m) + b) % m = (a + b) % m
<1> DEFINE q == a \div m
           r == a % m
           s == (r + b) \div m
           t == (r + b) % m
<1>1. q \in Nat /\ r \in 0..(m - 1) /\ a = m * q + r
  BY DivMod
<1>2. r + b \in Nat
  BY <1>1
<1>3. s \in Nat /\ t \in 0..(m - 1) /\ r + b = m * s + t
  BY <1>2, DivMod
<1>4. ((a % m) + b) % m = t
  OBVIOUS
<1> HIDE DEF q, r, s, t
<1>5. m * q \in Nat /\ m * s \in Nat /\ m * (q + s) = m * q + m * s
  BY <1>1, <1>3
<1>6. q + s \in Nat /\ a + b \in Nat /\ a + b = m * (q + s) + t
  BY ONLY <1>1, <1>2, <1>3, <1>5, a \in Nat, b \in Nat
<1>7. (a + b) % m = t
  BY <1>3, <1>6, DivUnique
<1> QED
  BY <1>4, <1>7

LEMMA SmallMod ==
  ASSUME NEW m \in Nat \ {0}, NEW r \in 0..(m - 1)
  PROVE  r % m = r
<1>1. r \in Nat /\ r = m * 0 + r
  OBVIOUS
<1> QED
  BY <1>1, DivUnique

(* The price of some time, and of a second more. *)
LEMMA OverTime ==
  ASSUME NEW x \in Nat \ {0}, NEW y \in Nat, NEW k \in Nat
  PROVE  /\ PriceOverTime(x, y, k) \in Nat
         /\ PriceOverTime(x, y, 0) = 0
         /\ PriceOverTime(x, y, 1) \in Nat /\ PriceOverTime(x, y, k + 1) \in Nat
         /\ PriceOverTime(x, y, k + 1) - (PriceOverTime(x, y, k) + PriceOverTime(x, y, 1)) \in 0..1
<1> DEFINE a == k * PricePrecision * y
           b == 1 * PricePrecision * y
<1>1. a \in Nat /\ b \in Nat
  <2>1. k * PricePrecision \in Nat /\ 1 * PricePrecision \in Nat
    OBVIOUS
  <2> QED BY <2>1
<1>2. (k + 1) * PricePrecision * y = a + b
  OBVIOUS
<1>3. 0 * PricePrecision * y = 0
  OBVIOUS
<1>4. /\ PriceOverTime(x, y, k) = a \div x
      /\ PriceOverTime(x, y, 1) = b \div x
      /\ PriceOverTime(x, y, k + 1) = ((k + 1) * PricePrecision * y) \div x
      /\ PriceOverTime(x, y, 0) = (0 * PricePrecision * y) \div x
  BY DEF PriceOverTime
<1> HIDE DEF a, b
<1>5. a \div x \in Nat /\ b \div x \in Nat
  BY <1>1, DivMod
<1>6. 0 \div x = 0
  BY DivUnique, 0 = x * 0 + 0, 0 \in 0..(x - 1)
<1> DEFINE n == (k + 1) * PricePrecision * y
<1>7. n = a + b
  BY <1>2
<1> HIDE DEF n
<1>8. (n \div x) - ((a \div x) + (b \div x)) \in 0..1 /\ n \div x \in Nat
  <2>1. n \in Nat
    BY <1>1, <1>7
  <2> QED BY <1>1, <1>7, <2>1, DivOfSum, DivMod
<1>9. PriceOverTime(x, y, k + 1) = n \div x
  BY <1>4 DEF n
<1>10. PriceOverTime(x, y, 0) = 0
  BY <1>3, <1>4, <1>6
<1> QED
  BY <1>4, <1>5, <1>8, <1>9, <1>10


(* what the pair answers as the cumulative price of asset i *)
LEMMA PriceNow ==
  ASSUME TypeOK, NEW i \in Assets
  PROVE  LET k == now - cumulative.last IN
         /\ k \in Nat /\ cumulative.price[i] \in 0..(Modulus - 1)
         /\ CumulativeNow(pool).price[i] =
              IF pool[1] = 0 \/ pool[2] = 0 THEN cumulative.price[i]
              ELSE (cumulative.price[i] + PriceOverTime(pool[i], pool[Other(i)], k)) % Modulus
<1> DEFINE k == now - cumulative.last
           c == cumulative.price[i]
<1>1. /\ cumulative \in [last : 0..now, price : [Assets -> 0..(Modulus - 1)]]
      /\ now \in Nat /\ pool \in [Assets -> 0..TokenSupply]
  BY DEF TypeOK
<1>2. k \in Nat /\ c \in 0..(Modulus - 1)
  BY <1>1
<1>3. CASE now <= cumulative.last
  <2>1. CumulativeNow(pool).price[i] = c /\ k = 0
    BY <1>1, <1>3 DEF CumulativeNow
  <2> HIDE DEF k, c
  <2>2. ASSUME pool[1] # 0, pool[2] # 0
        PROVE  (c + PriceOverTime(pool[i], pool[Other(i)], k)) % Modulus = c
    <3>1. pool[i] \in Nat \ {0} /\ pool[Other(i)] \in Nat
      BY <1>1, <2>2, AssetsAre
    <3>2. PriceOverTime(pool[i], pool[Other(i)], k) = 0
      BY <1>2, <2>1, <3>1, OverTime
    <3>3. c + 0 = c
      BY <1>2
    <3>4. c % Modulus = c
      BY <1>2, SmallMod
    <3> QED BY <3>2, <3>3, <3>4
  <2> QED BY <1>2, <2>1, <2>2 DEF k, c
<1>4. CASE ~(now <= cumulative.last)
  <2>1. CumulativeNow(pool).price[i] =
          IF pool[1] = 0 \/ pool[2] = 0 THEN c
          ELSE (c + PriceOverTime(pool[i], pool[Other(i)], k)) % Modulus
    BY <1>1, <1>4 DEF CumulativeNow
  <2> QED BY <1>2, <2>1
<1> QED
  BY <1>3, <1>4

(* CumulativePrices, of one step and one asset *)
Accumulates(i) ==
  \E digit \in 0..(now' - now) :
    CumulativeNow(pool)'.price[i] =
      (CumulativeNow(pool).price[i]
         + IF pool[1] = 0 \/ pool[2] = 0 THEN 0
           ELSE PriceOverTime(pool[i], pool[Other(i)], now' - now) + digit) % Modulus

(* A message leaves the answer as it was. *)
LEMMA SameAnswer ==
  ASSUME TypeOK, now' = now, CumulativeNow(pool)' = CumulativeNow(pool), NEW i \in Assets
  PROVE  Accumulates(i)
<1> DEFINE a == CumulativeNow(pool).price[i]
           over == IF pool[1] = 0 \/ pool[2] = 0 THEN 0
                   ELSE PriceOverTime(pool[i], pool[Other(i)], now' - now) + 0
<1>1. now \in Nat /\ a \in 0..(Modulus - 1) /\ pool \in [Assets -> 0..TokenSupply]
  BY CumulativeType DEF TypeOK
<1>2. now' - now = 0 /\ 0 \in 0..(now' - now)
  BY <1>1
<1>3. over = 0
  <2> SUFFICES ASSUME pool[1] # 0, pool[2] # 0
               PROVE  PriceOverTime(pool[i], pool[Other(i)], 0) = 0
    BY <1>2
  <2>1. pool[i] \in Nat \ {0} /\ pool[Other(i)] \in Nat
    BY <1>1, AssetsAre
  <2> QED BY <2>1, OverTime
<1> HIDE DEF a
<1>4. a % Modulus = a /\ a + 0 = a
  BY <1>1, SmallMod
<1>5. CumulativeNow(pool)'.price[i] = a
  BY DEF a
<1>6. CumulativeNow(pool)'.price[i] = (a + over) % Modulus
  <2> HIDE DEF over
  <2> QED BY <1>3, <1>4, <1>5
<1> QED
  BY <1>2, <1>6 DEF Accumulates, a

(* A second adds its price, and the digit that rounding once more would cut. *)
LEMMA TickAccumulates ==
  ASSUME TypeOK, TypeOK', Tick, NEW i \in Assets
  PROVE  Accumulates(i)
<1> DEFINE k == now - cumulative.last
           c == cumulative.price[i]
           x == pool[i]
           y == pool[Other(i)]
<1>1. /\ now' = now + 1 /\ pool' = pool /\ cumulative' = cumulative
      /\ now \in Nat /\ cumulative.last \in 0..now /\ pool \in [Assets -> 0..TokenSupply]
  BY DEF Tick, TypeOK
<1>2. now' - now = 1 /\ now' - cumulative.last = k + 1 /\ k \in Nat
  BY <1>1
<1>3. /\ c \in 0..(Modulus - 1)
      /\ CumulativeNow(pool).price[i] =
           IF pool[1] = 0 \/ pool[2] = 0 THEN c
           ELSE (c + PriceOverTime(x, y, k)) % Modulus
  BY PriceNow
<1>4. CumulativeNow(pool)'.price[i] =
        IF pool[1] = 0 \/ pool[2] = 0 THEN c
        ELSE (c + PriceOverTime(x, y, k + 1)) % Modulus
  <2>2. CumulativeNow(pool)' = IF now + 1 <= cumulative.last THEN cumulative
          ELSE IF pool[1] = 0 \/ pool[2] = 0 THEN [cumulative EXCEPT !.last = now + 1]
          ELSE [last |-> now + 1,
                price |-> [j \in Assets |->
                  (cumulative.price[j] + PriceOverTime(pool[j], pool[Other(j)], (now + 1) - cumulative.last))
                     % Modulus]]
    BY <1>1 DEF CumulativeNow, PriceOverTime
  <2>3. ~(now + 1 <= cumulative.last) /\ (now + 1) - cumulative.last = k + 1
    BY <1>1
  <2>4. cumulative \in [last : 0..now, price : [Assets -> 0..(Modulus - 1)]]
    BY DEF TypeOK
  <2> HIDE DEF k
  <2> QED BY <2>2, <2>3, <2>4
<1>5. CASE pool[1] = 0 \/ pool[2] = 0
  <2>1. c + 0 = c /\ c % Modulus = c
    BY <1>3, SmallMod
  <2>2. 0 \in 0..(now' - now)
    BY <1>2
  <2>3. CumulativeNow(pool)'.price[i] = (CumulativeNow(pool).price[i] + 0) % Modulus
    BY <1>3, <1>4, <1>5, <2>1
  <2> QED BY <1>5, <2>2, <2>3 DEF Accumulates
<1>6. CASE pool[1] # 0 /\ pool[2] # 0
  <2> DEFINE f == PriceOverTime(x, y, k)
             g == PriceOverTime(x, y, 1)
             h == PriceOverTime(x, y, k + 1)
             digit == h - (f + g)
  <2>1. x \in Nat \ {0} /\ y \in Nat
    BY <1>1, <1>6, AssetsAre
  <2>2. f \in Nat /\ g \in Nat /\ h \in Nat /\ digit \in 0..1
    BY <1>2, <2>1, OverTime
  <2>3. CumulativeNow(pool).price[i] = (c + f) % Modulus
    BY <1>3, <1>6
  <2>4. CumulativeNow(pool)'.price[i] = (c + h) % Modulus
    BY <1>4, <1>6
  <2>5. PriceOverTime(x, y, now' - now) = g
    BY <1>2
  <2> HIDE DEF f, g, c, k
  <2>6. /\ c + f \in Nat /\ g + digit \in Nat
        /\ (c + f) + (g + digit) = c + h
    BY <1>3, <2>2
  <2> HIDE DEF h, digit
  <2>7. (((c + f) % Modulus) + (g + digit)) % Modulus = (c + h) % Modulus
    <3> DEFINE a == c + f
               b == g + digit
               n == c + h
    <3>1. n = a + b
      BY ONLY <2>6 DEF a, b, n
    <3>2. a \in Nat /\ b \in Nat /\ Modulus \in Nat \ {0}
      BY <2>6
    <3> HIDE DEF a, b, n
    <3>3. ((a % Modulus) + b) % Modulus = (a + b) % Modulus
      BY ONLY <3>2, ModOfSum
    <3>4. ((a % Modulus) + b) % Modulus = n % Modulus
      BY ONLY <3>1, <3>3
    <3> QED BY ONLY <3>4 DEF a, b, n
  <2>8. digit \in 0..(now' - now)
    BY <1>2, <2>2
  <2>9. CumulativeNow(pool)'.price[i] =
          (CumulativeNow(pool).price[i] + (PriceOverTime(x, y, now' - now) + digit)) % Modulus
    BY <2>3, <2>4, <2>5, <2>7
  <2> QED BY <1>6, <2>8, <2>9 DEF Accumulates
<1> QED
  BY <1>5, <1>6

(* What was accumulated in this second is not accumulated again. *)
LEMMA StoredAnswer ==
  ASSUME TypeOK, now' = now, cumulative' = CumulativeNow(pool)
  PROVE  CumulativeNow(pool)' = CumulativeNow(pool)
<1>1. CumulativeNow(pool).last >= now
  BY DEF CumulativeNow, TypeOK
<1>2. CumulativeNow(pool)' = IF now' <= cumulative'.last THEN cumulative' ELSE CumulativeNow(pool)'
  BY DEF CumulativeNow
<1>3. now' <= cumulative'.last
  <2>1. CumulativeNow(pool).last \in 0..now /\ now \in Nat
    BY CumulativeType DEF TypeOK
  <2> QED BY <1>1, <2>1
<1> QED
  BY <1>2, <1>3

LEMMA NextAccumulates ==
  ASSUME TypeOK, Kept, Next, ~Donating, NEW i \in Assets
  PROVE  Accumulates(i)
<1>1. TypeOK'
  BY NextType
<1>2. CASE Tick
  BY <1>1, <1>2, TickAccumulates
<1>3. CASE Outcome
  BY <1>3, StoredAnswer, SameAnswer DEF Outcome
<1>4. ASSUME now' = now, pool' = pool, cumulative' = cumulative PROVE Accumulates(i)
  <2>1. CumulativeNow(pool)' = CumulativeNow(pool)
    BY <1>4 DEF CumulativeNow, PriceOverTime
  <2> QED BY <1>4, <2>1, SameAnswer
<1>5. CASE ChangeMigration \/ \E new \in FeeConfigs : UpdateFees(new)
  BY <1>4, <1>5 DEF ChangeMigration, UpdateFees
<1>6. ASSUME ~Outcome
      PROVE  Tick \/ ChangeMigration \/ \E new \in FeeConfigs : UpdateFees(new)
  BY <1>6, ProvideFirstOutcome, ProvideOutcome, SingleOutcome, WithdrawOutcome, SwapOutcome
     DEF Next, Donating
<1> QED
  BY <1>2, <1>3, <1>5, <1>6

(* The cumulative prices follow the pools second by second, whenever they   *)
(* are stored and however often they have wrapped around.                   *)
THEOREM CumulativePricesFollow == Spec => CumulativePrices
<1>1. TypeOK /\ Kept /\ [Next]_vars => (TypeOK /\ Kept)'
  BY NextType
<1>2. TypeOK /\ Kept /\ [Next]_vars =>
        [~Donating =>
           \A i \in Assets : \E digit \in 0..(now' - now) :
             CumulativeNow(pool)'.price[i] =
               (CumulativeNow(pool).price[i]
                  + IF pool[1] = 0 \/ pool[2] = 0 THEN 0
                    ELSE PriceOverTime(pool[i], pool[Other(i)], now' - now) + digit) % Modulus]_vars
  BY NextAccumulates DEF Accumulates
<1> QED
  BY <1>1, <1>2, InitType, PTL DEF Spec, CumulativePrices
=============================================================================
