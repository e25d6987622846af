--------------------------- MODULE FeeFlowProofs ---------------------------
(***************************************************************************)
(* Theorems about the fee contracts, for any assets, pools, routes, depth  *)
(* of routes, requests, recipients and weights.                            *)
(***************************************************************************)
EXTENDS FeeFlow, TokenUnitsProofs

USE WeightAssumption, TokenAssumption DEF ValidWeights

----------------------------------------------------------------------------
(* The splitter *)

(* Amounts that are all multiplied sum to a multiple. *)
LEMMA TotalTimes ==
  ASSUME NEW S, IsFiniteSet(S), NEW f \in [S -> Nat], NEW c \in Nat,
         NEW g \in [S -> Nat], \A x \in S : g[x] = c * f[x]
  PROVE  Total(g, S) = c * Total(f, S) /\ Total(f, S) \in Nat
<1> DEFINE G == {R \in SUBSET S : Total(g, R) = c * Total(f, R)}
<1>1. {} \in G
  <2>1. Total(g, {}) = 0 /\ Total(f, {}) = 0
    BY TotalZero
  <2> QED BY <2>1
<1>2. ASSUME NEW R \in G, NEW x \in S \ R PROVE R \cup {x} \in G
  <2>1. R \in SUBSET S /\ Total(g, R) = c * Total(f, R)
    OBVIOUS
  <2>2. Total(g, R \cup {x}) = Total(g, R) + g[x]
    BY <2>1, TotalOneMore
  <2>3. Total(f, R \cup {x}) = Total(f, R) + f[x] /\ Total(f, R) \in Nat
    BY <2>1, TotalOneMore
  <2>4. c * (Total(f, R) + f[x]) = c * Total(f, R) + c * f[x]
    BY <2>3
  <2>5. Total(g, R \cup {x}) = c * Total(f, R \cup {x})
    BY <2>1, <2>2, <2>3, <2>4
  <2> QED BY <2>1, <2>5
<1>3. S \in G
  <2> HIDE DEF G
  <2>1. G \in SUBSET (SUBSET S)
    BY DEF G
  <2> QED BY <1>1, <1>2, <2>1, GrowingParts
<1>4. Total(f, S) \in Nat
  BY UnitsFinite
<1> QED
  BY <1>3, <1>4

(* The sum of the same amount for each key. *)
LEMMA TotalOfSame ==
  ASSUME NEW S, IsFiniteSet(S), NEW c \in Nat, NEW f \in [S -> Nat], \A x \in S : f[x] = c
  PROVE  Total(f, S) = c * Cardinality(S) /\ Cardinality(S) \in Nat
<1> DEFINE one == [x \in S |-> 1]
<1>1. one \in [S -> Nat] /\ \A x \in S : one[x] = 1
  OBVIOUS
<1> HIDE DEF one
<1>2. Total(one, S) = Cardinality(S)
  <2> DEFINE b == [x \in S |-> <<x, 1>>]
  <2>1. Units(one, S) = {<<x, 1>> : x \in S}
    <3>1. \A x \in S : {x} \X (1..one[x]) = {<<x, 1>>}
      BY <1>1
    <3> QED BY <3>1 DEF Units
  <2>2. b \in Bijection(S, Units(one, S))
    BY <2>1 DEF Bijection, Injection, Surjection, IsInjective
  <2>3. Cardinality(Units(one, S)) = Cardinality(S)
    <3> HIDE DEF b
    <3> QED BY <2>2, FS_Bijection DEF ExistsBijection
  <2> QED BY <2>3 DEF Total
<1>3. \A x \in S : f[x] = c * one[x]
  BY <1>1
<1>4. Cardinality(S) \in Nat
  BY FS_CardinalityType
<1>5. Total(f, S) = c * Total(one, S)
  BY <1>1, <1>3, TotalTimes
<1> QED
  BY <1>2, <1>4, <1>5

(* What all shares of an amount leave of it: less than one unit for each. *)
LEMMA ShareSum ==
  ASSUME NEW amount \in Nat, NEW share \in [Recipients -> Nat],
         \A r \in Recipients : share[r] = Share(r, amount)
  PROVE  /\ Total(share, Recipients) \in Nat
         /\ Cardinality(Recipients) \in Nat
         /\ Total(share, Recipients) <= amount
         /\ amount < Total(share, Recipients) + Cardinality(Recipients)
<1> DEFINE weighted == [r \in Recipients |-> amount * Weight[r]]
           whole == [r \in Recipients |-> WeightOne * share[r]]
           lost == [r \in Recipients |-> (amount * Weight[r]) % WeightOne]
           digit == [r \in Recipients |-> WeightOne - 1]
           S == Total(share, Recipients)
           n == Cardinality(Recipients)
<1>1. ASSUME NEW r \in Recipients
      PROVE  /\ amount * Weight[r] \in Nat
             /\ (amount * Weight[r]) % WeightOne \in 0..(WeightOne - 1)
             /\ amount * Weight[r] = WeightOne * share[r] + ((amount * Weight[r]) % WeightOne)
             /\ WeightOne * share[r] \in Nat
  <2> DEFINE x == amount * Weight[r]
  <2>1. x \in Nat
    OBVIOUS
  <2> HIDE DEF x
  <2>2. x % WeightOne \in 0..(WeightOne - 1) /\ x = WeightOne * (x \div WeightOne) + (x % WeightOne)
    BY <2>1
  <2>3. share[r] = x \div WeightOne
    BY DEF Share, x
  <2>4. share[r] \in Nat /\ WeightOne \in Nat
    OBVIOUS
  <2>5. WeightOne * share[r] \in Nat
    BY ONLY <2>4
  <2>6. x = WeightOne * share[r] + (x % WeightOne)
    BY ONLY <2>2, <2>3
  <2> QED BY ONLY <2>1, <2>2, <2>5, <2>6 DEF x
<1>2. /\ weighted \in [Recipients -> Nat] /\ whole \in [Recipients -> Nat]
      /\ lost \in [Recipients -> Nat] /\ digit \in [Recipients -> Nat]
  BY <1>1
<1>3. /\ Total(weighted, Recipients) = amount * WeightOne
  <2>1. \A r \in Recipients : weighted[r] = amount * Weight[r]
    OBVIOUS
  <2>2. Weight \in [Recipients -> Nat] /\ Total(Weight, Recipients) = WeightOne
    OBVIOUS
  <2>3. IsFiniteSet(Recipients)
    OBVIOUS
  <2> HIDE DEF weighted
  <2>4. weighted \in [Recipients -> Nat]
    BY <1>2
  <2> QED BY ONLY <2>1, <2>2, <2>3, <2>4, amount \in Nat, TotalTimes
<1>4. Total(whole, Recipients) = WeightOne * S /\ S \in Nat
  <2>1. \A r \in Recipients : whole[r] = WeightOne * share[r]
    OBVIOUS
  <2> HIDE DEF whole
  <2> QED BY <1>2, <2>1, TotalTimes
<1>5. Total(digit, Recipients) = (WeightOne - 1) * n /\ n \in Nat
  <2>1. \A r \in Recipients : digit[r] = WeightOne - 1
    OBVIOUS
  <2> HIDE DEF digit
  <2> QED BY <1>2, <2>1, TotalOfSame
<1>6. /\ Total(weighted, Recipients) = Total(whole, Recipients) + Total(lost, Recipients)
      /\ Total(lost, Recipients) \in Nat
  <2>1. \A r \in Recipients : weighted[r] = whole[r] + lost[r]
    BY <1>1
  <2> HIDE DEF weighted, whole, lost
  <2> QED BY <1>2, <2>1, TotalSum
<1>7. Total(lost, Recipients) <= Total(digit, Recipients)
  <2>1. \A r \in Recipients : lost[r] <= digit[r]
    BY <1>1
  <2> HIDE DEF lost, digit
  <2> QED BY <1>2, <2>1, TotalMonotone
<1>8. n > 0
  <2>1. n # 0
    <3> SUFFICES ASSUME n = 0 PROVE FALSE
      OBVIOUS
    <3>1. Recipients = {}
      BY FS_EmptySet
    <3>2. Total(Weight, Recipients) = 0
      BY <3>1, TotalZero
    <3> QED BY <3>2
  <2> QED BY <1>5, <2>1
<1> DEFINE L == Total(lost, Recipients)
<1>9. amount * WeightOne = WeightOne * S + L /\ L \in Nat /\ L <= (WeightOne - 1) * n
  BY <1>3, <1>4, <1>5, <1>6, <1>7
<1> HIDE DEF L, S, n
<1>10. S <= amount
  <2> SUFFICES ASSUME amount + 1 <= S PROVE FALSE
    BY <1>4
  <2>1. WeightOne * (S - amount) \in Nat /\ WeightOne * (S - (amount + 1)) \in Nat
    BY <1>4
  <2>2. WeightOne * (S - (amount + 1)) = WeightOne * S - (amount * WeightOne + WeightOne)
    BY <1>4
  <2> QED BY <1>4, <1>9, <2>1, <2>2
<1>11. amount < S + n
  <2> SUFFICES ASSUME S + n <= amount PROVE FALSE
    BY <1>4, <1>5
  <2>1. WeightOne * (amount - (S + n)) \in Nat
    BY <1>4, <1>5
  <2>2. /\ WeightOne * (amount - (S + n)) = amount * WeightOne - (WeightOne * S + WeightOne * n)
        /\ WeightOne * S \in Nat /\ WeightOne * n \in Nat /\ amount * WeightOne \in Nat
    BY <1>4, <1>5
  <2>3. (WeightOne - 1) * n = WeightOne * n - n
    BY <1>5
  <2>4. L <= WeightOne * n - n
    BY <1>9, <2>3
  <2>5. amount * WeightOne >= WeightOne * S + WeightOne * n
    BY <2>1, <2>2
  <2> QED BY ONLY <1>5, <1>8, <1>9, <2>2, <2>4, <2>5
<1> QED
  BY <1>4, <1>5, <1>10, <1>11 DEF S, n


(* how often a split pays the shares of a token *)
Times(denoms, listed, t) == IF t \in Denoms THEN IF t \in denoms THEN 1 ELSE 0 ELSE listed[t]

Shares(t) == [r \in Recipients |-> Share(r, held[t])]

LEMMA SharesType ==
  ASSUME SplitterTypeOK, NEW t \in Splittable
  PROVE  /\ held[t] \in Nat
         /\ Shares(t) \in [Recipients -> Nat]
         /\ Total(Shares(t), Recipients) \in Nat
         /\ Cardinality(Recipients) \in Nat
         /\ Total(Shares(t), Recipients) <= held[t]
         /\ held[t] < Total(Shares(t), Recipients) + Cardinality(Recipients)
<1>1. held[t] \in Nat
  BY DEF SplitterTypeOK
<1>2. ASSUME NEW r \in Recipients PROVE Share(r, held[t]) \in Nat
  BY <1>1 DEF Share
<1> DEFINE amount == held[t]
           share == Shares(t)
<1>3. amount \in Nat /\ share \in [Recipients -> Nat] /\ \A r \in Recipients : share[r] = Share(r, amount)
  BY <1>1, <1>2 DEF Shares
<1> HIDE DEF amount, share
<1>4. /\ Total(share, Recipients) \in Nat /\ Cardinality(Recipients) \in Nat
      /\ Total(share, Recipients) <= amount /\ amount < Total(share, Recipients) + Cardinality(Recipients)
  BY <1>3, ShareSum
<1> QED
  BY <1>3, <1>4 DEF amount, share

(* What a split does with one token. *)
SplitOf(times, t) ==
  /\ held'[t] = held[t] - times * Total(Shares(t), Recipients)
  /\ held'[t] \in Nat
  /\ \A r \in Recipients : paid'[r][t] = paid[r][t] + times * Share(r, held[t])
  /\ t \in Cw20s /\ times > 0 /\ held[t] > 0 => \A r \in Recipients : Share(r, held[t]) > 0

LEMMA SendTokensSplits ==
  ASSUME SplitterTypeOK, NEW denoms \in SUBSET Denoms, NEW listed \in [Cw20s -> 0..MaxListed],
         SendTokens(denoms, listed)
  PROVE  /\ SplitterTypeOK'
         /\ \A t \in Splittable : Times(denoms, listed, t) \in Nat /\ SplitOf(Times(denoms, listed, t), t)
<1> DEFINE times == [t \in Splittable |-> IF t \in Denoms THEN IF t \in denoms THEN 1 ELSE 0 ELSE listed[t]]
           pays == [r \in Recipients |-> [t \in Splittable |-> times[t] * Share(r, held[t])]]
           total == [t \in Splittable |-> Total([r \in Recipients |-> pays[r][t]], Recipients)]
<1>1. ASSUME NEW t \in Splittable
      PROVE  times[t] \in Nat /\ times[t] = Times(denoms, listed, t)
  BY <1>1 DEF Splittable, Times
<1>2. /\ \A t \in Cw20s : listed[t] > 0 /\ held[t] > 0 => \A r \in Recipients : Share(r, held[t]) > 0
      /\ \A t \in Splittable : total[t] <= held[t]
      /\ held' = [t \in Splittable |-> held[t] - total[t]]
      /\ paid' = [r \in Recipients |-> [t \in Splittable |-> paid[r][t] + pays[r][t]]]
  BY DEF SendTokens
<1>3. ASSUME NEW t \in Splittable, NEW r \in Recipients
      PROVE  /\ Share(r, held[t]) \in Nat
             /\ pays[r][t] = times[t] * Share(r, held[t])
             /\ times[t] * Share(r, held[t]) \in Nat
  <2>1. Shares(t) \in [Recipients -> Nat]
    BY SharesType
  <2>2. Share(r, held[t]) \in Nat
    BY <2>1 DEF Shares
  <2>3. times[t] * Share(r, held[t]) \in Nat
    <3> HIDE DEF times
    <3> QED BY <1>1, <2>2
  <2> QED BY <2>2, <2>3
<1> HIDE DEF times
<1>4. ASSUME NEW t \in Splittable
      PROVE  total[t] = times[t] * Total(Shares(t), Recipients) /\ total[t] \in Nat
  <2> DEFINE share == Shares(t)
             pay == [r \in Recipients |-> pays[r][t]]
             n == times[t]
  <2>1. share \in [Recipients -> Nat] /\ Total(share, Recipients) \in Nat
    BY SharesType
  <2>2. pay \in [Recipients -> Nat] /\ n \in Nat /\ \A r \in Recipients : pay[r] = n * share[r]
    BY <1>1, <1>3 DEF Shares
  <2>3. total[t] = Total(pay, Recipients)
    OBVIOUS
  <2> HIDE DEF share, pay, n, total
  <2>4. Total(pay, Recipients) = n * Total(share, Recipients)
    BY <2>1, <2>2, TotalTimes
  <2>5. n * Total(share, Recipients) \in Nat
    BY <2>1, <2>2
  <2> QED BY <2>3, <2>4, <2>5 DEF share, n
<1> HIDE DEF pays, total
<1>5. ASSUME NEW t \in Splittable
      PROVE  held'[t] = held[t] - total[t] /\ held'[t] \in Nat
  <2>1. held[t] \in Nat /\ total[t] \in Nat /\ total[t] <= held[t]
    BY <1>2, <1>4, SharesType
  <2> QED BY <1>2, <2>1
<1>6. ASSUME NEW t \in Splittable, NEW r \in Recipients
      PROVE  paid'[r][t] = paid[r][t] + times[t] * Share(r, held[t]) /\ paid'[r][t] \in Nat
  <2>1. paid'[r][t] = paid[r][t] + pays[r][t]
    BY <1>2
  <2>2. paid[r][t] \in Nat
    BY DEF SplitterTypeOK
  <2> QED BY <1>3, <2>1, <2>2
<1>7. SplitterTypeOK'
  <2>1. held' \in [Splittable -> Nat]
    BY <1>2, <1>5
  <2>2. paid' \in [Recipients -> [Splittable -> Nat]]
    BY <1>2, <1>6
  <2> QED BY <2>1, <2>2 DEF SplitterTypeOK, Splittable
<1>8. ASSUME NEW t \in Splittable
      PROVE  SplitOf(times[t], t)
  <2>1. t \in Cw20s /\ times[t] > 0 /\ held[t] > 0 => \A r \in Recipients : Share(r, held[t]) > 0
    BY <1>1, <1>2 DEF Times
  <2> QED BY <1>4, <1>5, <1>6, <2>1 DEF SplitOf
<1> QED
  BY <1>1, <1>7, <1>8

(* A split pays each share of a token it pays at all exactly once.  A cw20 *)
(* token listed twice would need twice the shares to be held; but whatever *)
(* is held is less than the shares and one unit for each recipient, and no *)
(* share is zero.                                                          *)
LEMMA SplitOnce ==
  ASSUME SplitterTypeOK, NEW t \in Splittable, NEW times \in Nat, SplitOf(times, t),
         t \in Denoms => times <= 1,
         PaidOut(t)' # PaidOut(t)
  PROVE  /\ times = 1
         /\ t \in Cw20s => \A r \in Recipients : Share(r, held[t]) > 0
<1> DEFINE n == Cardinality(Recipients)
           S == Total(Shares(t), Recipients)
<1>1. /\ held[t] \in Nat /\ S \in Nat /\ n \in Nat /\ S <= held[t] /\ held[t] < S + n
      /\ Shares(t) \in [Recipients -> Nat]
  BY SharesType
<1>2. PICK r \in Recipients : times * Share(r, held[t]) # 0
  <2> SUFFICES ASSUME \A r \in Recipients : times * Share(r, held[t]) = 0 PROVE FALSE
    OBVIOUS
  <2>1. \A r \in Recipients : paid[r][t] \in Nat
    BY DEF SplitterTypeOK
  <2>2. \A r \in Recipients : paid'[r][t] = paid[r][t]
    BY <2>1 DEF SplitOf
  <2>3. [r \in Recipients |-> paid'[r][t]] = [r \in Recipients |-> paid[r][t]]
    BY <2>2
  <2> QED BY <2>3 DEF PaidOut
<1>3. times > 0 /\ held[t] > 0
  <2>1. Share(r, held[t]) \in Nat
    BY <1>1 DEF Shares
  <2>2. times # 0 /\ Share(r, held[t]) # 0
    BY <1>2, <2>1
  <2>3. held[t] # 0
    <3>1. Weight[r] \in Nat /\ 0 * Weight[r] = 0 /\ 0 \div WeightOne = 0
      OBVIOUS
    <3> QED BY <2>2, <3>1 DEF Share
  <2> QED BY <1>1, <2>2, <2>3
<1>4. CASE t \in Denoms
  <2>1. t \notin Cw20s
    BY <1>4
  <2> QED BY <1>3, <1>4, <2>1
<1>5. CASE t \in Cw20s
  <2>1. \A r2 \in Recipients : Share(r2, held[t]) > 0
    BY <1>3, <1>5 DEF SplitOf
  <2>2. n <= S
    <3> DEFINE one == [r2 \in Recipients |-> 1]
               share == Shares(t)
    <3>1. one \in [Recipients -> Nat] /\ \A r2 \in Recipients : one[r2] = 1
      OBVIOUS
    <3>2. share \in [Recipients -> Nat] /\ \A r2 \in Recipients : one[r2] <= share[r2]
      BY <1>1, <2>1 DEF Shares
    <3> HIDE DEF one, share
    <3>3. Total(one, Recipients) = 1 * n
      BY <3>1, TotalOfSame
    <3>4. Total(one, Recipients) <= Total(share, Recipients)
      BY <3>1, <3>2, TotalMonotone
    <3> QED BY <1>1, <3>3, <3>4 DEF share
  <2>3. times * S <= held[t]
    <3>1. held'[t] = held[t] - times * S /\ held'[t] \in Nat
      BY DEF SplitOf
    <3> HIDE DEF S
    <3>2. times * S \in Nat
      BY <1>1
    <3> QED BY <1>1, <3>1, <3>2
  <2>4. times < 2
    <3> HIDE DEF S, n
    <3> SUFFICES ASSUME times >= 2 PROVE FALSE
      OBVIOUS
    <3>1. (times - 2) * S \in Nat /\ (times - 2) * S = times * S - 2 * S
      BY <1>1
    <3> QED BY <1>1, <2>2, <2>3, <3>1
  <2> QED BY <1>3, <2>1, <2>4
<1> QED
  BY <1>4, <1>5 DEF Splittable

(* What the two properties of the splitter say of one step. *)
PaysOnce ==
  \A t \in Splittable : PaidOut(t)' # PaidOut(t) =>
    /\ \A r \in Recipients : /\ paid'[r][t] = paid[r][t] + Share(r, held[t])
                             /\ t \in Cw20s => paid'[r][t] > paid[r][t]
    /\ held'[t] < Cardinality(Recipients)

LEMMA SendTokensPaysOnce ==
  ASSUME SplitterTypeOK, NEW denoms \in SUBSET Denoms, NEW listed \in [Cw20s -> 0..MaxListed],
         SendTokens(denoms, listed)
  PROVE  PaysOnce
<1> SUFFICES ASSUME NEW t \in Splittable, PaidOut(t)' # PaidOut(t)
             PROVE  /\ \A r \in Recipients : /\ paid'[r][t] = paid[r][t] + Share(r, held[t])
                                             /\ t \in Cw20s => paid'[r][t] > paid[r][t]
                    /\ held'[t] < Cardinality(Recipients)
  BY DEF PaysOnce
<1> DEFINE times == Times(denoms, listed, t)
<1>1. times \in Nat /\ SplitOf(times, t)
  BY SendTokensSplits
<1>2. t \in Denoms => times <= 1
  BY DEF Times
<1> HIDE DEF times
<1>3. /\ times = 1
      /\ t \in Cw20s => \A r \in Recipients : Share(r, held[t]) > 0
  BY <1>1, <1>2, SplitOnce
<1>4. ASSUME NEW r \in Recipients
      PROVE  /\ paid'[r][t] = paid[r][t] + Share(r, held[t])
             /\ t \in Cw20s => paid'[r][t] > paid[r][t]
  <2>1. paid[r][t] \in Nat /\ Share(r, held[t]) \in Nat
    <3>1. paid[r][t] \in Nat
      BY DEF SplitterTypeOK
    <3>2. Shares(t) \in [Recipients -> Nat]
      BY SharesType
    <3> QED BY <3>1, <3>2 DEF Shares
  <2>2. paid'[r][t] = paid[r][t] + 1 * Share(r, held[t])
    BY <1>1, <1>3 DEF SplitOf
  <2> QED BY <1>3, <2>1, <2>2
<1>5. held'[t] < Cardinality(Recipients)
  <2> DEFINE S == Total(Shares(t), Recipients)
  <2>1. held'[t] = held[t] - 1 * S
    BY <1>1, <1>3 DEF SplitOf
  <2>2. held[t] \in Nat /\ S \in Nat /\ Cardinality(Recipients) \in Nat /\ held[t] < S + Cardinality(Recipients)
    BY SharesType
  <2> HIDE DEF S
  <2> QED BY <2>1, <2>2
<1> QED
  BY <1>4, <1>5


LEMMA TakePaysOnce ==
  ASSUME SplitterTypeOK, NEW t \in Splittable, NEW amount \in Nat, Take(t, amount)
  PROVE  SplitterTypeOK' /\ PaysOnce
<1>1. paid' = paid
  BY DEF Take
<1>2. held' \in [Splittable -> Nat]
  BY DEF Take, SplitterTypeOK
<1> QED
  BY <1>1, <1>2 DEF SplitterTypeOK, PaysOnce, PaidOut, Splittable

LEMMA SplitterSteps ==
  ASSUME SplitterTypeOK, balance \in [Assets -> Nat], [Next]_vars
  PROVE  SplitterTypeOK' /\ (PaysOnce \/ UNCHANGED splitterVars)
<1>1. CASE UNCHANGED splitterVars
  BY <1>1 DEF splitterVars, SplitterTypeOK, Splittable
<1>2. ASSUME NEW amount \in 1..MaxHeld, Spend(amount), ~UNCHANGED splitterVars
      PROVE  SplitterTypeOK' /\ PaysOnce
  <2>1. Take(Paloma, amount) /\ Paloma \in Splittable
    BY <1>2, FlowAssumption DEF Spend, Splittable
  <2>2. amount \in Nat
    BY HeldAssumption
  <2> QED BY <2>1, <2>2, TakePaysOnce
<1>3. ASSUME NEW denom \in Denoms, Deposit(denom)
      PROVE  SplitterTypeOK' /\ PaysOnce
  <2>1. denom \in Splittable /\ 1 \in Nat /\ Take(denom, 1)
    BY <1>3 DEF Deposit, Splittable
  <2> QED BY <2>1, TakePaysOnce
<1>4. CASE Split
  <2>1. PICK denoms \in SUBSET Denoms, listed \in [Cw20s -> 0..MaxListed] : SendTokens(denoms, listed)
    BY <1>4 DEF Split, SplitterNext
  <2> QED BY <2>1, SendTokensSplits, SendTokensPaysOnce
<1> QED
  BY <1>1, <1>2, <1>3, <1>4 DEF Next, vars

----------------------------------------------------------------------------
(* The nominated trader *)

Ask == [info : Assets, limit : Nat]

SwapsIn(q) == {i \in 1..Len(q) : q[i].kind = "swap"}

(* the assets that the last message, SwapHopAssets, is to sell *)
HopOf(q) == IF q # <<>> /\ q[Len(q)].kind = "hop" THEN q[Len(q)].assets ELSE {}

(* SwapHopAssets is called last, and with some assets *)
Shaped(q) == \A i \in 1..Len(q) : q[i].kind = "hop" => i = Len(q) /\ q[i].assets # {}

(* SwapsCovered *)
Covered(q, bal) ==
  /\ \A i \in SwapsIn(q) : q[i].amount <= bal[q[i].from]
  /\ \A i, j \in SwapsIn(q) : q[i].from = q[j].from => i = j

(* what a swap brings in is PALOMA or will be sold, and only an asset with *)
(* a route leads to one that will be                                       *)
Routed(q) ==
  /\ \A i \in SwapsIn(q) :
       /\ Pool(q[i].from, q[i].to)
       /\ q[i].from = Paloma => Paloma \in DOMAIN routes
       /\ q[i].to = Paloma \/ q[i].to \in HopOf(q)
  /\ \A a \in HopOf(q) : \E x \in DOMAIN routes : routes[x] = a

(* of what will be sold there will be something *)
Funded(q, bal) ==
  \A a \in HopOf(q) :
    \/ \E i \in SwapsIn(q) : q[i].to = a
    \/ bal[a] > 0 /\ \A i \in SwapsIn(q) : q[i].from = a => q[i].amount < bal[a]

(* what there is more of than before will be sold, all of it *)
Sold(q, bal) ==
  \A a \in Assets \ {Paloma} :
    \/ bal[a] <= before[a]
    \/ a \in HopOf(q)
    \/ \E i \in SwapsIn(q) : q[i].from = a /\ q[i].amount = bal[a]

Gained(q, bal) ==
  Paloma \notin DOMAIN routes =>
    /\ bal[Paloma] >= before[Paloma]
    /\ q # <<>> \/ bal[Paloma] > before[Paloma]

Flowing(q, bal) ==
  Shaped(q) /\ Covered(q, bal) /\ Routed(q) /\ Funded(q, bal) /\ Sold(q, bal) /\ Gained(q, bal)

TraderInv ==
  /\ TraderTypeOK
  /\ running => Flowing(queue, balance)
  /\ ~running => queue = <<>>

(* What a message of either kind consists of. *)
LEMMA MessageKinds ==
  ASSUME NEW m \in Messages
  PROVE  /\ m.kind = "swap" =>
              /\ m = [kind |-> "swap", from |-> m.from, to |-> m.to, amount |-> m.amount]
              /\ m.from \in Assets /\ m.to \in Assets /\ m.amount \in Nat \ {0}
         /\ m.kind # "swap" => m.kind = "hop" /\ m.assets \in SUBSET Assets
BY DEF Messages

(* A pool is never of an asset and itself. *)
LEMMA PoolOfTwo ==
  ASSUME pools \in Markets, NEW a, NEW b, Pool(a, b)
  PROVE  a # b /\ a \in Assets /\ b \in Assets
BY MarketAssumption DEF Pool

(* An asset that can be swapped has a pool with the next one on its way, *)
(* and PALOMA none with itself.                                          *)
LEMMA CanSwapPool ==
  ASSUME TraderTypeOK, NEW a \in Assets, CanSwap(a)
  PROVE  /\ Pool(a, NextAsset(a)) /\ NextAsset(a) \in Assets
         /\ a = Paloma => Paloma \in DOMAIN routes
<1>1. Pool(a, NextAsset(a))
  BY DEF CanSwap, NextAsset, ValidRoute
<1>2. a # NextAsset(a) /\ NextAsset(a) \in Assets
  BY <1>1, PoolOfTwo DEF TraderTypeOK
<1> QED
  BY <1>1, <1>2 DEF NextAsset

(* What a swap leaves. *)
LEMMA BalanceAfter ==
  ASSUME NEW bal \in [Assets -> Nat], NEW from \in Assets, NEW to \in Assets, from # to,
         NEW amount \in Nat, amount <= bal[from], NEW received \in Nat,
         NEW after, after = [bal EXCEPT ![from] = @ - amount, ![to] = @ + received]
  PROVE  /\ after \in [Assets -> Nat]
         /\ after[from] = bal[from] - amount /\ after[to] = bal[to] + received
         /\ \A x \in Assets : x # from /\ x # to => after[x] = bal[x]
OBVIOUS

(* The messages left when the first, a swap, has run. *)
LEMMA AfterFirst ==
  ASSUME NEW q \in Seq(Messages), q # <<>>, Head(q).kind = "swap", Shaped(q)
  PROVE  /\ Tail(q) \in Seq(Messages) /\ Head(q) = q[1] /\ 1 \in SwapsIn(q)
         /\ Len(Tail(q)) = Len(q) - 1 /\ Len(q) \in Nat \ {0}
         /\ \A i \in 1..(Len(q) - 1) : Tail(q)[i] = q[i + 1]
         /\ \A i \in SwapsIn(Tail(q)) : i + 1 \in SwapsIn(q) /\ Tail(q)[i] = q[i + 1]
         /\ \A i \in SwapsIn(q) : i # 1 => i - 1 \in SwapsIn(Tail(q)) /\ Tail(q)[i - 1] = q[i]
         /\ HopOf(Tail(q)) = HopOf(q)
         /\ Tail(q) = <<>> => HopOf(q) = {}
<1> DEFINE t == Tail(q)
<1>1. t \in Seq(Messages) /\ Head(q) = q[1] /\ Len(t) = Len(q) - 1 /\ Len(q) \in Nat \ {0}
  OBVIOUS
<1>2. \A i \in 1..(Len(q) - 1) : t[i] = q[i + 1]
  OBVIOUS
<1> HIDE DEF t
<1>3. q[1].kind = "swap" /\ 1 \in SwapsIn(q)
  BY <1>1 DEF SwapsIn
<1>4. \A i \in SwapsIn(t) : i + 1 \in SwapsIn(q) /\ t[i] = q[i + 1]
  BY <1>1, <1>2 DEF SwapsIn
<1>5. ASSUME NEW i \in SwapsIn(q), i # 1
      PROVE  i - 1 \in SwapsIn(t) /\ t[i - 1] = q[i]
  <2>1. i - 1 \in 1..(Len(q) - 1) /\ (i - 1) + 1 = i /\ q[i].kind = "swap"
    BY <1>1, <1>5 DEF SwapsIn
  <2>2. t[i - 1] = q[i]
    BY <1>2, <2>1
  <2> QED BY <1>1, <2>1, <2>2 DEF SwapsIn
<1>6. CASE Len(q) = 1
  <2>1. HopOf(q) = {}
    BY <1>3, <1>6 DEF HopOf
  <2>2. t = <<>>
    BY <1>1, <1>6
  <2>3. HopOf(t) = {}
    BY <2>2 DEF HopOf
  <2> QED BY <1>1, <1>2, <1>3, <1>4, <1>5, <2>1, <2>3 DEF t
<1>7. CASE Len(q) # 1
  <2>1. t # <<>> /\ t[Len(t)] = q[Len(q)]
    BY <1>1, <1>2, <1>7
  <2>2. q # <<>>
    OBVIOUS
  <2>3. HopOf(t) = HopOf(q)
    BY <2>1, <2>2 DEF HopOf
  <2> QED BY <1>1, <1>2, <1>3, <1>4, <1>5, <2>1, <2>3 DEF t
<1> QED
  BY <1>6, <1>7

(* A swap that runs leaves the rest as it should be. *)
LEMMA SwapFlows ==
  ASSUME TraderTypeOK, NEW q \in Seq(Messages), q # <<>>, Head(q).kind = "swap",
         NEW bal \in [Assets -> Nat], Flowing(q, bal),
         NEW received \in Nat \ {0}, NEW after \in [Assets -> Nat],
         after = [bal EXCEPT ![Head(q).from] = @ - Head(q).amount, ![Head(q).to] = @ + received]
  PROVE  Flowing(Tail(q), after)
<1> DEFINE t == Tail(q)
           m == q[1]
<1>1. /\ t \in Seq(Messages) /\ Head(q) = m /\ 1 \in SwapsIn(q)
      /\ Len(t) = Len(q) - 1 /\ Len(q) \in Nat \ {0}
      /\ \A i \in SwapsIn(t) : i + 1 \in SwapsIn(q) /\ t[i] = q[i + 1]
      /\ \A i \in SwapsIn(q) : i # 1 => i - 1 \in SwapsIn(t) /\ t[i - 1] = q[i]
      /\ HopOf(t) = HopOf(q)
      /\ t = <<>> => HopOf(q) = {}
      /\ \A i \in 1..(Len(q) - 1) : t[i] = q[i + 1]
  BY AfterFirst DEF Flowing
<1>2. \A i \in SwapsIn(q) : q[i].from \in Assets /\ q[i].to \in Assets /\ q[i].amount \in Nat \ {0}
  <2> SUFFICES ASSUME NEW i \in SwapsIn(q)
               PROVE  q[i].from \in Assets /\ q[i].to \in Assets /\ q[i].amount \in Nat \ {0}
    OBVIOUS
  <2>1. q[i] \in Messages /\ q[i].kind = "swap"
    BY DEF SwapsIn
  <2> QED BY <2>1, MessageKinds
<1>3. /\ m.from \in Assets /\ m.to \in Assets /\ m.amount \in Nat \ {0}
      /\ m.amount <= bal[m.from] /\ Pool(m.from, m.to) /\ m.from # m.to
      /\ m.from = Paloma => Paloma \in DOMAIN routes
      /\ m.to = Paloma \/ m.to \in HopOf(q)
  <2>1. m.from \in Assets /\ m.to \in Assets /\ m.amount \in Nat \ {0}
    BY <1>1, <1>2
  <2>2. /\ m.amount <= bal[m.from] /\ Pool(m.from, m.to)
        /\ m.from = Paloma => Paloma \in DOMAIN routes
        /\ m.to = Paloma \/ m.to \in HopOf(q)
    BY <1>1 DEF Flowing, Covered, Routed
  <2>3. m.from # m.to
    BY <2>2, PoolOfTwo DEF TraderTypeOK
  <2> QED BY <2>1, <2>2, <2>3
<1> HIDE DEF t, m
<1>4. /\ after[m.from] = bal[m.from] - m.amount /\ after[m.to] = bal[m.to] + received
      /\ \A x \in Assets : x # m.from /\ x # m.to => after[x] = bal[x]
  BY <1>1, <1>3, BalanceAfter
<1>5. /\ \A i \in SwapsIn(q) : q[i].amount <= bal[q[i].from]
      /\ \A i \in SwapsIn(q) : i # 1 => q[i].from # m.from
  BY <1>1 DEF Flowing, Covered, m
<1>6. Shaped(t)
  <2> SUFFICES ASSUME NEW i \in 1..Len(t), t[i].kind = "hop"
               PROVE  i = Len(t) /\ t[i].assets # {}
    BY DEF Shaped
  <2>1. i + 1 \in 1..Len(q) /\ t[i] = q[i + 1]
    BY <1>1
  <2>2. i + 1 = Len(q) /\ q[i + 1].assets # {}
    BY <2>1 DEF Flowing, Shaped
  <2> QED BY <1>1, <2>1, <2>2
<1>7. Covered(t, after)
  <2>1. ASSUME NEW i \in SwapsIn(t) PROVE t[i].amount <= after[t[i].from]
    <3>1. i + 1 \in SwapsIn(q) /\ t[i] = q[i + 1] /\ i + 1 # 1
      BY <1>1 DEF SwapsIn
    <3>2. /\ t[i].from # m.from /\ t[i].from \in Assets
          /\ t[i].amount <= bal[t[i].from] /\ t[i].amount \in Nat
      BY <1>2, <1>5, <3>1
    <3>3. bal[t[i].from] <= after[t[i].from]
      <4>1. CASE t[i].from = m.to
        BY <1>3, <1>4, <4>1
      <4>2. CASE t[i].from # m.to
        <5>1. after[t[i].from] = bal[t[i].from]
          BY ONLY <1>4, <3>2, <4>2
        <5>2. bal[t[i].from] \in Nat
          BY <3>2
        <5> QED BY ONLY <5>1, <5>2
      <4> QED BY <4>1, <4>2
    <3>4. bal[t[i].from] \in Nat /\ after[t[i].from] \in Nat
      BY <3>2
    <3>5. t[i].amount \in Nat /\ t[i].amount <= bal[t[i].from]
      BY <3>2
    <3> QED BY ONLY <3>3, <3>4, <3>5
  <2>2. ASSUME NEW i \in SwapsIn(t), NEW j \in SwapsIn(t), t[i].from = t[j].from PROVE i = j
    <3>1. /\ i + 1 \in SwapsIn(q) /\ t[i] = q[i + 1] /\ j + 1 \in SwapsIn(q) /\ t[j] = q[j + 1]
          /\ i \in Int /\ j \in Int
      BY <1>1 DEF SwapsIn
    <3>2. i + 1 = j + 1
      BY <2>2, <3>1 DEF Flowing, Covered
    <3> QED BY <3>1, <3>2
  <2> QED BY <2>1, <2>2 DEF Covered
<1>8. Routed(t)
  <2>1. ASSUME NEW i \in SwapsIn(t)
        PROVE  /\ Pool(t[i].from, t[i].to)
               /\ t[i].from = Paloma => Paloma \in DOMAIN routes
               /\ t[i].to = Paloma \/ t[i].to \in HopOf(t)
    <3>1. i + 1 \in SwapsIn(q) /\ t[i] = q[i + 1] /\ HopOf(t) = HopOf(q)
      BY <1>1
    <3>2. /\ Pool(q[i + 1].from, q[i + 1].to)
          /\ q[i + 1].from = Paloma => Paloma \in DOMAIN routes
          /\ q[i + 1].to = Paloma \/ q[i + 1].to \in HopOf(q)
      BY <3>1 DEF Flowing, Routed
    <3> QED BY ONLY <3>1, <3>2
  <2>2. \A a \in HopOf(t) : \E x \in DOMAIN routes : routes[x] = a
    BY <1>1 DEF Flowing, Routed
  <2> QED BY <2>1, <2>2 DEF Routed
<1>9. Funded(t, after)
  <2> SUFFICES ASSUME NEW a \in HopOf(t), ~ \E i \in SwapsIn(t) : t[i].to = a
               PROVE  after[a] > 0 /\ \A i \in SwapsIn(t) : t[i].from = a => t[i].amount < after[a]
    BY DEF Funded
  <2>1. a \in HopOf(q) /\ a \in Assets
    <3>1. a \in HopOf(q) /\ q[Len(q)] \in Messages /\ q[Len(q)].kind = "hop" /\ a \in q[Len(q)].assets
      BY <1>1 DEF HopOf
    <3> QED BY <3>1, MessageKinds
  <2>2. bal[a] \in Nat
    BY <2>1
  <2>3. CASE a = m.to
    <3>1. after[a] = bal[a] + received /\ after[a] > bal[a]
      BY <1>4, <2>2, <2>3
    <3>2. ASSUME NEW i \in SwapsIn(t), t[i].from = a PROVE t[i].amount < after[a]
      <4>1. t[i].amount <= bal[a] /\ t[i].amount \in Nat
        BY <1>1, <1>2, <1>5, <3>2
      <4> QED BY <2>2, <3>1, <4>1
    <3>3. after[a] > 0
      BY <2>2, <3>1
    <3> QED BY <3>2, <3>3
  <2>4. CASE a # m.to
    <3>1. ~ \E i \in SwapsIn(q) : q[i].to = a
      <4>1. ASSUME NEW i \in SwapsIn(q), q[i].to = a PROVE FALSE
        <5>1. i # 1
          BY <2>4, <4>1 DEF m
        <5> QED BY <1>1, <4>1, <5>1
      <4> QED BY <4>1
    <3>2. bal[a] > 0 /\ \A i \in SwapsIn(q) : q[i].from = a => q[i].amount < bal[a]
      BY <2>1, <3>1 DEF Flowing, Funded
    <3>3. CASE a = m.from
      <4>1. m.amount < bal[a]
        BY <1>1, <3>2, <3>3 DEF m
      <4>2. \A i \in SwapsIn(t) : t[i].from # a
        BY <1>1, <1>5, <3>3 DEF SwapsIn
      <4>3. after[a] > 0
        BY <1>3, <1>4, <2>2, <3>3, <4>1
      <4> QED BY <4>2, <4>3
    <3>4. CASE a # m.from
      <4>1. after[a] = bal[a]
        BY <1>4, <2>1, <2>4, <3>4
      <4>2. ASSUME NEW i \in SwapsIn(t), t[i].from = a PROVE t[i].amount < after[a]
        <5>1. i + 1 \in SwapsIn(q) /\ t[i] = q[i + 1]
          BY <1>1
        <5>2. q[i + 1].amount < bal[a]
          BY <3>2, <4>2, <5>1
        <5> QED BY <4>1, <5>1, <5>2
      <4> QED BY <3>2, <4>1, <4>2
    <3> QED BY <3>3, <3>4
  <2> QED BY <2>3, <2>4
<1>10. Sold(t, after)
  <2> SUFFICES ASSUME NEW a \in Assets \ {Paloma}, a \notin HopOf(t), ~(after[a] <= before[a])
               PROVE  \E i \in SwapsIn(t) : t[i].from = a /\ t[i].amount = after[a]
    BY DEF Sold
  <2>1. a # m.to
    BY <1>1, <1>3
  <2>2. \/ bal[a] <= before[a]
        \/ \E i \in SwapsIn(q) : q[i].from = a /\ q[i].amount = bal[a]
    BY <1>1 DEF Flowing, Sold
  <2>3. bal[a] \in Nat /\ before[a] \in Nat /\ after[a] \in Nat
    BY DEF TraderTypeOK
  <2>4. CASE a = m.from
    <3>1. after[a] = bal[a] - m.amount
      BY <1>4, <2>4
    <3>2. PICK i \in SwapsIn(q) : q[i].from = a /\ q[i].amount = bal[a]
      BY <1>3, <2>2, <2>3, <3>1
    <3>3. i = 1
      BY <1>5, <2>4, <3>2
    <3>4. after[a] = 0
      BY <2>3, <3>1, <3>2, <3>3 DEF m
    <3> QED BY <2>3, <3>4
  <2>5. CASE a # m.from
    <3>1. after[a] = bal[a]
      BY <1>4, <2>1, <2>5
    <3>2. PICK i \in SwapsIn(q) : q[i].from = a /\ q[i].amount = bal[a]
      BY <2>2, <3>1
    <3>3. i # 1
      BY <2>5, <3>2 DEF m
    <3>4. i - 1 \in SwapsIn(t) /\ t[i - 1] = q[i]
      BY <1>1, <3>3
    <3>5. t[i - 1].from = a /\ t[i - 1].amount = after[a]
      BY <3>1, <3>2, <3>4
    <3> QED BY <3>4, <3>5
  <2> QED BY <2>4, <2>5
<1>11. Gained(t, after)
  <2> SUFFICES ASSUME Paloma \notin DOMAIN routes
               PROVE  /\ after[Paloma] >= before[Paloma]
                      /\ t # <<>> \/ after[Paloma] > before[Paloma]
    BY DEF Gained
  <2>1. m.from # Paloma
    BY <1>3
  <2>2. bal[Paloma] >= before[Paloma]
    BY DEF Flowing, Gained
  <2>3. bal[Paloma] \in Nat /\ before[Paloma] \in Nat /\ Paloma \in Assets
    BY AssetAssumption DEF TraderTypeOK
  <2>4. CASE m.to = Paloma
    BY <1>4, <2>2, <2>3, <2>4
  <2>5. CASE m.to # Paloma
    <3>1. t # <<>>
      BY <1>1, <1>3, <2>5
    <3>2. after[Paloma] = bal[Paloma]
      BY <1>4, <2>1, <2>3, <2>5
    <3> QED BY <2>2, <3>1, <3>2
  <2> QED BY <2>4, <2>5
<1> QED
  BY <1>6, <1>7, <1>8, <1>9, <1>10, <1>11 DEF Flowing, t


(* What is swapped is held, and there is some of it. *)
LEMMA ToSwapRange ==
  ASSUME TraderTypeOK, NEW ask \in Ask
  PROVE  ToSwap(ask) \in Nat /\ ToSwap(ask) <= balance[ask.info]
<1>1. ask.info \in Assets /\ ask.limit \in Nat
  BY DEF Ask
<1>2. balance[ask.info] \in Nat
  BY <1>1 DEF TraderTypeOK
<1> QED
  BY <1>1, <1>2 DEF ToSwap

(* The messages for requests of different assets, worth swapping. *)
LEMMA SwapMessagesFlow ==
  ASSUME TraderTypeOK, NEW n \in Nat \ {0}, NEW asks \in Seq(Ask), Len(asks) = n,
         \A i \in 1..n : ToSwap(asks[i]) > 0 /\ CanSwap(asks[i].info),
         \A i, j \in 1..n : asks[i].info = asks[j].info => i = j,
         NEW q, q = SwapMessages(asks)
  PROVE  /\ q \in Seq(Messages) /\ q # <<>>
         /\ Shaped(q) /\ Covered(q, balance) /\ Routed(q) /\ Funded(q, balance)
         /\ \A k \in 1..n : k \in SwapsIn(q) /\ q[k].from = asks[k].info /\ q[k].amount = ToSwap(asks[k])
<1> DEFINE onTheWay == {NextAsset(asks[i].info) : i \in {k \in DOMAIN asks : asks[k].info \in DOMAIN routes}}
           swaps == [i \in DOMAIN asks |-> SwapMessage(asks[i])]
           hop == [kind |-> "hop", assets |-> onTheWay]
<1>1. q = swaps \o (IF onTheWay = {} THEN <<>> ELSE <<hop>>)
  BY DEF SwapMessages
<1>2. DOMAIN asks = 1..n
  OBVIOUS
<1>3. ASSUME NEW i \in 1..n
      PROVE  /\ asks[i] \in Ask /\ asks[i].info \in Assets
             /\ ToSwap(asks[i]) \in Nat \ {0} /\ ToSwap(asks[i]) <= balance[asks[i].info]
             /\ Pool(asks[i].info, NextAsset(asks[i].info)) /\ NextAsset(asks[i].info) \in Assets
             /\ asks[i].info = Paloma => Paloma \in DOMAIN routes
  <2>1. asks[i] \in Ask /\ asks[i].info \in Assets
    <3>1. asks[i] \in Ask
      OBVIOUS
    <3> QED BY <3>1 DEF Ask
  <2>2. ToSwap(asks[i]) \in Nat \ {0} /\ ToSwap(asks[i]) <= balance[asks[i].info]
    BY <2>1, ToSwapRange
  <2> QED BY <2>1, <2>2, CanSwapPool
<1>4. \A i \in 1..n : SwapMessage(asks[i]) \in Messages /\ SwapMessage(asks[i]).kind = "swap"
  BY <1>3 DEF SwapMessage, Messages
<1>5. onTheWay \in SUBSET Assets
  BY <1>2, <1>3
<1>6. swaps \in Seq(Messages) /\ Len(swaps) = n /\ \A i \in 1..n : swaps[i] = SwapMessage(asks[i])
  BY <1>2, <1>4
<1>7. hop \in Messages /\ hop.kind = "hop" /\ hop.assets = onTheWay
  BY <1>5 DEF Messages
<1>8. /\ \A a \in onTheWay : \E i \in 1..n : asks[i].info \in DOMAIN routes /\ a = NextAsset(asks[i].info)
      /\ \A i \in 1..n : asks[i].info \in DOMAIN routes => NextAsset(asks[i].info) \in onTheWay
  BY <1>2
<1> HIDE DEF onTheWay, swaps, hop
<1>9. /\ q \in Seq(Messages) /\ \A i \in 1..n : q[i] = SwapMessage(asks[i])
      /\ \/ onTheWay = {} /\ Len(q) = n
         \/ onTheWay # {} /\ Len(q) = n + 1 /\ q[n + 1] = hop
  <2>1. CASE onTheWay = {}
    <3>1. q = swaps
      BY <1>1, <1>6, <2>1
    <3> QED BY <1>6, <2>1, <3>1
  <2>2. CASE onTheWay # {}
    <3>1. q = swaps \o <<hop>>
      BY <1>1, <2>2
    <3>2. q \in Seq(Messages) /\ Len(q) = n + 1 /\ q[n + 1] = hop
      BY <1>6, <1>7, <3>1
    <3>3. \A i \in 1..n : q[i] = swaps[i]
      BY <1>6, <1>7, <3>1
    <3> QED BY <1>6, <2>2, <3>2, <3>3
  <2> QED BY <2>1, <2>2
<1>10. q # <<>> /\ HopOf(q) = onTheWay /\ SwapsIn(q) = 1..n /\ Shaped(q)
  <2>1. \A i \in 1..n : q[i].kind = "swap"
    BY <1>4, <1>9
  <2>2. CASE onTheWay = {}
    <3>1. q # <<>> /\ q[Len(q)].kind = "swap" /\ Len(q) = n
      BY <1>9, <2>1, <2>2
    <3> QED BY <2>1, <2>2, <3>1 DEF HopOf, SwapsIn, Shaped
  <2>3. CASE onTheWay # {}
    <3>1. q # <<>> /\ Len(q) = n + 1 /\ q[n + 1].kind = "hop" /\ q[n + 1].assets = onTheWay
      BY <1>7, <1>9, <2>3
    <3>2. HopOf(q) = onTheWay
      BY <3>1 DEF HopOf
    <3>3. SwapsIn(q) = 1..n
      BY <2>1, <3>1 DEF SwapsIn
    <3>4. Shaped(q)
      BY <2>1, <2>3, <3>1 DEF Shaped
    <3> QED BY <3>1, <3>2, <3>3, <3>4
  <2> QED BY <2>2, <2>3
<1>11. \A i \in 1..n : /\ q[i].from = asks[i].info /\ q[i].to = NextAsset(asks[i].info)
                       /\ q[i].amount = ToSwap(asks[i])
  <2> SUFFICES ASSUME NEW i \in 1..n
               PROVE  /\ q[i].from = asks[i].info /\ q[i].to = NextAsset(asks[i].info)
                      /\ q[i].amount = ToSwap(asks[i])
    OBVIOUS
  <2>1. q[i] = SwapMessage(asks[i])
    BY <1>9
  <2> QED BY ONLY <2>1 DEF SwapMessage
<1>12. Covered(q, balance)
  BY <1>3, <1>10, <1>11 DEF Covered
<1>13. Routed(q)
  <2>1. ASSUME NEW i \in 1..n
        PROVE  /\ Pool(q[i].from, q[i].to)
               /\ q[i].from = Paloma => Paloma \in DOMAIN routes
               /\ q[i].to = Paloma \/ q[i].to \in onTheWay
    <3>1. q[i].to = Paloma \/ q[i].to \in onTheWay
      <4>1. CASE asks[i].info \in DOMAIN routes
        BY <1>8, <1>11, <4>1
      <4>2. CASE asks[i].info \notin DOMAIN routes
        BY <1>11, <4>2 DEF NextAsset
      <4> QED BY <4>1, <4>2
    <3> QED BY <1>3, <1>11, <3>1
  <2>2. ASSUME NEW a \in onTheWay PROVE \E x \in DOMAIN routes : routes[x] = a
    <3>1. PICK i \in 1..n : asks[i].info \in DOMAIN routes /\ a = NextAsset(asks[i].info)
      BY <1>8
    <3> QED BY <3>1 DEF NextAsset
  <2> QED BY <1>10, <2>1, <2>2 DEF Routed
<1>14. Funded(q, balance)
  <2> SUFFICES ASSUME NEW a \in onTheWay PROVE \E i \in 1..n : q[i].to = a
    BY <1>10 DEF Funded
  <2>1. PICK i \in 1..n : a = NextAsset(asks[i].info)
    BY <1>8
  <2> QED BY <1>11, <2>1
<1> QED
  BY <1>9, <1>10, <1>11, <1>12, <1>13, <1>14

(* What swap_assets makes of requests for different assets, when nothing *)
(* is to run after it.                                                   *)
LEMMA SwapAssetsFlows ==
  ASSUME TraderTypeOK, NEW asks \in Seq(Ask), NEW work \in SUBSET Work(asks),
         \A i, j \in work : asks[i].info = asks[j].info => i = j,
         SwapAssets(asks, work, <<>>)
  PROVE  /\ queue' \in Seq(Messages) /\ queue' # <<>>
         /\ Shaped(queue') /\ Covered(queue', balance) /\ Routed(queue') /\ Funded(queue', balance)
         /\ \A k \in work : \E i \in SwapsIn(queue') :
              queue'[i].from = asks[k].info /\ queue'[i].amount = ToSwap(asks[k])
         /\ \A k \in work : CanSwap(asks[k].info)
<1> DEFINE n == Cardinality(work)
<1>1. \A k \in work : k \in 1..Len(asks) /\ asks[k] \in Ask /\ ToSwap(asks[k]) > 0
  BY DEF Work
<1>2. n \in Nat
  <2>1. IsFiniteSet(1..Len(asks)) /\ work \in SUBSET (1..Len(asks))
    BY <1>1, FS_Interval
  <2> QED BY <2>1, FS_Subset, FS_CardinalityType
<1>3. work # {} /\ \A k \in work : CanSwap(asks[k].info)
  BY DEF SwapAssets, CanSwapAll
<1> HIDE DEF n
<1>4. PICK listed \in InOrder(work) :
        queue' = SwapMessages([k \in DOMAIN listed |-> asks[listed[k]]]) \o <<>>
  BY DEF SwapAssets
<1>5. /\ listed \in [1..n -> work]
      /\ \A i, j \in 1..n : listed[i] = listed[j] => i = j
      /\ \A k \in work : \E i \in 1..n : listed[i] = k
  BY <1>4 DEF InOrder, Bijection, Injection, Surjection, IsInjective, n
<1> DEFINE chosen == [k \in DOMAIN listed |-> asks[listed[k]]]
<1>6. /\ chosen \in Seq(Ask) /\ Len(chosen) = n /\ DOMAIN chosen = 1..n
      /\ \A i \in 1..n : chosen[i] = asks[listed[i]] /\ listed[i] \in work
  BY <1>1, <1>2, <1>5
<1>7. queue' = SwapMessages(chosen) \o <<>>
  BY <1>4
<1> HIDE DEF chosen
<1>8. n \in Nat \ {0}
  BY <1>2, <1>3, <1>5
<1>9. /\ \A i \in 1..n : ToSwap(chosen[i]) > 0 /\ CanSwap(chosen[i].info)
      /\ \A i, j \in 1..n : chosen[i].info = chosen[j].info => i = j
  <2>1. ASSUME NEW i \in 1..n PROVE ToSwap(chosen[i]) > 0 /\ CanSwap(chosen[i].info)
    <3>1. listed[i] \in work /\ chosen[i] = asks[listed[i]]
      BY <1>6
    <3> QED BY <1>1, <1>3, <3>1
  <2>2. ASSUME NEW i \in 1..n, NEW j \in 1..n, chosen[i].info = chosen[j].info PROVE i = j
    <3>1. /\ listed[i] \in work /\ chosen[i] = asks[listed[i]]
          /\ listed[j] \in work /\ chosen[j] = asks[listed[j]]
      BY <1>6
    <3>2. listed[i] = listed[j]
      BY <2>2, <3>1
    <3> QED BY <1>5, <3>2
  <2> QED BY <2>1, <2>2
<1> DEFINE q == SwapMessages(chosen)
<1>10. /\ q \in Seq(Messages) /\ q # <<>>
       /\ Shaped(q) /\ Covered(q, balance) /\ Routed(q) /\ Funded(q, balance)
       /\ \A k \in 1..n : k \in SwapsIn(q) /\ q[k].from = chosen[k].info /\ q[k].amount = ToSwap(chosen[k])
  BY <1>6, <1>8, <1>9, SwapMessagesFlow
<1> HIDE DEF q
<1>11. queue' = q
  BY <1>7, <1>10 DEF q
<1>12. ASSUME NEW k \in work
       PROVE  \E i \in SwapsIn(q) : q[i].from = asks[k].info /\ q[i].amount = ToSwap(asks[k])
  <2>1. PICK i \in 1..n : listed[i] = k
    BY <1>5
  <2>2. chosen[i] = asks[k]
    BY <1>6, <2>1
  <2> QED BY <1>10, <2>2
<1> QED
  BY <1>3, <1>10, <1>11, <1>12


LEMMA TraderInitInv == TraderInit => TraderInv
<1> SUFFICES ASSUME TraderInit PROVE TraderInv
  OBVIOUS
<1>1. DOMAIN routes = {}
  BY DEF TraderInit
<1>2. queue \in Seq(Messages)
  BY DEF TraderInit
<1>3. TraderTypeOK
  BY <1>1, <1>2 DEF TraderInit, TraderTypeOK
<1> QED
  BY <1>3 DEF TraderInit, TraderInv

(* Between collections *)
LEMMA IdleInv ==
  ASSUME TraderTypeOK', ~running', queue' = <<>>
  PROVE  TraderInv'
BY DEF TraderInv

LEMMA UpdateRoutesInv ==
  ASSUME TraderInv, NEW remove \in SUBSET Tokens, NEW add \in (Assets \X Assets) \cup {<<>>},
         UpdateRoutes(remove, add)
  PROVE  TraderInv'
<1> DEFINE left == [a \in DOMAIN routes \ remove |-> routes[a]]
<1>1. /\ ~running /\ pools' = pools /\ balance' = balance /\ running' = running
      /\ queue' = queue /\ before' = before
      /\ \/ add = <<>> /\ routes' = left
         \/ /\ add # <<>>
            /\ routes' = [a \in DOMAIN left \cup {add[1]} |-> IF a = add[1] THEN add[2] ELSE left[a]]
  BY DEF UpdateRoutes, transaction
<1>2. TraderTypeOK /\ queue = <<>>
  BY <1>1 DEF TraderInv
<1>3. DOMAIN left \subseteq Assets /\ \A a \in DOMAIN left : left[a] \in Assets
  BY <1>2 DEF TraderTypeOK
<1> HIDE DEF left
<1>4. DOMAIN routes' \subseteq Assets /\ \A a \in DOMAIN routes' : routes'[a] \in Assets
  <2>1. CASE routes' = left
    BY <1>3, <2>1
  <2>2. CASE add # <<>> /\ routes' = [a \in DOMAIN left \cup {add[1]} |-> IF a = add[1] THEN add[2] ELSE left[a]]
    <3>1. add \in Assets \X Assets
      BY <2>2
    <3>2. add[1] \in Assets /\ add[2] \in Assets
      BY <3>1
    <3> QED BY <1>3, <2>2, <3>2
  <2> QED BY <1>1, <2>1, <2>2
<1>5. TraderTypeOK'
  BY <1>1, <1>2, <1>4 DEF TraderTypeOK
<1> QED
  BY <1>1, <1>2, <1>5, IdleInv

LEMMA FlowingNext ==
  ASSUME routes' = routes, pools' = pools, before' = before, Flowing(queue', balance')
  PROVE  Flowing(queue, balance)'
BY DEF Flowing, Shaped, Covered, Routed, Funded, Sold, Gained, SwapsIn, HopOf, Pool

LEMMA CollectInv ==
  ASSUME TraderInv, NEW request \in Requests, Collect(request)
  PROVE  TraderInv'
<1> DEFINE work == {i \in Work(request) : request[i].info # Paloma}
<1>1. /\ ~running /\ running' = TRUE /\ before' = balance
      /\ pools' = pools /\ routes' = routes /\ balance' = balance
      /\ \A i, j \in DOMAIN request : request[i].info = request[j].info => i = j
      /\ SwapAssets(request, work, <<>>)
  BY DEF Collect
<1>2. TraderTypeOK /\ request \in Seq(Ask)
  BY RequestAssumption DEF TraderInv, Ask
<1>3. work \in SUBSET Work(request) /\ work \in SUBSET DOMAIN request
  BY DEF Work
<1> HIDE DEF work
<1>4. \A i, j \in work : request[i].info = request[j].info => i = j
  BY <1>1, <1>3
<1>5. /\ queue' \in Seq(Messages) /\ queue' # <<>>
      /\ Shaped(queue') /\ Covered(queue', balance) /\ Routed(queue') /\ Funded(queue', balance)
  BY <1>1, <1>2, <1>3, <1>4, SwapAssetsFlows
<1>6. TraderTypeOK'
  BY <1>1, <1>2, <1>5 DEF TraderTypeOK
<1>7. \A a \in Assets : balance[a] \in Nat /\ before'[a] = balance[a]
  BY <1>1, <1>2 DEF TraderTypeOK
<1>8. Flowing(queue, balance)'
  <2>1. Shaped(queue)' /\ Covered(queue, balance)' /\ Routed(queue)' /\ Funded(queue, balance)'
    BY <1>1, <1>5 DEF Shaped, Covered, Routed, Funded, SwapsIn, HopOf, Pool
  <2>2. Sold(queue, balance)'
    BY <1>1, <1>7 DEF Sold
  <2>3. Gained(queue, balance)'
    BY <1>1, <1>5, <1>7, AssetAssumption DEF Gained
  <2> QED BY <2>1, <2>2, <2>3 DEF Flowing
<1> QED
  BY <1>1, <1>6, <1>8 DEF TraderInv

LEMMA RunSwapInv ==
  ASSUME TraderInv, NEW received \in 1..MaxHeld, RunSwap(received)
  PROVE  TraderInv'
<1> DEFINE m == Head(queue)
<1>1. /\ queue # <<>> /\ m.kind = "swap" /\ m.amount <= balance[m.from]
      /\ balance' = [balance EXCEPT ![m.from] = @ - m.amount, ![m.to] = @ + received]
      /\ queue' = Tail(queue)
      /\ pools' = pools /\ routes' = routes /\ running' = running /\ before' = before
  BY DEF RunSwap
<1>2. TraderTypeOK /\ running /\ Flowing(queue, balance)
  BY <1>1 DEF TraderInv
<1>3. balance \in [Assets -> Nat] /\ queue \in Seq(Messages) /\ received \in Nat \ {0}
  BY <1>2, HeldAssumption DEF TraderTypeOK
<1>4. balance' \in [Assets -> Nat]
  <2>1. m \in Messages /\ m = queue[1] /\ 1 \in SwapsIn(queue)
    BY <1>1, <1>3 DEF SwapsIn
  <2>2. m.from \in Assets /\ m.to \in Assets /\ m.amount \in Nat
    BY <1>1, <2>1, MessageKinds
  <2>3. m.from # m.to
    BY <1>2, <2>1, PoolOfTwo DEF Flowing, Routed, TraderTypeOK
  <2> HIDE DEF m
  <2> QED BY <1>1, <1>3, <2>2, <2>3, BalanceAfter
<1>5. Flowing(Tail(queue), balance')
  BY <1>1, <1>2, <1>3, <1>4, SwapFlows
<1>6. Flowing(queue, balance)'
  BY <1>1, <1>5, FlowingNext
<1>7. TraderTypeOK'
  <2> HIDE DEF m
  <2>1. queue' \in Seq(Messages)
    BY ONLY <1>1, <1>3
  <2>2. /\ pools \in Markets /\ DOMAIN routes \subseteq Assets /\ running \in BOOLEAN
        /\ \A a \in DOMAIN routes : routes[a] \in Assets
        /\ before \in [Assets -> Nat]
    BY ONLY <1>2 DEF TraderTypeOK
  <2>3. pools' = pools /\ routes' = routes /\ running' = running /\ before' = before
    BY ONLY <1>1
  <2> QED BY ONLY <1>4, <2>1, <2>2, <2>3 DEF TraderTypeOK
<1>8. running' = TRUE
  BY <1>1, <1>2 DEF TraderTypeOK
<1> QED
  <2> HIDE DEF m
  <2> QED BY ONLY <1>6, <1>7, <1>8 DEF TraderInv

(* SwapHopAssets is the last message, and there is something of each asset *)
(* that it is to sell.                                                     *)
LEMMA HopReady ==
  ASSUME TraderInv, queue # <<>>, Head(queue).kind = "hop"
  PROVE  /\ Len(queue) = 1 /\ Tail(queue) = <<>> /\ Head(queue).assets = HopOf(queue)
         /\ HopOf(queue) \in SUBSET Assets /\ HopOf(queue) # {}
         /\ SwapsIn(queue) = {} /\ Flowing(queue, balance) /\ running
         /\ \A a \in HopOf(queue) : balance[a] > 0
<1>1. TraderTypeOK /\ running /\ Flowing(queue, balance)
  BY DEF TraderInv
<1>2. queue \in Seq(Messages) /\ 1 \in 1..Len(queue) /\ queue[1] = Head(queue) /\ Len(queue) \in Nat
  BY <1>1 DEF TraderTypeOK
<1>3. Len(queue) = 1 /\ queue[1].assets # {}
  BY <1>1, <1>2 DEF Flowing, Shaped
<1>4. Tail(queue) = <<>>
  <2> DEFINE t == Tail(queue)
  <2>1. t \in Seq(Messages) /\ Len(t) = 0
    BY <1>2, <1>3
  <2> HIDE DEF t
  <2>2. t = <<>>
    BY <2>1
  <2> QED BY <2>2 DEF t
<1>5. HopOf(queue) = Head(queue).assets
  BY <1>2, <1>3 DEF HopOf
<1>6. HopOf(queue) \in SUBSET Assets
  <2>1. Head(queue) \in Messages
    BY <1>2
  <2> QED BY <1>5, <2>1, MessageKinds
<1>7. SwapsIn(queue) = {}
  BY <1>2, <1>3 DEF SwapsIn
<1>8. \A a \in HopOf(queue) : balance[a] > 0
  BY <1>1, <1>7 DEF Flowing, Funded
<1> QED
  BY <1>1, <1>2, <1>3, <1>4, <1>5, <1>6, <1>7, <1>8

LEMMA RunHopInv ==
  ASSUME TraderInv, RunHop
  PROVE  TraderInv'
<1> DEFINE assets == Head(queue).assets
<1>1. /\ queue # <<>> /\ Head(queue).kind = "hop"
      /\ pools' = pools /\ routes' = routes /\ running' = running /\ before' = before
      /\ balance' = balance
  BY DEF RunHop
<1>2. PICK order \in Bijection(1..Cardinality(assets), assets) :
        SwapAssets(HopAsks(order), Work(HopAsks(order)), Tail(queue))
  BY DEF RunHop
<1>3. /\ TraderTypeOK /\ running /\ Flowing(queue, balance)
      /\ Tail(queue) = <<>> /\ assets = HopOf(queue) /\ assets \in SUBSET Assets
      /\ SwapsIn(queue) = {} /\ \A a \in assets : balance[a] > 0
  BY <1>1, HopReady DEF TraderInv
<1>4. Cardinality(assets) \in Nat
  BY <1>3, AssetAssumption, FS_Subset, FS_CardinalityType
<1> DEFINE n == Cardinality(assets)
           asks == HopAsks(order)
           work == Work(asks)
<1> HIDE DEF assets
<1>5. /\ order \in [1..n -> assets]
      /\ \A i, j \in 1..n : order[i] = order[j] => i = j
      /\ \A a \in assets : \E i \in 1..n : order[i] = a
  BY <1>2 DEF Bijection, Injection, Surjection, IsInjective
<1> HIDE DEF n
<1>6. /\ asks \in Seq(Ask) /\ Len(asks) = n
      /\ \A i \in 1..n : asks[i] = [info |-> order[i], limit |-> 0]
  <2>1. asks = [i \in 1..n |-> [info |-> order[i], limit |-> 0]]
    BY <1>5 DEF HopAsks
  <2>2. \A i \in 1..n : [info |-> order[i], limit |-> 0] \in Ask
    BY <1>3, <1>5 DEF Ask
  <2>3. n \in Nat
    BY <1>4 DEF n
  <2> HIDE DEF asks
  <2> QED BY <2>1, <2>2, <2>3
<1>7. \A i \in 1..n : ToSwap(asks[i]) = balance[order[i]] /\ balance[order[i]] > 0
  <2> SUFFICES ASSUME NEW i \in 1..n
               PROVE  ToSwap(asks[i]) = balance[order[i]] /\ balance[order[i]] > 0
    OBVIOUS
  <2>1. asks[i].info = order[i] /\ asks[i].limit = 0
    BY <1>6
  <2>2. order[i] \in assets
    BY <1>5
  <2> HIDE DEF asks
  <2> QED BY <1>3, <2>1, <2>2 DEF ToSwap
<1> HIDE DEF asks
<1>8. work = 1..n
  BY <1>4, <1>6, <1>7 DEF Work, n
<1>9. \A i, j \in work : asks[i].info = asks[j].info => i = j
  BY <1>5, <1>6, <1>8
<1>10. SwapAssets(asks, work, <<>>)
  BY <1>2, <1>3 DEF asks
<1> HIDE DEF work
<1>11. work \in SUBSET Work(asks)
  BY DEF work
<1>12. /\ queue' \in Seq(Messages) /\ queue' # <<>>
       /\ Shaped(queue') /\ Covered(queue', balance) /\ Routed(queue') /\ Funded(queue', balance)
       /\ \A k \in work : \E i \in SwapsIn(queue') :
            queue'[i].from = asks[k].info /\ queue'[i].amount = ToSwap(asks[k])
       /\ \A k \in work : CanSwap(asks[k].info)
  BY <1>3, <1>6, <1>9, <1>10, <1>11, SwapAssetsFlows
<1>13. Sold(queue', balance)
  <2> SUFFICES ASSUME NEW a \in Assets \ {Paloma}, ~(balance[a] <= before[a])
               PROVE  \E i \in SwapsIn(queue') : queue'[i].from = a /\ queue'[i].amount = balance[a]
    BY DEF Sold
  <2>1. a \in assets
    BY <1>3 DEF Flowing, Sold
  <2>2. PICK k \in 1..n : order[k] = a
    BY <1>5, <2>1
  <2>3. asks[k].info = a /\ ToSwap(asks[k]) = balance[a] /\ k \in work
    BY <1>6, <1>7, <1>8, <2>2
  <2> QED BY <1>12, <2>3
<1>14. Gained(queue', balance)
  BY <1>3, <1>12 DEF Flowing, Gained
<1>15. Flowing(queue', balance')
  BY <1>1, <1>12, <1>13, <1>14 DEF Flowing
<1>16. Flowing(queue, balance)'
  BY <1>1, <1>15, FlowingNext
<1>17. TraderTypeOK'
  BY <1>1, <1>3, <1>12 DEF TraderTypeOK
<1> QED
  BY <1>1, <1>3, <1>16, <1>17 DEF TraderInv

LEMMA TraderNextInv ==
  ASSUME TraderInv, TraderNext
  PROVE  TraderInv'
<1>1. TraderTypeOK
  BY DEF TraderInv
<1>2. CASE Commit
  <2>1. TraderTypeOK' /\ ~running' /\ queue' = <<>>
    BY <1>1, <1>2 DEF Commit, TraderTypeOK
  <2> QED BY <2>1, IdleInv
<1>3. CASE Abort
  <2>1. <<>> \in Seq(Messages)
    OBVIOUS
  <2>2. TraderTypeOK' /\ ~running' /\ queue' = <<>>
    BY <1>1, <1>3, <2>1 DEF Abort, TraderTypeOK
  <2> QED BY <2>2, IdleInv
<1>4. ASSUME NEW a \in Assets, ReceiveFee(a) PROVE TraderInv'
  <2>1. balance' \in [Assets -> Nat]
    BY <1>1, <1>4 DEF ReceiveFee, TraderTypeOK
  <2>2. TraderTypeOK' /\ ~running' /\ queue' = <<>>
    BY <1>1, <1>4, <2>1 DEF ReceiveFee, TraderTypeOK, transaction, TraderInv
  <2> QED BY <2>2, IdleInv
<1>5. CASE ChangePools
  <2>1. TraderTypeOK' /\ ~running' /\ queue' = <<>>
    BY <1>1, <1>5 DEF ChangePools, TraderTypeOK, transaction, TraderInv
  <2> QED BY <2>1, IdleInv
<1> QED
  BY <1>2, <1>3, <1>4, <1>5, UpdateRoutesInv, CollectInv, RunSwapInv, RunHopInv DEF TraderNext


----------------------------------------------------------------------------
(* Both *)

FlowInv == TraderInv /\ SplitterTypeOK

LEMMA FlowInitInv == Init => FlowInv
<1> SUFFICES ASSUME Init PROVE FlowInv
  OBVIOUS
<1>1. TraderInv
  BY TraderInitInv DEF Init
<1>2. SplitterTypeOK
  BY DEF Init, SplitterInit, SplitterTypeOK
<1> QED
  BY <1>1, <1>2 DEF FlowInv

LEMMA TraderKept ==
  ASSUME TraderInv, UNCHANGED traderVars
  PROVE  TraderInv'
<1>1. /\ pools' = pools /\ routes' = routes /\ balance' = balance
      /\ running' = running /\ queue' = queue /\ before' = before
  BY DEF traderVars, transaction
<1>2. TraderTypeOK'
  BY <1>1 DEF TraderInv, TraderTypeOK
<1>3. CASE running
  <2>1. Flowing(queue', balance')
    BY <1>1, <1>3 DEF TraderInv
  <2>2. Flowing(queue, balance)'
    BY <1>1, <2>1, FlowingNext
  <2> QED BY <1>1, <1>2, <1>3, <2>2 DEF TraderInv
<1>4. CASE ~running
  <2>1. ~running' /\ queue' = <<>>
    BY <1>1, <1>4 DEF TraderInv
  <2> QED BY <1>2, <2>1, IdleInv
<1> QED
  BY <1>3, <1>4

LEMMA TransferInv ==
  ASSUME TraderInv, NEW amount, Transfer(amount)
  PROVE  TraderInv'
<1>1. /\ ~running /\ amount \in 1..balance[Paloma]
      /\ balance' = [balance EXCEPT ![Paloma] = @ - amount]
      /\ pools' = pools /\ routes' = routes
      /\ running' = running /\ queue' = queue /\ before' = before
  BY DEF Transfer, transaction
<1>2. TraderTypeOK /\ queue = <<>> /\ Paloma \in Assets
  BY <1>1, AssetAssumption DEF TraderInv
<1>3. balance[Paloma] - amount \in Nat
  BY <1>1, <1>2 DEF TraderTypeOK
<1>4. balance' \in [Assets -> Nat]
  BY <1>1, <1>2, <1>3 DEF TraderTypeOK
<1>5. TraderTypeOK'
  BY <1>1, <1>2, <1>4 DEF TraderTypeOK
<1> QED
  BY <1>1, <1>2, <1>5, IdleInv

LEMMA FlowNextInv ==
  ASSUME FlowInv, [Next]_vars
  PROVE  FlowInv'
<1>1. TraderInv /\ balance \in [Assets -> Nat]
  BY DEF FlowInv, TraderInv, TraderTypeOK
<1>2. SplitterTypeOK'
  BY <1>1, SplitterSteps DEF FlowInv
<1>3. CASE UNCHANGED vars
  <2>1. UNCHANGED traderVars
    BY <1>3 DEF vars
  <2> QED BY <1>1, <1>2, <2>1, TraderKept DEF FlowInv
<1>4. CASE TraderNext
  BY <1>1, <1>2, <1>4, TraderNextInv DEF FlowInv
<1>5. ASSUME NEW amount \in 1..MaxHeld, Spend(amount) PROVE FlowInv'
  BY <1>1, <1>2, <1>5, TransferInv DEF FlowInv, Spend
<1>6. ASSUME UNCHANGED traderVars PROVE FlowInv'
  BY <1>1, <1>2, <1>6, TraderKept DEF FlowInv
<1> QED
  BY <1>3, <1>4, <1>5, <1>6 DEF Next, Deposit, Split

LEMMA FlowInvKept == Spec => []FlowInv
<1>1. FlowInv /\ [Next]_vars => FlowInv'
  BY FlowNextInv
<1> QED
  BY <1>1, FlowInitInv, PTL DEF Spec

(* No balance of the two contracts goes below zero, and every swap that is *)
(* waiting is of known assets and of more than nothing.                    *)
THEOREM FlowTypeCorrect == Spec => []TypeOK
<1>1. FlowInv => TypeOK
  BY DEF FlowInv, TraderInv, TypeOK
<1> QED
  BY <1>1, FlowInvKept, PTL

(* The balances that swap_assets reads before any of its swaps runs are    *)
(* still there when each swap does, for any requests and routes.           *)
THEOREM SwapsCoveredAlways == Spec => []SwapsCovered
<1>1. FlowInv => SwapsCovered
  <2> SUFFICES ASSUME TraderInv PROVE SwapsCovered
    BY DEF FlowInv
  <2>1. queue \in Seq(Messages)
    BY DEF TraderInv, TraderTypeOK
  <2>2. SwapsIn(queue) = {i \in DOMAIN queue : queue[i].kind = "swap"}
    BY <2>1 DEF SwapsIn
  <2>3. CASE running
    <3>1. Covered(queue, balance)
      BY <2>3 DEF TraderInv, Flowing
    <3> QED BY <2>2, <3>1 DEF Covered, SwapsCovered
  <2>4. CASE ~running
    <3>1. SwapsIn(queue) = {}
      BY <2>4 DEF TraderInv, SwapsIn
    <3> QED BY <2>2, <3>1 DEF SwapsCovered
  <2> QED BY <2>3, <2>4
<1> QED
  BY <1>1, FlowInvKept, PTL

(* A collection that went through has sold whatever it bought on the way,  *)
(* and brought in PALOMA, for any requests and routes, loops included.     *)
THEOREM NothingLeftAlways == Spec => []NothingLeftOnTheWay
<1>1. FlowInv => NothingLeftOnTheWay
  <2> SUFFICES ASSUME TraderInv, running, queue = <<>>
               PROVE  /\ \A a \in Assets \ {Paloma} : balance[a] <= before[a]
                      /\ Paloma \notin DOMAIN routes => balance[Paloma] > before[Paloma]
    BY DEF FlowInv, NothingLeftOnTheWay
  <2>1. Sold(queue, balance) /\ Gained(queue, balance)
    BY DEF TraderInv, Flowing
  <2>2. HopOf(queue) = {} /\ SwapsIn(queue) = {}
    BY DEF HopOf, SwapsIn
  <2> QED BY <2>1, <2>2 DEF Sold, Gained
<1> QED
  BY <1>1, FlowInvKept, PTL

(* Valid routes never stop a collection half way, for any depth of routes. *)
THEOREM HopsGoThroughAlways == Spec => []HopsGoThrough
<1>1. FlowInv => HopsGoThrough
  <2> SUFFICES ASSUME TraderInv, queue # <<>>, Head(queue).kind = "hop",
                      \A a \in DOMAIN routes : ValidRoute(routes, a, routes[a])
               PROVE  CanSwapAll({a \in Head(queue).assets : balance[a] > 0})
    BY DEF FlowInv, HopsGoThrough
  <2>1. /\ Head(queue).assets = HopOf(queue) /\ HopOf(queue) # {} /\ Flowing(queue, balance)
        /\ \A a \in HopOf(queue) : balance[a] > 0
    BY HopReady
  <2>2. ASSUME NEW a \in HopOf(queue) PROVE CanSwap(a)
    <3>1. PICK x \in DOMAIN routes : routes[x] = a
      BY <2>1 DEF Flowing, Routed
    <3>2. CASE a \in DOMAIN routes
      BY <3>2 DEF CanSwap
    <3>3. CASE a \notin DOMAIN routes
      <4>1. ValidRoute(routes, x, a)
        BY <3>1
      <4>2. PICK depth \in 0..RoutesMaxDepth : \E way \in [0..depth -> Assets] :
              /\ way[0] = a
              /\ \A i \in 1..depth : way[i - 1] \in DOMAIN routes
              /\ Pool(way[depth], Paloma)
        BY <4>1 DEF ValidRoute
      <4>3. PICK way \in [0..depth -> Assets] :
              /\ way[0] = a
              /\ \A i \in 1..depth : way[i - 1] \in DOMAIN routes
              /\ Pool(way[depth], Paloma)
        BY <4>2
      <4>4. depth = 0
        <5> SUFFICES ASSUME depth # 0 PROVE FALSE
          OBVIOUS
        <5>1. 1 \in 1..depth /\ 1 - 1 = 0
          BY DepthAssumption
        <5> QED BY <3>3, <4>3, <5>1
      <4> QED BY <3>3, <4>3, <4>4 DEF CanSwap
    <3> QED BY <3>2, <3>3
  <2> QED BY <2>1, <2>2 DEF CanSwapAll
<1> QED
  BY <1>1, FlowInvKept, PTL

(* However often a token is listed, whatever the weights and however many  *)
(* recipients: a split pays each its share once, or nothing of the token.  *)
THEOREM SharesPaidOnceAlways == Spec => SharesPaidOnce
<1>1. FlowInv /\ [Next]_vars =>
        [\A t \in Splittable : PaidOut(t)' # PaidOut(t) =>
           \A r \in Recipients : /\ paid'[r][t] = paid[r][t] + Share(r, held[t])
                                 /\ t \in Cw20s => paid'[r][t] > paid[r][t]]_splitterVars
  BY SplitterSteps DEF FlowInv, TraderInv, TraderTypeOK, PaysOnce
<1> QED
  BY <1>1, FlowInvKept, PTL DEF Spec, SharesPaidOnce

(* What a split leaves of a token is less than one unit for each recipient, *)
(* since the weights add up to one.                                         *)
THEOREM OnlyDustLeftAlways == Spec => OnlyDustLeft
<1>1. FlowInv /\ [Next]_vars =>
        [\A t \in Splittable : PaidOut(t)' # PaidOut(t) => held'[t] < Cardinality(Recipients)]_splitterVars
  BY SplitterSteps DEF FlowInv, TraderInv, TraderTypeOK, PaysOnce
<1> QED
  BY <1>1, FlowInvKept, PTL DEF Spec, OnlyDustLeft
=============================================================================
