---------------------------- MODULE StakeProofs ----------------------------
(***************************************************************************)
(* Theorems about the staking contract, for every number of stakers,       *)
(* period, multiplier, min_bond and clock: the custody of the staked and   *)
(* of the reward tokens and the way out of a bond; then the totals and the *)
(* rewards: TOTAL_PER_PERIOD is the sum of what the stakers have bonded,   *)
(* nobody's earned rewards change but by a distribution, and what is owed  *)
(* can always be paid; and last, where tokens may go and when: the         *)
(* contract implements the escrow of StakeEscrow.                          *)
(***************************************************************************)
EXTENDS Stake, TokenUnitsProofs

USE AccountAssumption, PeriodsAssumption, PowerAssumption, RoleAssumption,
    RewardAssumption, HoldingsAssumption, TimeAssumption

----------------------------------------------------------------------------
(* The keys are finitely many *)

LEMMA TriplesFinite ==
  ASSUME NEW A, NEW B, NEW C, IsFiniteSet(A), IsFiniteSet(B), IsFiniteSet(C)
  PROVE  IsFiniteSet(A \X B \X C)
<1> DEFINE P == (A \X B) \X C
           T == A \X B \X C
           f == [x \in P |-> <<x[1][1], x[1][2], x[2]>>]
<1>1. IsFiniteSet(P)
  BY FS_Product
<1>2. f \in [P -> T]
  OBVIOUS
<1>3. ASSUME NEW t \in T PROVE \E x \in P : f[x] = t
  <2>1. <<<<t[1], t[2]>>, t[3]>> \in P
    OBVIOUS
  <2>2. f[<<<<t[1], t[2]>>, t[3]>>] = t
    BY <2>1
  <2> QED BY <2>1, <2>2
<1>4. f \in Surjection(P, T)
  BY <1>2, <1>3 DEF Surjection
<1> QED
  <2> HIDE DEF P, T, f
  <2>1. IsFiniteSet(T)
    BY <1>1, <1>4, FS_Surjection
  <2> QED BY <2>1 DEF T

LEMMA TimesFinite == IsFiniteSet(Times)
<1>1. 0 \in Int /\ Horizon \in Int
  OBVIOUS
<1> QED
  BY <1>1, FS_Interval DEF Times

LEMMA StakeKeysFinite == IsFiniteSet(StakeKeys)
BY FS_Product DEF StakeKeys

LEMMA LockKeysFinite == IsFiniteSet(LockKeys)
BY TimesFinite, TriplesFinite DEF LockKeys

LEMMA ClaimKeysFinite == IsFiniteSet(ClaimKeys)
BY TimesFinite, FS_Product DEF ClaimKeys

----------------------------------------------------------------------------
(* Types of the operators *)

LEMMA BondedType ==
  ASSUME stake \in [StakeKeys -> Nat], locked \in [LockKeys -> Nat],
         NEW A \in SUBSET Account, NEW P \in SUBSET Periods
  PROVE  Bonded(A, P) \in Nat
<1>1. A \X P \in SUBSET StakeKeys
  BY DEF StakeKeys
<1>2. A \X P \X Times \in SUBSET LockKeys
  BY DEF LockKeys
<1>3. Total(stake, A \X P) \in Nat
  BY <1>1, StakeKeysFinite, TotalOfPart
<1>4. Total(locked, A \X P \X Times) \in Nat
  BY <1>2, LockKeysFinite, TotalOfPart
<1> QED
  BY <1>3, <1>4 DEF Bonded

LEMMA CalcPowerType ==
  ASSUME NEW s \in Nat, NEW m \in Nat
  PROVE  CalcPower(s, m) \in Nat
<1>1. Counted(s) \in Nat
  BY DEF Counted
<1>2. Counted(s) * m \in Nat
  BY <1>1
<1>3. (Counted(s) * m) \div DecimalOne \in Nat
  BY <1>2
<1> QED
  BY <1>3 DEF CalcPower

(* what the powers of the stakers are computed from *)
PowerTypeOK ==
  /\ stake \in [StakeKeys -> Nat]
  /\ locked \in [LockKeys -> Nat]
  /\ DOMAIN dist \subseteq Asset
  /\ dist \in [DOMAIN dist -> Distribution]

LEMMA RewardsPowerType ==
  PowerTypeOK => \A a \in Account, d \in DOMAIN dist : RewardsPower(a, d) \in Nat
<1> SUFFICES ASSUME PowerTypeOK, NEW a \in Account, NEW d \in DOMAIN dist
             PROVE  RewardsPower(a, d) \in Nat
  OBVIOUS
<1> DEFINE f == [p \in Periods |-> CalcPower(TotalStake(a, p), dist[d].multipliers[p])]
<1>1. ASSUME NEW p \in Periods PROVE f[p] \in Nat
  <2>1. TotalStake(a, p) \in Nat
    BY BondedType DEF TotalStake, PowerTypeOK
  <2>2. dist[d].multipliers[p] \in Nat
    BY DEF PowerTypeOK, Distribution
  <2> QED BY <2>1, <2>2, CalcPowerType
<1>2. Total(f, Periods) \in Nat
  <2>1. f \in [Periods -> Nat]
    BY <1>1
  <2> HIDE DEF f
  <2> QED BY <2>1, TotalType
<1> QED
  BY <1>2 DEF RewardsPower

LEMMA TotalRewardsPowerType ==
  ASSUME total \in [Periods -> [staked : Nat, powered : Nat]],
         NEW d \in DOMAIN dist, dist \in [DOMAIN dist -> Distribution]
  PROVE  TotalRewardsPower(d) \in Nat
<1> DEFINE f == [p \in Periods |-> CalcPower(total[p].powered, dist[d].multipliers[p])]
<1>1. ASSUME NEW p \in Periods PROVE f[p] \in Nat
  <2>1. total[p].powered \in Nat /\ dist[d].multipliers[p] \in Nat
    BY DEF Distribution
  <2> QED BY <2>1, CalcPowerType
<1>2. Total(f, Periods) \in Nat
  <2>1. f \in [Periods -> Nat]
    BY <1>1
  <2> HIDE DEF f
  <2> QED BY <2>1, TotalType
<1> QED
  BY <1>2 DEF TotalRewardsPower

(* update_rewards keeps the corrections integers. *)
LEMMA UpdateRewardsType ==
  ASSUME adjust \in [Account \X Asset -> [correction : Int, withdrawn : Nat]],
         PowerTypeOK, PowerTypeOK', dist' = dist,
         NEW A \in SUBSET Account, UpdateRewards(A)
  PROVE  adjust' \in [Account \X Asset -> [correction : Int, withdrawn : Nat]]
<1>1. \A a \in Account, d \in DOMAIN dist : RewardsPower(a, d) \in Nat
  BY RewardsPowerType
<1>2. (\A a \in Account, d \in DOMAIN dist : RewardsPower(a, d) \in Nat)'
  BY RewardsPowerType, PTL
<1>3. ASSUME NEW k \in Account \X Asset, k[1] \in A, k[2] \in DOMAIN dist
      PROVE  Correction(k[2], RewardsPower(k[1], k[2]), RewardsPower(k[1], k[2])') \in Int
  <2>1. RewardsPower(k[1], k[2]) \in Nat /\ RewardsPower(k[1], k[2])' \in Nat
    BY <1>1, <1>2, <1>3
  <2>2. dist[k[2]].sharesPerPoint \in Nat
    BY <1>3 DEF PowerTypeOK, Distribution
  <2> QED BY <2>1, <2>2 DEF Correction
<1>4. ASSUME NEW k \in Account \X Asset
      PROVE  adjust'[k] \in [correction : Int, withdrawn : Nat]
  <2>1. CASE k[1] \in A /\ k[2] \in DOMAIN dist
    <3>1. adjust'[k] = [adjust[k] EXCEPT !.correction = @ - Correction(k[2],
                          RewardsPower(k[1], k[2]), RewardsPower(k[1], k[2])')]
      BY <2>1 DEF UpdateRewards
    <3> QED BY <1>3, <2>1, <3>1
  <2>2. CASE ~(k[1] \in A /\ k[2] \in DOMAIN dist)
    BY <2>2 DEF UpdateRewards
  <2> QED BY <2>1, <2>2
<1>5. DOMAIN adjust' = Account \X Asset /\ adjust' = [k \in Account \X Asset |-> adjust'[k]]
  BY DEF UpdateRewards
<1> QED
  BY <1>4, <1>5

----------------------------------------------------------------------------
(* Type correctness, one lemma per group of actions *)

LEMMA PastTimes ==
  ASSUME TypeOK
  PROVE  now \in Nat /\ 0..now \subseteq Times
<1>1. now \in Nat /\ now <= MaxTime /\ MaxTime \in Nat
  BY DEF TypeOK
<1>2. now <= Horizon /\ Horizon \in Nat
  BY <1>1
<1>3. \A t \in 0..now : t \in 0..Horizon
  BY <1>1, <1>2
<1> QED
  BY <1>1, <1>3 DEF Times

LEMMA UnlockedType ==
  ASSUME TypeOK, NEW a \in Account, NEW p \in Periods
  PROVE  /\ Unlocked(a, p) \in Nat
         /\ TotalStake(a, p) \in Nat
         /\ Unlocked(a, p) <= TotalStake(a, p)
         /\ LocksLeft(a, p) \in [LockKeys -> Nat]
<1>1. {a} \X {p} \X (0..now) \in SUBSET LockKeys /\ locked \in [LockKeys -> Nat]
  <2>1. 0..now \subseteq Times /\ locked \in [LockKeys -> Nat]
    BY PastTimes DEF TypeOK
  <2> QED BY <2>1 DEF LockKeys
<1>2. Total(locked, {a} \X {p} \X (0..now)) \in Nat
  BY <1>1, LockKeysFinite, TotalOfPart
<1>3. stake[<<a, p>>] \in Nat
  BY DEF TypeOK, StakeKeys
<1>4. TotalStake(a, p) \in Nat
  BY BondedType DEF TotalStake, TypeOK
<1>5. Unlocked(a, p) <= TotalStake(a, p)
  <2>1. {a} \X {p} \X Times \in SUBSET LockKeys
    BY DEF LockKeys
  <2>2. {a} \X {p} \X (0..now) \in SUBSET ({a} \X {p} \X Times)
    <3>1. 0..now \subseteq Times
      BY PastTimes
    <3> QED BY <3>1
  <2>3. /\ Total(locked, {a} \X {p} \X (0..now)) <= Total(locked, {a} \X {p} \X Times)
        /\ Total(locked, {a} \X {p} \X Times) \in Nat
    <3> DEFINE R == {a} \X {p} \X Times
               Q == {a} \X {p} \X (0..now)
    <3>1. R \in SUBSET LockKeys /\ Q \in SUBSET R
      BY <2>1, <2>2
    <3> HIDE DEF R, Q
    <3>2. Total(locked, Q) <= Total(locked, R) /\ Total(locked, R) \in Nat
      BY <1>1, <3>1, LockKeysFinite, TotalOfPart, TotalGrows
    <3> QED BY <3>2 DEF R, Q
  <2>4. Total(stake, {a} \X {p}) = stake[<<a, p>>] /\ stake[<<a, p>>] \in Nat
    <3>1. {a} \X {p} = {<<a, p>>} /\ stake[<<a, p>>] \in Nat
      BY DEF TypeOK, StakeKeys
    <3> QED BY <3>1, TotalOfOne
  <2> QED BY <1>2, <2>3, <2>4 DEF Unlocked, TotalStake, Bonded
<1> QED
  BY <1>2, <1>3, <1>4, <1>5 DEF Unlocked, LocksLeft, TypeOK

(* An entry of the totals stays a pair of natural numbers unless it underflows. *)
LEMMA UpdateTotalStakeType ==
  ASSUME NEW entry \in [staked : Nat, powered : Nat], NEW old \in Nat, NEW new \in Nat
  PROVE  UpdateTotalStake(entry, old, new) \in [staked : Int, powered : Int]
BY DEF UpdateTotalStake, Counted

LEMMA RemoveStakeType ==
  ASSUME TypeOK, NEW a \in Account, NEW p \in Periods, NEW n \in Nat, RemoveStake(a, p, n)
  PROVE  /\ stake' \in [StakeKeys -> Nat]
         /\ locked' \in [LockKeys -> Nat]
         /\ total' \in [Periods -> [staked : Nat, powered : Nat]]
         /\ DOMAIN dist' \subseteq Asset
         /\ dist' \in [DOMAIN dist' -> Distribution]
         /\ curve' \in [DOMAIN dist' -> [Times -> Nat]]
         /\ adjust' \in [Account \X Asset -> [correction : Int, withdrawn : Nat]]
         /\ delegated' \in [Account -> Account]
         /\ rewardPool' \in [Asset -> Nat]
         /\ rewardBalance' \in [Asset -> Nat]
<1>1. Unlocked(a, p) - n \in Nat
  <2>1. Unlocked(a, p) \in Nat
    BY UnlockedType
  <2>2. n <= Unlocked(a, p)
    BY DEF RemoveStake, CanRelease
  <2> QED BY <2>1, <2>2
<1>2. stake' \in [StakeKeys -> Nat]
  BY <1>1 DEF RemoveStake, TypeOK, StakeKeys
<1>3. locked' \in [LockKeys -> Nat]
  BY UnlockedType DEF RemoveStake
<1>4. TotalStake(a, p) \in Nat /\ TotalStake(a, p) - n \in Nat
  BY <1>1, UnlockedType DEF RemoveStake, CanRelease
<1>5. total' \in [Periods -> [staked : Int, powered : Int]]
  <2>1. total[p] \in [staked : Nat, powered : Nat]
    BY DEF TypeOK
  <2>2. UpdateTotalStake(total[p], TotalStake(a, p), TotalStake(a, p) - n)
          \in [staked : Int, powered : Int]
    BY <1>4, <2>1, UpdateTotalStakeType
  <2>3. total \in [Periods -> [staked : Int, powered : Int]]
    BY DEF TypeOK
  <2>4. total' = [total EXCEPT ![p] =
                   UpdateTotalStake(total[p], TotalStake(a, p), TotalStake(a, p) - n)]
    BY DEF RemoveStake, TypeOK
  <2> QED BY <2>2, <2>3, <2>4
<1>6. total' \in [Periods -> [staked : Nat, powered : Nat]]
  BY <1>5 DEF RemoveStake, NoUnderflow
<1>7. PowerTypeOK /\ PowerTypeOK' /\ dist' = dist
  BY <1>2, <1>3 DEF PowerTypeOK, RemoveStake, TypeOK
<1>8. adjust' \in [Account \X Asset -> [correction : Int, withdrawn : Nat]]
  <2>1. UpdateRewards({a})
    BY DEF RemoveStake
  <2> QED BY <1>7, <2>1, UpdateRewardsType DEF TypeOK
<1> QED
  BY <1>2, <1>3, <1>6, <1>7, <1>8 DEF RemoveStake, TypeOK

LEMMA UnbondType ==
  ASSUME TypeOK, NEW a \in Account, NEW p \in Periods, NEW n \in Nat, Unbond(a, p, n)
  PROVE  TypeOK'
<1>1. RemoveStake(a, p, n)
  BY DEF Unbond
<1>2. now + p \in Times
  <2>1. now \in 0..MaxTime
    BY DEF TypeOK
  <2>2. p \in Nat /\ MaxTime + p <= Horizon
    OBVIOUS
  <2> QED BY <2>1, <2>2 DEF Times
<1>3. /\ wallet' \in [Account -> Nat]
      /\ lpBalance' \in Nat
      /\ totalStaked' \in [staked : Nat, unbonding : Nat]
      /\ claims' \in [ClaimKeys -> Nat]
  <2>1. CASE unbondAll
    BY <2>1 DEF Unbond, TypeOK, SaturatingSub
  <2>2. CASE ~unbondAll
    <3>1. <<a, now + p>> \in ClaimKeys
      BY <1>2 DEF ClaimKeys
    <3>2. claims' \in [ClaimKeys -> Nat]
      <4> DEFINE k == <<a, now + p>>
      <4>1. claims' = [claims EXCEPT ![k] = @ + n] /\ claims \in [ClaimKeys -> Nat] /\ k \in ClaimKeys
        BY <2>2, <3>1 DEF Unbond, TypeOK
      <4> HIDE DEF k
      <4> QED BY <4>1
    <3> QED BY <2>2, <3>2 DEF Unbond, TypeOK, SaturatingSub
  <2> QED BY <2>1, <2>2
<1>4. UNCHANGED <<now, converted, unbondAll, admin>>
  BY DEF Unbond
<1> QED
  BY <1>1, <1>3, <1>4, RemoveStakeType DEF TypeOK

LEMMA MigrateStakeType ==
  ASSUME TypeOK, NEW a \in Account, NEW p \in Periods, NEW n \in Nat, MigrateStake(a, p, n)
  PROVE  TypeOK'
<1>1. RemoveStake(a, p, n)
  BY DEF MigrateStake
<1>2. /\ lpBalance' \in Nat
      /\ totalStaked' \in [staked : Nat, unbonding : Nat]
      /\ converted' \in [Account -> Nat]
  BY DEF MigrateStake, TypeOK, SaturatingSub
<1>3. UNCHANGED <<now, wallet, claims, unbondAll, admin>>
  BY DEF MigrateStake
<1> QED
  BY <1>1, <1>2, <1>3, RemoveStakeType DEF TypeOK

LEMMA RebondType ==
  ASSUME TypeOK, NEW a \in Account, NEW from \in Periods, NEW to \in Periods, NEW n \in Nat,
         Rebond(a, from, to, n)
  PROVE  TypeOK'
<1>1. /\ Unlocked(a, from) - n \in Nat /\ TotalStake(a, from) - n \in Nat
      /\ TotalStake(a, from) \in Nat /\ TotalStake(a, to) \in Nat
      /\ LocksLeft(a, from) \in [LockKeys -> Nat]
  <2>1. /\ Unlocked(a, from) \in Nat /\ TotalStake(a, from) \in Nat
        /\ Unlocked(a, from) <= TotalStake(a, from)
        /\ LocksLeft(a, from) \in [LockKeys -> Nat]
        /\ TotalStake(a, to) \in Nat
    BY UnlockedType
  <2>2. n <= Unlocked(a, from)
    BY DEF Rebond, CanRelease
  <2> QED BY <2>1, <2>2
<1>2. stake' \in [StakeKeys -> Nat]
  <2>1. stake' = [stake EXCEPT ![<<a, from>>] = Unlocked(a, from) - n,
                               ![<<a, to>>] = IF from < to THEN @ + n ELSE @]
    BY DEF Rebond
  <2>2. stake \in [StakeKeys -> Nat] /\ <<a, from>> \in StakeKeys /\ <<a, to>> \in StakeKeys
    BY DEF TypeOK, StakeKeys
  <2> QED BY <1>1, <2>1, <2>2
<1>3. locked' \in [LockKeys -> Nat]
  <2>1. CASE from < to
    BY <1>1, <2>1 DEF Rebond
  <2>2. CASE ~(from < to)
    <3>1. LockUntil(from, to) \in Times
      <4>1. now \in 0..MaxTime
        BY DEF TypeOK
      <4> QED BY <2>2, <4>1 DEF LockUntil, Times
    <3>2. <<a, to, LockUntil(from, to)>> \in LockKeys
      BY <3>1 DEF LockKeys
    <3> QED BY <1>1, <2>2, <3>2 DEF Rebond
  <2> QED BY <2>1, <2>2
<1>4. total' \in [Periods -> [staked : Nat, powered : Nat]]
  <2>1. total[from] \in [staked : Nat, powered : Nat] /\ total[to] \in [staked : Nat, powered : Nat]
    BY DEF TypeOK
  <2> DEFINE u == UpdateTotalStake(total[from], TotalStake(a, from), TotalStake(a, from) - n)
             v == UpdateTotalStake(total[to], TotalStake(a, to), TotalStake(a, to) + n)
  <2>2. u \in [staked : Int, powered : Int] /\ v \in [staked : Int, powered : Int]
    <3>1. TotalStake(a, to) + n \in Nat
      BY <1>1
    <3> QED BY <1>1, <2>1, <3>1, UpdateTotalStakeType
  <2>3. total' = [total EXCEPT ![from] = u, ![to] = v]
    BY DEF Rebond, TypeOK
  <2>4. total' \in [Periods -> [staked : Int, powered : Int]]
    <3>1. total \in [Periods -> [staked : Int, powered : Int]]
      BY DEF TypeOK
    <3> HIDE DEF u, v
    <3> QED BY <2>2, <2>3, <3>1
  <2>5. \A q \in Periods : total'[q].staked >= 0 /\ total'[q].powered >= 0
    BY DEF Rebond, NoUnderflow
  <2> HIDE DEF u, v
  <2>6. ASSUME NEW q \in Periods
        PROVE  total'[q] \in [staked : Nat, powered : Nat]
    <3>1. total'[q] \in [staked : Int, powered : Int]
      BY <2>4
    <3>2. total'[q].staked >= 0 /\ total'[q].powered >= 0
      BY <2>5
    <3> QED BY <3>1, <3>2
  <2> QED BY <2>4, <2>6
<1>5. adjust' \in [Account \X Asset -> [correction : Int, withdrawn : Nat]]
  <2>1. PowerTypeOK /\ PowerTypeOK' /\ dist' = dist
    BY <1>2, <1>3 DEF PowerTypeOK, Rebond, TypeOK
  <2>2. UpdateRewards({a})
    BY DEF Rebond
  <2> QED BY <2>1, <2>2, UpdateRewardsType DEF TypeOK
<1> QED
  BY <1>2, <1>3, <1>4, <1>5 DEF Rebond, TypeOK

LEMMA ClaimType ==
  ASSUME TypeOK, NEW a \in Account, Claim(a)
  PROVE  TypeOK'
<1>1. Matured(a) \in Nat
  <2>1. {a} \X (0..now) \in SUBSET ClaimKeys /\ claims \in [ClaimKeys -> Nat]
    <3>1. 0..now \subseteq Times /\ claims \in [ClaimKeys -> Nat]
      BY PastTimes DEF TypeOK
    <3> QED BY <3>1 DEF ClaimKeys
  <2> QED BY <2>1, ClaimKeysFinite, TotalOfPart DEF Matured
<1>2. claims' \in [ClaimKeys -> Nat]
  BY DEF Claim, ClaimsLeft, TypeOK
<1>3. /\ totalStaked' \in [staked : Nat, unbonding : Nat]
      /\ lpBalance' \in Nat
      /\ wallet' \in [Account -> Nat]
  BY <1>1 DEF Claim, TypeOK, SaturatingSub
<1> QED
  BY <1>2, <1>3 DEF Claim, TypeOK, rewardVars

(* What the message credits to each account is finite, so its sum is a number. *)
LEMMA MassBondType ==
  ASSUME TypeOK, NEW s \in Account, NEW p \in Periods, NEW sent \in Nat,
         NEW shares \in [Account -> Nat], MassBond(s, p, sent, shares)
  PROVE  TypeOK'
<1>1. stake' \in [StakeKeys -> Nat]
  BY DEF MassBond, TypeOK, StakeKeys
<1>2. total' \in [Periods -> [staked : Nat, powered : Nat]]
  <2> DEFINE gain == [a \in Account |-> Counted(TotalStake(a, p) + shares[a])
                                          - Counted(TotalStake(a, p))]
  <2>1. ASSUME NEW a \in Account PROVE gain[a] \in Nat
    <3>1. TotalStake(a, p) \in Nat
      BY UnlockedType
    <3> QED BY <3>1 DEF Counted
  <2>2. Total(gain, Account) \in Nat
    <3>1. gain \in [Account -> Nat]
      BY <2>1
    <3> HIDE DEF gain
    <3> QED BY <3>1, TotalType
  <2>3. Total(shares, Account) \in Nat
    BY TotalType
  <2>4. total' = [total EXCEPT ![p] = [staked |-> total[p].staked + Total(shares, Account),
                                       powered |-> total[p].powered + Total(gain, Account)]]
    BY DEF MassBond, TypeOK
  <2> HIDE DEF gain
  <2>5. total[p] \in [staked : Nat, powered : Nat]
    BY DEF TypeOK
  <2> QED BY <2>2, <2>3, <2>4, <2>5 DEF TypeOK
<1>3. adjust' \in [Account \X Asset -> [correction : Int, withdrawn : Nat]]
  <2>1. PowerTypeOK /\ PowerTypeOK' /\ dist' = dist
    BY <1>1 DEF PowerTypeOK, MassBond, TypeOK
  <2>2. UpdateRewards(Account)
    BY DEF MassBond
  <2> QED BY <2>1, <2>2, UpdateRewardsType DEF TypeOK
<1>4. /\ wallet' \in [Account -> Nat]
      /\ lpBalance' \in Nat
      /\ totalStaked' \in [staked : Nat, unbonding : Nat]
  BY DEF MassBond, TypeOK
<1> QED
  BY <1>1, <1>2, <1>3, <1>4 DEF MassBond, TypeOK

LEMMA PayoutType ==
  ASSUME TypeOK, NEW A \in SUBSET Account
  PROVE  /\ Bonded(A, Periods) \in Nat
         /\ Total(claims, A \X Times) \in Nat
         /\ Payout(A) \in Nat
<1>1. Bonded(A, Periods) \in Nat
  BY BondedType DEF TypeOK
<1>2. A \X Times \in SUBSET ClaimKeys /\ claims \in [ClaimKeys -> Nat]
  BY DEF ClaimKeys, TypeOK
<1>3. Total(claims, A \X Times) \in Nat
  BY <1>2, ClaimKeysFinite, TotalOfPart
<1> QED
  BY <1>1, <1>3 DEF Payout

LEMMA QuickUnbondType ==
  ASSUME TypeOK, NEW s \in Account, NEW stakers \in SUBSET Account, QuickUnbond(s, stakers)
  PROVE  TypeOK'
<1>1. /\ stake' \in [StakeKeys -> Nat]
      /\ locked' \in [LockKeys -> Nat]
      /\ claims' \in [ClaimKeys -> Nat]
  BY DEF QuickUnbond, TypeOK
<1>2. total' \in [Periods -> [staked : Nat, powered : Nat]]
  <2>1. ASSUME NEW p \in Periods
        PROVE  UpdateTotalStake(total[p], Bonded(stakers, {p}), 0) \in [staked : Int, powered : Int]
    <3>1. Bonded(stakers, {p}) \in Nat
      BY BondedType DEF TypeOK
    <3>2. total[p] \in [staked : Nat, powered : Nat]
      BY DEF TypeOK
    <3> QED BY <3>1, <3>2, UpdateTotalStakeType
  <2>2. total' \in [Periods -> [staked : Int, powered : Int]]
    BY <2>1 DEF QuickUnbond
  <2> QED BY <2>2 DEF QuickUnbond, NoUnderflow
<1>3. totalStaked' \in [staked : Nat, unbonding : Nat]
  <2>1. Bonded(stakers, Periods) \in Nat /\ Total(claims, stakers \X Times) \in Nat
    BY PayoutType
  <2> QED BY <2>1 DEF QuickUnbond, TypeOK
<1>4. lpBalance' \in Nat
  <2>1. Payout(stakers) \in Nat
    BY PayoutType
  <2> QED BY <2>1 DEF QuickUnbond, TypeOK
<1>5. wallet' \in [Account -> Nat]
  <2>1. \A a \in Account : Payout({a}) \in Nat
    BY PayoutType
  <2>2. wallet \in [Account -> Nat]
    BY DEF TypeOK
  <2>3. wallet' = [a \in Account |-> IF a \in stakers THEN wallet[a] + Payout({a}) ELSE wallet[a]]
    BY DEF QuickUnbond
  <2> QED BY <2>1, <2>2, <2>3
<1>6. adjust' \in [Account \X Asset -> [correction : Int, withdrawn : Nat]]
  <2>1. PowerTypeOK /\ PowerTypeOK' /\ dist' = dist
    <3>1. dist' = dist
      BY DEF QuickUnbond
    <3>2. PowerTypeOK
      BY DEF PowerTypeOK, TypeOK
    <3>3. PowerTypeOK'
      BY <1>1, <3>1, <3>2 DEF PowerTypeOK
    <3> QED BY <3>1, <3>2, <3>3
  <2>2. UpdateRewards(stakers)
    BY DEF QuickUnbond
  <2> QED BY <2>1, <2>2, UpdateRewardsType DEF TypeOK
<1> QED
  BY <1>1, <1>2, <1>3, <1>4, <1>5, <1>6 DEF QuickUnbond, TypeOK

(* The handlers that move no LP tokens leave the types of those alone. *)
LpTypeOK ==
  /\ wallet \in [Account -> Nat]
  /\ lpBalance \in Nat
  /\ converted \in [Account -> Nat]
  /\ stake \in [StakeKeys -> Nat]
  /\ locked \in [LockKeys -> Nat]
  /\ total \in [Periods -> [staked : Nat, powered : Nat]]
  /\ totalStaked \in [staked : Nat, unbonding : Nat]
  /\ claims \in [ClaimKeys -> Nat]

LEMMA RolesType ==
  ASSUME TypeOK, NEW s \in Account,
         \/ UnbondAll(s)
         \/ StopUnbondAll(s)
         \/ \E new \in NewAdmins : UpdateAdmin(s, new)
  PROVE  TypeOK'
<1>1. LpTypeOK /\ UNCHANGED lpVars /\ UNCHANGED rewardVars
  BY DEF TypeOK, LpTypeOK, UnbondAll, StopUnbondAll, UpdateAdmin
<1>2. LpTypeOK'
  BY <1>1 DEF LpTypeOK, lpVars
<1>3. now' \in 0..MaxTime /\ unbondAll' \in BOOLEAN /\ admin' \in Account \cup {NONE}
  <2>1. now \in 0..MaxTime /\ unbondAll \in BOOLEAN /\ admin \in Account \cup {NONE}
    BY DEF TypeOK
  <2>2. CASE UnbondAll(s)
    BY <2>1, <2>2 DEF UnbondAll
  <2>3. CASE StopUnbondAll(s)
    BY <2>1, <2>3 DEF StopUnbondAll
  <2>4. CASE \E new \in NewAdmins : UpdateAdmin(s, new)
    BY <2>1, <2>4 DEF UpdateAdmin
  <2> QED BY <2>2, <2>3, <2>4
<1>4. UNCHANGED <<dist, curve, adjust, delegated, rewardPool, rewardBalance>>
  BY <1>1 DEF rewardVars
<1> QED
  BY <1>2, <1>3, <1>4 DEF TypeOK, LpTypeOK

LEMMA CreateDistributionFlowType ==
  ASSUME TypeOK, NEW s \in Account, NEW d \in Asset, NEW m \in Multipliers,
         CreateDistributionFlow(s, d, m)
  PROVE  TypeOK'
<1> DEFINE r == [multipliers |-> m, sharesPerPoint |-> 0, leftover |-> 0,
                 distributed |-> 0, withdrawable |-> 0]
<1>1. LpTypeOK /\ UNCHANGED lpVars
  BY DEF TypeOK, LpTypeOK, CreateDistributionFlow
<1>2. LpTypeOK'
  BY <1>1 DEF LpTypeOK, lpVars
<1>3. r \in Distribution
  BY DEF Distribution
<1>4. dist' = Extend(dist, d, r) /\ curve' = Extend(curve, d, [t \in Times |-> 0])
  BY DEF CreateDistributionFlow
<1>5. /\ DOMAIN dist' \subseteq Asset
      /\ dist' \in [DOMAIN dist' -> Distribution]
      /\ curve' \in [DOMAIN dist' -> [Times -> Nat]]
  <2> HIDE DEF r
  <2> QED BY <1>3, <1>4 DEF Extend, TypeOK
<1> QED
  BY <1>2, <1>5 DEF TypeOK, LpTypeOK, CreateDistributionFlow

LEMMA FundDistributionType ==
  ASSUME TypeOK, NEW d \in Asset, NEW sent \in Nat, NEW amount \in Nat,
         NEW start \in Nat, NEW end \in Nat, start < end,
         FundDistribution(d, sent, amount, start, end)
  PROVE  TypeOK'
<1>1. LpTypeOK /\ UNCHANGED lpVars
  BY DEF TypeOK, LpTypeOK, FundDistribution
<1>2. LpTypeOK'
  BY <1>1 DEF LpTypeOK, lpVars
<1>3. ASSUME NEW t \in Times PROVE Schedule(start, end, amount)[t] \in Nat
  <2>1. t \in Nat
    BY DEF Times
  <2>2. CASE t <= start
    BY <2>2 DEF Schedule
  <2>3. CASE ~(t <= start) /\ t >= end
    BY <2>3 DEF Schedule
  <2>4. CASE ~(t <= start) /\ ~(t >= end)
    <3>1. Schedule(start, end, amount)[t]
            = amount - (amount * (t - start)) \div (end - start)
      BY <2>4 DEF Schedule
    <3>2. t - start \in Nat /\ end - start \in Nat \ {0} /\ t - start <= end - start
      BY <2>1, <2>4
    <3>3. \A x, y \in Nat : x <= y /\ y # 0 => (amount * x) \div y \in Nat /\ (amount * x) \div y <= amount
      <4> SUFFICES ASSUME NEW x \in Nat, NEW y \in Nat, x <= y, y # 0
                   PROVE  (amount * x) \div y \in Nat /\ (amount * x) \div y <= amount
        OBVIOUS
      <4>1. amount * x <= amount * y
        OBVIOUS
      <4> QED BY <4>1
    <3> QED BY <3>1, <3>2, <3>3
  <2> QED BY <2>2, <2>3, <2>4
<1>4. curve' \in [DOMAIN dist' -> [Times -> Nat]]
  <2>1. d \in DOMAIN dist /\ UNCHANGED dist
    BY DEF FundDistribution
  <2>2. curve \in [DOMAIN dist -> [Times -> Nat]]
    BY DEF TypeOK
  <2>3. curve' = [curve EXCEPT ![d] = [t \in Times |-> curve[d][t] + Schedule(start, end, amount)[t]]]
    BY <2>1, <2>2 DEF FundDistribution
  <2>4. [t \in Times |-> curve[d][t] + Schedule(start, end, amount)[t]] \in [Times -> Nat]
    BY <1>3, <2>1, <2>2
  <2> QED BY <2>1, <2>2, <2>3, <2>4
<1>5. rewardPool' \in [Asset -> Nat] /\ rewardBalance' \in [Asset -> Nat]
  BY DEF FundDistribution, TypeOK
<1> QED
  BY <1>2, <1>4, <1>5 DEF TypeOK, LpTypeOK, FundDistribution

LEMMA SendRewardsType ==
  ASSUME TypeOK, NEW d \in Asset, NEW n \in Nat, SendRewards(d, n)
  PROVE  TypeOK'
<1>1. LpTypeOK /\ UNCHANGED lpVars
  BY DEF TypeOK, LpTypeOK, SendRewards
<1>2. LpTypeOK'
  BY <1>1 DEF LpTypeOK, lpVars
<1>3. rewardPool' \in [Asset -> Nat] /\ rewardBalance' \in [Asset -> Nat]
  BY DEF SendRewards, TypeOK
<1> QED
  BY <1>2, <1>3 DEF TypeOK, LpTypeOK, SendRewards

(* Sharing an amount out adds whole points and keeps the rest. *)
LEMMA DistributedType ==
  ASSUME NEW r \in Distribution, NEW power \in Nat \ {0}, NEW amount \in Nat
  PROVE  Distributed(r, power, amount) \in Distribution
<1> DEFINE points == amount * SharesScale + r.leftover
           shares == r.sharesPerPoint + points \div power
           rest == points % power
           out == r.distributed + amount
           owed == r.withdrawable + amount
<1>1. points \in Nat
  BY DEF Distribution
<1>2. points \div power \in Nat /\ rest \in Nat
  <2> HIDE DEF points
  <2> QED BY <1>1
<1>3. shares \in Nat /\ out \in Nat /\ owed \in Nat
  <2>1. r.sharesPerPoint \in Nat /\ r.distributed \in Nat /\ r.withdrawable \in Nat
    BY DEF Distribution
  <2> HIDE DEF points
  <2> QED BY <1>2, <2>1
<1>4. Distributed(r, power, amount)
        = [r EXCEPT !.sharesPerPoint = shares, !.leftover = rest,
                    !.distributed = out, !.withdrawable = owed]
  BY DEF Distributed, Distribution
<1> HIDE DEF points, shares, rest, out, owed
<1> QED
  BY <1>2, <1>3, <1>4 DEF Distribution

LEMMA DistributeRewardsType ==
  ASSUME TypeOK, NEW f \in Asset, NEW n \in Nat, DistributeRewards(f, n)
  PROVE  TypeOK'
<1> DEFINE balance == [rewardBalance EXCEPT ![f] = @ + n]
<1>1. LpTypeOK /\ UNCHANGED lpVars
  BY DEF TypeOK, LpTypeOK, DistributeRewards
<1>2. LpTypeOK'
  BY <1>1 DEF LpTypeOK, lpVars
<1>3. balance \in [Asset -> Nat]
  BY DEF TypeOK
<1>4. rewardBalance' = balance /\ rewardPool' \in [Asset -> Nat]
  BY DEF DistributeRewards, TypeOK
<1>5. dist' = [d \in DOMAIN dist |->
         IF TotalRewardsPower(d) = 0 \/ Undistributed(d, balance[d]) = 0 THEN dist[d]
         ELSE Distributed(dist[d], TotalRewardsPower(d), Undistributed(d, balance[d]))]
  BY DEF DistributeRewards
<1>6. \A d \in DOMAIN dist : TotalRewardsPower(d) # 0 => Undistributed(d, balance[d]) >= 0
  BY DEF DistributeRewards
<1>7. ASSUME NEW d \in DOMAIN dist PROVE dist'[d] \in Distribution
  <2>1. dist[d] \in Distribution /\ d \in Asset /\ curve[d][now] \in Nat
    <3>1. now \in Times
      BY DEF TypeOK, Times
    <3> QED BY <3>1 DEF TypeOK
  <2>2. TotalRewardsPower(d) \in Nat
    BY TotalRewardsPowerType DEF TypeOK
  <2>3. Undistributed(d, balance[d]) \in Int
    <3> HIDE DEF balance
    <3> QED BY <1>3, <2>1 DEF Undistributed, Distribution
  <2> HIDE DEF balance
  <2> QED BY <1>5, <1>6, <2>1, <2>2, <2>3, DistributedType
<1>8. DOMAIN dist' = DOMAIN dist /\ dist' \in [DOMAIN dist' -> Distribution]
  <2>1. DOMAIN dist' = DOMAIN dist /\ dist' = [d \in DOMAIN dist |-> dist'[d]]
    <3> HIDE DEF balance
    <3> QED BY <1>5
  <2> QED BY <1>7, <2>1
<1> HIDE DEF balance
<1> QED
  BY <1>2, <1>3, <1>4, <1>8 DEF TypeOK, LpTypeOK, DistributeRewards

LEMMA WithdrawRewardsType ==
  ASSUME TypeOK, NEW s \in Account, NEW owner \in Account, WithdrawRewards(s, owner)
  PROVE  TypeOK'
<1>1. LpTypeOK /\ UNCHANGED lpVars
  BY DEF TypeOK, LpTypeOK, WithdrawRewards
<1>2. LpTypeOK'
  BY <1>1 DEF LpTypeOK, lpVars
<1>3. ASSUME NEW d \in DOMAIN dist
      PROVE  /\ d \in Asset
             /\ WithdrawableRewards(owner, d) \in Nat
             /\ WithdrawableRewards(owner, d) <= dist[d].withdrawable
             /\ WithdrawableRewards(owner, d) <= rewardBalance[d]
  <2>1. d \in Asset /\ <<owner, d>> \in Account \X Asset
    BY DEF TypeOK
  <2>2. PowerTypeOK
    BY DEF TypeOK, PowerTypeOK
  <2>3. RewardsPower(owner, d) \in Nat
    BY <2>2, RewardsPowerType
  <2>4. dist[d].sharesPerPoint \in Nat /\ adjust[<<owner, d>>] \in [correction : Int, withdrawn : Nat]
    BY <2>1 DEF TypeOK, Distribution
  <2>5. Points(owner, d) \in Int
    BY <2>3, <2>4 DEF Points
  <2>6. Points(owner, d) \div SharesScale \in Int
    BY <2>5
  <2>7. WithdrawableRewards(owner, d) \in Int
    BY <2>4, <2>6 DEF WithdrawableRewards
  <2> QED BY <2>1, <2>7 DEF WithdrawRewards
<1>4. adjust' \in [Account \X Asset -> [correction : Int, withdrawn : Nat]]
  <2>1. ASSUME NEW k \in Account \X Asset PROVE adjust'[k] \in [correction : Int, withdrawn : Nat]
    <3>1. adjust[k] \in [correction : Int, withdrawn : Nat]
      BY DEF TypeOK
    <3>2. CASE k[1] = owner /\ k[2] \in DOMAIN dist
      <4>1. adjust'[k] = [adjust[k] EXCEPT !.withdrawn = @ + WithdrawableRewards(owner, k[2])]
        BY <3>2 DEF WithdrawRewards
      <4>2. WithdrawableRewards(owner, k[2]) \in Nat
        BY <1>3, <3>2
      <4> QED BY <3>1, <4>1, <4>2
    <3>3. CASE ~(k[1] = owner /\ k[2] \in DOMAIN dist)
      BY <3>1, <3>3 DEF WithdrawRewards
    <3> QED BY <3>2, <3>3
  <2>2. adjust' = [k \in Account \X Asset |-> adjust'[k]]
    BY DEF WithdrawRewards
  <2> QED BY <2>1, <2>2
<1>5. /\ DOMAIN dist' = DOMAIN dist
      /\ dist' \in [DOMAIN dist' -> Distribution]
  <2>1. ASSUME NEW d \in DOMAIN dist PROVE dist'[d] \in Distribution
    <3>1. dist'[d] = [dist[d] EXCEPT !.withdrawable = @ - WithdrawableRewards(owner, d)]
      BY DEF WithdrawRewards
    <3>2. dist[d] \in Distribution
      BY DEF TypeOK
    <3>3. dist[d].withdrawable - WithdrawableRewards(owner, d) \in Nat
      BY <1>3, <3>2 DEF Distribution
    <3> QED BY <3>1, <3>2, <3>3 DEF Distribution
  <2>2. DOMAIN dist' = DOMAIN dist /\ dist' = [d \in DOMAIN dist |-> dist'[d]]
    BY DEF WithdrawRewards
  <2> QED BY <2>1, <2>2
<1>6. rewardBalance' \in [Asset -> Nat]
  BY <1>3 DEF WithdrawRewards, TypeOK
<1> QED
  BY <1>2, <1>4, <1>5, <1>6 DEF TypeOK, LpTypeOK, WithdrawRewards

LEMMA DelegateWithdrawalType ==
  ASSUME TypeOK, NEW s \in Account, NEW to \in Delegates, DelegateWithdrawal(s, to)
  PROVE  TypeOK'
<1>1. LpTypeOK /\ UNCHANGED lpVars
  BY DEF TypeOK, LpTypeOK, DelegateWithdrawal
<1>2. LpTypeOK'
  BY <1>1 DEF LpTypeOK, lpVars
<1> QED
  BY <1>2 DEF TypeOK, LpTypeOK, DelegateWithdrawal

(* What a staker sends is a number of tokens, and mass delegation credits  *)
(* each account with a number of them.                                     *)
LEMMA StakingType ==
  ASSUME TypeOK, NEW a \in Account, Staking(a)
  PROVE  TypeOK'
<1>1. ASSUME NEW n, n \in 1..wallet[a] PROVE n \in Nat
  BY <1>1
<1>2. ASSUME NEW x \in Periods, NEW n, n \in 1..TotalStake(a, x) PROVE n \in Nat
  BY <1>2
<1>3. ASSUME NEW p \in Periods, NEW n \in 1..wallet[a], NEW b \in Account, Delegate(a, p, n, b)
      PROVE  TypeOK'
  <2>1. [x \in Account |-> IF x = b THEN n ELSE 0] \in [Account -> Nat]
    BY <1>1
  <2> QED BY <1>1, <1>3, <2>1, MassBondType DEF Delegate
<1>4. ASSUME NEW p \in Periods, NEW n \in 1..wallet[a], NEW shares \in [Account -> 0..n],
             MassDelegate(a, p, n, shares)
      PROVE  TypeOK'
  <2>1. shares \in [Account -> Nat]
    BY <1>1
  <2> QED BY <1>1, <1>4, <2>1, MassBondType DEF MassDelegate
<1>5. ASSUME NEW from \in Periods, NEW to \in Periods, NEW n \in 1..TotalStake(a, from),
             Rebond(a, from, to, n)
      PROVE  TypeOK'
  BY <1>2, <1>5, RebondType
<1>6. ASSUME NEW p \in Periods, NEW n \in 1..TotalStake(a, p), Unbond(a, p, n)
      PROVE  TypeOK'
  BY <1>2, <1>6, UnbondType
<1>7. ASSUME NEW p \in Periods, NEW n \in 1..TotalStake(a, p), MigrateStake(a, p, n)
      PROVE  TypeOK'
  BY <1>2, <1>7, MigrateStakeType
<1>8. CASE Claim(a)
  BY <1>8, ClaimType
<1> QED
  BY <1>3, <1>4, <1>5, <1>6, <1>7, <1>8 DEF Staking

LEMMA GoverningType ==
  ASSUME TypeOK, NEW a \in Account, Governing(a)
  PROVE  TypeOK'
BY QuickUnbondType, RolesType, CreateDistributionFlowType DEF Governing

LEMMA RewardingType ==
  ASSUME TypeOK, Rewarding
  PROVE  TypeOK'
<1>1. ASSUME NEW d \in Asset, NEW sent \in 1..rewardPool[d], NEW amount \in 1..sent,
             NEW start \in now..MaxTime, NEW end \in (start + 1)..Horizon,
             FundDistribution(d, sent, amount, start, end)
      PROVE  TypeOK'
  <2>1. now \in Nat
    BY DEF TypeOK
  <2>2. sent \in Nat /\ amount \in Nat /\ start \in Nat /\ end \in Nat /\ start < end
    BY <2>1
  <2> QED BY <1>1, <2>2, FundDistributionType
<1>2. ASSUME NEW d \in Asset, NEW n \in 1..rewardPool[d], SendRewards(d, n)
      PROVE  TypeOK'
  BY <1>2, SendRewardsType
<1>3. ASSUME NEW d \in Asset, NEW n \in 0..rewardPool[d], DistributeRewards(d, n)
      PROVE  TypeOK'
  BY <1>3, DistributeRewardsType
<1> QED
  BY <1>1, <1>2, <1>3, WithdrawRewardsType, DelegateWithdrawalType DEF Rewarding

LEMMA InitType == Init => TypeOK
<1> SUFFICES ASSUME Init PROVE TypeOK
  OBVIOUS
<1>1. [p \in Periods |-> [staked |-> 0, powered |-> 0]]
        \in [Periods -> [staked : Nat, powered : Nat]]
  OBVIOUS
<1>2. DOMAIN dist = {} /\ DOMAIN curve = {}
  BY DEF Init
<1>3. dist \in [DOMAIN dist -> Distribution] /\ curve \in [DOMAIN dist -> [Times -> Nat]]
  BY <1>2 DEF Init
<1>4. adjust \in [Account \X Asset -> [correction : Int, withdrawn : Nat]]
  BY DEF Init, NoAdjustment
<1>5. /\ now \in 0..MaxTime
      /\ DOMAIN dist \subseteq Asset
      /\ admin \in Account \cup {NONE}
      /\ wallet \in [Account -> Nat]
  BY <1>2 DEF Init
<1>6. /\ stake \in [StakeKeys -> Nat]
      /\ locked \in [LockKeys -> Nat]
      /\ claims \in [ClaimKeys -> Nat]
      /\ totalStaked \in [staked : Nat, unbonding : Nat]
  BY DEF Init
<1>7. /\ delegated \in [Account -> Account]
      /\ rewardPool \in [Asset -> Nat]
      /\ rewardBalance \in [Asset -> Nat]
      /\ converted \in [Account -> Nat]
      /\ lpBalance \in Nat
      /\ unbondAll \in BOOLEAN
  BY DEF Init
<1> QED
  BY <1>1, <1>3, <1>4, <1>5, <1>6, <1>7 DEF Init, TypeOK

LEMMA NextType ==
  ASSUME TypeOK, [Next]_vars
  PROVE  TypeOK'
<1>1. CASE UNCHANGED vars
  BY <1>1 DEF vars, lpVars, rewardVars, TypeOK
<1>2. CASE Tick
  <2>1. LpTypeOK /\ UNCHANGED lpVars /\ UNCHANGED rewardVars
    BY <1>2 DEF TypeOK, LpTypeOK, Tick
  <2>2. LpTypeOK'
    BY <2>1 DEF LpTypeOK, lpVars
  <2>3. UNCHANGED <<dist, curve, adjust, delegated, rewardPool, rewardBalance>>
    BY <2>1 DEF rewardVars
  <2> QED BY <1>2, <2>2, <2>3 DEF TypeOK, LpTypeOK, Tick
<1> QED
  BY <1>1, <1>2, StakingType, GoverningType, RewardingType DEF Next

(* Every reachable state is well typed.  Above all, no amount of the       *)
(* contract ever drops below zero, so no subtraction of the handlers that  *)
(* is not guarded by an error underflows.                                  *)
THEOREM TypeCorrect == Spec => []TypeOK
BY InitType, NextType, PTL DEF Spec

----------------------------------------------------------------------------
(* Custody: the LP tokens held are the bonded and the claimed ones *)

LEMMA AllType ==
  ASSUME TypeOK
  PROVE  AllBonded \in Nat /\ AllClaimed \in Nat
<1>1. Total(stake, StakeKeys) \in Nat
  BY StakeKeysFinite, TotalType DEF TypeOK
<1>2. Total(locked, LockKeys) \in Nat
  BY LockKeysFinite, TotalType DEF TypeOK
<1>3. Total(claims, ClaimKeys) \in Nat
  BY ClaimKeysFinite, TotalType DEF TypeOK
<1> QED
  BY <1>1, <1>2, <1>3 DEF AllBonded, AllClaimed

(* Removing stake moves the expired locks to the unlocked stake and takes  *)
(* the amount out of it: the bonded tokens shrink by exactly the amount.   *)
LEMMA RemoveStakeBonded ==
  ASSUME TypeOK, NEW a \in Account, NEW p \in Periods, NEW n \in Nat, RemoveStake(a, p, n)
  PROVE  AllBonded' = AllBonded - n /\ n <= AllBonded
<1> DEFINE R == {a} \X {p} \X (0..now)
           freed == Total(locked, R)
<1>1. /\ stake \in [StakeKeys -> Nat] /\ stake' \in [StakeKeys -> Nat]
      /\ locked \in [LockKeys -> Nat]
  BY RemoveStakeType DEF TypeOK
<1>2. R \in SUBSET LockKeys
  BY PastTimes DEF LockKeys
<1>3. /\ Total(locked', LockKeys) = Total(locked, LockKeys) - freed
      /\ Total(locked, LockKeys) \in Nat /\ Total(locked', LockKeys) \in Nat
      /\ freed \in Nat
  <2>1. locked' = LocksLeft(a, p)
    BY DEF RemoveStake
  <2>2. \A l \in LockKeys \ R : locked'[l] = locked[l]
    <3> SUFFICES ASSUME NEW l \in LockKeys, l \notin R PROVE locked'[l] = locked[l]
      OBVIOUS
    <3>1. ~(l[1] = a /\ l[2] = p /\ l[3] <= now)
      BY DEF LockKeys, Times
    <3> QED BY <2>1, <3>1 DEF LocksLeft
  <2>3. \A l \in R : locked'[l] = 0
    BY <1>2, <2>1 DEF LocksLeft, TypeOK
  <2>4. locked' \in [LockKeys -> Nat]
    BY RemoveStakeType
  <2>5. locked \in [LockKeys -> Nat]
    BY <1>1
  <2> HIDE DEF R
  <2> QED BY <1>2, <2>2, <2>3, <2>4, <2>5, LockKeysFinite, TotalEmptied
<1>4. /\ Total(stake', StakeKeys) = Total(stake, StakeKeys) + (freed - n)
      /\ Total(stake, StakeKeys) \in Nat /\ Total(stake', StakeKeys) \in Nat
  <2>1. <<a, p>> \in StakeKeys
    BY DEF StakeKeys
  <2>2. stake' = [stake EXCEPT ![<<a, p>>] = Unlocked(a, p) - n]
    BY DEF RemoveStake
  <2>3. stake'[<<a, p>>] = stake[<<a, p>>] + (freed - n) /\ freed - n \in Int
    <3>1. Unlocked(a, p) = stake[<<a, p>>] + freed
      BY DEF Unlocked
    <3>2. stake'[<<a, p>>] = Unlocked(a, p) - n
      BY <1>1, <2>1, <2>2
    <3> HIDE DEF freed
    <3> QED BY <1>1, <1>3, <2>1, <3>1, <3>2
  <2>4. \A k \in StakeKeys \ {<<a, p>>} : stake[k] = stake'[k]
    BY <1>1, <2>2
  <2> DEFINE k == <<a, p>>
             m == freed - n
  <2>6. /\ k \in StakeKeys /\ m \in Int
        /\ stake'[k] = stake[k] + m
        /\ \A x \in StakeKeys \ {k} : stake[x] = stake'[x]
    BY <2>1, <2>3, <2>4
  <2> HIDE DEF k, m
  <2>7. /\ Total(stake', StakeKeys) = Total(stake, StakeKeys) + m
        /\ Total(stake, StakeKeys) \in Nat /\ Total(stake', StakeKeys) \in Nat
    BY <1>1, <2>6, StakeKeysFinite, TotalAddAtOne
  <2> QED BY <2>7 DEF m
<1>5. AllBonded' = Total(stake', StakeKeys) + Total(locked', LockKeys)
  BY DEF AllBonded, StakeKeys, LockKeys, Times
<1> HIDE DEF freed
<1> QED
  BY <1>3, <1>4, <1>5 DEF AllBonded

(* Unbonded tokens are claimed, but in unbond-all mode. *)
LEMMA UnbondClaimed ==
  ASSUME TypeOK, NEW a \in Account, NEW p \in Periods, NEW n \in Nat, Unbond(a, p, n)
  PROVE  /\ AllBonded' = AllBonded - n /\ n <= AllBonded /\ AllBonded \in Nat
         /\ AllClaimed' = AllClaimed + (IF unbondAll THEN 0 ELSE n) /\ AllClaimed \in Nat
<1>1. AllBonded' = AllBonded - n /\ n <= AllBonded /\ AllBonded \in Nat /\ AllClaimed \in Nat
  BY RemoveStakeBonded, AllType DEF Unbond
<1>2. AllClaimed' = Total(claims', ClaimKeys)
  BY DEF AllClaimed, ClaimKeys, Times
<1>3. CASE unbondAll
  <2>1. AllClaimed' = AllClaimed
    BY <1>2, <1>3 DEF Unbond, AllClaimed
  <2> QED BY <1>1, <1>3, <2>1
<1>4. CASE ~unbondAll
  <2> DEFINE k == <<a, now + p>>
  <2>1. k \in ClaimKeys
    <3>1. now \in 0..MaxTime
      BY DEF TypeOK
    <3>2. p \in Nat /\ MaxTime + p <= Horizon
      OBVIOUS
    <3> QED BY <3>1, <3>2 DEF ClaimKeys, Times
  <2>2. claims' = [claims EXCEPT ![k] = claims[k] + n] /\ claims \in [ClaimKeys -> Nat]
    BY <1>4, <2>1 DEF Unbond, TypeOK
  <2> HIDE DEF k
  <2>3. /\ claims' \in [ClaimKeys -> Nat]
        /\ \A c \in ClaimKeys \ {k} : claims[c] = claims'[c]
        /\ claims'[k] = claims[k] + n
    BY <2>1, <2>2
  <2>4. AllClaimed' = AllClaimed + n
    <3>1. Total(claims', ClaimKeys) = Total(claims, ClaimKeys) + n
      <4>1. claims \in [ClaimKeys -> Nat] /\ claims' \in [ClaimKeys -> Nat] /\ n \in Int
        BY <2>2, <2>3
      <4>2. \A c \in ClaimKeys \ {k} : claims[c] = claims'[c]
        BY <2>3
      <4>3. claims'[k] = claims[k] + n
        BY <2>3
      <4> QED BY <2>1, <4>1, <4>2, <4>3, ClaimKeysFinite, TotalAddAtOne
    <3> QED BY <1>2, <3>1 DEF AllClaimed
  <2> QED BY <1>1, <1>4, <2>4
<1> QED
  BY <1>3, <1>4

LEMMA UnbondCustody ==
  ASSUME TypeOK, Custody, NEW a \in Account, NEW p \in Periods, NEW n \in Nat, Unbond(a, p, n)
  PROVE  Custody'
BY UnbondClaimed DEF Unbond, Custody, SaturatingSub, TypeOK

LEMMA MigrateStakeCustody ==
  ASSUME TypeOK, Custody, NEW a \in Account, NEW p \in Periods, NEW n \in Nat,
         MigrateStake(a, p, n)
  PROVE  Custody'
<1>1. AllBonded' = AllBonded - n /\ n <= AllBonded /\ AllBonded \in Nat
  BY RemoveStakeBonded, AllType DEF MigrateStake
<1>2. AllClaimed' = AllClaimed
  BY DEF MigrateStake, AllClaimed, ClaimKeys, Times
<1> QED
  BY <1>1, <1>2 DEF MigrateStake, Custody, SaturatingSub, TypeOK

(* Rebonding moves tokens between keys: what the released period loses the *)
(* other one gains, as unlocked stake or as a lock.                        *)
LEMMA RebondBonded ==
  ASSUME TypeOK, TypeOK', NEW a \in Account, NEW from \in Periods, NEW to \in Periods,
         NEW n \in Nat, Rebond(a, from, to, n)
  PROVE  AllBonded' = AllBonded /\ AllClaimed' = AllClaimed
<1> DEFINE R == {a} \X {from} \X (0..now)
           freed == Total(locked, R)
           left == LocksLeft(a, from)
           taken == [stake EXCEPT ![<<a, from>>] = Unlocked(a, from) - n]
<1>1. /\ stake \in [StakeKeys -> Nat] /\ stake' \in [StakeKeys -> Nat]
      /\ locked \in [LockKeys -> Nat] /\ locked' \in [LockKeys -> Nat]
      /\ left \in [LockKeys -> Nat]
      /\ <<a, from>> \in StakeKeys /\ <<a, to>> \in StakeKeys
      /\ <<a, from>> # <<a, to>>
  BY UnlockedType DEF TypeOK, StakeKeys, Rebond
<1>2. R \in SUBSET LockKeys
  BY PastTimes DEF LockKeys
<1>3. /\ Total(left, LockKeys) = Total(locked, LockKeys) - freed
      /\ Total(locked, LockKeys) \in Nat /\ Total(left, LockKeys) \in Nat
      /\ freed \in Nat
  <2>1. \A l \in LockKeys \ R : left[l] = locked[l]
    <3> SUFFICES ASSUME NEW l \in LockKeys, l \notin R PROVE left[l] = locked[l]
      OBVIOUS
    <3>1. ~(l[1] = a /\ l[2] = from /\ l[3] <= now)
      BY DEF LockKeys, Times
    <3> QED BY <3>1 DEF LocksLeft
  <2>2. \A l \in R : left[l] = 0
    BY <1>2 DEF LocksLeft, TypeOK
  <2> HIDE DEF R, left
  <2> QED BY <1>1, <1>2, <2>1, <2>2, LockKeysFinite, TotalEmptied
<1>4. /\ taken \in [StakeKeys -> Nat]
      /\ Total(taken, StakeKeys) = Total(stake, StakeKeys) + (freed - n)
      /\ Total(stake, StakeKeys) \in Nat /\ Total(taken, StakeKeys) \in Nat
  <2>1. Unlocked(a, from) \in Nat /\ n <= Unlocked(a, from)
    BY UnlockedType DEF Rebond, CanRelease
  <2>2. taken \in [StakeKeys -> Nat]
    BY <1>1, <2>1
  <2>3. taken[<<a, from>>] = stake[<<a, from>>] + (freed - n) /\ freed - n \in Int
    <3>1. taken[<<a, from>>] = Unlocked(a, from) - n
      BY <1>1
    <3>2. Unlocked(a, from) = stake[<<a, from>>] + freed
      BY DEF Unlocked
    <3> HIDE DEF freed, taken
    <3> QED BY <1>1, <1>3, <3>1, <3>2
  <2>4. \A k \in StakeKeys \ {<<a, from>>} : stake[k] = taken[k]
    BY <1>1
  <2> HIDE DEF freed, taken
  <2> DEFINE k == <<a, from>>
             m == freed - n
  <2>6. /\ k \in StakeKeys /\ m \in Int
        /\ taken[k] = stake[k] + m
        /\ \A x \in StakeKeys \ {k} : stake[x] = taken[x]
    BY <1>1, <2>3, <2>4
  <2> HIDE DEF k, m
  <2>7. /\ Total(taken, StakeKeys) = Total(stake, StakeKeys) + m
        /\ Total(stake, StakeKeys) \in Nat /\ Total(taken, StakeKeys) \in Nat
    <3> HIDE DEF R, left
    <3>1. stake \in [StakeKeys -> Nat] /\ taken \in [StakeKeys -> Nat]
      BY <1>1, <2>2
    <3> QED BY <2>6, <3>1, StakeKeysFinite, TotalAddAtOne
  <2> QED BY <2>2, <2>7 DEF m
<1>5. AllBonded' = Total(stake', StakeKeys) + Total(locked', LockKeys)
  BY DEF AllBonded, StakeKeys, LockKeys, Times
<1>6. AllBonded' = AllBonded
  <2>1. CASE from < to
    <3>1. locked' = left
      BY <2>1 DEF Rebond
    <3>2. stake' = [stake EXCEPT ![<<a, from>>] = Unlocked(a, from) - n, ![<<a, to>>] = @ + n]
      BY <2>1 DEF Rebond
    <3>3. /\ \A k \in StakeKeys \ {<<a, to>>} : taken[k] = stake'[k]
          /\ stake'[<<a, to>>] = taken[<<a, to>>] + n
      BY <1>1, <3>2
    <3> HIDE DEF freed, taken, left
    <3>4. Total(stake', StakeKeys) = Total(taken, StakeKeys) + n
      <4> DEFINE k == <<a, to>>
      <4>1. /\ k \in StakeKeys /\ n \in Int
            /\ stake'[k] = taken[k] + n
            /\ \A x \in StakeKeys \ {k} : taken[x] = stake'[x]
        BY <1>1, <3>3
      <4> HIDE DEF k
      <4> QED BY <1>1, <1>4, <4>1, StakeKeysFinite, TotalAddAtOne
    <3> QED BY <1>3, <1>4, <1>5, <3>1, <3>4 DEF AllBonded
  <2>2. CASE ~(from < to)
    <3> DEFINE k == <<a, to, LockUntil(from, to)>>
    <3>1. k \in LockKeys
      <4>1. now \in 0..MaxTime
        BY DEF TypeOK
      <4>2. LockUntil(from, to) \in Times
        BY <2>2, <4>1 DEF LockUntil, Times
      <4> QED BY <4>2 DEF LockKeys
    <3>2. locked' = [left EXCEPT ![k] = @ + n]
      BY <2>2 DEF Rebond
    <3>3. stake' = taken
      <4>1. stake' = [stake EXCEPT ![<<a, from>>] = Unlocked(a, from) - n, ![<<a, to>>] = @]
        BY <2>2 DEF Rebond
      <4> QED BY <1>1, <4>1
    <3> HIDE DEF freed, taken, left, k
    <3>4. /\ \A l \in LockKeys \ {k} : left[l] = locked'[l]
          /\ locked'[k] = left[k] + n
      BY <1>1, <3>1, <3>2
    <3>5. Total(locked', LockKeys) = Total(left, LockKeys) + n
      <4>1. left \in [LockKeys -> Nat] /\ locked' \in [LockKeys -> Nat] /\ n \in Int
        BY <1>1
      <4>2. \A l \in LockKeys \ {k} : left[l] = locked'[l]
        BY <3>4
      <4>3. locked'[k] = left[k] + n
        BY <3>4
      <4> QED BY <3>1, <4>1, <4>2, <4>3, LockKeysFinite, TotalAddAtOne
    <3> QED BY <1>3, <1>4, <1>5, <3>3, <3>5 DEF AllBonded
  <2> QED BY <2>1, <2>2
<1>7. AllClaimed' = AllClaimed
  BY DEF Rebond, AllClaimed, ClaimKeys, Times
<1> QED
  BY <1>6, <1>7

LEMMA RebondCustody ==
  ASSUME TypeOK, TypeOK', Custody, NEW a \in Account, NEW from \in Periods, NEW to \in Periods,
         NEW n \in Nat, Rebond(a, from, to, n)
  PROVE  Custody'
BY RebondBonded DEF Rebond, Custody

(* Claiming takes out what has matured. *)
LEMMA ClaimClaimed ==
  ASSUME TypeOK, NEW a \in Account, Claim(a)
  PROVE  /\ AllClaimed' = AllClaimed - Matured(a) /\ Matured(a) <= AllClaimed
         /\ Matured(a) \in Nat /\ AllClaimed \in Nat
         /\ AllBonded' = AllBonded
<1> DEFINE R == {a} \X (0..now)
           left == ClaimsLeft(a)
<1>1. R \in SUBSET ClaimKeys
  BY PastTimes DEF ClaimKeys
<1>2. claims \in [ClaimKeys -> Nat] /\ left \in [ClaimKeys -> Nat]
  BY DEF TypeOK, ClaimsLeft
<1>3. \A c \in ClaimKeys \ R : left[c] = claims[c]
  <2> SUFFICES ASSUME NEW c \in ClaimKeys, c \notin R PROVE left[c] = claims[c]
    OBVIOUS
  <2>1. ~(c[1] = a /\ c[2] <= now)
    BY DEF ClaimKeys, Times
  <2> QED BY <2>1 DEF ClaimsLeft
<1>4. \A c \in R : left[c] = 0
  BY <1>1 DEF ClaimsLeft, TypeOK
<1>5. /\ Total(left, ClaimKeys) = Total(claims, ClaimKeys) - Total(claims, R)
      /\ Total(claims, R) <= Total(claims, ClaimKeys)
      /\ Total(claims, ClaimKeys) \in Nat /\ Total(claims, R) \in Nat
  <2> HIDE DEF R, left
  <2> QED BY <1>1, <1>2, <1>3, <1>4, ClaimKeysFinite, TotalEmptied
<1>6. /\ AllClaimed' = AllClaimed - Matured(a) /\ Matured(a) <= AllClaimed
      /\ Matured(a) \in Nat /\ AllClaimed \in Nat
  <2>1. AllClaimed' = Total(left, ClaimKeys)
    BY DEF AllClaimed, ClaimKeys, Times, Claim
  <2> HIDE DEF left
  <2> QED BY <1>5, <2>1 DEF AllClaimed, Matured
<1>7. AllBonded' = AllBonded
  BY DEF Claim, AllBonded, StakeKeys, LockKeys, Times
<1> QED
  BY <1>6, <1>7

LEMMA ClaimCustody ==
  ASSUME TypeOK, Custody, NEW a \in Account, Claim(a)
  PROVE  Custody'
<1>1. /\ AllClaimed' = AllClaimed - Matured(a) /\ Matured(a) <= AllClaimed
      /\ Matured(a) \in Nat /\ AllClaimed \in Nat
      /\ AllBonded' = AllBonded
  BY ClaimClaimed
<1> QED
  BY <1>1 DEF Claim, Custody, SaturatingSub, TypeOK

(* Bonding credits each account its share. *)
LEMMA MassBondBonded ==
  ASSUME TypeOK, TypeOK', NEW s \in Account, NEW p \in Periods, NEW sent \in Nat,
         NEW shares \in [Account -> Nat], MassBond(s, p, sent, shares)
  PROVE  /\ AllBonded' = AllBonded + Total(shares, Account) /\ AllBonded \in Nat
         /\ Total(shares, Account) \in Nat
         /\ AllClaimed' = AllClaimed
<1> DEFINE spread == [k \in StakeKeys |-> IF k[2] = p THEN shares[k[1]] ELSE 0]
           R == Account \X {p}
           key == [a \in Account |-> <<a, p>>]
<1>1. R \in SUBSET StakeKeys
  BY DEF StakeKeys
<1>2. spread \in [StakeKeys -> Nat]
  BY DEF StakeKeys
<1>3. \A k \in StakeKeys \ R : spread[k] = 0
  BY DEF StakeKeys
<1>4. key \in Bijection(Account, R)
  <2>1. key \in [Account -> R]
    OBVIOUS
  <2>2. \A a, b \in Account : key[a] = key[b] => a = b
    OBVIOUS
  <2>3. \A r \in R : \E a \in Account : key[a] = r
    OBVIOUS
  <2> HIDE DEF key, R
  <2> QED BY <2>1, <2>2, <2>3 DEF Bijection, Injection, Surjection, IsInjective
<1>5. \A a \in Account : spread[key[a]] = shares[a]
  BY DEF StakeKeys
<1>6. Total(spread, R) = Total(shares, Account)
  <2> HIDE DEF spread, R, key
  <2> QED BY <1>4, <1>5, TotalRenamed
<1>7. Total(spread, StakeKeys) = Total(shares, Account)
  <2>1. Total(spread, StakeKeys \ R) = 0
    <3> HIDE DEF spread, R
    <3> QED BY <1>3, TotalZero
  <2>2. /\ Total(spread, StakeKeys) = Total(spread, R) + Total(spread, StakeKeys \ R)
        /\ Total(spread, R) \in Nat
    <3> HIDE DEF spread, R
    <3> QED BY <1>1, <1>2, StakeKeysFinite, TotalSplitAll
  <2> HIDE DEF spread, R
  <2> QED BY <1>6, <2>1, <2>2
<1>8. /\ stake \in [StakeKeys -> Nat] /\ stake' \in [StakeKeys -> Nat]
      /\ \A k \in StakeKeys : stake'[k] = stake[k] + spread[k]
  BY <1>2 DEF MassBond, TypeOK, StakeKeys
<1>9. /\ Total(stake', StakeKeys) = Total(stake, StakeKeys) + Total(shares, Account)
      /\ Total(stake, StakeKeys) \in Nat /\ Total(shares, Account) \in Nat
  <2> HIDE DEF spread
  <2>1. /\ Total(stake', StakeKeys) = Total(stake, StakeKeys) + Total(spread, StakeKeys)
        /\ Total(stake, StakeKeys) \in Nat /\ Total(spread, StakeKeys) \in Nat
    BY <1>2, <1>8, StakeKeysFinite, TotalSum
  <2> QED BY <1>7, <2>1
<1>10. Total(locked, LockKeys) \in Nat
  BY LockKeysFinite, TotalType DEF TypeOK
<1>11. AllBonded' = AllBonded + Total(shares, Account) /\ AllBonded \in Nat
  <2>1. AllBonded' = Total(stake', StakeKeys) + Total(locked, LockKeys)
    BY DEF AllBonded, StakeKeys, LockKeys, Times, MassBond
  <2> QED BY <1>9, <1>10, <2>1 DEF AllBonded
<1>12. AllClaimed' = AllClaimed
  BY DEF MassBond, AllClaimed, ClaimKeys, Times
<1> QED
  BY <1>9, <1>11, <1>12

(* Bonding credits no more than was sent. *)
LEMMA MassBondCustody ==
  ASSUME TypeOK, TypeOK', Custody, NEW s \in Account, NEW p \in Periods, NEW sent \in Nat,
         NEW shares \in [Account -> Nat], MassBond(s, p, sent, shares)
  PROVE  Custody'
<1>1. /\ totalStaked'.staked = totalStaked.staked + sent
       /\ totalStaked'.unbonding = totalStaked.unbonding
       /\ lpBalance' = lpBalance + sent
       /\ Total(shares, Account) <= sent
  BY DEF MassBond, TypeOK
<1>2. totalStaked.staked \in Nat /\ totalStaked.unbonding \in Nat /\ lpBalance \in Nat
  BY DEF TypeOK
<1> QED
  BY <1>1, <1>2, MassBondBonded DEF Custody

(* Quick unbond takes out what it finds for the stakers, period by period  *)
(* or summed up: all their stake, their locks and their claims.            *)
LEMMA QuickUnbondBonded ==
  ASSUME TypeOK, NEW s \in Account, NEW stakers \in SUBSET Account,
         QuickUnbond(s, stakers)
  PROVE  /\ AllBonded' = AllBonded - Bonded(stakers, Periods)
         /\ AllClaimed' = AllClaimed - Total(claims, stakers \X Times)
         /\ AllBonded \in Nat /\ AllClaimed \in Nat
         /\ Bonded(stakers, Periods) \in Nat /\ Total(claims, stakers \X Times) \in Nat
<1> DEFINE S == stakers \X Periods
           L == stakers \X Periods \X Times
           C == stakers \X Times
<1>1. S \in SUBSET StakeKeys /\ L \in SUBSET LockKeys /\ C \in SUBSET ClaimKeys
  BY DEF StakeKeys, LockKeys, ClaimKeys
<1>2. /\ \A k \in StakeKeys \ S : stake'[k] = stake[k]
      /\ \A k \in S : stake'[k] = 0
      /\ stake \in [StakeKeys -> Nat] /\ stake' \in [StakeKeys -> Nat]
  BY <1>1 DEF QuickUnbond, TypeOK, StakeKeys
<1>3. /\ \A l \in LockKeys \ L : locked'[l] = locked[l]
      /\ \A l \in L : locked'[l] = 0
      /\ locked \in [LockKeys -> Nat] /\ locked' \in [LockKeys -> Nat]
  BY <1>1 DEF QuickUnbond, TypeOK, LockKeys
<1>4. /\ \A c \in ClaimKeys \ C : claims'[c] = claims[c]
      /\ \A c \in C : claims'[c] = 0
      /\ claims \in [ClaimKeys -> Nat] /\ claims' \in [ClaimKeys -> Nat]
  BY <1>1 DEF QuickUnbond, TypeOK, ClaimKeys
<1>5. /\ Total(stake', StakeKeys) = Total(stake, StakeKeys) - Total(stake, S)
      /\ Total(stake, StakeKeys) \in Nat /\ Total(stake, S) \in Nat
  <2>1. S \in SUBSET StakeKeys
    BY <1>1
  <2> HIDE DEF S, L, C
  <2> QED BY <1>2, <2>1, StakeKeysFinite, TotalEmptied
<1>6. /\ Total(locked', LockKeys) = Total(locked, LockKeys) - Total(locked, L)
      /\ Total(locked, LockKeys) \in Nat /\ Total(locked, L) \in Nat
  <2>1. L \in SUBSET LockKeys
    BY <1>1
  <2> HIDE DEF S, L, C
  <2> QED BY <1>3, <2>1, LockKeysFinite, TotalEmptied
<1>7. /\ Total(claims', ClaimKeys) = Total(claims, ClaimKeys) - Total(claims, C)
      /\ Total(claims, ClaimKeys) \in Nat /\ Total(claims, C) \in Nat
  <2>1. C \in SUBSET ClaimKeys
    BY <1>1
  <2> HIDE DEF S, L, C
  <2> QED BY <1>4, <2>1, ClaimKeysFinite, TotalEmptied
<1>8. /\ AllBonded' = Total(stake', StakeKeys) + Total(locked', LockKeys)
      /\ AllClaimed' = Total(claims', ClaimKeys)
      /\ Bonded(stakers, Periods) = Total(stake, S) + Total(locked, L)
  BY DEF AllBonded, AllClaimed, StakeKeys, LockKeys, ClaimKeys, Times, Bonded
<1>9. /\ AllBonded' = AllBonded - Bonded(stakers, Periods)
      /\ AllClaimed' = AllClaimed - Total(claims, C)
      /\ AllBonded \in Nat /\ AllClaimed \in Nat /\ Bonded(stakers, Periods) \in Nat
  <2> HIDE DEF S, L, C
  <2> QED BY <1>5, <1>6, <1>7, <1>8 DEF AllBonded, AllClaimed
<1> QED
  BY <1>7, <1>9

LEMMA QuickUnbondCustody ==
  ASSUME TypeOK, Custody, NEW s \in Account, NEW stakers \in SUBSET Account,
         QuickUnbond(s, stakers)
  PROVE  Custody'
<1> DEFINE claimed == Total(claims, stakers \X Times)
<1>1. /\ totalStaked'.staked = totalStaked.staked - Bonded(stakers, Periods)
      /\ totalStaked'.unbonding = totalStaked.unbonding - claimed
      /\ lpBalance' = lpBalance - (Bonded(stakers, Periods) + claimed)
  BY DEF QuickUnbond, Payout
<1>2. totalStaked.staked \in Nat /\ totalStaked.unbonding \in Nat /\ lpBalance \in Nat
  BY DEF TypeOK
<1>3. /\ AllBonded' = AllBonded - Bonded(stakers, Periods)
      /\ AllClaimed' = AllClaimed - claimed
      /\ AllBonded \in Nat /\ AllClaimed \in Nat
      /\ Bonded(stakers, Periods) \in Nat /\ claimed \in Nat
  BY QuickUnbondBonded
<1> HIDE DEF claimed
<1> QED
  BY <1>1, <1>2, <1>3 DEF Custody

(* The other messages leave bonded and claimed tokens alone. *)
LEMMA CustodyUnchanged ==
  ASSUME Custody, UNCHANGED <<lpBalance, stake, locked, totalStaked, claims>>
  PROVE  Custody'
BY DEF Custody, AllBonded, AllClaimed, StakeKeys, LockKeys, ClaimKeys, Times

LEMMA CustodyInit == Init => Custody
<1> SUFFICES ASSUME Init PROVE Custody
  OBVIOUS
<1>1. Total(stake, StakeKeys) = 0
  BY TotalZero DEF Init
<1>2. Total(locked, LockKeys) = 0
  BY TotalZero DEF Init
<1>3. Total(claims, ClaimKeys) = 0
  BY TotalZero DEF Init
<1> QED
  BY <1>1, <1>2, <1>3 DEF Init, Custody, AllBonded, AllClaimed

LEMMA StakingCustody ==
  ASSUME TypeOK, TypeOK', Custody, NEW a \in Account, Staking(a)
  PROVE  Custody'
<1>1. ASSUME NEW p \in Periods, NEW n \in 1..wallet[a], NEW b \in Account, Delegate(a, p, n, b)
      PROVE  Custody'
  <2>1. [x \in Account |-> IF x = b THEN n ELSE 0] \in [Account -> Nat] /\ n \in Nat
    OBVIOUS
  <2> QED BY <1>1, <2>1, MassBondCustody DEF Delegate
<1>2. ASSUME NEW p \in Periods, NEW n \in 1..wallet[a], NEW shares \in [Account -> 0..n],
             MassDelegate(a, p, n, shares)
      PROVE  Custody'
  <2>1. shares \in [Account -> Nat] /\ n \in Nat
    OBVIOUS
  <2> QED BY <1>2, <2>1, MassBondCustody DEF MassDelegate
<1>3. ASSUME NEW from \in Periods, NEW to \in Periods, NEW n \in 1..TotalStake(a, from),
             Rebond(a, from, to, n)
      PROVE  Custody'
  BY <1>3, RebondCustody
<1>4. ASSUME NEW p \in Periods, NEW n \in 1..TotalStake(a, p), Unbond(a, p, n)
      PROVE  Custody'
  BY <1>4, UnbondCustody
<1>5. ASSUME NEW p \in Periods, NEW n \in 1..TotalStake(a, p), MigrateStake(a, p, n)
      PROVE  Custody'
  BY <1>5, MigrateStakeCustody
<1>6. CASE Claim(a)
  BY <1>6, ClaimCustody
<1> QED
  BY <1>1, <1>2, <1>3, <1>4, <1>5, <1>6 DEF Staking

LEMMA NextCustody ==
  ASSUME TypeOK, TypeOK', Custody, [Next]_vars
  PROVE  Custody'
<1>1. CASE UNCHANGED vars
  BY <1>1, CustodyUnchanged DEF vars, lpVars
<1>2. CASE Tick
  BY <1>2, CustodyUnchanged DEF Tick, lpVars
<1>3. CASE Rewarding
  BY <1>3, CustodyUnchanged DEF Rewarding, FundDistribution, SendRewards, DistributeRewards,
     WithdrawRewards, DelegateWithdrawal, lpVars
<1>4. ASSUME NEW a \in Account, Governing(a) PROVE Custody'
  <2>1. ASSUME NEW stakers \in SUBSET Account, QuickUnbond(a, stakers) PROVE Custody'
    BY <2>1, QuickUnbondCustody
  <2>2. ASSUME \/ UnbondAll(a)
               \/ StopUnbondAll(a)
               \/ \E new \in NewAdmins : UpdateAdmin(a, new)
               \/ \E d \in Asset, m \in Multipliers : CreateDistributionFlow(a, d, m)
        PROVE  Custody'
    BY <2>2, CustodyUnchanged DEF UnbondAll, StopUnbondAll, UpdateAdmin,
       CreateDistributionFlow, lpVars
  <2> QED BY <1>4, <2>1, <2>2 DEF Governing
<1> QED
  BY <1>1, <1>2, <1>3, <1>4, StakingCustody DEF Next

(* The contract always holds exactly the LP tokens its books account for:  *)
(* TOTAL_STAKED.staked covers all stakes and locks, TOTAL_STAKED.unbonding *)
(* is the sum of all claims, so claiming and unbonding can always be paid. *)
THEOREM CustodySafe == Spec => []Custody
<1>1. Init => TypeOK /\ Custody
  BY InitType, CustodyInit
<1>2. TypeOK /\ Custody /\ [Next]_vars => (TypeOK /\ Custody)'
  BY NextType, NextCustody
<1> QED
  BY <1>1, <1>2, PTL DEF Spec

----------------------------------------------------------------------------
(* The totals and the rewards *)

(* The totals are kept for a min_bond above one only while nobody may call *)
(* quick unbond: it subtracts the stake it removes as one staker's.        *)
TotalsKept == MinBond = 1 \/ Unbonder = NONE

----------------------------------------------------------------------------
(* What an account has bonded for a period, before and after a message *)

(* the locks of an account for a period *)
LocksOf(a, p) == {a} \X {p} \X Times

(* The two parts of the stake of an account for a period. *)
LEMMA TotalStakeParts ==
  ASSUME stake \in [StakeKeys -> Nat], locked \in [LockKeys -> Nat],
         NEW a \in Account, NEW p \in Periods
  PROVE  /\ TotalStake(a, p) = stake[<<a, p>>] + Total(locked, LocksOf(a, p))
         /\ stake[<<a, p>>] \in Nat /\ Total(locked, LocksOf(a, p)) \in Nat
         /\ LocksOf(a, p) \in SUBSET LockKeys
<1>1. {a} \X {p} = {<<a, p>>} /\ <<a, p>> \in StakeKeys
  BY DEF StakeKeys
<1>2. Total(stake, {a} \X {p}) = stake[<<a, p>>] /\ stake[<<a, p>>] \in Nat
  BY <1>1, TotalOfOne
<1>3. LocksOf(a, p) \in SUBSET LockKeys
  BY DEF LocksOf, LockKeys
<1>4. Total(locked, LocksOf(a, p)) \in Nat
  BY <1>3, LockKeysFinite, TotalOfPart
<1> QED
  BY <1>2, <1>3, <1>4 DEF TotalStake, Bonded, LocksOf

LEMMA TotalStakePartsNext ==
  ASSUME stake' \in [StakeKeys -> Nat], locked' \in [LockKeys -> Nat],
         NEW a \in Account, NEW p \in Periods
  PROVE  /\ TotalStake(a, p)' = stake'[<<a, p>>] + Total(locked', LocksOf(a, p))
         /\ stake'[<<a, p>>] \in Nat /\ Total(locked', LocksOf(a, p)) \in Nat
<1>1. {a} \X {p} = {<<a, p>>} /\ <<a, p>> \in StakeKeys
  BY DEF StakeKeys
<1>2. Total(stake', {a} \X {p}) = stake'[<<a, p>>] /\ stake'[<<a, p>>] \in Nat
  BY <1>1, TotalOfOne
<1>3. LocksOf(a, p) \in SUBSET LockKeys
  BY DEF LocksOf, LockKeys
<1>4. Total(locked', LocksOf(a, p)) \in Nat
  BY <1>3, LockKeysFinite, TotalOfPart
<1> QED
  BY <1>2, <1>3, <1>4 DEF TotalStake, Bonded, LocksOf, Times

(* Stake that no message touches is bonded as before. *)
LEMMA TotalStakeSame ==
  ASSUME stake \in [StakeKeys -> Nat], stake' \in [StakeKeys -> Nat],
         locked \in [LockKeys -> Nat], locked' \in [LockKeys -> Nat],
         NEW a \in Account, NEW p \in Periods,
         stake'[<<a, p>>] = stake[<<a, p>>],
         \A l \in LocksOf(a, p) : locked'[l] = locked[l]
  PROVE  TotalStake(a, p)' = TotalStake(a, p)
<1>1. Total(locked', LocksOf(a, p)) = Total(locked, LocksOf(a, p))
  BY TotalSame
<1> QED
  BY <1>1, TotalStakeParts, TotalStakePartsNext

(* Freeing the expired locks of a period takes them out of its locks, and  *)
(* out of no others.                                                       *)
LEMMA LocksFreed ==
  ASSUME TypeOK, NEW a \in Account, NEW p \in Periods
  PROVE  /\ \A b \in Account, q \in Periods : <<b, q>> # <<a, p>> =>
              \A l \in LocksOf(b, q) : LocksLeft(a, p)[l] = locked[l]
         /\ Unlocked(a, p) + Total(LocksLeft(a, p), LocksOf(a, p)) = TotalStake(a, p)
         /\ Total(LocksLeft(a, p), LocksOf(a, p)) \in Nat
         /\ Unlocked(a, p) \in Nat
<1> DEFINE R == {a} \X {p} \X (0..now)
           L == LocksOf(a, p)
           left == LocksLeft(a, p)
<1>1. /\ locked \in [LockKeys -> Nat] /\ left \in [LockKeys -> Nat]
      /\ stake \in [StakeKeys -> Nat]
  BY UnlockedType DEF TypeOK
<1>2. L \in SUBSET LockKeys /\ R \in SUBSET L
  BY PastTimes DEF LockKeys, LocksOf
<1>3. \A x \in L \ R : left[x] = locked[x]
  <2> SUFFICES ASSUME NEW l \in L, l \notin R PROVE left[l] = locked[l]
    OBVIOUS
  <2>1. ~(l[1] = a /\ l[2] = p /\ l[3] <= now)
    BY DEF LocksOf, Times
  <2> QED BY <1>2, <2>1 DEF LocksLeft
<1>4. \A x \in R : left[x] = 0
  BY <1>2 DEF LocksLeft, TypeOK
<1>5. /\ Total(left, L) = Total(left, L \ R) /\ Total(left, L) \in Nat
      /\ Total(locked, L) = Total(locked, R) + Total(locked, L \ R)
      /\ Total(left, L \ R) = Total(locked, L \ R)
      /\ Total(locked, R) \in Nat /\ Total(locked, L \ R) \in Nat
  <2> HIDE DEF L, R, left
  <2>1. IsFiniteSet(L)
    BY <1>2, LockKeysFinite, FS_Subset
  <2>2. /\ Total(left, L) = Total(left, R) + Total(left, L \ R)
        /\ Total(left, L \ R) \in Nat
    BY <1>1, <1>2, <2>1, TotalSplit
  <2>3. /\ Total(locked, L) = Total(locked, R) + Total(locked, L \ R)
        /\ Total(locked, R) \in Nat /\ Total(locked, L \ R) \in Nat
    <3>1. locked \in [LockKeys -> Nat] /\ L \in SUBSET LockKeys /\ R \in SUBSET L
      BY <1>1, <1>2
    <3> QED BY ONLY <2>1, <3>1, TotalSplit
  <2>4. Total(left, R) = 0
    BY <1>4, TotalZero
  <2>5. Total(left, L \ R) = Total(locked, L \ R)
    BY <1>3, TotalSame
  <2> QED BY <2>2, <2>3, <2>4, <2>5
<1>6. /\ Unlocked(a, p) = stake[<<a, p>>] + Total(locked, R)
      /\ TotalStake(a, p) = stake[<<a, p>>] + Total(locked, L)
      /\ stake[<<a, p>>] \in Nat
  BY <1>1, TotalStakeParts DEF Unlocked
<1>7. ASSUME NEW b \in Account, NEW q \in Periods, <<b, q>> # <<a, p>>, NEW l \in LocksOf(b, q)
      PROVE  left[l] = locked[l]
  <2>1. l \in LockKeys /\ ~(l[1] = a /\ l[2] = p)
    BY <1>7 DEF LocksOf, LockKeys
  <2> QED BY <2>1 DEF LocksLeft
<1>8. /\ Unlocked(a, p) + Total(left, L) = TotalStake(a, p)
      /\ Total(left, L) \in Nat /\ Unlocked(a, p) \in Nat
  <2> HIDE DEF L, R, left
  <2> QED BY <1>5, <1>6
<1> QED
  BY <1>7, <1>8

(* Removing stake takes the amount from one account and one period. *)
LEMMA RemoveStakeTotalStake ==
  ASSUME TypeOK, NEW a \in Account, NEW p \in Periods, NEW n \in Nat, RemoveStake(a, p, n)
  PROVE  /\ TotalStake(a, p)' = TotalStake(a, p) - n
         /\ \A b \in Account, q \in Periods : <<b, q>> # <<a, p>> =>
              TotalStake(b, q)' = TotalStake(b, q)
<1>1. /\ stake \in [StakeKeys -> Nat] /\ stake' \in [StakeKeys -> Nat]
      /\ locked \in [LockKeys -> Nat] /\ locked' \in [LockKeys -> Nat]
      /\ <<a, p>> \in StakeKeys
  BY RemoveStakeType DEF TypeOK, StakeKeys
<1>2. /\ stake' = [stake EXCEPT ![<<a, p>>] = Unlocked(a, p) - n]
      /\ locked' = LocksLeft(a, p)
  BY DEF RemoveStake
<1>3. TotalStake(a, p)' = TotalStake(a, p) - n
  <2>1. TotalStake(a, p)' = stake'[<<a, p>>] + Total(locked', LocksOf(a, p))
    BY <1>1, TotalStakePartsNext
  <2>2. stake'[<<a, p>>] = Unlocked(a, p) - n
    BY <1>1, <1>2
  <2> QED BY <1>2, <2>1, <2>2, LocksFreed
<1>4. ASSUME NEW b \in Account, NEW q \in Periods, <<b, q>> # <<a, p>>
      PROVE  TotalStake(b, q)' = TotalStake(b, q)
  <2>1. stake'[<<b, q>>] = stake[<<b, q>>]
    <3>1. <<b, q>> \in StakeKeys
      BY DEF StakeKeys
    <3> DEFINE k == <<b, q>>
               j == <<a, p>>
    <3>2. k \in StakeKeys /\ k # j /\ stake' = [stake EXCEPT ![j] = Unlocked(a, p) - n]
      BY <1>2, <1>4, <3>1
    <3> HIDE DEF k, j
    <3>3. stake'[k] = stake[k]
      BY <1>1, <3>2
    <3> QED BY <3>3 DEF k
  <2>2. \A l \in LocksOf(b, q) : locked'[l] = locked[l]
    BY <1>2, <1>4, LocksFreed
  <2> QED BY <1>1, <2>1, <2>2, TotalStakeSame
<1> QED
  BY <1>3, <1>4

(* Rebonding moves the amount from one period to another. *)
LEMMA RebondTotalStake ==
  ASSUME TypeOK, TypeOK', NEW a \in Account, NEW from \in Periods, NEW to \in Periods,
         NEW n \in Nat, Rebond(a, from, to, n)
  PROVE  /\ TotalStake(a, from)' = TotalStake(a, from) - n
         /\ TotalStake(a, to)' = TotalStake(a, to) + n
         /\ \A b \in Account, q \in Periods : <<b, q>> # <<a, from>> /\ <<b, q>> # <<a, to>> =>
              TotalStake(b, q)' = TotalStake(b, q)
<1> DEFINE left == LocksLeft(a, from)
           until == <<a, to, LockUntil(from, to)>>
<1>1. /\ stake \in [StakeKeys -> Nat] /\ stake' \in [StakeKeys -> Nat]
      /\ locked \in [LockKeys -> Nat] /\ locked' \in [LockKeys -> Nat]
      /\ left \in [LockKeys -> Nat]
      /\ <<a, from>> \in StakeKeys /\ <<a, to>> \in StakeKeys
      /\ from # to /\ <<a, from>> # <<a, to>>
  BY UnlockedType DEF TypeOK, StakeKeys, Rebond
<1>2. /\ stake' = [stake EXCEPT ![<<a, from>>] = Unlocked(a, from) - n,
                                ![<<a, to>>] = IF from < to THEN @ + n ELSE @]
      /\ locked' = IF from < to THEN left ELSE [left EXCEPT ![until] = @ + n]
  BY DEF Rebond
<1>3. /\ stake'[<<a, from>>] = Unlocked(a, from) - n
      /\ stake'[<<a, to>>] = stake[<<a, to>>] + (IF from < to THEN n ELSE 0)
      /\ \A k \in StakeKeys : k # <<a, from>> /\ k # <<a, to>> => stake'[k] = stake[k]
  <2> DEFINE u == Unlocked(a, from) - n
             j == <<a, from>>
             k == <<a, to>>
  <2>1. /\ stake' = [stake EXCEPT ![j] = u, ![k] = IF from < to THEN @ + n ELSE @]
        /\ j \in StakeKeys /\ k \in StakeKeys /\ j # k
    BY <1>1, <1>2
  <2> HIDE DEF u, j, k
  <2>2. /\ stake'[j] = u
        /\ stake'[k] = IF from < to THEN stake[k] + n ELSE stake[k]
        /\ \A x \in StakeKeys : x # j /\ x # k => stake'[x] = stake[x]
    BY <1>1, <2>1
  <2>3. stake[k] \in Nat
    BY <1>1, <2>1
  <2>4. stake'[k] = stake[k] + (IF from < to THEN n ELSE 0)
    BY <2>2, <2>3
  <2> QED BY <2>2, <2>4 DEF u, j, k
<1>4. \A l \in LockKeys : ~(~(from < to) /\ l = until) => locked'[l] = left[l]
  <2> HIDE DEF left, until
  <2> QED BY <1>1, <1>2
<1>5. ASSUME ~(from < to)
      PROVE  until \in LocksOf(a, to) /\ until \in LockKeys /\ locked'[until] = left[until] + n
  <2>1. LockUntil(from, to) \in Times
    <3>1. now \in 0..MaxTime
      BY DEF TypeOK
    <3>2. from \in Nat /\ to \in Nat /\ MaxTime + from <= Horizon
      OBVIOUS
    <3> HIDE DEF left, until
    <3> QED BY <1>5, <3>1, <3>2 DEF LockUntil, Times
  <2>2. until \in LocksOf(a, to) /\ until \in LockKeys
    BY <2>1 DEF LocksOf, LockKeys
  <2> HIDE DEF left, until
  <2> QED BY <1>1, <1>2, <1>5, <2>2
<1>6. ASSUME NEW b \in Account, NEW q \in Periods, <<b, q>> # <<a, from>>, <<b, q>> # <<a, to>>
      PROVE  TotalStake(b, q)' = TotalStake(b, q)
  <2>1. stake'[<<b, q>>] = stake[<<b, q>>]
    <3>1. <<b, q>> \in StakeKeys
      BY DEF StakeKeys
    <3> QED BY <1>3, <1>6, <3>1
  <2>2. \A l \in LocksOf(b, q) : l \in LockKeys /\ l # until /\ left[l] = locked[l]
    <3>1. \A l \in LocksOf(b, q) : l \in LockKeys /\ l # until
      BY <1>6 DEF LocksOf, LockKeys
    <3>2. \A l \in LocksOf(b, q) : left[l] = locked[l]
      <4>1. <<b, q>> # <<a, from>>
        BY <1>6
      <4> HIDE DEF left, until
      <4>2. \A l \in LocksOf(b, q) : LocksLeft(a, from)[l] = locked[l]
        BY <4>1, LocksFreed
      <4> QED BY <4>2 DEF left
    <3> QED BY <3>1, <3>2
  <2>3. \A l \in LocksOf(b, q) : locked'[l] = locked[l]
    BY <1>4, <2>2
  <2> QED BY <1>1, <2>1, <2>3, TotalStakeSame
<1>7. TotalStake(a, from)' = TotalStake(a, from) - n
  <2>1. \A l \in LocksOf(a, from) : l \in LockKeys /\ l # until
    BY <1>1 DEF LocksOf, LockKeys
  <2>2. Total(locked', LocksOf(a, from)) = Total(left, LocksOf(a, from))
    <3>1. \A l \in LocksOf(a, from) : locked'[l] = left[l]
      BY <1>4, <2>1
    <3> HIDE DEF left
    <3> QED BY <3>1, TotalSame
  <2>3. TotalStake(a, from)' = stake'[<<a, from>>] + Total(locked', LocksOf(a, from))
    BY <1>1, TotalStakePartsNext
  <2>4. /\ Unlocked(a, from) + Total(left, LocksOf(a, from)) = TotalStake(a, from)
        /\ Total(left, LocksOf(a, from)) \in Nat /\ Unlocked(a, from) \in Nat
    BY LocksFreed
  <2> HIDE DEF left
  <2> QED BY <1>3, <2>2, <2>3, <2>4
<1>8. TotalStake(a, to)' = TotalStake(a, to) + n
  <2> DEFINE L == LocksOf(a, to)
  <2>1. /\ TotalStake(a, to)' = stake'[<<a, to>>] + Total(locked', L)
        /\ TotalStake(a, to) = stake[<<a, to>>] + Total(locked, L)
        /\ stake[<<a, to>>] \in Nat /\ Total(locked, L) \in Nat
        /\ L \in SUBSET LockKeys
    BY <1>1, TotalStakeParts, TotalStakePartsNext
  <2>2. Total(left, L) = Total(locked, L)
    <3>1. \A l \in L : left[l] = locked[l]
      BY <1>1, LocksFreed
    <3> HIDE DEF left, L
    <3> QED BY <3>1, TotalSame
  <2>3. CASE from < to
    <3>1. locked' = left
      BY <1>2, <2>3
    <3> HIDE DEF left, L
    <3> QED BY <1>3, <2>1, <2>2, <2>3, <3>1
  <2>4. CASE ~(from < to)
    <3>1. until \in L /\ locked'[until] = left[until] + n
      BY <1>5, <2>4
    <3>2. \A l \in L \ {until} : left[l] = locked'[l]
      <4> HIDE DEF left, until
      <4> QED BY <1>4, <2>1
    <3>3. Total(locked', L) = Total(left, L) + n
      <4> HIDE DEF left, until, L
      <4>1. /\ L \in SUBSET LockKeys /\ {until} \in SUBSET L /\ IsFiniteSet(L)
            /\ left \in [LockKeys -> Nat] /\ locked' \in [LockKeys -> Nat]
        BY <1>1, <2>1, <3>1, LockKeysFinite, FS_Subset
      <4>2. /\ Total(left, L) = Total(left, {until}) + Total(left, L \ {until})
            /\ Total(left, L \ {until}) \in Nat
        BY ONLY <4>1, TotalSplit
      <4>3. Total(locked', L) = Total(locked', {until}) + Total(locked', L \ {until})
        <5> DEFINE next == locked'
        <5>1. next \in [LockKeys -> Nat]
          BY <4>1
        <5> HIDE DEF next
        <5>2. Total(next, L) = Total(next, {until}) + Total(next, L \ {until})
          BY ONLY <4>1, <5>1, TotalSplit
        <5> QED BY <5>2 DEF next
      <4>4. Total(locked', L \ {until}) = Total(left, L \ {until})
        BY <3>2, TotalSame
      <4>5. /\ left[until] \in Nat /\ locked'[until] \in Nat
            /\ Total(left, {until}) = left[until] /\ Total(locked', {until}) = locked'[until]
        BY <4>1, TotalOfOne
      <4> QED BY <3>1, <4>2, <4>3, <4>4, <4>5
    <3> HIDE DEF left, L
    <3> QED BY <1>3, <2>1, <2>2, <2>4, <3>3
  <2> QED BY <2>3, <2>4
<1> QED
  BY <1>6, <1>7, <1>8

(* Bonding credits each account its share in one period. *)
LEMMA MassBondTotalStake ==
  ASSUME TypeOK, TypeOK', NEW s \in Account, NEW p \in Periods, NEW sent \in Nat,
         NEW shares \in [Account -> Nat], MassBond(s, p, sent, shares)
  PROVE  \A a \in Account, q \in Periods :
           TotalStake(a, q)' = TotalStake(a, q) + (IF q = p THEN shares[a] ELSE 0)
<1> SUFFICES ASSUME NEW a \in Account, NEW q \in Periods
             PROVE  TotalStake(a, q)' = TotalStake(a, q) + (IF q = p THEN shares[a] ELSE 0)
  OBVIOUS
<1>1. /\ stake \in [StakeKeys -> Nat] /\ stake' \in [StakeKeys -> Nat]
      /\ locked \in [LockKeys -> Nat] /\ locked' = locked
      /\ stake' = [k \in StakeKeys |-> IF k[2] = p THEN stake[k] + shares[k[1]] ELSE stake[k]]
  BY DEF TypeOK, MassBond
<1>2. /\ TotalStake(a, q) = stake[<<a, q>>] + Total(locked, LocksOf(a, q))
      /\ TotalStake(a, q)' = stake'[<<a, q>>] + Total(locked, LocksOf(a, q))
      /\ stake[<<a, q>>] \in Nat /\ Total(locked, LocksOf(a, q)) \in Nat
  <2>1. TotalStake(a, q)' = stake'[<<a, q>>] + Total(locked', LocksOf(a, q))
    BY <1>1, TotalStakePartsNext
  <2>2. Total(locked', LocksOf(a, q)) = Total(locked, LocksOf(a, q))
    BY <1>1
  <2> QED BY <1>1, <2>1, <2>2, TotalStakeParts
<1>3. stake'[<<a, q>>] = stake[<<a, q>>] + (IF q = p THEN shares[a] ELSE 0)
  <2>1. <<a, q>> \in StakeKeys
    BY DEF StakeKeys
  <2> QED BY <1>1, <1>2, <2>1
<1>4. shares[a] \in Nat
  OBVIOUS
<1> QED
  BY <1>2, <1>3, <1>4

(* Quick unbond leaves its stakers nothing and everyone else everything. *)
LEMMA QuickUnbondTotalStake ==
  ASSUME TypeOK, TypeOK', NEW s \in Account, NEW stakers \in SUBSET Account,
         QuickUnbond(s, stakers)
  PROVE  \A a \in Account, q \in Periods :
           TotalStake(a, q)' = IF a \in stakers THEN 0 ELSE TotalStake(a, q)
<1> SUFFICES ASSUME NEW a \in Account, NEW q \in Periods
             PROVE  TotalStake(a, q)' = IF a \in stakers THEN 0 ELSE TotalStake(a, q)
  OBVIOUS
<1>1. /\ stake \in [StakeKeys -> Nat] /\ stake' \in [StakeKeys -> Nat]
      /\ locked \in [LockKeys -> Nat] /\ locked' \in [LockKeys -> Nat]
      /\ stake' = [k \in StakeKeys |-> IF k[1] \in stakers THEN 0 ELSE stake[k]]
      /\ locked' = [l \in LockKeys |-> IF l[1] \in stakers THEN 0 ELSE locked[l]]
  BY DEF TypeOK, QuickUnbond
<1>2. <<a, q>> \in StakeKeys /\ \A l \in LocksOf(a, q) : l \in LockKeys /\ l[1] = a
  BY DEF StakeKeys, LockKeys, LocksOf
<1>3. CASE a \in stakers
  <2>1. stake'[<<a, q>>] = 0 /\ \A l \in LocksOf(a, q) : locked'[l] = 0
    BY <1>1, <1>2, <1>3
  <2>2. Total(locked', LocksOf(a, q)) = 0
    BY <2>1, TotalZero
  <2>3. TotalStake(a, q)' = stake'[<<a, q>>] + Total(locked', LocksOf(a, q))
    BY <1>1, TotalStakePartsNext
  <2> QED BY <1>3, <2>1, <2>2, <2>3
<1>4. CASE a \notin stakers
  <2>1. stake'[<<a, q>>] = stake[<<a, q>>] /\ \A l \in LocksOf(a, q) : locked'[l] = locked[l]
    BY <1>1, <1>2, <1>4
  <2> QED BY <1>1, <1>4, <2>1, TotalStakeSame
<1> QED
  BY <1>3, <1>4

(* The stake of several accounts is the sum of their stakes. *)
LEMMA BondedOfSeveral ==
  ASSUME TypeOK, NEW A \in SUBSET Account, NEW p \in Periods
  PROVE  Bonded(A, {p}) = Total([a \in Account |-> TotalStake(a, p)], A)
<1> DEFINE unlocked == [a \in A |-> stake[<<a, p>>]]
           locks == [a \in A |-> Total(locked, LocksOf(a, p))]
           both == [a \in A |-> TotalStake(a, p)]
           key == [a \in A |-> <<a, p>>]
           part == [a \in A |-> LocksOf(a, p)]
<1>1. stake \in [StakeKeys -> Nat] /\ locked \in [LockKeys -> Nat] /\ IsFiniteSet(A)
  <2>1. IsFiniteSet(A)
    BY FS_Subset
  <2> QED BY <2>1 DEF TypeOK
<1>2. /\ unlocked \in [A -> Nat] /\ locks \in [A -> Nat] /\ both \in [A -> Nat]
      /\ \A a \in A : both[a] = unlocked[a] + locks[a]
  <2>1. ASSUME NEW a \in A
        PROVE  /\ TotalStake(a, p) = stake[<<a, p>>] + Total(locked, LocksOf(a, p))
               /\ stake[<<a, p>>] \in Nat /\ Total(locked, LocksOf(a, p)) \in Nat
    BY <1>1, TotalStakeParts
  <2>2. ASSUME NEW a \in A
        PROVE  /\ both[a] = TotalStake(a, p) /\ unlocked[a] = stake[<<a, p>>]
               /\ locks[a] = Total(locked, LocksOf(a, p))
    OBVIOUS
  <2>3. ASSUME NEW a \in A
        PROVE  /\ both[a] = unlocked[a] + locks[a]
               /\ both[a] \in Nat /\ unlocked[a] \in Nat /\ locks[a] \in Nat
    <3>1. /\ both[a] = TotalStake(a, p) /\ unlocked[a] = stake[<<a, p>>]
          /\ locks[a] = Total(locked, LocksOf(a, p))
      BY <2>2
    <3>2. /\ TotalStake(a, p) = stake[<<a, p>>] + Total(locked, LocksOf(a, p))
          /\ stake[<<a, p>>] \in Nat /\ Total(locked, LocksOf(a, p)) \in Nat
      BY <2>1
    <3> HIDE DEF both, unlocked, locks
    <3> QED BY ONLY <3>1, <3>2
  <2> QED BY <2>3
<1>3. Total(both, A) = Total(unlocked, A) + Total(locks, A)
  <2> HIDE DEF both, unlocked, locks
  <2> QED BY <1>1, <1>2, TotalSum
<1>4. Total(stake, A \X {p}) = Total(unlocked, A)
  <2>1. key \in Bijection(A, A \X {p})
    <3>1. key \in [A -> A \X {p}]
      OBVIOUS
    <3>2. \A a, b \in A : key[a] = key[b] => a = b
      OBVIOUS
    <3>3. \A r \in A \X {p} : \E a \in A : key[a] = r
      OBVIOUS
    <3> HIDE DEF key
    <3> QED BY <3>1, <3>2, <3>3 DEF Bijection, Injection, Surjection, IsInjective
  <2>2. \A a \in A : stake[key[a]] = unlocked[a]
    OBVIOUS
  <2> HIDE DEF key, unlocked
  <2> QED BY <1>1, <1>2, <2>1, <2>2, TotalRenamed
<1>5. Total(locks, A) = Total(locked, A \X {p} \X Times)
  <2>1. part \in [A -> SUBSET LockKeys]
    BY DEF LocksOf, LockKeys
  <2>2. \A a, b \in A : a # b => part[a] \cap part[b] = {}
    BY DEF LocksOf
  <2>3. \A x : x \in A \X {p} \X Times <=> \E a \in A : x \in part[a]
    BY DEF LocksOf
  <2>4. \A a \in A : locks[a] = Total(locked, part[a])
    OBVIOUS
  <2> HIDE DEF part, locks
  <2> QED BY <1>1, <1>2, <2>1, <2>2, <2>3, <2>4, LockKeysFinite, TotalOfParts
<1>6. Total([a \in Account |-> TotalStake(a, p)], A) = Total(both, A)
  <2>1. \A a \in A : [x \in Account |-> TotalStake(x, p)][a] = both[a]
    OBVIOUS
  <2> HIDE DEF both
  <2> QED BY <2>1, TotalSame
<1> QED
  BY <1>3, <1>4, <1>5, <1>6 DEF Bonded

----------------------------------------------------------------------------
(* TOTAL_PER_PERIOD: the totals of a period against the stakes in it *)

Stakes(p) == [a \in Account |-> TotalStake(a, p)]

Counts(stakes) == [a \in Account |-> Counted(stakes[a])]

(* an entry of the totals that is what the stakes sum to *)
Balanced(entry, stakes) ==
  /\ entry.staked = Total(stakes, Account)
  /\ entry.powered = Total(Counts(stakes), Account)

LEMMA CountsType ==
  ASSUME NEW stakes \in [Account -> Nat]
  PROVE  Counts(stakes) \in [Account -> Nat]
BY DEF Counts, Counted

LEMMA StakesType ==
  ASSUME TypeOK, NEW p \in Periods
  PROVE  Stakes(p) \in [Account -> Nat]
<1>1. ASSUME NEW a \in Account PROVE TotalStake(a, p) \in Nat
  BY UnlockedType
<1> QED
  BY <1>1 DEF Stakes

LEMMA StakesTypeNext ==
  ASSUME TypeOK', NEW p \in Periods
  PROVE  Stakes(p)' \in [Account -> Nat]
<1>1. ASSUME NEW a \in Account PROVE TotalStake(a, p)' \in Nat
  <2>1. stake' \in [StakeKeys -> Nat] /\ locked' \in [LockKeys -> Nat]
    BY DEF TypeOK, StakeKeys, LockKeys, Times
  <2>2. /\ TotalStake(a, p)' = stake'[<<a, p>>] + Total(locked', LocksOf(a, p))
        /\ stake'[<<a, p>>] \in Nat /\ Total(locked', LocksOf(a, p)) \in Nat
    BY <2>1, TotalStakePartsNext
  <2> QED BY <2>2
<1> QED
  BY <1>1 DEF Stakes

(* Summing the stakes of at least min_bond is summing what counts of each. *)
LEMMA CountedTotal ==
  ASSUME NEW stakes \in [Account -> Nat]
  PROVE  Total(stakes, {a \in Account : stakes[a] >= MinBond}) = Total(Counts(stakes), Account)
<1> DEFINE R == {a \in Account : stakes[a] >= MinBond}
           counts == Counts(stakes)
<1>1. \A a \in R : stakes[a] = counts[a]
  BY DEF Counts, Counted
<1>2. \A a \in Account \ R : counts[a] = 0
  BY DEF Counts, Counted
<1>3. counts \in [Account -> Nat] /\ R \in SUBSET Account
  BY CountsType
<1> HIDE DEF R, counts
<1>4. Total(stakes, R) = Total(counts, R)
  BY <1>1, TotalSame
<1>5. Total(counts, Account \ R) = 0
  BY <1>2, TotalZero
<1>6. Total(counts, Account) = Total(counts, R) + Total(counts, Account \ R) /\ Total(counts, R) \in Nat
  BY <1>3, TotalSplitAll
<1>7. Total(stakes, R) = Total(counts, Account)
  BY <1>4, <1>5, <1>6
<1> QED
  BY <1>7 DEF R, counts

LEMMA PeriodTotalsBalanced ==
  ASSUME TypeOK
  PROVE  PeriodTotals <=> \A p \in Periods : Balanced(total[p], Stakes(p))
<1>1. ASSUME NEW p \in Periods
      PROVE  Total(Stakes(p), {a \in Account : Stakes(p)[a] >= MinBond})
               = Total(Counts(Stakes(p)), Account)
  BY StakesType, CountedTotal
<1> QED
  BY <1>1 DEF PeriodTotals, Balanced, Stakes

LEMMA PeriodTotalsBalancedNext ==
  ASSUME TypeOK'
  PROVE  PeriodTotals' <=> \A p \in Periods : Balanced(total'[p], Stakes(p)')
<1>1. ASSUME NEW p \in Periods
      PROVE  Total(Stakes(p)', {a \in Account : Stakes(p)'[a] >= MinBond})
               = Total(Counts(Stakes(p)'), Account)
  BY StakesTypeNext, CountedTotal
<1> QED
  BY <1>1 DEF PeriodTotals, Balanced, Stakes

(* An entry stays balanced when it changes by what the stakes of some      *)
(* accounts change by, counted or not.                                     *)
LEMMA BalancedAfter ==
  ASSUME NEW old \in [Account -> Nat], NEW new \in [Account -> Nat],
         NEW A \in SUBSET Account, \A a \in Account \ A : old[a] = new[a],
         NEW entry \in [staked : Nat, powered : Nat], Balanced(entry, old),
         NEW next,
         next.staked = entry.staked + Total(new, A) - Total(old, A),
         next.powered = entry.powered + Total(Counts(new), A) - Total(Counts(old), A)
  PROVE  Balanced(next, new)
<1>1. /\ Total(new, Account) = Total(old, Account) - Total(old, A) + Total(new, A)
      /\ Total(old, Account) \in Nat /\ Total(old, A) \in Nat /\ Total(new, A) \in Nat
  BY TotalChange
<1>2. /\ Total(Counts(new), Account)
           = Total(Counts(old), Account) - Total(Counts(old), A) + Total(Counts(new), A)
      /\ Total(Counts(old), Account) \in Nat
      /\ Total(Counts(old), A) \in Nat /\ Total(Counts(new), A) \in Nat
  <2> DEFINE f == Counts(old)
             g == Counts(new)
  <2>1. f \in [Account -> Nat] /\ g \in [Account -> Nat]
    BY CountsType
  <2>2. \A a \in Account \ A : f[a] = g[a]
    BY DEF Counts
  <2> HIDE DEF f, g
  <2>3. /\ Total(g, Account) = Total(f, Account) - Total(f, A) + Total(g, A)
        /\ Total(f, Account) \in Nat /\ Total(f, A) \in Nat /\ Total(g, A) \in Nat
    BY <2>1, <2>2, TotalChange
  <2> QED BY <2>3 DEF f, g
<1> QED
  BY <1>1, <1>2 DEF Balanced

(* update_total_stake is the change that one staker makes. *)
LEMMA BalancedAfterOne ==
  ASSUME NEW old \in [Account -> Nat], NEW new \in [Account -> Nat],
         NEW a \in Account, \A b \in Account \ {a} : old[b] = new[b],
         NEW entry \in [staked : Nat, powered : Nat], Balanced(entry, old)
  PROVE  Balanced(UpdateTotalStake(entry, old[a], new[a]), new)
<1> DEFINE next == UpdateTotalStake(entry, old[a], new[a])
<1>1. /\ Total(old, {a}) = old[a] /\ Total(new, {a}) = new[a]
      /\ Total(Counts(old), {a}) = Counted(old[a]) /\ Total(Counts(new), {a}) = Counted(new[a])
  <2>1. old[a] \in Nat /\ new[a] \in Nat
    OBVIOUS
  <2>2. /\ Counts(old)[a] \in Nat /\ Counts(old)[a] = Counted(old[a])
        /\ Counts(new)[a] \in Nat /\ Counts(new)[a] = Counted(new[a])
    BY CountsType DEF Counts
  <2> QED BY <2>1, <2>2, TotalOfOne
<1>2. /\ next.staked = entry.staked + Total(new, {a}) - Total(old, {a})
      /\ next.powered = entry.powered + Total(Counts(new), {a}) - Total(Counts(old), {a})
  <2>1. old[a] \in Nat /\ new[a] \in Nat /\ entry.staked \in Nat
    OBVIOUS
  <2> QED BY <1>1, <2>1 DEF UpdateTotalStake
<1>3. {a} \in SUBSET Account
  OBVIOUS
<1> HIDE DEF next
<1>4. Balanced(next, new)
  BY <1>2, <1>3, BalancedAfter
<1> QED
  BY <1>4 DEF next

LEMMA RemoveStakePeriodTotals ==
  ASSUME TypeOK, TypeOK', PeriodTotals, NEW a \in Account, NEW p \in Periods, NEW n \in Nat,
         RemoveStake(a, p, n)
  PROVE  PeriodTotals'
<1> SUFFICES ASSUME NEW q \in Periods PROVE Balanced(total'[q], Stakes(q)')
  BY PeriodTotalsBalancedNext
<1>1. /\ total[q] \in [staked : Nat, powered : Nat] /\ Balanced(total[q], Stakes(q))
      /\ Stakes(q) \in [Account -> Nat] /\ Stakes(q)' \in [Account -> Nat]
  BY PeriodTotalsBalanced, StakesType, StakesTypeNext DEF TypeOK
<1>2. \A b \in Account : Stakes(q)[b] = TotalStake(b, q) /\ Stakes(q)'[b] = TotalStake(b, q)'
  BY DEF Stakes
<1>3. \A b \in Account : <<b, q>> # <<a, p>> => Stakes(q)[b] = Stakes(q)'[b]
  BY <1>2, RemoveStakeTotalStake
<1>4. total' = [total EXCEPT ![p] =
                 UpdateTotalStake(total[p], TotalStake(a, p), TotalStake(a, p) - n)]
  BY DEF RemoveStake, TypeOK
<1>5. CASE q = p
  <2> DEFINE old == Stakes(p)
             new == Stakes(p)'
  <2>1. old[a] = TotalStake(a, p) /\ new[a] = TotalStake(a, p) - n
    BY <1>2, <1>5, RemoveStakeTotalStake
  <2>2. total'[p] = UpdateTotalStake(total[p], TotalStake(a, p), TotalStake(a, p) - n)
    BY <1>4 DEF TypeOK
  <2>3. \A b \in Account \ {a} : old[b] = new[b]
    BY <1>3, <1>5
  <2>4. /\ total[p] \in [staked : Nat, powered : Nat] /\ Balanced(total[p], old)
        /\ old \in [Account -> Nat] /\ new \in [Account -> Nat]
    BY <1>1, <1>5
  <2> HIDE DEF old, new
  <2>5. Balanced(UpdateTotalStake(total[p], old[a], new[a]), new)
    BY <2>3, <2>4, BalancedAfterOne
  <2>6. Balanced(total'[p], new)
    BY <2>1, <2>2, <2>5
  <2> QED BY <1>5, <2>6 DEF new
<1>6. CASE q # p
  <2>1. total'[q] = total[q]
    BY <1>4, <1>6 DEF TypeOK
  <2>2. Stakes(q)' = Stakes(q)
    <3>1. \A b \in Account : Stakes(q)[b] = Stakes(q)'[b]
      BY <1>3, <1>6
    <3> QED BY <1>1, <3>1
  <2> QED BY <1>1, <2>1, <2>2
<1> QED
  BY <1>5, <1>6

LEMMA RebondPeriodTotals ==
  ASSUME TypeOK, TypeOK', PeriodTotals, NEW a \in Account, NEW from \in Periods,
         NEW to \in Periods, NEW n \in Nat, Rebond(a, from, to, n)
  PROVE  PeriodTotals'
<1> SUFFICES ASSUME NEW q \in Periods PROVE Balanced(total'[q], Stakes(q)')
  BY PeriodTotalsBalancedNext
<1>1. /\ total[q] \in [staked : Nat, powered : Nat] /\ Balanced(total[q], Stakes(q))
      /\ Stakes(q) \in [Account -> Nat] /\ Stakes(q)' \in [Account -> Nat]
  BY PeriodTotalsBalanced, StakesType, StakesTypeNext DEF TypeOK
<1>2. \A b \in Account : Stakes(q)[b] = TotalStake(b, q) /\ Stakes(q)'[b] = TotalStake(b, q)'
  BY DEF Stakes
<1>3. \A b \in Account : <<b, q>> # <<a, from>> /\ <<b, q>> # <<a, to>> =>
        Stakes(q)[b] = Stakes(q)'[b]
  BY <1>2, RebondTotalStake
<1>4. from # to
  BY DEF Rebond
<1>5. /\ total'[from] = UpdateTotalStake(total[from], TotalStake(a, from), TotalStake(a, from) - n)
      /\ total'[to] = UpdateTotalStake(total[to], TotalStake(a, to), TotalStake(a, to) + n)
      /\ \A p \in Periods : p # from /\ p # to => total'[p] = total[p]
  <2> DEFINE u == UpdateTotalStake(total[from], TotalStake(a, from), TotalStake(a, from) - n)
             v == UpdateTotalStake(total[to], TotalStake(a, to), TotalStake(a, to) + n)
  <2>1. total' = [total EXCEPT ![from] = u, ![to] = v]
    BY DEF Rebond, TypeOK
  <2>2. total \in [Periods -> [staked : Nat, powered : Nat]]
    BY DEF TypeOK
  <2> HIDE DEF u, v
  <2>3. total'[from] = u /\ total'[to] = v /\ \A p \in Periods : p # from /\ p # to => total'[p] = total[p]
    BY <1>4, <2>1, <2>2
  <2> QED BY <2>3 DEF u, v
<1>6. CASE q = from \/ q = to
  <2> DEFINE old == Stakes(q)
             new == Stakes(q)'
  <2>1. total'[q] = UpdateTotalStake(total[q], old[a], new[a])
    <3>1. CASE q = from
      <4>1. old[a] = TotalStake(a, from) /\ new[a] = TotalStake(a, from) - n
        BY <1>2, <3>1, RebondTotalStake
      <4> HIDE DEF old, new
      <4> QED BY <1>5, <3>1, <4>1
    <3>2. CASE q = to
      <4>1. old[a] = TotalStake(a, to) /\ new[a] = TotalStake(a, to) + n
        BY <1>2, <3>2, RebondTotalStake
      <4> HIDE DEF old, new
      <4> QED BY <1>5, <3>2, <4>1
    <3> QED BY <1>6, <3>1, <3>2
  <2>2. \A b \in Account \ {a} : old[b] = new[b]
    BY <1>3
  <2>3. /\ total[q] \in [staked : Nat, powered : Nat] /\ Balanced(total[q], old)
        /\ old \in [Account -> Nat] /\ new \in [Account -> Nat]
    BY <1>1
  <2> HIDE DEF old, new
  <2>4. Balanced(UpdateTotalStake(total[q], old[a], new[a]), new)
    BY <2>2, <2>3, BalancedAfterOne
  <2>5. Balanced(total'[q], new)
    BY <2>1, <2>4
  <2> QED BY <2>5 DEF new
<1>7. CASE q # from /\ q # to
  <2>1. total'[q] = total[q]
    BY <1>5, <1>7
  <2>2. Stakes(q)' = Stakes(q)
    <3>1. \A b \in Account : Stakes(q)[b] = Stakes(q)'[b]
      BY <1>3, <1>7
    <3> QED BY <1>1, <3>1
  <2> QED BY <1>1, <2>1, <2>2
<1> QED
  BY <1>6, <1>7

LEMMA MassBondPeriodTotals ==
  ASSUME TypeOK, TypeOK', PeriodTotals, NEW s \in Account, NEW p \in Periods, NEW sent \in Nat,
         NEW shares \in [Account -> Nat], MassBond(s, p, sent, shares)
  PROVE  PeriodTotals'
<1> SUFFICES ASSUME NEW q \in Periods PROVE Balanced(total'[q], Stakes(q)')
  BY PeriodTotalsBalancedNext
<1> DEFINE old == Stakes(q)
           new == Stakes(q)'
<1>1. /\ total[q] \in [staked : Nat, powered : Nat] /\ Balanced(total[q], old)
      /\ old \in [Account -> Nat] /\ new \in [Account -> Nat]
  BY PeriodTotalsBalanced, StakesType, StakesTypeNext DEF TypeOK
<1>2. ASSUME NEW a \in Account
      PROVE  old[a] = TotalStake(a, q) /\ new[a] = old[a] + (IF q = p THEN shares[a] ELSE 0)
  <2>1. Stakes(q)[a] = TotalStake(a, q) /\ Stakes(q)'[a] = TotalStake(a, q)'
    BY DEF Stakes
  <2>2. TotalStake(a, q)' = TotalStake(a, q) + (IF q = p THEN shares[a] ELSE 0)
    BY MassBondTotalStake
  <2> QED BY <2>1, <2>2
<1>3. CASE q = p
  <2> DEFINE gain == [a \in Account |-> Counted(TotalStake(a, p) + shares[a])
                                          - Counted(TotalStake(a, p))]
             f == Counts(old)
             g == Counts(new)
  <2>1. /\ total'[p].staked = total[p].staked + Total(shares, Account)
        /\ total'[p].powered = total[p].powered + Total(gain, Account)
    BY DEF MassBond, TypeOK
  <2>2. f \in [Account -> Nat] /\ g \in [Account -> Nat]
    BY <1>1, CountsType
  <2>3. ASSUME NEW a \in Account
        PROVE  gain[a] \in Nat /\ g[a] = f[a] + gain[a]
    <3>1. /\ TotalStake(a, p) = old[a] /\ TotalStake(a, p) + shares[a] = new[a]
          /\ old[a] \in Nat /\ shares[a] \in Nat
      BY <1>1, <1>2, <1>3
    <3>2. gain[a] = Counted(new[a]) - Counted(old[a]) /\ g[a] = Counted(new[a]) /\ f[a] = Counted(old[a])
      BY <3>1 DEF Counts
    <3>3. new[a] \in Nat /\ old[a] <= new[a]
      BY <3>1
    <3> HIDE DEF gain, f, g, old, new
    <3> QED BY <3>1, <3>2, <3>3 DEF Counted
  <2>4. Total(new, Account) = Total(old, Account) + Total(shares, Account)
    <3>1. \A a \in Account : new[a] = old[a] + shares[a]
      BY <1>2, <1>3
    <3> HIDE DEF old, new
    <3> QED BY <1>1, <3>1, TotalSum
  <2>5. Total(g, Account) = Total(f, Account) + Total(gain, Account)
    <3>1. gain \in [Account -> Nat] /\ \A a \in Account : g[a] = f[a] + gain[a]
      BY <2>3
    <3> HIDE DEF gain, f, g
    <3>2. f \in [Account -> Nat] /\ g \in [Account -> Nat] /\ IsFiniteSet(Account)
      BY <2>2
    <3> QED BY ONLY <3>1, <3>2, TotalSum
  <2>6. total[p].staked = Total(old, Account) /\ total[p].powered = Total(f, Account)
    BY <1>1, <1>3 DEF Balanced
  <2>7. total'[p].staked = Total(new, Account) /\ total'[p].powered = Total(g, Account)
    <3> HIDE DEF gain, f, g, old, new
    <3> QED BY <2>1, <2>4, <2>5, <2>6
  <2> QED BY <1>3, <2>7 DEF Balanced
<1>4. CASE q # p
  <2>1. total'[q] = total[q]
    BY <1>4 DEF MassBond, TypeOK
  <2>2. new = old
    <3>1. \A a \in Account : new[a] = old[a]
      <4> SUFFICES ASSUME NEW a \in Account PROVE new[a] = old[a]
        OBVIOUS
      <4>1. old[a] \in Nat /\ new[a] = old[a] + 0
        BY <1>1, <1>2, <1>4
      <4> HIDE DEF old, new
      <4> QED BY <4>1
    <3> HIDE DEF old, new
    <3> QED BY <1>1, <3>1
  <2> QED BY <1>1, <2>1, <2>2
<1> QED
  BY <1>3, <1>4

(* Quick unbond takes the stakes of all its stakers out of a period at     *)
(* once.  What counts of their sum is the sum of what counts of each only  *)
(* if min_bond is one.                                                     *)
LEMMA QuickUnbondPeriodTotals ==
  ASSUME TypeOK, TypeOK', PeriodTotals, MinBond = 1, NEW s \in Account,
         NEW stakers \in SUBSET Account, QuickUnbond(s, stakers)
  PROVE  PeriodTotals'
<1> SUFFICES ASSUME NEW q \in Periods PROVE Balanced(total'[q], Stakes(q)')
  BY PeriodTotalsBalancedNext
<1> DEFINE old == Stakes(q)
           new == Stakes(q)'
           removed == Bonded(stakers, {q})
<1>1. /\ total[q] \in [staked : Nat, powered : Nat] /\ Balanced(total[q], old)
      /\ old \in [Account -> Nat] /\ new \in [Account -> Nat]
  BY PeriodTotalsBalanced, StakesType, StakesTypeNext DEF TypeOK
<1>2. \A a \in Account : new[a] = IF a \in stakers THEN 0 ELSE old[a]
  BY QuickUnbondTotalStake DEF Stakes
<1>3. removed = Total(old, stakers) /\ removed \in Nat
  <2>1. /\ stake \in [StakeKeys -> Nat] /\ locked \in [LockKeys -> Nat]
    BY DEF TypeOK
  <2>2. removed \in Nat
    BY <2>1, BondedType
  <2>3. removed = Total([a \in Account |-> TotalStake(a, q)], stakers)
    BY BondedOfSeveral
  <2> QED BY <2>2, <2>3 DEF Stakes
<1>4. total'[q] = UpdateTotalStake(total[q], removed, 0)
  BY DEF QuickUnbond
<1>5. \A n \in Nat : Counted(n) = n
  BY MinBond = 1 DEF Counted
<1>6. Counts(old) = old /\ Counts(new) = new
  <2> HIDE DEF old, new
  <2> QED BY <1>1, <1>5 DEF Counts
<1> HIDE DEF old, new, removed
<1>7. Total(new, stakers) = 0
  <2>1. \A a \in stakers : new[a] = 0
    BY <1>2
  <2> QED BY <2>1, TotalZero
<1>8. /\ total'[q].staked = total[q].staked + 0 - removed
      /\ total'[q].powered = total[q].powered + 0 - removed
  <2>1. /\ total'[q].staked = total[q].staked + 0 - removed
        /\ total'[q].powered = total[q].powered + Counted(0) - Counted(removed)
    BY <1>4 DEF UpdateTotalStake
  <2> QED BY <1>3, <1>5, <2>1
<1>9. \A a \in Account \ stakers : old[a] = new[a]
  BY <1>2
<1>10. Balanced(total'[q], new)
  <2>1. /\ total'[q].staked = total[q].staked + Total(new, stakers) - Total(old, stakers)
        /\ total'[q].powered = total[q].powered + Total(Counts(new), stakers)
                                 - Total(Counts(old), stakers)
    BY <1>3, <1>6, <1>7, <1>8
  <2> QED BY <1>1, <1>9, <2>1, BalancedAfter
<1> QED
  BY <1>10 DEF new

LEMMA PeriodTotalsUnchanged ==
  ASSUME PeriodTotals, UNCHANGED <<stake, locked, total>>
  PROVE  PeriodTotals'
BY DEF PeriodTotals, TotalStake, Bonded, Times

LEMMA StakingPeriodTotals ==
  ASSUME TypeOK, TypeOK', PeriodTotals, NEW a \in Account, Staking(a)
  PROVE  PeriodTotals'
<1>1. ASSUME NEW p \in Periods, NEW n \in 1..wallet[a], NEW b \in Account, Delegate(a, p, n, b)
      PROVE  PeriodTotals'
  <2>1. [x \in Account |-> IF x = b THEN n ELSE 0] \in [Account -> Nat] /\ n \in Nat
    OBVIOUS
  <2> QED BY <1>1, <2>1, MassBondPeriodTotals DEF Delegate
<1>2. ASSUME NEW p \in Periods, NEW n \in 1..wallet[a], NEW shares \in [Account -> 0..n],
             MassDelegate(a, p, n, shares)
      PROVE  PeriodTotals'
  <2>1. shares \in [Account -> Nat] /\ n \in Nat
    OBVIOUS
  <2> QED BY <1>2, <2>1, MassBondPeriodTotals DEF MassDelegate
<1>3. ASSUME NEW from \in Periods, NEW to \in Periods, NEW n \in 1..TotalStake(a, from),
             Rebond(a, from, to, n)
      PROVE  PeriodTotals'
  BY <1>3, RebondPeriodTotals
<1>4. ASSUME NEW p \in Periods, NEW n \in 1..TotalStake(a, p), Unbond(a, p, n)
      PROVE  PeriodTotals'
  BY <1>4, RemoveStakePeriodTotals DEF Unbond
<1>5. ASSUME NEW p \in Periods, NEW n \in 1..TotalStake(a, p), MigrateStake(a, p, n)
      PROVE  PeriodTotals'
  BY <1>5, RemoveStakePeriodTotals DEF MigrateStake
<1>6. CASE Claim(a)
  BY <1>6, PeriodTotalsUnchanged DEF Claim
<1> QED
  BY <1>1, <1>2, <1>3, <1>4, <1>5, <1>6 DEF Staking

LEMMA NextPeriodTotals ==
  ASSUME TotalsKept, TypeOK, TypeOK', PeriodTotals, [Next]_vars
  PROVE  PeriodTotals'
<1>1. CASE UNCHANGED vars
  BY <1>1, PeriodTotalsUnchanged DEF vars, lpVars
<1>2. CASE Tick
  BY <1>2, PeriodTotalsUnchanged DEF Tick, lpVars
<1>3. CASE Rewarding
  BY <1>3, PeriodTotalsUnchanged DEF Rewarding, FundDistribution, SendRewards,
     DistributeRewards, WithdrawRewards, DelegateWithdrawal, lpVars
<1>4. ASSUME NEW a \in Account, Governing(a) PROVE PeriodTotals'
  <2>1. ASSUME NEW stakers \in SUBSET Account, QuickUnbond(a, stakers) PROVE PeriodTotals'
    <3>1. Unbonder # NONE
      BY <2>1 DEF QuickUnbond
    <3>2. MinBond = 1
      BY <3>1 DEF TotalsKept
    <3> QED BY <2>1, <3>2, QuickUnbondPeriodTotals
  <2>2. ASSUME \/ UnbondAll(a)
               \/ StopUnbondAll(a)
               \/ \E new \in NewAdmins : UpdateAdmin(a, new)
               \/ \E d \in Asset, m \in Multipliers : CreateDistributionFlow(a, d, m)
        PROVE  PeriodTotals'
    BY <2>2, PeriodTotalsUnchanged DEF UnbondAll, StopUnbondAll, UpdateAdmin,
       CreateDistributionFlow, lpVars
  <2> QED BY <1>4, <2>1, <2>2 DEF Governing
<1> QED
  BY <1>1, <1>2, <1>3, <1>4, StakingPeriodTotals DEF Next

LEMMA PeriodTotalsInit == Init => PeriodTotals
<1> SUFFICES ASSUME Init, NEW p \in Periods
             PROVE  Balanced(total[p], Stakes(p))
  BY InitType, PeriodTotalsBalanced
<1>1. TypeOK
  BY InitType
<1>2. ASSUME NEW a \in Account PROVE Stakes(p)[a] = 0
  <2>1. Total(locked, LocksOf(a, p)) = 0
    <3>1. \A l \in LocksOf(a, p) : locked[l] = 0
      BY DEF Init, LocksOf, LockKeys
    <3> QED BY <3>1, TotalZero
  <2>2. stake[<<a, p>>] = 0
    BY DEF Init, StakeKeys
  <2>3. TotalStake(a, p) = stake[<<a, p>>] + Total(locked, LocksOf(a, p))
    BY <1>1, TotalStakeParts DEF TypeOK
  <2> QED BY <2>1, <2>2, <2>3 DEF Stakes
<1> DEFINE s == Stakes(p)
<1>3. Total(s, Account) = 0 /\ Total(Counts(s), Account) = 0
  <2>1. \A a \in Account : s[a] = 0 /\ Counts(s)[a] = 0
    BY <1>2 DEF Counts, Counted
  <2> HIDE DEF s
  <2> QED BY <2>1, TotalZero
<1>4. total[p].staked = 0 /\ total[p].powered = 0
  BY DEF Init
<1> QED
  BY <1>3, <1>4 DEF Balanced

(* TOTAL_PER_PERIOD is always what its comment says, per period the sum of *)
(* the stakes and the sum of those of at least min_bond, whatever is       *)
(* bonded, rebonded, unbonded and migrated in whatever order: without an   *)
(* unbonder for every min_bond, and with quick unbond for a min_bond of 1. *)
THEOREM PeriodTotalsKept == TotalsKept => (Spec => []PeriodTotals)
<1> SUFFICES ASSUME TotalsKept PROVE Spec => []PeriodTotals
  OBVIOUS
<1>1. Init => TypeOK /\ PeriodTotals
  BY InitType, PeriodTotalsInit
<1>2. TypeOK /\ PeriodTotals /\ [Next]_vars => (TypeOK /\ PeriodTotals)'
  BY NextType, NextPeriodTotals
<1> QED
  BY <1>1, <1>2, PTL DEF Spec

----------------------------------------------------------------------------
(* The powers of the stakers against the total a distribution divides by *)

(* Two amounts divided apart give no more than divided together. *)
LEMMA DivSuperadditive ==
  ASSUME NEW x \in Nat, NEW y \in Nat, NEW k \in Nat \ {0}
  PROVE  /\ x \div k + y \div k <= (x + y) \div k
         /\ x \div k \in Nat /\ y \div k \in Nat /\ (x + y) \div k \in Nat
<1> DEFINE u == x \div k
           v == y \div k
           w == (x + y) \div k
<1>1. u \in Nat /\ k * u <= x
  OBVIOUS
<1>2. v \in Nat /\ k * v <= y
  OBVIOUS
<1>3. w \in Nat /\ x + y < k * (w + 1)
  OBVIOUS
<1> HIDE DEF u, v, w
<1>4. k * (u + v) < k * (w + 1)
  BY <1>1, <1>2, <1>3
<1>5. u + v < w + 1
  BY <1>1, <1>2, <1>3, <1>4
<1> QED
  BY <1>1, <1>2, <1>3, <1>5 DEF u, v, w

(* the power of an amount that counts, for a multiplier *)
PowerOf(m) == [n \in Nat |-> ((n * m) \div DecimalOne) \div TokensPerPower]

LEMMA PowerOfSuperadditive ==
  ASSUME NEW m \in Nat
  PROVE  /\ PowerOf(m) \in [Nat -> Nat]
         /\ \A x, y \in Nat : PowerOf(m)[x] + PowerOf(m)[y] <= PowerOf(m)[x + y]
<1>1. ASSUME NEW x \in Nat
      PROVE  PowerOf(m)[x] = ((x * m) \div DecimalOne) \div TokensPerPower /\ PowerOf(m)[x] \in Nat
  <2>1. x * m \in Nat
    OBVIOUS
  <2>2. (x * m) \div DecimalOne \in Nat
    BY <2>1
  <2>3. ((x * m) \div DecimalOne) \div TokensPerPower \in Nat
    BY <2>2
  <2> QED BY <2>3 DEF PowerOf
<1>2. ASSUME NEW x \in Nat, NEW y \in Nat
      PROVE  PowerOf(m)[x] + PowerOf(m)[y] <= PowerOf(m)[x + y]
  <2> DEFINE u == (x * m) \div DecimalOne
             v == (y * m) \div DecimalOne
             w == ((x + y) * m) \div DecimalOne
  <2>1. u + v <= w /\ u \in Nat /\ v \in Nat /\ w \in Nat
    <3>1. x * m \in Nat /\ y * m \in Nat /\ (x + y) * m = x * m + y * m
      OBVIOUS
    <3> QED BY <3>1, DivSuperadditive
  <2>2. x + y \in Nat
    OBVIOUS
  <2>3. /\ PowerOf(m)[x] = u \div TokensPerPower /\ PowerOf(m)[y] = v \div TokensPerPower
        /\ PowerOf(m)[x + y] = w \div TokensPerPower
    BY <1>1, <2>2
  <2> HIDE DEF u, v, w
  <2>4. /\ u \div TokensPerPower + v \div TokensPerPower <= (u + v) \div TokensPerPower
        /\ u \div TokensPerPower \in Nat /\ v \div TokensPerPower \in Nat
        /\ (u + v) \div TokensPerPower \in Nat
    BY <2>1, DivSuperadditive
  <2>5. (u + v) \div TokensPerPower <= w \div TokensPerPower /\ w \div TokensPerPower \in Nat
    <3> DEFINE r == w - (u + v)
    <3>1. r \in Nat /\ u + v \in Nat /\ w = (u + v) + r
      BY <2>1
    <3> HIDE DEF r
    <3>2. /\ (u + v) \div TokensPerPower + r \div TokensPerPower <= ((u + v) + r) \div TokensPerPower
          /\ (u + v) \div TokensPerPower \in Nat /\ r \div TokensPerPower \in Nat
          /\ ((u + v) + r) \div TokensPerPower \in Nat
      BY <3>1, DivSuperadditive
    <3> QED BY <3>1, <3>2
  <2> QED BY <2>3, <2>4, <2>5
<1>3. PowerOf(m) = [n \in Nat |-> PowerOf(m)[n]]
  BY DEF PowerOf
<1> QED
  BY <1>1, <1>2, <1>3

(* What counts of all stakes together counts: it is nothing or at least    *)
(* the stake of one staker above the threshold.                            *)
LEMMA PoweredCounts ==
  ASSUME NEW stakes \in [Account -> Nat]
  PROVE  /\ Counted(Total(Counts(stakes), Account)) = Total(Counts(stakes), Account)
         /\ Total(Counts(stakes), Account) \in Nat
<1> DEFINE counts == Counts(stakes)
<1>1. counts \in [Account -> Nat] /\ \A a \in Account : counts[a] = 0 \/ counts[a] >= MinBond
  BY CountsType DEF Counts, Counted
<1> HIDE DEF counts
<1>2. Total(counts, Account) \in Nat
  BY <1>1, TotalType
<1>3. CASE \A a \in Account : counts[a] = 0
  <2>1. Total(counts, Account) = 0
    BY <1>3, TotalZero
  <2> QED BY <2>1 DEF counts, Counted
<1>4. CASE \E a \in Account : counts[a] # 0
  <2>1. PICK a \in Account : counts[a] >= MinBond
    BY <1>1, <1>4
  <2>2. Total(counts, {a}) = counts[a] /\ counts[a] \in Nat
    BY <1>1, TotalOfOne
  <2>3. Total(counts, {a}) <= Total(counts, Account)
    <3>1. {a} \in SUBSET Account
      OBVIOUS
    <3> QED BY <1>1, <3>1, TotalOfPart
  <2>4. Total(counts, Account) >= MinBond
    BY <1>2, <2>1, <2>2, <2>3
  <2> QED BY <1>2, <2>4 DEF counts, Counted
<1> QED
  BY <1>2, <1>3, <1>4 DEF counts

(* In one period the powers of the stakers sum to no more than the power   *)
(* of what the totals count.                                               *)
LEMMA PeriodPowerCovered ==
  ASSUME TypeOK, PeriodTotals, NEW p \in Periods, NEW m \in Nat
  PROVE  /\ Total([a \in Account |-> CalcPower(TotalStake(a, p), m)], Account)
              <= CalcPower(total[p].powered, m)
         /\ Total([a \in Account |-> CalcPower(TotalStake(a, p), m)], Account) \in Nat
         /\ CalcPower(total[p].powered, m) \in Nat
<1> DEFINE f == Counts(Stakes(p))
           g == [a \in Account |-> CalcPower(TotalStake(a, p), m)]
           h == PowerOf(m)
<1>1. /\ Stakes(p) \in [Account -> Nat] /\ Balanced(total[p], Stakes(p))
      /\ total[p].powered \in Nat
  BY StakesType, PeriodTotalsBalanced DEF TypeOK
<1>2. f \in [Account -> Nat] /\ h \in [Nat -> Nat] /\ \A x, y \in Nat : h[x] + h[y] <= h[x + y]
  BY <1>1, CountsType, PowerOfSuperadditive
<1>3. ASSUME NEW s \in Nat
      PROVE  CalcPower(s, m) = h[Counted(s)] /\ CalcPower(s, m) \in Nat
  <2>1. Counted(s) \in Nat
    BY DEF Counted
  <2>2. CalcPower(s, m) \in Nat
    BY CalcPowerType
  <2> QED BY <2>1, <2>2 DEF CalcPower, PowerOf
<1>4. ASSUME NEW a \in Account PROVE g[a] = h[f[a]] /\ g[a] \in Nat
  <2>1. TotalStake(a, p) \in Nat /\ f[a] = Counted(TotalStake(a, p))
    BY UnlockedType DEF Stakes, Counts
  <2> QED BY <1>3, <2>1
<1>5. g \in [Account -> Nat] /\ \A a \in Account : g[a] <= h[f[a]]
  <2>1. \A a \in Account : g[a] = h[f[a]] /\ g[a] \in Nat
    BY <1>4
  <2>2. g = [a \in Account |-> g[a]]
    OBVIOUS
  <2> HIDE DEF f, g, h
  <2> QED BY <2>1, <2>2
<1>6. CalcPower(total[p].powered, m) = h[Total(f, Account)] /\ CalcPower(total[p].powered, m) \in Nat
  <2>1. total[p].powered = Total(f, Account) /\ Counted(total[p].powered) = total[p].powered
    BY <1>1, PoweredCounts DEF Balanced
  <2> QED BY <1>1, <1>3, <2>1
<1>7. Total(g, Account) <= h[Total(f, Account)] /\ Total(g, Account) \in Nat
  <2> HIDE DEF f, g, h
  <2>1. Total(g, Account) \in Nat
    BY <1>5, TotalType
  <2>2. Total(g, Account) <= h[Total(f, Account)]
    BY ONLY <1>2, <1>5, AccountAssumption, TotalSuperadditive
  <2> QED BY <2>1, <2>2
<1> QED
  <2> HIDE DEF f, h
  <2> QED BY <1>6, <1>7

LEMMA PowersCoveredByTotals ==
  ASSUME TypeOK, PeriodTotals
  PROVE  PowersCovered
<1> SUFFICES ASSUME NEW d \in DOMAIN dist
             PROVE  Total([a \in Account |-> RewardsPower(a, d)], Account) <= TotalRewardsPower(d)
  BY DEF PowersCovered
<1> DEFINE m == dist[d].multipliers
           row == [a \in Account |-> [p \in Periods |-> CalcPower(TotalStake(a, p), m[p])]]
           rowSum == [a \in Account |-> RewardsPower(a, d)]
           col == [p \in Periods |-> [a \in Account |-> CalcPower(TotalStake(a, p), m[p])]]
           colSum == [p \in Periods |-> Total(col[p], Account)]
           all == [p \in Periods |-> CalcPower(total[p].powered, m[p])]
<1>1. \A p \in Periods : m[p] \in Nat
  BY DEF TypeOK, Distribution
<1>2. /\ \A a \in Account : row[a] \in [Periods -> Nat]
      /\ \A p \in Periods : col[p] \in [Account -> Nat]
      /\ \A a \in Account, p \in Periods : col[p][a] = row[a][p]
  <2>1. ASSUME NEW a \in Account, NEW p \in Periods
        PROVE  CalcPower(TotalStake(a, p), m[p]) \in Nat
    BY <1>1, UnlockedType, CalcPowerType
  <2> HIDE DEF m
  <2> QED BY <2>1
<1>3. rowSum \in [Account -> Nat]
  <2>1. PowerTypeOK
    BY DEF TypeOK, PowerTypeOK
  <2> QED BY <2>1, RewardsPowerType
<1>4. \A a \in Account : rowSum[a] = Total(row[a], Periods)
  BY DEF RewardsPower
<1>5. ASSUME NEW p \in Periods
      PROVE  colSum[p] \in Nat /\ all[p] \in Nat /\ colSum[p] <= all[p]
  <2> DEFINE c == [a \in Account |-> CalcPower(TotalStake(a, p), m[p])]
  <2>1. /\ Total(c, Account) \in Nat /\ CalcPower(total[p].powered, m[p]) \in Nat
        /\ Total(c, Account) <= CalcPower(total[p].powered, m[p])
    BY <1>1, PeriodPowerCovered
  <2>2. colSum[p] = Total(c, Account) /\ all[p] = CalcPower(total[p].powered, m[p])
    OBVIOUS
  <2> HIDE DEF m, c, colSum, all
  <2> QED BY <2>1, <2>2
<1>6. /\ colSum \in [Periods -> Nat] /\ all \in [Periods -> Nat]
      /\ \A p \in Periods : colSum[p] <= all[p]
      /\ \A p \in Periods : colSum[p] = Total(col[p], Account)
  <2>1. colSum = [p \in Periods |-> colSum[p]] /\ all = [p \in Periods |-> all[p]]
    OBVIOUS
  <2>2. \A p \in Periods : colSum[p] = Total(col[p], Account)
    <3> HIDE DEF col
    <3> QED OBVIOUS
  <2> HIDE DEF colSum, all, col
  <2> QED BY <1>5, <2>1, <2>2
<1>7. TotalRewardsPower(d) = Total(all, Periods)
  BY DEF TotalRewardsPower
<1> HIDE DEF row, rowSum, col, colSum, all
<1>8. Total(rowSum, Account) = Total(colSum, Periods)
  <2>1. IsFiniteSet(Account) /\ IsFiniteSet(Periods)
    OBVIOUS
  <2>2. Table(Account, Periods, row, col, rowSum, colSum)
    BY ONLY <1>2, <1>3, <1>4, <1>6 DEF Table
  <2> QED BY <2>1, <2>2, TotalTransposed
<1>9. Total(colSum, Periods) <= Total(all, Periods)
  BY <1>6, TotalMonotone
<1>10. Total(rowSum, Account) <= TotalRewardsPower(d)
  BY <1>7, <1>8, <1>9
<1> QED
  BY <1>10 DEF rowSum

(* The powers that the stakers have in a distribution never sum to more    *)
(* than the power it divides each amount by, whatever its multipliers: no  *)
(* point is promised twice, however many powers are rounded.               *)
THEOREM PowersCoveredKept == TotalsKept => (Spec => []PowersCovered)
<1> SUFFICES ASSUME TotalsKept PROVE Spec => []PowersCovered
  OBVIOUS
<1>1. Spec => []TypeOK
  BY TypeCorrect
<1>2. Spec => []PeriodTotals
  BY PeriodTotalsKept
<1>3. TypeOK /\ PeriodTotals => PowersCovered
  BY PowersCoveredByTotals
<1> QED
  BY <1>1, <1>2, <1>3, PTL

----------------------------------------------------------------------------
(* What a message does to the points earned so far *)

LEMMA PointsType ==
  ASSUME TypeOK, NEW a \in Account, NEW d \in DOMAIN dist
  PROVE  /\ RewardsPower(a, d) \in Nat
         /\ dist[d].sharesPerPoint \in Nat
         /\ adjust[<<a, d>>].correction \in Int
         /\ adjust[<<a, d>>].withdrawn \in Nat
         /\ Points(a, d) \in Int
         /\ d \in Asset /\ <<a, d>> \in Account \X Asset
<1>1. PowerTypeOK
  BY DEF TypeOK, PowerTypeOK
<1>2. RewardsPower(a, d) \in Nat
  BY <1>1, RewardsPowerType
<1>3. d \in Asset /\ <<a, d>> \in Account \X Asset
  BY DEF TypeOK
<1>4. adjust[<<a, d>>].correction \in Int /\ adjust[<<a, d>>].withdrawn \in Nat
  BY <1>3 DEF TypeOK
<1>5. dist[d].sharesPerPoint \in Nat
  BY DEF TypeOK, Distribution
<1> QED
  BY <1>2, <1>3, <1>4, <1>5 DEF Points

LEMMA PowerTypeNext ==
  ASSUME TypeOK'
  PROVE  (\A a \in Account, d \in DOMAIN dist : RewardsPower(a, d) \in Nat)'
<1>1. PowerTypeOK'
  BY DEF TypeOK, PowerTypeOK, StakeKeys, LockKeys, Times, Distribution
<1> QED
  BY <1>1, RewardsPowerType, PTL

(* An account whose stakes a message leaves alone keeps its power. *)
LEMMA RewardsPowerSame ==
  ASSUME NEW a \in Account, NEW d,
         \A p \in Periods : TotalStake(a, p)' = TotalStake(a, p),
         dist'[d].multipliers = dist[d].multipliers
  PROVE  RewardsPower(a, d)' = RewardsPower(a, d)
<1> DEFINE before == [p \in Periods |-> CalcPower(TotalStake(a, p), dist[d].multipliers[p])]
           after == [p \in Periods |-> CalcPower(TotalStake(a, p)', dist'[d].multipliers[p])]
<1>1. RewardsPower(a, d) = Total(before, Periods) /\ RewardsPower(a, d)' = Total(after, Periods)
  BY DEF RewardsPower, CalcPower, Counted
<1>2. \A p \in Periods : after[p] = before[p]
  OBVIOUS
<1>3. Total(after, Periods) = Total(before, Periods)
  <2> HIDE DEF before, after
  <2> QED BY <1>2, TotalSame
<1> QED
  BY <1>1, <1>3

(* each account has earned in the step what its power got of the growth of *)
(* shares_per_point, and no distribution is gone                           *)
Earns ==
  \A d \in DOMAIN dist, a \in Account :
    /\ d \in DOMAIN dist'
    /\ Points(a, d)' = Points(a, d)
         + (dist'[d].sharesPerPoint - dist[d].sharesPerPoint) * RewardsPower(a, d)

PointsKept == \A a \in Account, d \in DOMAIN dist : Points(a, d)' = Points(a, d)

(* update_rewards corrects the points of the accounts whose power changes  *)
(* by exactly what the change would have earned them.                      *)
LEMMA UpdateRewardsEarns ==
  ASSUME TypeOK, TypeOK', dist' = dist, NEW A \in SUBSET Account, UpdateRewards(A),
         \A a \in Account \ A, p \in Periods : TotalStake(a, p)' = TotalStake(a, p)
  PROVE  Earns /\ PointsKept
<1>1. ASSUME NEW d \in DOMAIN dist, NEW a \in Account
      PROVE  Points(a, d)' = Points(a, d)
  <2> DEFINE s == dist[d].sharesPerPoint
             P == RewardsPower(a, d)
             Q == RewardsPower(a, d)'
             c == adjust[<<a, d>>].correction
  <2>1. s \in Nat /\ P \in Nat /\ Q \in Nat /\ c \in Int /\ <<a, d>> \in Account \X Asset
    BY PointsType, PowerTypeNext
  <2>2. /\ Points(a, d) = s * P + c
        /\ Points(a, d)' = s * Q + adjust'[<<a, d>>].correction
    BY DEF Points
  <2>3. adjust'[<<a, d>>].correction = c - s * (Q - P)
    <3>1. CASE a \in A
      <4>1. adjust'[<<a, d>>] = [adjust[<<a, d>>] EXCEPT !.correction = @ - Correction(d, P, Q)]
        BY <2>1, <3>1 DEF UpdateRewards
      <4>2. adjust[<<a, d>>] \in [correction : Int, withdrawn : Nat]
        BY <2>1 DEF TypeOK
      <4>3. Correction(d, P, Q) = s * (Q - P)
        BY DEF Correction
      <4> HIDE DEF P, Q, s
      <4> QED BY <4>1, <4>2, <4>3
    <3>2. CASE a \notin A
      <4>1. adjust'[<<a, d>>] = adjust[<<a, d>>]
        BY <2>1, <3>2 DEF UpdateRewards
      <4>2. Q = P
        BY <3>2, RewardsPowerSame
      <4> HIDE DEF P, Q, s
      <4>3. s * (Q - P) = 0
        BY <2>1, <4>2
      <4> QED BY <2>1, <4>1, <4>3
    <3> QED BY <3>1, <3>2
  <2> HIDE DEF s, P, Q, c
  <2>4. s * (Q - P) = s * Q - s * P /\ s * Q \in Int /\ s * P \in Int
    BY <2>1
  <2> QED BY <2>1, <2>2, <2>3, <2>4
<1>2. ASSUME NEW d \in DOMAIN dist, NEW a \in Account
      PROVE  /\ d \in DOMAIN dist'
             /\ Points(a, d)' = Points(a, d)
                  + (dist'[d].sharesPerPoint - dist[d].sharesPerPoint) * RewardsPower(a, d)
  <2>1. Points(a, d) \in Int /\ RewardsPower(a, d) \in Nat /\ dist[d].sharesPerPoint \in Nat
    BY PointsType
  <2>2. (dist'[d].sharesPerPoint - dist[d].sharesPerPoint) * RewardsPower(a, d) = 0
    <3>1. dist'[d].sharesPerPoint - dist[d].sharesPerPoint = 0
      BY <2>1
    <3> QED BY <2>1, <3>1
  <2> QED BY <1>1, <2>1, <2>2
<1> QED
  BY <1>1, <1>2 DEF Earns, PointsKept

(* A message that changes neither stakes, multipliers nor corrections lets *)
(* each account earn by the power it has.                                  *)
LEMMA PowerKeptEarns ==
  ASSUME TypeOK, UNCHANGED <<stake, locked>>,
         \A d \in DOMAIN dist : /\ d \in DOMAIN dist'
                                /\ dist'[d].multipliers = dist[d].multipliers
                                /\ dist'[d].sharesPerPoint \in Int,
         \A d \in DOMAIN dist, a \in Account :
           adjust'[<<a, d>>].correction = adjust[<<a, d>>].correction
  PROVE  Earns
<1> SUFFICES ASSUME NEW d \in DOMAIN dist, NEW a \in Account
             PROVE  /\ d \in DOMAIN dist'
                    /\ Points(a, d)' = Points(a, d)
                         + (dist'[d].sharesPerPoint - dist[d].sharesPerPoint) * RewardsPower(a, d)
  BY DEF Earns
<1> DEFINE s == dist[d].sharesPerPoint
           r == dist'[d].sharesPerPoint
           P == RewardsPower(a, d)
           c == adjust[<<a, d>>].correction
<1>1. s \in Nat /\ P \in Nat /\ c \in Int /\ r \in Int
  BY PointsType
<1>2. RewardsPower(a, d)' = P
  <2>1. \A p \in Periods : TotalStake(a, p)' = TotalStake(a, p)
    BY DEF TotalStake, Bonded, Times
  <2> QED BY <2>1, RewardsPowerSame
<1>3. Points(a, d) = s * P + c /\ Points(a, d)' = r * P + c
  BY <1>2 DEF Points
<1> HIDE DEF s, r, P, c
<1>4. (r - s) * P = r * P - s * P /\ r * P \in Int /\ s * P \in Int
  BY <1>1
<1>5. r * P + c = s * P + c + (r - s) * P
  BY <1>1, <1>4
<1> QED
  BY <1>3, <1>5 DEF r, s, P

LEMMA DistKeptEarns ==
  ASSUME TypeOK, UNCHANGED <<stake, locked, adjust, dist>>
  PROVE  Earns /\ PointsKept
<1>1. \A d \in DOMAIN dist : dist[d].sharesPerPoint \in Int
  BY DEF TypeOK, Distribution
<1>2. Earns
  BY <1>1, PowerKeptEarns
<1>3. \A a \in Account, d \in DOMAIN dist : RewardsPower(a, d)' = RewardsPower(a, d)
  <2>1. \A a \in Account, p \in Periods : TotalStake(a, p)' = TotalStake(a, p)
    BY DEF TotalStake, Bonded, Times
  <2> QED BY <2>1, RewardsPowerSame
<1>4. PointsKept
  BY <1>3 DEF Points, PointsKept
<1> QED
  BY <1>2, <1>4

LEMMA StakingEarns ==
  ASSUME TypeOK, TypeOK', NEW a \in Account, Staking(a)
  PROVE  Earns /\ PointsKept
<1>1. ASSUME NEW p \in Periods, NEW n \in Nat, NEW shares \in [Account -> Nat],
             MassBond(a, p, n, shares)
      PROVE  Earns /\ PointsKept
  <2>1. dist' = dist /\ UpdateRewards(Account)
    BY <1>1 DEF MassBond
  <2>2. \A b \in Account \ Account, q \in Periods : TotalStake(b, q)' = TotalStake(b, q)
    OBVIOUS
  <2> QED BY <2>1, <2>2, UpdateRewardsEarns
<1>2. ASSUME NEW p \in Periods, NEW n \in Nat, RemoveStake(a, p, n)
      PROVE  Earns /\ PointsKept
  <2>1. dist' = dist /\ UpdateRewards({a})
    BY <1>2 DEF RemoveStake
  <2>2. \A b \in Account \ {a}, q \in Periods : TotalStake(b, q)' = TotalStake(b, q)
    BY <1>2, RemoveStakeTotalStake
  <2>3. {a} \in SUBSET Account
    OBVIOUS
  <2> QED BY <2>1, <2>2, <2>3, UpdateRewardsEarns
<1>3. ASSUME NEW p \in Periods, NEW n \in 1..wallet[a], NEW b \in Account, Delegate(a, p, n, b)
      PROVE  Earns /\ PointsKept
  <2>1. [x \in Account |-> IF x = b THEN n ELSE 0] \in [Account -> Nat] /\ n \in Nat
    OBVIOUS
  <2> QED BY <1>1, <1>3, <2>1 DEF Delegate
<1>4. ASSUME NEW p \in Periods, NEW n \in 1..wallet[a], NEW shares \in [Account -> 0..n],
             MassDelegate(a, p, n, shares)
      PROVE  Earns /\ PointsKept
  <2>1. shares \in [Account -> Nat] /\ n \in Nat
    OBVIOUS
  <2> QED BY <1>1, <1>4, <2>1 DEF MassDelegate
<1>5. ASSUME NEW from \in Periods, NEW to \in Periods, NEW n \in 1..TotalStake(a, from),
             Rebond(a, from, to, n)
      PROVE  Earns /\ PointsKept
  <2>1. dist' = dist /\ UpdateRewards({a})
    BY <1>5 DEF Rebond
  <2>2. \A b \in Account \ {a}, q \in Periods : TotalStake(b, q)' = TotalStake(b, q)
    BY <1>5, RebondTotalStake
  <2>3. {a} \in SUBSET Account
    OBVIOUS
  <2> QED BY <2>1, <2>2, <2>3, UpdateRewardsEarns
<1>6. ASSUME NEW p \in Periods, NEW n \in 1..TotalStake(a, p), Unbond(a, p, n)
      PROVE  Earns /\ PointsKept
  <2>1. n \in Nat /\ RemoveStake(a, p, n)
    BY <1>6 DEF Unbond
  <2> QED BY <1>2, <2>1
<1>7. ASSUME NEW p \in Periods, NEW n \in 1..TotalStake(a, p), MigrateStake(a, p, n)
      PROVE  Earns /\ PointsKept
  <2>1. n \in Nat /\ RemoveStake(a, p, n)
    BY <1>7 DEF MigrateStake
  <2> QED BY <1>2, <2>1
<1>8. CASE Claim(a)
  <2>1. dist' = dist /\ adjust' = adjust /\ stake' = stake /\ locked' = locked
    BY <1>8 DEF Claim, rewardVars
  <2> QED BY <2>1, DistKeptEarns
<1> QED
  BY <1>3, <1>4, <1>5, <1>6, <1>7, <1>8 DEF Staking

LEMMA QuickUnbondEarns ==
  ASSUME TypeOK, TypeOK', NEW s \in Account, NEW stakers \in SUBSET Account,
         QuickUnbond(s, stakers)
  PROVE  Earns /\ PointsKept
<1>1. dist' = dist /\ UpdateRewards(stakers)
  BY DEF QuickUnbond
<1>2. \A b \in Account \ stakers, q \in Periods : TotalStake(b, q)' = TotalStake(b, q)
  BY QuickUnbondTotalStake
<1> QED
  BY <1>1, <1>2, UpdateRewardsEarns

(* A new distribution is no business of the ones that exist. *)
LEMMA CreateDistributionFlowEarns ==
  ASSUME TypeOK, NEW s \in Account, NEW e \in Asset, NEW m \in Multipliers,
         CreateDistributionFlow(s, e, m)
  PROVE  Earns
<1>1. UNCHANGED <<stake, locked, adjust>>
  BY DEF CreateDistributionFlow, lpVars
<1>2. ASSUME NEW d \in DOMAIN dist
      PROVE  d \in DOMAIN dist' /\ dist'[d] = dist[d]
  BY DEF CreateDistributionFlow, Extend
<1>3. \A d \in DOMAIN dist : dist[d].sharesPerPoint \in Int
  BY DEF TypeOK, Distribution
<1> QED
  BY <1>1, <1>2, <1>3, PowerKeptEarns

LEMMA DistributeRewardsEarns ==
  ASSUME TypeOK, TypeOK', NEW f \in Asset, NEW n \in Nat, DistributeRewards(f, n)
  PROVE  Earns
<1>1. UNCHANGED <<stake, locked, adjust>>
  BY DEF DistributeRewards, lpVars
<1>2. ASSUME NEW d \in DOMAIN dist
      PROVE  /\ d \in DOMAIN dist' /\ dist'[d].multipliers = dist[d].multipliers
             /\ dist'[d].sharesPerPoint \in Int
  <2>1. d \in DOMAIN dist' /\ dist[d] \in Distribution
    BY DEF DistributeRewards, TypeOK
  <2>2. dist'[d].sharesPerPoint \in Int
    BY <2>1 DEF TypeOK, Distribution
  <2>3. dist'[d].multipliers = dist[d].multipliers
    BY <2>1 DEF DistributeRewards, Distributed, Distribution
  <2> QED BY <2>1, <2>2, <2>3
<1> QED
  BY <1>1, <1>2, PowerKeptEarns

LEMMA WithdrawRewardsEarns ==
  ASSUME TypeOK, NEW s \in Account, NEW owner \in Account, WithdrawRewards(s, owner)
  PROVE  Earns
<1>1. UNCHANGED <<stake, locked>>
  BY DEF WithdrawRewards, lpVars
<1>2. ASSUME NEW d \in DOMAIN dist
      PROVE  /\ d \in DOMAIN dist' /\ dist'[d].multipliers = dist[d].multipliers
             /\ dist'[d].sharesPerPoint = dist[d].sharesPerPoint
             /\ dist'[d].sharesPerPoint \in Int
  BY DEF WithdrawRewards, TypeOK, Distribution
<1>3. ASSUME NEW d \in DOMAIN dist, NEW a \in Account
      PROVE  adjust'[<<a, d>>].correction = adjust[<<a, d>>].correction
  <2>1. <<a, d>> \in Account \X Asset /\ adjust[<<a, d>>] \in [correction : Int, withdrawn : Nat]
    BY PointsType DEF TypeOK
  <2> QED BY <2>1 DEF WithdrawRewards
<1> QED
  BY <1>1, <1>2, <1>3, PowerKeptEarns

LEMMA NextEarns ==
  ASSUME TypeOK, TypeOK', [Next]_vars
  PROVE  Earns
<1>1. CASE UNCHANGED vars
  BY <1>1, DistKeptEarns DEF vars, lpVars, rewardVars
<1>2. CASE Tick
  BY <1>2, DistKeptEarns DEF Tick, lpVars, rewardVars
<1>3. CASE Rewarding
  <2>1. ASSUME NEW d \in Asset, NEW n \in 0..rewardPool[d], DistributeRewards(d, n)
        PROVE  Earns
    BY <2>1, DistributeRewardsEarns
  <2>2. ASSUME \/ \E d \in Asset : \E sent \in 1..rewardPool[d] : \E amount \in 1..sent :
                    \E start \in now..MaxTime : \E end \in (start + 1)..Horizon :
                      FundDistribution(d, sent, amount, start, end)
               \/ \E d \in Asset : \E amount \in 1..rewardPool[d] : SendRewards(d, amount)
               \/ \E s \in Account, to \in Delegates : DelegateWithdrawal(s, to)
        PROVE  Earns
    BY <2>2, DistKeptEarns DEF FundDistribution, SendRewards, DelegateWithdrawal, lpVars
  <2> QED BY <1>3, <2>1, <2>2, WithdrawRewardsEarns DEF Rewarding
<1>4. ASSUME NEW a \in Account, Governing(a) PROVE Earns
  <2>1. ASSUME \/ UnbondAll(a)
               \/ StopUnbondAll(a)
               \/ \E new \in NewAdmins : UpdateAdmin(a, new)
        PROVE  Earns
    BY <2>1, DistKeptEarns DEF UnbondAll, StopUnbondAll, UpdateAdmin, lpVars, rewardVars
  <2> QED BY <1>4, <2>1, QuickUnbondEarns, CreateDistributionFlowEarns DEF Governing
<1> QED
  BY <1>1, <1>2, <1>3, <1>4, StakingEarns DEF Next

(* In every step each account earns, in each distribution, exactly its     *)
(* power times what shares_per_point grows by: nobody ever earns or loses  *)
(* points by staking, rebonding, unbonding, migrating or being unbonded.   *)
THEOREM EarnsByPowerAlways == Spec => EarnsByPower
<1>1. TypeOK /\ TypeOK' /\ [Next]_vars =>
        [\A d \in DOMAIN dist, a \in Account :
           Points(a, d)' = Points(a, d)
             + (dist'[d].sharesPerPoint - dist[d].sharesPerPoint) * RewardsPower(a, d)]_vars
  BY NextEarns DEF Earns
<1>2. Spec => []TypeOK
  BY TypeCorrect
<1> QED
  BY <1>1, <1>2, PTL DEF Spec, EarnsByPower

----------------------------------------------------------------------------
(* The books of a distribution *)

Earned(d) == [a \in Account |-> Points(a, d)]

Withdrawn(d) == [a \in Account |-> adjust[<<a, d>>].withdrawn]

(* What is owed in a distribution.  No account has withdrawn more than it  *)
(* earned; the points of all accounts and the ones left over are no more   *)
(* than those handed out; what was handed out is withdrawn or withdrawable;*)
(* the contract holds that and all the curve still locks, and the curve    *)
(* only ever unlocks.                                                      *)
Books(d) ==
  /\ \A a \in Account : SharesScale * adjust[<<a, d>>].withdrawn <= Points(a, d)
  /\ Total(Earned(d), Account) + dist[d].leftover <= SharesScale * dist[d].distributed
  /\ dist[d].withdrawable + Total(Withdrawn(d), Account) = dist[d].distributed
  /\ dist[d].withdrawable + curve[d][now] <= rewardBalance[d]
  /\ \A t, u \in Times : t <= u => curve[d][u] <= curve[d][t]

RewardBooks ==
  /\ \A d \in DOMAIN dist : Books(d)
  /\ \A d \in Asset \ DOMAIN dist, a \in Account : adjust[<<a, d>>] = NoAdjustment

LEMMA BooksType ==
  ASSUME TypeOK, NEW d \in DOMAIN dist, Books(d)
  PROVE  /\ Earned(d) \in [Account -> Nat] /\ Withdrawn(d) \in [Account -> Nat]
         /\ Total(Earned(d), Account) \in Nat /\ Total(Withdrawn(d), Account) \in Nat
         /\ dist[d] \in Distribution
         /\ d \in Asset /\ curve[d] \in [Times -> Nat] /\ now \in Times
         /\ rewardBalance[d] \in Nat
<1>1. ASSUME NEW a \in Account
      PROVE  Points(a, d) \in Nat /\ adjust[<<a, d>>].withdrawn \in Nat
  <2>1. Points(a, d) \in Int /\ adjust[<<a, d>>].withdrawn \in Nat
    BY PointsType
  <2>2. SharesScale * adjust[<<a, d>>].withdrawn <= Points(a, d)
    BY DEF Books
  <2>3. SharesScale * adjust[<<a, d>>].withdrawn \in Nat
    BY <2>1
  <2> QED BY <2>1, <2>2, <2>3
<1>2. Earned(d) \in [Account -> Nat] /\ Withdrawn(d) \in [Account -> Nat]
  BY <1>1 DEF Earned, Withdrawn
<1>3. Total(Earned(d), Account) \in Nat /\ Total(Withdrawn(d), Account) \in Nat
  BY <1>2, TotalType
<1>4. now \in Times
  BY DEF TypeOK, Times
<1> QED
  BY <1>2, <1>3, <1>4 DEF TypeOK

(* The books say that everyone can be paid. *)
LEMMA BooksSolvent ==
  ASSUME TypeOK, RewardBooks
  PROVE  RewardsSolvent
<1> SUFFICES ASSUME NEW d \in DOMAIN dist
             PROVE  /\ \A a \in Account : Points(a, d) >= 0 /\ WithdrawableRewards(a, d) >= 0
                    /\ Total([a \in Account |-> WithdrawableRewards(a, d)], Account)
                         <= dist[d].withdrawable
                    /\ dist[d].withdrawable + curve[d][now] <= rewardBalance[d]
  BY DEF RewardsSolvent
<1> DEFINE points == Earned(d)
           taken == Withdrawn(d)
           owed == [a \in Account |-> WithdrawableRewards(a, d)]
           whole == [a \in Account |-> Points(a, d) \div SharesScale]
           div == [n \in Nat |-> n \div SharesScale]
<1>1. Books(d)
  BY DEF RewardBooks
<1>2. /\ points \in [Account -> Nat] /\ taken \in [Account -> Nat]
      /\ Total(points, Account) \in Nat /\ Total(taken, Account) \in Nat
      /\ dist[d] \in Distribution
  BY <1>1, BooksType
<1>3. ASSUME NEW a \in Account
      PROVE  /\ points[a] = Points(a, d) /\ Points(a, d) \in Nat
             /\ whole[a] \in Nat /\ owed[a] \in Nat
             /\ whole[a] = owed[a] + taken[a] /\ whole[a] = div[points[a]]
  <2> DEFINE x == Points(a, d)
             w == adjust[<<a, d>>].withdrawn
  <2>1. points[a] = x /\ taken[a] = w /\ x \in Nat /\ w \in Nat /\ SharesScale * w <= x
    BY <1>1, <1>2 DEF Books, Earned, Withdrawn
  <2>2. whole[a] = x \div SharesScale /\ owed[a] = x \div SharesScale - w
    BY DEF WithdrawableRewards
  <2> HIDE DEF x, w, owed, whole, points, taken
  <2>3. x \div SharesScale \in Nat /\ w <= x \div SharesScale
    <3> DEFINE q == x \div SharesScale
    <3>1. q \in Nat /\ x < SharesScale * (q + 1)
      BY <2>1
    <3> HIDE DEF q
    <3>2. SharesScale * w < SharesScale * (q + 1)
      BY <2>1, <3>1
    <3>3. w < q + 1
      BY <2>1, <3>1, <3>2
    <3> QED BY <2>1, <3>1, <3>3 DEF q
  <2>4. div[points[a]] = x \div SharesScale
    BY <2>1
  <2> HIDE DEF div
  <2>5. /\ points[a] = x /\ x \in Nat /\ whole[a] \in Nat /\ owed[a] \in Nat
        /\ whole[a] = owed[a] + taken[a] /\ whole[a] = div[points[a]]
    BY <2>1, <2>2, <2>3, <2>4
  <2> QED BY <2>5 DEF x
<1>4. /\ whole \in [Account -> Nat] /\ owed \in [Account -> Nat]
      /\ \A a \in Account : whole[a] = owed[a] + taken[a]
      /\ \A a \in Account : whole[a] <= div[points[a]]
  <2>1. owed = [a \in Account |-> owed[a]] /\ whole = [a \in Account |-> whole[a]]
    OBVIOUS
  <2> HIDE DEF owed, whole, points, taken, div
  <2> QED BY <1>3, <2>1
<1>5. div \in [Nat -> Nat] /\ \A m, n \in Nat : div[m] + div[n] <= div[m + n]
  <2>1. \A n \in Nat : div[n] \in Nat /\ div[n] = n \div SharesScale
    OBVIOUS
  <2>2. ASSUME NEW m \in Nat, NEW n \in Nat PROVE div[m] + div[n] <= div[m + n]
    <3>1. m + n \in Nat
      OBVIOUS
    <3>2. m \div SharesScale + n \div SharesScale <= (m + n) \div SharesScale
      BY DivSuperadditive
    <3> QED BY <2>1, <3>1, <3>2
  <2> QED BY <2>1, <2>2
<1> HIDE DEF owed, whole, points, taken, div
<1>6. Total(whole, Account) = Total(owed, Account) + Total(taken, Account) /\ Total(owed, Account) \in Nat
  <2>1. IsFiniteSet(Account) /\ taken \in [Account -> Nat]
    BY <1>2
  <2> QED BY ONLY <1>4, <2>1, TotalSum
<1>7. Total(whole, Account) <= div[Total(points, Account)]
  <2>1. IsFiniteSet(Account) /\ points \in [Account -> Nat]
    BY <1>2
  <2> QED BY ONLY <1>4, <1>5, <2>1, TotalSuperadditive
<1>8. div[Total(points, Account)] <= dist[d].distributed
  <2> DEFINE x == Total(points, Account)
             y == dist[d].distributed
             q == x \div SharesScale
  <2>1. x \in Nat /\ y \in Nat /\ x <= SharesScale * y
    <3>1. Total(points, Account) + dist[d].leftover <= SharesScale * dist[d].distributed
      BY <1>1 DEF Books, points
    <3>2. dist[d].leftover \in Nat /\ dist[d].distributed \in Nat
      BY <1>2 DEF Distribution
    <3>3. SharesScale * dist[d].distributed \in Nat
      BY <3>2
    <3> QED BY <1>2, <3>1, <3>2, <3>3
  <2>2. div[x] = q
    BY <2>1 DEF div
  <2> HIDE DEF x, y
  <2>3. q \in Nat /\ SharesScale * q <= x
    BY <2>1
  <2> HIDE DEF q
  <2>4. SharesScale * q <= SharesScale * y
    BY <2>1, <2>3
  <2>5. q <= y
    BY <2>1, <2>3, <2>4
  <2> QED BY <2>2, <2>5 DEF x, y
<1>9. Total(owed, Account) <= dist[d].withdrawable
  <2>1. dist[d].withdrawable + Total(taken, Account) = dist[d].distributed
    BY <1>1 DEF Books, taken
  <2>2. div[Total(points, Account)] \in Nat /\ Total(whole, Account) \in Nat
    BY <1>2, <1>5, <1>4, TotalType
  <2>3. dist[d].withdrawable \in Nat /\ dist[d].distributed \in Nat
    BY <1>2 DEF Distribution
  <2> QED BY <1>2, <1>6, <1>7, <1>8, <2>1, <2>2, <2>3
<1>10. \A a \in Account : Points(a, d) >= 0 /\ WithdrawableRewards(a, d) >= 0
  BY <1>3 DEF owed
<1> QED
  BY <1>1, <1>9, <1>10 DEF Books, owed

(* A distribution that a step leaves alone keeps its books if its rewards  *)
(* still cover what is owed and what is locked.                            *)
LEMMA BooksKept ==
  ASSUME TypeOK, NEW d \in DOMAIN dist, Books(d), dist'[d] = dist[d],
         \A a \in Account : Points(a, d)' = Points(a, d),
         \A a \in Account : adjust'[<<a, d>>].withdrawn = adjust[<<a, d>>].withdrawn,
         dist[d].withdrawable + curve'[d][now'] <= rewardBalance'[d],
         \A t, u \in Times : t <= u => curve'[d][u] <= curve'[d][t]
  PROVE  Books(d)'
<1>1. Earned(d)' = Earned(d) /\ Withdrawn(d)' = Withdrawn(d)
  BY DEF Earned, Withdrawn
<1>2. \A a \in Account : SharesScale * adjust'[<<a, d>>].withdrawn <= Points(a, d)'
  BY DEF Books
<1>3. /\ Total(Earned(d)', Account) + dist'[d].leftover <= SharesScale * dist'[d].distributed
      /\ dist'[d].withdrawable + Total(Withdrawn(d)', Account) = dist'[d].distributed
  BY <1>1 DEF Books
<1> QED
  BY <1>2, <1>3 DEF Books, Times

(* Staking messages change neither the rewards nor what was withdrawn. *)
LEMMA UpdateRewardsWithdrawn ==
  ASSUME TypeOK, NEW A, UpdateRewards(A)
  PROVE  /\ \A k \in Account \X Asset : adjust'[k].withdrawn = adjust[k].withdrawn
         /\ \A k \in Account \X Asset : k[2] \notin DOMAIN dist => adjust'[k] = adjust[k]
<1> SUFFICES ASSUME NEW k \in Account \X Asset
             PROVE  /\ adjust'[k].withdrawn = adjust[k].withdrawn
                    /\ k[2] \notin DOMAIN dist => adjust'[k] = adjust[k]
  OBVIOUS
<1>1. adjust[k] \in [correction : Int, withdrawn : Nat]
  BY DEF TypeOK
<1> QED
  BY <1>1 DEF UpdateRewards

LEMMA RewardBooksKept ==
  ASSUME TypeOK, RewardBooks, dist' = dist, UNCHANGED <<now, curve, rewardBalance>>, PointsKept,
         \A k \in Account \X Asset : adjust'[k].withdrawn = adjust[k].withdrawn,
         \A k \in Account \X Asset : k[2] \notin DOMAIN dist => adjust'[k] = adjust[k]
  PROVE  RewardBooks'
<1>1. ASSUME NEW d \in DOMAIN dist PROVE Books(d)'
  <2>1. Books(d)
    BY DEF RewardBooks
  <2>2. \A a \in Account : Points(a, d)' = Points(a, d)
    BY DEF PointsKept
  <2>3. \A a \in Account : adjust'[<<a, d>>].withdrawn = adjust[<<a, d>>].withdrawn
    <3>1. \A a \in Account : <<a, d>> \in Account \X Asset
      BY DEF TypeOK
    <3> QED BY <3>1
  <2>4. /\ dist[d].withdrawable + curve'[d][now'] <= rewardBalance'[d]
        /\ \A t, u \in Times : t <= u => curve'[d][u] <= curve'[d][t]
    BY <2>1 DEF Books
  <2> QED BY <2>1, <2>2, <2>3, <2>4, BooksKept
<1>2. ASSUME NEW d \in Asset \ DOMAIN dist, NEW a \in Account
      PROVE  adjust'[<<a, d>>] = NoAdjustment
  <2>1. <<a, d>> \in Account \X Asset /\ <<a, d>>[2] = d
    OBVIOUS
  <2> QED BY <2>1 DEF RewardBooks
<1> QED
  BY <1>1, <1>2 DEF RewardBooks, NoAdjustment

LEMMA StakingRewardBooks ==
  ASSUME TypeOK, TypeOK', RewardBooks, NEW a \in Account, Staking(a)
  PROVE  RewardBooks'
<1> DEFINE Rest ==
      /\ dist' = dist /\ UNCHANGED <<now, curve, rewardBalance>>
      /\ \/ UNCHANGED adjust
         \/ \E A \in SUBSET Account : UpdateRewards(A)
<1>1. ASSUME Rest PROVE RewardBooks'
  <2>1. PointsKept
    BY StakingEarns
  <2>2. /\ \A k \in Account \X Asset : adjust'[k].withdrawn = adjust[k].withdrawn
        /\ \A k \in Account \X Asset : k[2] \notin DOMAIN dist => adjust'[k] = adjust[k]
    BY <1>1, UpdateRewardsWithdrawn
  <2> QED BY <1>1, <2>1, <2>2, RewardBooksKept
<1>2. ASSUME NEW p \in Periods, NEW n, NEW shares, MassBond(a, p, n, shares) PROVE Rest
  BY <1>2 DEF MassBond
<1>3. ASSUME NEW p \in Periods, NEW n, \/ Unbond(a, p, n)
                                       \/ MigrateStake(a, p, n) PROVE Rest
  <2>1. RemoveStake(a, p, n) /\ now' = now
    BY <1>3 DEF Unbond, MigrateStake
  <2> QED BY <2>1 DEF RemoveStake
<1>4. ASSUME NEW from, NEW to, NEW n, Rebond(a, from, to, n) PROVE Rest
  BY <1>4 DEF Rebond
<1>5. CASE Claim(a)
  BY <1>1, <1>5 DEF Claim, rewardVars
<1> HIDE DEF Rest
<1> QED
  BY <1>1, <1>2, <1>3, <1>4, <1>5 DEF Staking, Delegate, MassDelegate

LEMMA QuickUnbondRewardBooks ==
  ASSUME TypeOK, TypeOK', RewardBooks, NEW s \in Account, NEW stakers \in SUBSET Account,
         QuickUnbond(s, stakers)
  PROVE  RewardBooks'
<1>1. PointsKept
  BY QuickUnbondEarns
<1>2. /\ dist' = dist /\ UNCHANGED <<now, curve, rewardBalance>>
      /\ UpdateRewards(stakers)
  BY DEF QuickUnbond
<1> QED
  BY <1>1, <1>2, UpdateRewardsWithdrawn, RewardBooksKept

(* Messages that move only reward tokens, and time, must leave the locked  *)
(* and withdrawable rewards in the contract.                               *)
LEMMA RewardsMoved ==
  ASSUME TypeOK, RewardBooks, UNCHANGED <<stake, locked, dist, adjust>>,
         \A d \in DOMAIN dist :
           /\ dist[d].withdrawable + curve'[d][now'] <= rewardBalance'[d]
           /\ \A t, u \in Times : t <= u => curve'[d][u] <= curve'[d][t]
  PROVE  RewardBooks'
<1>1. PointsKept
  BY DistKeptEarns
<1>2. ASSUME NEW d \in DOMAIN dist PROVE Books(d)'
  <2>1. Books(d)
    BY DEF RewardBooks
  <2>2. \A a \in Account : Points(a, d)' = Points(a, d)
    BY <1>1 DEF PointsKept
  <2> QED BY <2>1, <2>2, BooksKept
<1> QED
  BY <1>2 DEF RewardBooks, NoAdjustment

LEMMA TickRewardBooks ==
  ASSUME TypeOK, RewardBooks, Tick
  PROVE  RewardBooks'
<1>1. UNCHANGED <<stake, locked, dist, adjust, curve, rewardBalance>> /\ now' = now + 1 /\ now < MaxTime
  BY DEF Tick, lpVars, rewardVars
<1>2. now \in Times /\ now' \in Times /\ now <= now'
  <2>1. now \in 0..MaxTime
    BY DEF TypeOK
  <2> QED BY <1>1, <2>1, TimeAssumption DEF Times
<1>3. ASSUME NEW d \in DOMAIN dist
      PROVE  /\ dist[d].withdrawable + curve'[d][now'] <= rewardBalance'[d]
             /\ \A t, u \in Times : t <= u => curve'[d][u] <= curve'[d][t]
  <2>1. Books(d)
    BY DEF RewardBooks
  <2>2. curve[d] \in [Times -> Nat] /\ dist[d].withdrawable \in Nat /\ rewardBalance[d] \in Nat
    BY <2>1, BooksType DEF Distribution
  <2>3. curve[d][now'] <= curve[d][now] /\ dist[d].withdrawable + curve[d][now] <= rewardBalance[d]
    BY <1>2, <2>1 DEF Books
  <2>4. curve[d][now] \in Nat /\ curve[d][now'] \in Nat
    BY <1>2, <2>2
  <2>5. dist[d].withdrawable + curve[d][now'] <= rewardBalance[d]
    BY <2>2, <2>3, <2>4
  <2> QED BY <1>1, <2>1, <2>5 DEF Books
<1> QED
  BY <1>1, <1>3, RewardsMoved

(* What a schedule still locks starts at the amount and never grows. *)
LEMMA ScheduleFalls ==
  ASSUME NEW start \in Nat, NEW end \in Nat, start < end, NEW amount \in Nat
  PROVE  /\ \A t \in Times : Schedule(start, end, amount)[t] \in 0..amount
         /\ \A t, u \in Times : t <= u =>
              Schedule(start, end, amount)[u] <= Schedule(start, end, amount)[t]
<1> DEFINE k == end - start
           gone(t) == (amount * (t - start)) \div k
<1>1. k \in Nat \ {0}
  OBVIOUS
<1>2. ASSUME NEW x \in Nat, NEW y \in Nat, x <= y, y <= k
      PROVE  /\ (amount * x) \div k \in 0..amount
             /\ (amount * y) \div k \in 0..amount
             /\ (amount * x) \div k <= (amount * y) \div k
  <2> DEFINE v == amount * x
             w == amount * y
  <2>1. v \in Nat /\ w \in Nat /\ v <= w /\ w <= amount * k
    <3>1. amount * (y - x) \in Nat /\ amount * (k - y) \in Nat
      BY <1>1, <1>2
    <3>2. amount * (y - x) = amount * y - amount * x /\ amount * (k - y) = amount * k - amount * y
      BY <1>1
    <3>3. v \in Nat /\ w \in Nat /\ amount * k \in Nat
      BY <1>1
    <3> QED BY <3>1, <3>2, <3>3
  <2> HIDE DEF v, w, k
  <2> DEFINE p == v \div k
             q == w \div k
  <2>2. p \in Nat /\ q \in Nat /\ k * p <= v /\ k * q <= w /\ w < k * (q + 1)
    BY <1>1, <2>1
  <2> HIDE DEF p, q
  <2>3. p <= q
    <3>1. k * p < k * (q + 1)
      BY <1>1, <2>1, <2>2
    <3>2. p < q + 1
      BY <1>1, <2>2, <3>1
    <3> QED BY <2>2, <3>2
  <2>4. q <= amount
    <3>1. k * q <= k * amount
      BY <1>1, <2>1, <2>2
    <3> QED BY <1>1, <2>2, <3>1
  <2>5. p \in 0..amount /\ q \in 0..amount /\ p <= q
    BY <2>2, <2>3, <2>4
  <2> QED BY <2>5 DEF p, q, v, w
<1>3. ASSUME NEW t \in Times
      PROVE  Schedule(start, end, amount)[t] = IF t <= start THEN amount
                                               ELSE IF t >= end THEN 0 ELSE amount - gone(t)
  BY DEF Schedule
<1>4. \A t \in Times : t \in Nat
  BY DEF Times
<1>5. ASSUME NEW t \in Times, NEW u \in Times, t <= u
      PROVE  /\ Schedule(start, end, amount)[t] \in 0..amount
             /\ Schedule(start, end, amount)[u] <= Schedule(start, end, amount)[t]
  <2>1. CASE t <= start
    <3>1. Schedule(start, end, amount)[t] = amount
      BY <1>3, <2>1
    <3>2. Schedule(start, end, amount)[u] <= amount
      <4>1. CASE u <= start
        BY <1>3, <4>1
      <4>2. CASE ~(u <= start) /\ u >= end
        BY <1>3, <4>2
      <4>3. CASE ~(u <= start) /\ ~(u >= end)
        <5>1. u - start \in Nat /\ u - start <= k
          BY <1>4, <4>3
        <5>2. gone(u) \in 0..amount
          BY <1>2, <5>1
        <5>3. Schedule(start, end, amount)[u] = amount - gone(u)
          BY <1>3, <4>3
        <5> HIDE DEF gone
        <5> QED BY <5>2, <5>3
      <4> QED BY <4>1, <4>2, <4>3
    <3> QED BY <3>1, <3>2
  <2>2. CASE ~(t <= start) /\ t >= end
    <3>1. ~(u <= start) /\ u >= end
      BY <1>4, <1>5, <2>2
    <3>2. Schedule(start, end, amount)[t] = 0 /\ Schedule(start, end, amount)[u] = 0
      BY <1>3, <2>2, <3>1
    <3> QED BY <3>2
  <2>3. CASE ~(t <= start) /\ ~(t >= end)
    <3>1. Schedule(start, end, amount)[t] = amount - gone(t)
      BY <1>3, <2>3
    <3>2. t - start \in Nat /\ t - start <= k
      BY <1>4, <2>3
    <3>3. gone(t) \in 0..amount
      BY <1>2, <3>2
    <3>4. CASE u >= end
      <4>1. Schedule(start, end, amount)[u] = 0
        BY <1>3, <1>4, <1>5, <2>3, <3>4
      <4> HIDE DEF gone
      <4> QED BY <3>1, <3>3, <4>1
    <3>5. CASE ~(u >= end)
      <4>1. ~(u <= start)
        BY <1>4, <1>5, <2>3
      <4>2. u - start \in Nat /\ u - start <= k /\ t - start <= u - start
        BY <1>4, <1>5, <3>5, <4>1
      <4>3. gone(u) \in 0..amount /\ gone(t) <= gone(u)
        BY <1>2, <3>2, <4>2
      <4>4. Schedule(start, end, amount)[u] = amount - gone(u)
        BY <1>3, <3>5, <4>1
      <4> HIDE DEF gone
      <4> QED BY <3>1, <3>3, <4>3, <4>4
    <3> QED BY <3>4, <3>5
  <2> QED BY <2>1, <2>2, <2>3
<1>6. \A t \in Times : t <= t
  BY <1>4
<1> QED
  BY <1>5, <1>6

(* Funding brings at least what its schedule locks. *)
LEMMA FundDistributionRewardBooks ==
  ASSUME TypeOK, RewardBooks, NEW d \in Asset, NEW sent \in Nat, NEW amount \in Nat,
         NEW start \in Nat, NEW end \in Nat, start < end,
         FundDistribution(d, sent, amount, start, end)
  PROVE  RewardBooks'
<1> DEFINE S == Schedule(start, end, amount)
<1>1. UNCHANGED <<now, stake, locked, dist, adjust>> /\ d \in DOMAIN dist /\ amount <= sent
  BY DEF FundDistribution, lpVars
<1>2. /\ \A t \in Times : S[t] \in 0..amount
      /\ \A t, u \in Times : t <= u => S[u] <= S[t]
  BY ScheduleFalls
<1>3. ASSUME NEW e \in DOMAIN dist
      PROVE  /\ dist[e].withdrawable + curve'[e][now'] <= rewardBalance'[e]
             /\ \A t, u \in Times : t <= u => curve'[e][u] <= curve'[e][t]
  <2>1. Books(e)
    BY DEF RewardBooks
  <2>2. /\ \A t \in Times : curve[e][t] \in Nat
        /\ dist[e].withdrawable \in Nat /\ rewardBalance[e] \in Nat /\ e \in Asset /\ now \in Times
    BY <2>1, BooksType DEF Distribution
  <2>3. /\ dist[e].withdrawable + curve[e][now] <= rewardBalance[e]
        /\ \A t, u \in Times : t <= u => curve[e][u] <= curve[e][t]
    BY <2>1 DEF Books
  <2>4. CASE e = d
    <3>1. rewardBalance'[e] = rewardBalance[e] + sent
      BY <2>2, <2>4 DEF FundDistribution, TypeOK
    <3>2. \A t \in Times : curve'[e][t] = curve[e][t] + S[t]
      <4>1. curve \in [DOMAIN dist -> [Times -> Nat]]
        BY DEF TypeOK
      <4>2. curve' = [curve EXCEPT ![d] = [t \in Times |-> @[t] + S[t]]]
        BY DEF FundDistribution
      <4> HIDE DEF S
      <4> QED BY <2>4, <4>1, <4>2
    <3> HIDE DEF S
    <3>3. dist[e].withdrawable + curve'[e][now'] <= rewardBalance'[e]
      <4>1. curve'[e][now'] = curve[e][now] + S[now] /\ S[now] \in 0..amount /\ curve[e][now] \in Nat
        BY <1>1, <1>2, <2>2, <3>2
      <4> QED BY <1>1, <2>2, <2>3, <3>1, <4>1
    <3>4. ASSUME NEW t \in Times, NEW u \in Times, t <= u PROVE curve'[e][u] <= curve'[e][t]
      <4>1. /\ curve'[e][u] = curve[e][u] + S[u] /\ curve'[e][t] = curve[e][t] + S[t]
            /\ S[u] \in 0..amount /\ S[t] \in 0..amount /\ S[u] <= S[t]
            /\ curve[e][u] \in Nat /\ curve[e][t] \in Nat /\ curve[e][u] <= curve[e][t]
        BY <1>2, <2>2, <2>3, <3>2, <3>4
      <4> QED BY <4>1
    <3> QED BY <3>3, <3>4
  <2>5. CASE e # d
    <3>1. rewardBalance'[e] = rewardBalance[e]
      BY <2>2, <2>5 DEF FundDistribution, TypeOK
    <3>2. curve'[e] = curve[e]
      BY <2>5 DEF FundDistribution, TypeOK
    <3> QED BY <1>1, <2>3, <3>1, <3>2
  <2> QED BY <2>4, <2>5
<1> QED
  BY <1>1, <1>3, RewardsMoved

LEMMA SendRewardsRewardBooks ==
  ASSUME TypeOK, RewardBooks, NEW d \in Asset, NEW amount \in Nat, SendRewards(d, amount)
  PROVE  RewardBooks'
<1>1. UNCHANGED <<now, stake, locked, dist, adjust, curve>>
  BY DEF SendRewards, lpVars
<1>2. ASSUME NEW e \in DOMAIN dist
      PROVE  /\ dist[e].withdrawable + curve'[e][now'] <= rewardBalance'[e]
             /\ \A t, u \in Times : t <= u => curve'[e][u] <= curve'[e][t]
  <2>1. Books(e)
    BY DEF RewardBooks
  <2>2. /\ curve[e][now] \in Nat
        /\ dist[e].withdrawable \in Nat /\ rewardBalance[e] \in Nat /\ e \in Asset
    BY <2>1, BooksType DEF Distribution
  <2>3. rewardBalance[e] <= rewardBalance'[e] /\ rewardBalance'[e] \in Nat
    BY <2>2 DEF SendRewards, TypeOK
  <2>4. dist[e].withdrawable + curve[e][now] <= rewardBalance[e]
    BY <2>1 DEF Books
  <2>5. dist[e].withdrawable + curve[e][now] <= rewardBalance'[e]
    BY <2>2, <2>3, <2>4
  <2> QED BY <1>1, <2>1, <2>5 DEF Books
<1> QED
  BY <1>1, <1>2, RewardsMoved

(* Messages that leave every reward alone. *)
LEMMA RewardsLeftAlone ==
  ASSUME TypeOK, RewardBooks,
         UNCHANGED <<now, stake, locked, dist, adjust, curve, rewardBalance>>
  PROVE  RewardBooks'
<1>1. ASSUME NEW e \in DOMAIN dist
      PROVE  /\ dist[e].withdrawable + curve'[e][now'] <= rewardBalance'[e]
             /\ \A t, u \in Times : t <= u => curve'[e][u] <= curve'[e][t]
  BY DEF RewardBooks, Books
<1> QED
  BY <1>1, RewardsMoved

(* A new distribution starts with nothing earned, left over or locked. *)
LEMMA CreateDistributionFlowRewardBooks ==
  ASSUME TypeOK, TypeOK', RewardBooks, NEW s \in Account, NEW e \in Asset,
         NEW m \in Multipliers, CreateDistributionFlow(s, e, m)
  PROVE  RewardBooks'
<1>1. /\ UNCHANGED <<now, stake, locked, adjust, rewardBalance>>
      /\ e \notin DOMAIN dist /\ DOMAIN dist' = DOMAIN dist \cup {e}
  BY DEF CreateDistributionFlow, lpVars, Extend
<1>2. ASSUME NEW d \in DOMAIN dist PROVE Books(d)'
  <2>1. Books(d) /\ dist[d].sharesPerPoint \in Nat
    BY PointsType DEF RewardBooks, TypeOK, Distribution
  <2>2. dist'[d] = dist[d] /\ curve'[d] = curve[d]
    BY <1>1 DEF CreateDistributionFlow, Extend, TypeOK
  <2>3. ASSUME NEW a \in Account PROVE Points(a, d)' = Points(a, d)
    <3>1. \A p \in Periods : TotalStake(a, p)' = TotalStake(a, p)
      BY <1>1 DEF TotalStake, Bonded, Times
    <3>2. RewardsPower(a, d)' = RewardsPower(a, d)
      BY <2>2, <3>1, RewardsPowerSame
    <3> QED BY <1>1, <2>2, <3>2 DEF Points
  <2> QED BY <1>1, <2>1, <2>2, <2>3, BooksKept DEF Books
<1>3. Books(e)'
  <2>1. /\ dist'[e] = [multipliers |-> m, sharesPerPoint |-> 0, leftover |-> 0,
                       distributed |-> 0, withdrawable |-> 0]
        /\ curve'[e] = [t \in Times |-> 0]
    BY DEF CreateDistributionFlow, Extend
  <2>2. \A a \in Account : adjust'[<<a, e>>] = NoAdjustment
    BY <1>1 DEF RewardBooks
  <2>3. ASSUME NEW a \in Account PROVE Points(a, e)' = 0
    <3>1. RewardsPower(a, e)' \in Nat
      BY <1>1, PowerTypeNext
    <3>2. Points(a, e)' = 0 * RewardsPower(a, e)' + 0
      BY <2>1, <2>2 DEF Points, NoAdjustment
    <3> QED BY <3>1, <3>2
  <2>4. Total(Earned(e)', Account) = 0 /\ Total(Withdrawn(e)', Account) = 0
    <3>1. \A a \in Account : Earned(e)'[a] = 0 /\ Withdrawn(e)'[a] = 0
      BY <2>2, <2>3 DEF Earned, Withdrawn, NoAdjustment
    <3> QED BY <3>1, TotalZero
  <2>5. \A a \in Account : SharesScale * adjust'[<<a, e>>].withdrawn <= Points(a, e)'
    BY <2>2, <2>3 DEF NoAdjustment
  <2>6. rewardBalance'[e] \in Nat /\ now' \in Times
    <3>1. now \in 0..MaxTime /\ rewardBalance \in [Asset -> Nat]
      BY DEF TypeOK
    <3> QED BY <1>1, <3>1, TimeAssumption DEF Times
  <2>7. /\ Total(Earned(e)', Account) + dist'[e].leftover <= SharesScale * dist'[e].distributed
        /\ dist'[e].withdrawable + Total(Withdrawn(e)', Account) = dist'[e].distributed
    BY <2>1, <2>4
  <2>8. /\ dist'[e].withdrawable + curve'[e][now'] <= rewardBalance'[e]
        /\ \A t, u \in Times : t <= u => curve'[e][u] <= curve'[e][t]
    BY <2>1, <2>6
  <2> QED BY <2>5, <2>7, <2>8 DEF Books, Times
<1>4. ASSUME NEW d \in Asset \ DOMAIN dist', NEW a \in Account
      PROVE  adjust'[<<a, d>>] = NoAdjustment
  BY <1>1 DEF RewardBooks
<1> QED
  BY <1>1, <1>2, <1>3, <1>4 DEF RewardBooks, NoAdjustment

(* The most that stakers together no more powerful than W earn, when each  *)
(* power earns k points.                                                   *)
LEMMA EarnedTogether ==
  ASSUME NEW k \in Nat, NEW W \in Nat, NEW power \in [Account -> Nat],
         NEW before \in [Account -> Nat], NEW after \in [Account -> Nat],
         Total(power, Account) <= W,
         \A a \in Account : after[a] = before[a] + k * power[a]
  PROVE  Total(after, Account) <= Total(before, Account) + k * W
<1> DEFINE gain == [a \in Account |-> k * power[a]]
           times == [n \in Nat |-> k * n]
<1>1. \A a \in Account : power[a] \in Nat
  OBVIOUS
<1>2. \A a \in Account : k * power[a] \in Nat
  BY <1>1
<1>3. gain \in [Account -> Nat] /\ \A a \in Account : after[a] = before[a] + gain[a]
  BY <1>2
<1>4. times \in [Nat -> Nat] /\ \A m, n \in Nat : times[m] + times[n] <= times[m + n]
  <2>1. \A n \in Nat : times[n] \in Nat /\ times[n] = k * n
    OBVIOUS
  <2>2. ASSUME NEW m \in Nat, NEW n \in Nat PROVE times[m] + times[n] <= times[m + n]
    <3>1. k * (m + n) = k * m + k * n /\ k * m \in Nat /\ k * n \in Nat /\ m + n \in Nat
      OBVIOUS
    <3> QED BY <2>1, <3>1
  <2> QED BY <2>1, <2>2
<1>5. \A a \in Account : gain[a] <= times[power[a]]
  BY <1>1, <1>2
<1>6. IsFiniteSet(Account) /\ power \in [Account -> Nat] /\ before \in [Account -> Nat] /\ after \in [Account -> Nat]
  OBVIOUS
<1>7. Total(power, Account) \in Nat
  BY TotalType
<1>8. times[Total(power, Account)] = k * Total(power, Account)
  BY <1>7
<1> HIDE DEF gain, times
<1>9. /\ Total(after, Account) = Total(before, Account) + Total(gain, Account)
      /\ Total(before, Account) \in Nat /\ Total(gain, Account) \in Nat /\ Total(after, Account) \in Nat
  BY ONLY <1>3, <1>6, TotalSum
<1>10. Total(gain, Account) <= times[Total(power, Account)]
  BY ONLY <1>3, <1>4, <1>5, <1>6, TotalSuperadditive
<1>11. k * Total(power, Account) <= k * W /\ k * W \in Nat /\ k * Total(power, Account) \in Nat
  <2>1. k * (W - Total(power, Account)) \in Nat
    BY <1>7
  <2>2. k * (W - Total(power, Account)) = k * W - k * Total(power, Account)
    BY <1>7
  <2>3. k * W \in Nat /\ k * Total(power, Account) \in Nat
    BY <1>7
  <2> QED BY <2>1, <2>2, <2>3
<1> QED
  BY <1>8, <1>9, <1>10, <1>11

(* Every amount is shared out between powers that cover those of the       *)
(* stakers, and the points that do not divide are left for the next time.  *)
LEMMA DistributeRewardsRewardBooks ==
  ASSUME TypeOK, TypeOK', RewardBooks, PowersCovered, NEW f \in Asset, NEW n \in Nat,
         DistributeRewards(f, n)
  PROVE  RewardBooks'
<1> DEFINE balance == [rewardBalance EXCEPT ![f] = @ + n]
<1>1. /\ UNCHANGED <<now, stake, locked, adjust, curve>> /\ rewardBalance' = balance
      /\ DOMAIN dist' = DOMAIN dist
  BY DEF DistributeRewards, lpVars
<1>2. Earns
  BY DistributeRewardsEarns
<1>3. ASSUME NEW d \in DOMAIN dist PROVE Books(d)'
  <2> DEFINE W == TotalRewardsPower(d)
             u == Undistributed(d, balance[d])
  <2>1. Books(d)
    BY DEF RewardBooks
  <2>2. /\ dist[d] \in Distribution /\ d \in Asset /\ rewardBalance[d] \in Nat
        /\ Earned(d) \in [Account -> Nat] /\ Total(Earned(d), Account) \in Nat
        /\ curve[d][now] \in Nat /\ balance[d] \in Nat /\ rewardBalance[d] <= balance[d]
    <3>1. curve[d] \in [Times -> Nat] /\ now \in Times /\ rewardBalance[d] \in Nat /\ d \in Asset
      BY <2>1, BooksType
    <3>2. balance[d] = rewardBalance[d] + n \/ balance[d] = rewardBalance[d]
      BY <3>1 DEF TypeOK
    <3> HIDE DEF balance
    <3> QED BY <2>1, <3>1, <3>2, BooksType
  <2>3. W \in Nat
    BY TotalRewardsPowerType DEF TypeOK
  <2>4. u = balance[d] - dist[d].withdrawable - curve[d][now]
    BY DEF Undistributed
  <2>5. \A a \in Account :
          /\ Points(a, d)' = Points(a, d)
               + (dist'[d].sharesPerPoint - dist[d].sharesPerPoint) * RewardsPower(a, d)
          /\ RewardsPower(a, d) \in Nat /\ Points(a, d) \in Int
    BY <1>2, PointsType DEF Earns
  <2>6. \A a \in Account : adjust'[<<a, d>>].withdrawn = adjust[<<a, d>>].withdrawn
    BY <1>1
  <2>7. \A t, v \in Times : t <= v => curve'[d][v] <= curve'[d][t]
    BY <1>1, <2>1 DEF Books
  <2>8. CASE W = 0 \/ u = 0
    <3>1. dist'[d] = dist[d]
      BY <2>8 DEF DistributeRewards
    <3>2. ASSUME NEW a \in Account PROVE Points(a, d)' = Points(a, d)
      <4>1. dist'[d].sharesPerPoint - dist[d].sharesPerPoint = 0
        BY <2>2, <3>1 DEF Distribution
      <4>2. 0 * RewardsPower(a, d) = 0
        BY <2>5
      <4> QED BY <2>5, <4>1, <4>2
    <3>3. dist[d].withdrawable + curve'[d][now'] <= rewardBalance'[d]
      <4>1. dist[d].withdrawable + curve[d][now] <= rewardBalance[d] /\ dist[d].withdrawable \in Nat
        BY <2>1, <2>2 DEF Books, Distribution
      <4> HIDE DEF balance
      <4> QED BY <1>1, <2>2, <4>1
    <3> QED BY <2>1, <2>6, <2>7, <3>1, <3>2, <3>3, BooksKept
  <2>9. CASE W # 0 /\ u # 0
    <3> DEFINE points == u * SharesScale + dist[d].leftover
               k == points \div W
               r == points % W
    <3>1. u \in Nat
      <4>1. u >= 0
        BY <2>9 DEF DistributeRewards
      <4> HIDE DEF balance
      <4> QED BY <2>2, <2>4, <4>1 DEF Distribution
    <3>2. dist'[d] = Distributed(dist[d], W, u)
      BY <2>9 DEF DistributeRewards
    <3> HIDE DEF W, u, balance
    <3>3. /\ dist'[d].sharesPerPoint = dist[d].sharesPerPoint + k
          /\ dist'[d].leftover = r
          /\ dist'[d].distributed = dist[d].distributed + u
          /\ dist'[d].withdrawable = dist[d].withdrawable + u
      BY <2>2, <3>2 DEF Distributed, Distribution
    <3>4. /\ dist[d].sharesPerPoint \in Nat /\ dist[d].leftover \in Nat
          /\ dist[d].distributed \in Nat /\ dist[d].withdrawable \in Nat
      BY <2>2 DEF Distribution
    <3>5. points \in Nat
      BY <3>1, <3>4
    <3>6. k \in Nat /\ r \in Nat /\ points = k * W + r
      <4> HIDE DEF points
      <4>1. k \in Nat /\ r \in Nat
        BY <2>3, <2>9, <3>5
      <4>2. points = W * k + r
        BY <2>3, <2>9, <3>5
      <4>3. W * k = k * W
        BY <2>3, <4>1
      <4> QED BY <4>1, <4>2, <4>3
    <3> HIDE DEF k, r
    <3>7. ASSUME NEW a \in Account
          PROVE  /\ Points(a, d)' = Points(a, d) + k * RewardsPower(a, d)
                 /\ Points(a, d)' \in Nat
                 /\ SharesScale * adjust'[<<a, d>>].withdrawn <= Points(a, d)'
      <4>1. Points(a, d) \in Nat
        BY <2>2 DEF Earned
      <4>2. dist'[d].sharesPerPoint - dist[d].sharesPerPoint = k
        BY <3>3, <3>4, <3>6
      <4>3. k * RewardsPower(a, d) \in Nat
        BY <2>5, <3>6
      <4>4. SharesScale * adjust[<<a, d>>].withdrawn <= Points(a, d)
        BY <2>1 DEF Books
      <4>5. SharesScale * adjust[<<a, d>>].withdrawn \in Nat
        <5>1. adjust[<<a, d>>].withdrawn \in Nat
          BY PointsType
        <5> QED BY <5>1
      <4>6. Points(a, d)' = Points(a, d) + k * RewardsPower(a, d)
        BY <2>5, <4>2
      <4> QED BY <2>6, <4>1, <4>3, <4>4, <4>5, <4>6
    <3>8. Total(Earned(d)', Account) <= Total(Earned(d), Account) + k * W
      <4> DEFINE power == [a \in Account |-> RewardsPower(a, d)]
                 after == Earned(d)'
      <4>1. power \in [Account -> Nat] /\ Total(power, Account) <= W
        BY <2>5 DEF PowersCovered, W
      <4>2. after \in [Account -> Nat] /\ \A a \in Account : after[a] = Earned(d)[a] + k * power[a]
        BY <3>7 DEF Earned
      <4> HIDE DEF power, after
      <4>3. Total(after, Account) <= Total(Earned(d), Account) + k * W
        BY <2>2, <2>3, <3>6, <4>1, <4>2, EarnedTogether
      <4> QED BY <4>3 DEF after
    <3>9. Total(Earned(d)', Account) + dist'[d].leftover <= SharesScale * dist'[d].distributed
      <4>1. Total(Earned(d)', Account) \in Nat
        <5>1. Earned(d)' \in [Account -> Nat]
          BY <3>7 DEF Earned
        <5> QED BY <5>1, TotalType
      <4>2. Total(Earned(d), Account) + dist[d].leftover <= SharesScale * dist[d].distributed
        BY <2>1 DEF Books
      <4>3. SharesScale * dist'[d].distributed = SharesScale * dist[d].distributed + u * SharesScale
        BY <3>1, <3>3, <3>4
      <4>4. /\ SharesScale * dist[d].distributed \in Nat /\ u * SharesScale \in Nat /\ k * W \in Nat
        BY <2>3, <3>1, <3>4, <3>6
      <4>5. u * SharesScale + dist[d].leftover = k * W + r
        BY <3>6 DEF points
      <4> QED BY <2>2, <3>3, <3>4, <3>6, <3>8, <4>1, <4>2, <4>3, <4>4, <4>5
    <3>10. dist'[d].withdrawable + Total(Withdrawn(d)', Account) = dist'[d].distributed
      <4>1. Withdrawn(d)' = Withdrawn(d)
        BY <2>6 DEF Withdrawn
      <4>2. dist[d].withdrawable + Total(Withdrawn(d), Account) = dist[d].distributed
        BY <2>1 DEF Books
      <4>3. Total(Withdrawn(d), Account) \in Nat
        BY <2>1, BooksType
      <4> QED BY <3>1, <3>3, <3>4, <4>1, <4>2, <4>3
    <3>11. dist'[d].withdrawable + curve'[d][now'] <= rewardBalance'[d]
      BY <1>1, <2>2, <2>4, <3>1, <3>3, <3>4
    <3> QED BY <2>7, <3>7, <3>9, <3>10, <3>11 DEF Books, Times
  <2> QED BY <2>8, <2>9
<1>4. ASSUME NEW d \in Asset \ DOMAIN dist', NEW a \in Account
      PROVE  adjust'[<<a, d>>] = NoAdjustment
  BY <1>1 DEF RewardBooks
<1> QED
  BY <1>1, <1>3, <1>4 DEF RewardBooks, NoAdjustment

(* A withdrawal takes the whole rewards of the points of one account. *)
LEMMA WithdrawRewardsRewardBooks ==
  ASSUME TypeOK, TypeOK', RewardBooks, NEW s \in Account, NEW owner \in Account,
         WithdrawRewards(s, owner)
  PROVE  RewardBooks'
<1>1. UNCHANGED <<now, stake, locked, curve>> /\ DOMAIN dist' = DOMAIN dist
  BY DEF WithdrawRewards, lpVars
<1>2. Earns
  BY WithdrawRewardsEarns
<1>3. ASSUME NEW d \in DOMAIN dist PROVE Books(d)'
  <2> DEFINE out == WithdrawableRewards(owner, d)
             x == Points(owner, d)
             w == adjust[<<owner, d>>].withdrawn
  <2>1. Books(d)
    BY DEF RewardBooks
  <2>2. /\ dist[d] \in Distribution /\ d \in Asset /\ rewardBalance[d] \in Nat
        /\ Withdrawn(d) \in [Account -> Nat] /\ Total(Withdrawn(d), Account) \in Nat
        /\ curve[d][now] \in Nat
    BY <2>1, BooksType
  <2>3. x \in Nat /\ w \in Nat /\ out = x \div SharesScale - w /\ out \in Nat
    <3>1. x \in Int /\ w \in Nat
      BY PointsType
    <3>2. x >= 0 /\ out >= 0
      BY DEF WithdrawRewards
    <3>3. out = x \div SharesScale - w
      BY DEF WithdrawableRewards
    <3> HIDE DEF x, w, out
    <3> QED BY <3>1, <3>2, <3>3
  <2>4. /\ dist'[d].withdrawable = dist[d].withdrawable - out
        /\ dist'[d].sharesPerPoint = dist[d].sharesPerPoint
        /\ dist'[d].leftover = dist[d].leftover
        /\ dist'[d].distributed = dist[d].distributed
        /\ rewardBalance'[d] = rewardBalance[d] - out
    <3>1. /\ dist'[d] = [dist[d] EXCEPT !.withdrawable = @ - out]
          /\ rewardBalance'[d] = rewardBalance[d] - out
      BY <2>2 DEF WithdrawRewards
    <3> HIDE DEF out
    <3> QED BY <2>2, <3>1 DEF Distribution
  <2>5. ASSUME NEW a \in Account PROVE Points(a, d)' = Points(a, d) /\ Points(a, d) \in Int
    <3>1. dist'[d].sharesPerPoint - dist[d].sharesPerPoint = 0
      BY <2>2, <2>4 DEF Distribution
    <3>2. RewardsPower(a, d) \in Nat /\ Points(a, d) \in Int
      BY PointsType
    <3>3. 0 * RewardsPower(a, d) = 0
      BY <3>2
    <3> QED BY <1>2, <3>1, <3>2, <3>3 DEF Earns
  <2>6. /\ adjust'[<<owner, d>>].withdrawn = w + out
        /\ \A a \in Account \ {owner} : adjust'[<<a, d>>].withdrawn = adjust[<<a, d>>].withdrawn
    <3>1. ASSUME NEW a \in Account
          PROVE  adjust'[<<a, d>>] = IF a = owner
                                     THEN [adjust[<<a, d>>] EXCEPT !.withdrawn = @ + out]
                                     ELSE adjust[<<a, d>>]
      <4>1. <<a, d>> \in Account \X Asset
        BY <2>2
      <4> QED BY <4>1 DEF WithdrawRewards
    <3>2. adjust[<<owner, d>>] \in [correction : Int, withdrawn : Nat]
      BY <2>2 DEF TypeOK
    <3> HIDE DEF out
    <3> QED BY <3>1, <3>2
  <2>7. ASSUME NEW a \in Account
        PROVE  SharesScale * adjust'[<<a, d>>].withdrawn <= Points(a, d)'
    <3>1. CASE a # owner
      BY <2>1, <2>5, <2>6, <3>1 DEF Books
    <3>2. CASE a = owner
      <4>1. adjust'[<<a, d>>].withdrawn = x \div SharesScale /\ Points(a, d)' = x
        <5>1. x \div SharesScale \in Int
          BY <2>3
        <5> QED BY <2>3, <2>5, <2>6, <3>2, <5>1
      <4> HIDE DEF x
      <4>2. SharesScale * (x \div SharesScale) <= x
        BY <2>3
      <4> QED BY <4>1, <4>2
    <3> QED BY <3>1, <3>2
  <2>8. Earned(d)' = Earned(d)
    BY <2>5 DEF Earned
  <2>9. Total(Earned(d)', Account) + dist'[d].leftover <= SharesScale * dist'[d].distributed
    BY <2>1, <2>4, <2>8 DEF Books
  <2>10. Total(Withdrawn(d)', Account) = Total(Withdrawn(d), Account) + out
    <3> DEFINE before == Withdrawn(d)
               after == Withdrawn(d)'
    <3>1. after[owner] = before[owner] + out /\ \A a \in Account \ {owner} : before[a] = after[a]
      BY <2>6 DEF Withdrawn
    <3>2. after \in [Account -> Nat]
      <4>1. \A a \in Account : adjust'[<<a, d>>].withdrawn \in Nat
        BY <2>2 DEF TypeOK
      <4> QED BY <4>1 DEF Withdrawn
    <3> HIDE DEF after, before, out
    <3>3. Total(after, Account) = Total(before, Account) + out
      <4>1. before \in [Account -> Nat] /\ out \in Int
        BY <2>2, <2>3 DEF before
      <4> QED BY <3>1, <3>2, <4>1, TotalAddAtOne
    <3> QED BY <3>3 DEF after, before
  <2> HIDE DEF out, x, w
  <2>11. dist'[d].withdrawable + Total(Withdrawn(d)', Account) = dist'[d].distributed
    <3>1. dist[d].withdrawable + Total(Withdrawn(d), Account) = dist[d].distributed
      BY <2>1 DEF Books
    <3>2. dist[d].withdrawable \in Nat
      BY <2>2 DEF Distribution
    <3> QED BY <2>2, <2>3, <2>4, <2>10, <3>1, <3>2
  <2>12. dist'[d].withdrawable + curve'[d][now'] <= rewardBalance'[d]
    <3>1. dist[d].withdrawable + curve[d][now] <= rewardBalance[d]
      BY <2>1 DEF Books
    <3>2. dist[d].withdrawable \in Nat
      BY <2>2 DEF Distribution
    <3> QED BY <1>1, <2>2, <2>3, <2>4, <3>1, <3>2
  <2>13. \A t, v \in Times : t <= v => curve'[d][v] <= curve'[d][t]
    BY <1>1, <2>1 DEF Books
  <2> QED BY <2>7, <2>9, <2>11, <2>12, <2>13 DEF Books, Times
<1>4. ASSUME NEW d \in Asset \ DOMAIN dist', NEW a \in Account
      PROVE  adjust'[<<a, d>>] = NoAdjustment
  <2>1. adjust[<<a, d>>] = NoAdjustment
    BY <1>1 DEF RewardBooks
  <2>2. <<a, d>> \in Account \X Asset /\ <<a, d>>[2] = d /\ d \notin DOMAIN dist
    BY <1>1
  <2> QED BY <2>1, <2>2 DEF WithdrawRewards
<1> QED
  BY <1>1, <1>3, <1>4 DEF RewardBooks, NoAdjustment

LEMMA NextRewardBooks ==
  ASSUME TypeOK, TypeOK', PowersCovered, RewardBooks, [Next]_vars
  PROVE  RewardBooks'
<1>1. CASE UNCHANGED vars
  BY <1>1, RewardsLeftAlone DEF vars, lpVars, rewardVars
<1>2. CASE Tick
  BY <1>2, TickRewardBooks
<1>3. CASE Rewarding
  <2>1. ASSUME NEW d \in Asset, NEW sent \in 1..rewardPool[d], NEW amount \in 1..sent,
               NEW start \in now..MaxTime, NEW end \in (start + 1)..Horizon,
               FundDistribution(d, sent, amount, start, end)
        PROVE  RewardBooks'
    <3>1. now \in Nat
      BY DEF TypeOK
    <3>2. sent \in Nat /\ amount \in Nat /\ start \in Nat /\ end \in Nat /\ start < end
      BY <3>1
    <3> QED BY <2>1, <3>2, FundDistributionRewardBooks
  <2>2. ASSUME NEW d \in Asset, NEW amount \in 1..rewardPool[d], SendRewards(d, amount)
        PROVE  RewardBooks'
    BY <2>2, SendRewardsRewardBooks
  <2>3. ASSUME NEW d \in Asset, NEW n \in 0..rewardPool[d], DistributeRewards(d, n)
        PROVE  RewardBooks'
    BY <2>3, DistributeRewardsRewardBooks
  <2>4. ASSUME NEW s \in Account, NEW to \in Delegates, DelegateWithdrawal(s, to)
        PROVE  RewardBooks'
    BY <2>4, RewardsLeftAlone DEF DelegateWithdrawal, lpVars
  <2> QED BY <1>3, <2>1, <2>2, <2>3, <2>4, WithdrawRewardsRewardBooks DEF Rewarding
<1>4. ASSUME NEW a \in Account, Governing(a) PROVE RewardBooks'
  <2>1. ASSUME \/ UnbondAll(a)
               \/ StopUnbondAll(a)
               \/ \E new \in NewAdmins : UpdateAdmin(a, new)
        PROVE  RewardBooks'
    BY <2>1, RewardsLeftAlone DEF UnbondAll, StopUnbondAll, UpdateAdmin, lpVars, rewardVars
  <2> QED BY <1>4, <2>1, QuickUnbondRewardBooks, CreateDistributionFlowRewardBooks DEF Governing
<1> QED
  BY <1>1, <1>2, <1>3, <1>4, StakingRewardBooks DEF Next

(* Whatever messages arrive in whatever order, nobody's points or rewards  *)
(* are ever negative, the rewards all stakers may withdraw are there to be *)
(* withdrawn, and the contract holds them on top of all that is locked.    *)
THEOREM RewardsSolventKept == TotalsKept => (Spec => []RewardsSolvent)
<1> SUFFICES ASSUME TotalsKept PROVE Spec => []RewardsSolvent
  OBVIOUS
<1>1. Init => RewardBooks
  BY DEF Init, RewardBooks
<1>2. TypeOK /\ TypeOK' /\ PowersCovered /\ RewardBooks /\ [Next]_vars => RewardBooks'
  BY NextRewardBooks
<1>3. Spec => []TypeOK
  BY TypeCorrect
<1>4. Spec => []PowersCovered
  BY PowersCoveredKept
<1>5. TypeOK /\ RewardBooks => RewardsSolvent
  BY BooksSolvent
<1> QED
  BY <1>1, <1>2, <1>3, <1>4, <1>5, PTL DEF Spec

----------------------------------------------------------------------------
(***************************************************************************)
(* Where the tokens of the staking contract may go, and when, for every    *)
(* value of its parameters.  The contract implements the escrow of         *)
(* StakeEscrow: the mapping, in Stake, forgets periods, locks and release  *)
(* times, an account has bonded what its keys sum to, has as much leaving  *)
(* as its claims sum to, and TOTAL_STAKED has stranded what no stake       *)
(* accounts for.  What the mapping forgets is the second part: no message  *)
(* brings forward the time at which tokens can leave.                      *)
(***************************************************************************)

(* What one account has *)

Own(a) == {a} \X Periods
OwnLocks(a) == {a} \X Periods \X Times
OwnClaims(a) == {a} \X Times

bondedBar == [a \in Account |-> Bonded({a}, Periods)]
leavingBar == [a \in Account |-> Total(claims, {a} \X Times)]
strandedBar == totalStaked.staked - AllBonded

LEMMA OwnKeys ==
  ASSUME NEW a \in Account
  PROVE  Own(a) \in SUBSET StakeKeys /\ OwnLocks(a) \in SUBSET LockKeys /\ OwnClaims(a) \in SUBSET ClaimKeys
BY DEF Own, OwnLocks, OwnClaims, StakeKeys, LockKeys, ClaimKeys

LEMMA Bars ==
  ASSUME NEW a \in Account
  PROVE  /\ bondedBar[a] = Total(stake, Own(a)) + Total(locked, OwnLocks(a))
         /\ bondedBar'[a] = Total(stake', Own(a)) + Total(locked', OwnLocks(a))
         /\ leavingBar[a] = Total(claims, OwnClaims(a))
         /\ leavingBar'[a] = Total(claims', OwnClaims(a))
BY DEF bondedBar, leavingBar, Bonded, Own, OwnLocks, OwnClaims, Times

LEMMA Alls ==
  /\ AllBonded = Total(stake, StakeKeys) + Total(locked, LockKeys)
  /\ AllBonded' = Total(stake', StakeKeys) + Total(locked', LockKeys)
  /\ AllClaimed = Total(claims, ClaimKeys)
  /\ AllClaimed' = Total(claims', ClaimKeys)
BY DEF AllBonded, AllClaimed, StakeKeys, LockKeys, ClaimKeys, Times

(* When only one account's keys change, it gains what all gain, and nobody  *)
(* else gains or loses.                                                     *)
LEMMA BondedOfOne ==
  ASSUME TypeOK, TypeOK', NEW a \in Account,
         \A k \in StakeKeys : k[1] # a => stake'[k] = stake[k],
         \A l \in LockKeys : l[1] # a => locked'[l] = locked[l]
  PROVE  /\ bondedBar'[a] = bondedBar[a] + (AllBonded' - AllBonded)
         /\ bondedBar[a] \in Nat /\ bondedBar'[a] \in Nat
         /\ AllBonded \in Nat /\ AllBonded' \in Nat
         /\ \A x \in Account \ {a} : bondedBar'[x] = bondedBar[x]
<1>1. /\ stake \in [StakeKeys -> Nat] /\ stake' \in [StakeKeys -> Nat]
      /\ locked \in [LockKeys -> Nat] /\ locked' \in [LockKeys -> Nat]
  BY DEF TypeOK
<1>2. /\ Total(stake', StakeKeys) = Total(stake, StakeKeys) - Total(stake, Own(a)) + Total(stake', Own(a))
      /\ Total(stake, StakeKeys) \in Nat /\ Total(stake', StakeKeys) \in Nat
      /\ Total(stake, Own(a)) \in Nat /\ Total(stake', Own(a)) \in Nat
  <2>1. \A k \in StakeKeys \ Own(a) : stake[k] = stake'[k]
    BY DEF Own, StakeKeys
  <2> QED BY <1>1, <2>1, OwnKeys, StakeKeysFinite, TotalChange
<1>3. /\ Total(locked', LockKeys) = Total(locked, LockKeys) - Total(locked, OwnLocks(a)) + Total(locked', OwnLocks(a))
      /\ Total(locked, LockKeys) \in Nat /\ Total(locked', LockKeys) \in Nat
      /\ Total(locked, OwnLocks(a)) \in Nat /\ Total(locked', OwnLocks(a)) \in Nat
  <2>1. \A l \in LockKeys \ OwnLocks(a) : locked[l] = locked'[l]
    BY DEF OwnLocks, LockKeys
  <2> QED BY <1>1, <2>1, OwnKeys, LockKeysFinite, TotalChange
<1>4. ASSUME NEW x \in Account \ {a} PROVE bondedBar'[x] = bondedBar[x]
  <2>1. Total(stake', Own(x)) = Total(stake, Own(x))
    <3>1. \A k \in Own(x) : stake'[k] = stake[k]
      BY DEF Own, StakeKeys
    <3> QED BY <3>1, TotalSame
  <2>2. Total(locked', OwnLocks(x)) = Total(locked, OwnLocks(x))
    <3>1. \A l \in OwnLocks(x) : locked'[l] = locked[l]
      BY DEF OwnLocks, LockKeys
    <3> QED BY <3>1, TotalSame
  <2> QED BY <2>1, <2>2, Bars
<1> QED
  BY <1>2, <1>3, <1>4, Bars, Alls

LEMMA ClaimedOfOne ==
  ASSUME TypeOK, TypeOK', NEW a \in Account,
         \A c \in ClaimKeys : c[1] # a => claims'[c] = claims[c]
  PROVE  /\ leavingBar'[a] = leavingBar[a] + (AllClaimed' - AllClaimed)
         /\ leavingBar[a] \in Nat /\ leavingBar'[a] \in Nat
         /\ AllClaimed \in Nat /\ AllClaimed' \in Nat
         /\ \A x \in Account \ {a} : leavingBar'[x] = leavingBar[x]
<1>1. claims \in [ClaimKeys -> Nat] /\ claims' \in [ClaimKeys -> Nat]
  BY DEF TypeOK
<1>2. /\ Total(claims', ClaimKeys) = Total(claims, ClaimKeys) - Total(claims, OwnClaims(a)) + Total(claims', OwnClaims(a))
      /\ Total(claims, ClaimKeys) \in Nat /\ Total(claims', ClaimKeys) \in Nat
      /\ Total(claims, OwnClaims(a)) \in Nat /\ Total(claims', OwnClaims(a)) \in Nat
  <2>1. \A c \in ClaimKeys \ OwnClaims(a) : claims[c] = claims'[c]
    BY DEF OwnClaims, ClaimKeys
  <2> QED BY <1>1, <2>1, OwnKeys, ClaimKeysFinite, TotalChange
<1>3. ASSUME NEW x \in Account \ {a} PROVE leavingBar'[x] = leavingBar[x]
  <2>1. \A c \in OwnClaims(x) : claims'[c] = claims[c]
    BY DEF OwnClaims, ClaimKeys
  <2> QED BY <2>1, TotalSame, Bars
<1> QED
  BY <1>2, <1>3, Bars, Alls

(* Books that stay as they are say the same. *)
LEMMA BarsUnchanged ==
  /\ UNCHANGED <<stake, locked>> => UNCHANGED <<bondedBar, AllBonded>>
  /\ UNCHANGED claims => UNCHANGED <<leavingBar, AllClaimed>>
<1>1. ASSUME UNCHANGED <<stake, locked>> PROVE UNCHANGED <<bondedBar, AllBonded>>
  <2>1. AllBonded' = AllBonded
    BY <1>1, Alls
  <2>2. \A a \in Account : bondedBar'[a] = bondedBar[a]
    BY <1>1, Bars
  <2> QED BY <2>1, <2>2 DEF bondedBar
<1>2. ASSUME UNCHANGED claims PROVE UNCHANGED <<leavingBar, AllClaimed>>
  <2>1. AllClaimed' = AllClaimed
    BY <1>2, Alls
  <2>2. \A a \in Account : leavingBar'[a] = leavingBar[a]
    BY <1>2, Bars
  <2> QED BY <2>1, <2>2 DEF leavingBar
<1> QED
  BY <1>1, <1>2

(* the change of one entry *)
LEMMA BondedExcept ==
  ASSUME NEW a \in Account, NEW v, bondedBar'[a] = v,
         \A x \in Account \ {a} : bondedBar'[x] = bondedBar[x]
  PROVE  bondedBar' = [bondedBar EXCEPT ![a] = v]
BY DEF bondedBar

LEMMA LeavingExcept ==
  ASSUME NEW a \in Account, NEW v, leavingBar'[a] = v,
         \A x \in Account \ {a} : leavingBar'[x] = leavingBar[x]
  PROVE  leavingBar' = [leavingBar EXCEPT ![a] = v]
BY DEF leavingBar
----------------------------------------------------------------------------
(* The messages *)

(* Removing stake takes it from the bonded tokens of its owner. *)
LEMMA RemoveStakeBar ==
  ASSUME TypeOK, TypeOK', NEW a \in Account, NEW p \in Periods, NEW n \in Nat, RemoveStake(a, p, n)
  PROVE  /\ bondedBar' = [bondedBar EXCEPT ![a] = @ - n]
         /\ bondedBar[a] \in Nat /\ n <= bondedBar[a]
         /\ AllBonded' = AllBonded - n /\ AllBonded \in Nat /\ n <= AllBonded
<1>1. \A k \in StakeKeys : k[1] # a => stake'[k] = stake[k]
  BY DEF RemoveStake, TypeOK, StakeKeys
<1>2. \A l \in LockKeys : l[1] # a => locked'[l] = locked[l]
  BY DEF RemoveStake, LocksLeft
<1>3. AllBonded' = AllBonded - n /\ n <= AllBonded
  BY RemoveStakeBonded
<1>4. /\ bondedBar'[a] = bondedBar[a] + (AllBonded' - AllBonded)
      /\ bondedBar[a] \in Nat /\ bondedBar'[a] \in Nat /\ AllBonded \in Nat
      /\ \A x \in Account \ {a} : bondedBar'[x] = bondedBar[x]
  BY <1>1, <1>2, BondedOfOne
<1>5. bondedBar'[a] = bondedBar[a] - n
  BY <1>3, <1>4
<1> QED
  BY <1>3, <1>4, <1>5, BondedExcept

LEMMA UnbondStep ==
  ASSUME TypeOK, TypeOK', Custody, NEW a \in Account, NEW p \in Periods, NEW n \in Nat \ {0},
         Unbond(a, p, n)
  PROVE  Escrow!Next
<1>1. /\ bondedBar' = [bondedBar EXCEPT ![a] = @ - n]
      /\ bondedBar[a] \in Nat /\ n <= bondedBar[a]
      /\ AllBonded' = AllBonded - n /\ AllBonded \in Nat /\ n <= AllBonded
  BY RemoveStakeBar DEF Unbond
<1>2. \A c \in ClaimKeys : c[1] # a => claims'[c] = claims[c]
  BY DEF Unbond, TypeOK, ClaimKeys
<1>3. /\ leavingBar'[a] = leavingBar[a] + (AllClaimed' - AllClaimed)
      /\ leavingBar[a] \in Nat /\ AllClaimed \in Nat
      /\ \A x \in Account \ {a} : leavingBar'[x] = leavingBar[x]
  BY <1>2, ClaimedOfOne
<1>4. AllClaimed' = AllClaimed + (IF unbondAll THEN 0 ELSE n)
  BY UnbondClaimed
<1>5. totalStaked.staked \in Nat /\ AllBonded <= totalStaked.staked /\ totalStaked'.staked = totalStaked.staked - n
  BY <1>1 DEF Custody, TypeOK, Unbond, SaturatingSub
<1>6. strandedBar' = strandedBar
  BY <1>1, <1>5 DEF strandedBar
<1>7. n \in 1..bondedBar[a]
  BY <1>1
<1>8. CASE unbondAll
  <2>1. leavingBar' = [leavingBar EXCEPT ![a] = @ - 0]
    <3>1. leavingBar'[a] = leavingBar[a] - 0
      BY <1>3, <1>4, <1>8
    <3> QED BY <1>3, <3>1, LeavingExcept
  <2>2. /\ wallet' = [wallet EXCEPT ![a] = @ + n + 0]
        /\ lpBalance' = lpBalance - (n + 0)
        /\ UNCHANGED converted
    BY <1>8 DEF Unbond, TypeOK
  <2>3. Escrow!Return(a, n, 0)
    BY <1>1, <1>3, <1>6, <2>1, <2>2 DEF Escrow!Return, bondedBar, leavingBar, strandedBar
  <2> QED BY <1>7, <2>3 DEF Escrow!Next, bondedBar
<1>9. CASE ~unbondAll
  <2>1. leavingBar' = [leavingBar EXCEPT ![a] = @ + n]
    <3>1. leavingBar'[a] = leavingBar[a] + n
      BY <1>3, <1>4, <1>9
    <3> QED BY <1>3, <3>1, LeavingExcept
  <2>2. UNCHANGED <<wallet, lpBalance, converted>>
    BY <1>9 DEF Unbond
  <2>3. Escrow!StartLeaving(a, n)
    BY <1>1, <1>6, <2>1, <2>2 DEF Escrow!StartLeaving, bondedBar, leavingBar, strandedBar
  <2> QED BY <1>7, <2>3 DEF Escrow!Next, bondedBar
<1> QED
  BY <1>8, <1>9

LEMMA MigrateStakeStep ==
  ASSUME TypeOK, TypeOK', Custody, NEW a \in Account, NEW p \in Periods, NEW n \in Nat \ {0},
         MigrateStake(a, p, n)
  PROVE  Escrow!Next
<1>1. /\ bondedBar' = [bondedBar EXCEPT ![a] = @ - n]
      /\ bondedBar[a] \in Nat /\ n <= bondedBar[a]
      /\ AllBonded' = AllBonded - n /\ AllBonded \in Nat /\ n <= AllBonded
  BY RemoveStakeBar DEF MigrateStake
<1>2. leavingBar' = leavingBar
  BY BarsUnchanged DEF MigrateStake
<1>3. totalStaked.staked \in Nat /\ AllBonded <= totalStaked.staked /\ totalStaked'.staked = totalStaked.staked - n
  BY <1>1 DEF Custody, TypeOK, MigrateStake, SaturatingSub
<1>4. strandedBar' = strandedBar
  BY <1>1, <1>3 DEF strandedBar
<1>5. Escrow!Convert(a, n)
  BY <1>1, <1>2, <1>4 DEF MigrateStake, Escrow!Convert, bondedBar, leavingBar, strandedBar
<1>6. n \in 1..bondedBar[a]
  BY <1>1
<1> QED
  BY <1>5, <1>6 DEF Escrow!Next, bondedBar

(* Rebonding moves tokens between periods of one account: nothing the escrow *)
(* can see.                                                                  *)
LEMMA RebondStep ==
  ASSUME TypeOK, TypeOK', NEW a \in Account, NEW from \in Periods, NEW to \in Periods,
         NEW n \in Nat, Rebond(a, from, to, n)
  PROVE  UNCHANGED Escrow!escrowVars
<1>1. \A k \in StakeKeys : k[1] # a => stake'[k] = stake[k]
  BY DEF Rebond, TypeOK, StakeKeys
<1>2. \A l \in LockKeys : l[1] # a => locked'[l] = locked[l]
  BY DEF Rebond, LocksLeft, LockKeys
<1>3. AllBonded' = AllBonded
  BY RebondBonded
<1>4. bondedBar' = bondedBar
  <2>1. /\ bondedBar'[a] = bondedBar[a] + (AllBonded' - AllBonded)
        /\ bondedBar[a] \in Nat /\ AllBonded \in Nat
        /\ \A x \in Account \ {a} : bondedBar'[x] = bondedBar[x]
    BY <1>1, <1>2, BondedOfOne
  <2>2. bondedBar'[a] = bondedBar[a]
    BY <1>3, <2>1
  <2>3. \A x \in Account : bondedBar'[x] = bondedBar[x]
    BY <2>1, <2>2
  <2> QED BY <2>3 DEF bondedBar
<1>5. leavingBar' = leavingBar
  BY BarsUnchanged DEF Rebond
<1>6. strandedBar' = strandedBar
  BY <1>3 DEF strandedBar, Rebond
<1> QED
  BY <1>4, <1>5, <1>6 DEF Rebond, Escrow!escrowVars, bondedBar, leavingBar, strandedBar

LEMMA ClaimStep ==
  ASSUME TypeOK, TypeOK', NEW a \in Account, Claim(a)
  PROVE  Escrow!Next
<1>1. \A c \in ClaimKeys : c[1] # a => claims'[c] = claims[c]
  BY DEF Claim, ClaimsLeft
<1>2. /\ leavingBar'[a] = leavingBar[a] + (AllClaimed' - AllClaimed)
      /\ leavingBar[a] \in Nat /\ leavingBar'[a] \in Nat
      /\ \A x \in Account \ {a} : leavingBar'[x] = leavingBar[x]
  BY <1>1, ClaimedOfOne
<1>3. /\ AllClaimed' = AllClaimed - Matured(a)
      /\ Matured(a) \in Nat /\ AllClaimed \in Nat
  BY ClaimClaimed
<1> DEFINE n == Matured(a)
<1>4. n \in Nat /\ n # 0 /\ leavingBar'[a] = leavingBar[a] - n
  BY <1>2, <1>3 DEF Claim
<1>5. leavingBar' = [leavingBar EXCEPT ![a] = @ - n]
  BY <1>2, <1>4, LeavingExcept
<1>6. UNCHANGED <<bondedBar, strandedBar>>
  BY BarsUnchanged DEF Claim, strandedBar, TypeOK
<1>7. bondedBar' = [bondedBar EXCEPT ![a] = @ - 0] /\ bondedBar[a] \in Nat
  <2>1. bondedBar[a] \in Nat
    <3>1. {a} \in SUBSET Account /\ Periods \in SUBSET Periods
      OBVIOUS
    <3> QED BY <3>1, BondedType DEF bondedBar, TypeOK
  <2>2. bondedBar'[a] = bondedBar[a] - 0
    BY <1>6, <2>1
  <2> QED BY <1>6, <2>1, <2>2, BondedExcept
<1>8. /\ wallet' = [wallet EXCEPT ![a] = @ + 0 + n]
      /\ lpBalance' = lpBalance - (0 + n)
      /\ UNCHANGED converted
  <2>1. /\ wallet' = [wallet EXCEPT ![a] = @ + n]
        /\ lpBalance' = lpBalance - n
        /\ UNCHANGED converted
    BY DEF Claim
  <2>2. wallet \in [Account -> Nat] /\ lpBalance \in Nat
    BY DEF TypeOK
  <2> HIDE DEF n
  <2>3. wallet[a] + 0 + n = wallet[a] + n /\ 0 + n = n
    BY <1>4, <2>2
  <2> QED BY <2>1, <2>3
<1> HIDE DEF n
<1>9. n \in 1..leavingBar[a]
  BY <1>2, <1>4
<1>10. Escrow!Return(a, 0, n)
  BY <1>5, <1>6, <1>7, <1>8, <1>9 DEF Escrow!Return, bondedBar, leavingBar, strandedBar
<1> QED
  BY <1>9, <1>10 DEF Escrow!Next, leavingBar

(* the sums of the escrow are the sums of the contract *)
LEMMA SameTotal ==
  ASSUME NEW f, NEW S
  PROVE  Escrow!Total(f, S) = Total(f, S)
<1>1. Escrow!Units(f, S) = Units(f, S)
  BY DEF Escrow!Units, Units
<1> QED
  BY <1>1 DEF Escrow!Total, Total, Escrow!Cardinality, Cardinality

(* Bonding adds to each account's bonded tokens its share. *)
LEMMA MassBondBar ==
  ASSUME TypeOK, TypeOK', NEW s \in Account, NEW p \in Periods, NEW sent \in Nat,
         NEW shares \in [Account -> Nat], MassBond(s, p, sent, shares)
  PROVE  bondedBar' = [a \in Account |-> bondedBar[a] + shares[a]]
<1>1. /\ stake \in [StakeKeys -> Nat] /\ stake' \in [StakeKeys -> Nat] /\ locked' = locked
      /\ locked \in [LockKeys -> Nat]
  BY DEF TypeOK, MassBond
<1>2. ASSUME NEW a \in Account
      PROVE  bondedBar'[a] = bondedBar[a] + shares[a]
  <2> DEFINE k == <<a, p>>
             f == [x \in Own(a) |-> stake[x]]
             g == [x \in Own(a) |-> stake'[x]]
  <2>1. k \in Own(a) /\ Own(a) \in SUBSET StakeKeys /\ IsFiniteSet(Own(a))
    BY OwnKeys, StakeKeysFinite, FS_Subset DEF Own
  <2>2. \A x \in Own(a) : x[1] = a /\ (x[2] = p => x = k)
    BY DEF Own
  <2>3. f \in [Own(a) -> Nat] /\ g \in [Own(a) -> Nat]
    BY <1>1, <2>1
  <2>4. \A x \in Own(a) \ {k} : f[x] = g[x]
    BY <2>1, <2>2 DEF MassBond
  <2>5. g[k] = f[k] + shares[a] /\ shares[a] \in Int
    BY <2>1 DEF MassBond
  <2>6. Total(f, Own(a)) = Total(stake, Own(a)) /\ Total(g, Own(a)) = Total(stake', Own(a))
    BY TotalSame
  <2> HIDE DEF k, f, g
  <2>7. Total(g, Own(a)) = Total(f, Own(a)) + shares[a]
    BY ONLY <2>1, <2>3, <2>4, <2>5, TotalAddAtOne
  <2>8. Total(f, Own(a)) \in Nat /\ Total(locked, OwnLocks(a)) \in Nat
    BY <1>1, <2>1, <2>3, OwnKeys, LockKeysFinite, TotalOfPart, TotalType
  <2>9. Total(locked', OwnLocks(a)) = Total(locked, OwnLocks(a))
    BY <1>1
  <2>10. /\ bondedBar[a] = Total(f, Own(a)) + Total(locked, OwnLocks(a))
         /\ bondedBar'[a] = Total(f, Own(a)) + shares[a] + Total(locked, OwnLocks(a))
    BY <2>6, <2>7, <2>9, Bars
  <2> HIDE DEF bondedBar
  <2> QED BY <2>5, <2>8, <2>10
<1> QED
  BY <1>2 DEF bondedBar

LEMMA MassBondStep ==
  ASSUME TypeOK, TypeOK', Custody, NEW s \in Account, NEW p \in Periods, NEW sent \in 1..wallet[s],
         NEW shares \in [Account -> 0..sent], MassBond(s, p, sent, shares)
  PROVE  Escrow!Next
<1>1. sent \in Nat /\ shares \in [Account -> Nat]
  OBVIOUS
<1>2. bondedBar' = [a \in Account |-> bondedBar[a] + shares[a]]
  BY <1>1, MassBondBar
<1>3. /\ AllBonded' = AllBonded + Total(shares, Account) /\ AllBonded \in Nat
      /\ Total(shares, Account) \in Nat
  BY <1>1, MassBondBonded
<1>4. totalStaked.staked \in Nat /\ totalStaked'.staked = totalStaked.staked + sent
  BY DEF TypeOK, MassBond
<1>5. strandedBar' = strandedBar + (sent - Total(shares, Account))
  BY <1>1, <1>3, <1>4 DEF strandedBar
<1>6. leavingBar' = leavingBar
  BY BarsUnchanged DEF MassBond
<1>7. Escrow!Total(shares, Account) = Total(shares, Account)
  BY SameTotal
<1>8. Escrow!Bond(s, sent, shares)
  BY <1>2, <1>5, <1>6, <1>7 DEF MassBond, Escrow!Bond, bondedBar, leavingBar, strandedBar
<1> QED
  BY <1>8 DEF Escrow!Next

(* What some accounts have bonded and claimed together is the sum of what   *)
(* each of them has.                                                        *)
LEMMA PayoutOfEach ==
  ASSUME TypeOK, NEW A \in SUBSET Account
  PROVE  Payout(A) = Total([a \in Account |-> bondedBar[a] + leavingBar[a]], A)
<1> DEFINE s == [a \in A |-> Total(stake, Own(a))]
           l == [a \in A |-> Total(locked, OwnLocks(a))]
           c == [a \in A |-> Total(claims, OwnClaims(a))]
           b == [a \in A |-> s[a] + l[a]]
           all == [a \in A |-> b[a] + c[a]]
           each == [a \in Account |-> bondedBar[a] + leavingBar[a]]
<1>1. IsFiniteSet(A)
  BY FS_Subset
<1>2. /\ stake \in [StakeKeys -> Nat] /\ locked \in [LockKeys -> Nat]
      /\ claims \in [ClaimKeys -> Nat]
  BY DEF TypeOK
<1>3. \A a \in A : Total(stake, Own(a)) \in Nat
  BY <1>2, OwnKeys, StakeKeysFinite, TotalOfPart
<1>4. \A a \in A : Total(locked, OwnLocks(a)) \in Nat
  BY <1>2, OwnKeys, LockKeysFinite, TotalOfPart
<1>5. \A a \in A : Total(claims, OwnClaims(a)) \in Nat
  BY <1>2, OwnKeys, ClaimKeysFinite, TotalOfPart
<1>6. s \in [A -> Nat] /\ l \in [A -> Nat] /\ c \in [A -> Nat] /\ b \in [A -> Nat] /\ all \in [A -> Nat]
  BY <1>3, <1>4, <1>5
<1>7. Total(s, A) = Total(stake, A \X Periods)
  <2> DEFINE part == [a \in A |-> Own(a)]
             R == A \X Periods
  <2>1. part \in [A -> SUBSET StakeKeys]
    BY OwnKeys
  <2>2. \A t, u \in A : t # u => part[t] \cap part[u] = {}
    BY DEF Own
  <2>3. \A x : x \in R <=> \E t \in A : x \in part[t]
    BY DEF Own
  <2>4. \A t \in A : s[t] = Total(stake, part[t])
    OBVIOUS
  <2> HIDE DEF part, s, R
  <2>5. Total(s, A) = Total(stake, R)
    BY <1>1, <1>2, <1>6, <2>1, <2>2, <2>3, <2>4, StakeKeysFinite, TotalOfParts
  <2> QED BY <2>5 DEF R
<1>8. Total(l, A) = Total(locked, A \X Periods \X Times)
  <2> DEFINE part == [a \in A |-> OwnLocks(a)]
             R == A \X Periods \X Times
  <2>1. part \in [A -> SUBSET LockKeys]
    BY OwnKeys
  <2>2. \A t, u \in A : t # u => part[t] \cap part[u] = {}
    BY DEF OwnLocks
  <2>3. \A x : x \in R <=> \E t \in A : x \in part[t]
    BY DEF OwnLocks
  <2>4. \A t \in A : l[t] = Total(locked, part[t])
    OBVIOUS
  <2> HIDE DEF part, l, R
  <2>5. Total(l, A) = Total(locked, R)
    BY <1>1, <1>2, <1>6, <2>1, <2>2, <2>3, <2>4, LockKeysFinite, TotalOfParts
  <2> QED BY <2>5 DEF R
<1>9. Total(c, A) = Total(claims, A \X Times)
  <2> DEFINE part == [a \in A |-> OwnClaims(a)]
             R == A \X Times
  <2>1. part \in [A -> SUBSET ClaimKeys]
    BY OwnKeys
  <2>2. \A t, u \in A : t # u => part[t] \cap part[u] = {}
    BY DEF OwnClaims
  <2>3. \A x : x \in R <=> \E t \in A : x \in part[t]
    BY DEF OwnClaims
  <2>4. \A t \in A : c[t] = Total(claims, part[t])
    OBVIOUS
  <2> HIDE DEF part, c, R
  <2>5. Total(c, A) = Total(claims, R)
    BY <1>1, <1>2, <1>6, <2>1, <2>2, <2>3, <2>4, ClaimKeysFinite, TotalOfParts
  <2> QED BY <2>5 DEF R
<1>10. \A a \in A : b[a] = s[a] + l[a] /\ all[a] = b[a] + c[a]
  OBVIOUS
<1>11. Total(each, A) = Total(all, A)
  <2>1. \A a \in A : each[a] = all[a]
    BY Bars
  <2> HIDE DEF each, all
  <2> QED BY <2>1, TotalSame
<1> HIDE DEF s, l, c, b, all
<1>12. Total(b, A) = Total(s, A) + Total(l, A)
  <2>1. \A a \in A : b[a] = s[a] + l[a]
    BY <1>10
  <2> QED BY ONLY <1>1, <1>6, <2>1, TotalSum
<1>13. Total(all, A) = Total(b, A) + Total(c, A)
  <2>1. \A a \in A : all[a] = b[a] + c[a]
    BY <1>10
  <2> QED BY ONLY <1>1, <1>6, <2>1, TotalSum
<1> QED
  BY <1>7, <1>8, <1>9, <1>11, <1>12, <1>13 DEF Payout, Bonded

LEMMA QuickUnbondStep ==
  ASSUME TypeOK, TypeOK', Custody, NEW s \in Account, NEW A \in SUBSET Account, QuickUnbond(s, A)
  PROVE  Escrow!Next
<1>1. bondedBar' = [a \in Account |-> IF a \in A THEN 0 ELSE bondedBar[a]]
  <2>1. ASSUME NEW a \in A PROVE bondedBar'[a] = 0
    <3>1. \A k \in Own(a) : stake'[k] = 0
      BY DEF QuickUnbond, Own, StakeKeys
    <3>2. \A k \in OwnLocks(a) : locked'[k] = 0
      BY DEF QuickUnbond, OwnLocks, LockKeys
    <3> QED BY <3>1, <3>2, TotalZero, Bars
  <2>2. ASSUME NEW a \in Account \ A PROVE bondedBar'[a] = bondedBar[a]
    <3>1. \A k \in Own(a) : stake'[k] = stake[k]
      BY DEF QuickUnbond, Own, StakeKeys
    <3>2. \A k \in OwnLocks(a) : locked'[k] = locked[k]
      BY DEF QuickUnbond, OwnLocks, LockKeys
    <3>3. Total(stake', Own(a)) = Total(stake, Own(a)) /\ Total(locked', OwnLocks(a)) = Total(locked, OwnLocks(a))
      BY <3>1, <3>2, TotalSame
    <3> QED BY <3>3, Bars
  <2> QED BY <2>1, <2>2 DEF bondedBar
<1>2. leavingBar' = [a \in Account |-> IF a \in A THEN 0 ELSE leavingBar[a]]
  <2>1. ASSUME NEW a \in A PROVE leavingBar'[a] = 0
    <3>1. \A c \in OwnClaims(a) : claims'[c] = 0
      BY DEF QuickUnbond, OwnClaims, ClaimKeys
    <3> QED BY <3>1, TotalZero, Bars
  <2>2. ASSUME NEW a \in Account \ A PROVE leavingBar'[a] = leavingBar[a]
    <3>1. \A c \in OwnClaims(a) : claims'[c] = claims[c]
      BY DEF QuickUnbond, OwnClaims, ClaimKeys
    <3> QED BY <3>1, TotalSame, Bars
  <2> QED BY <2>1, <2>2 DEF leavingBar
<1>3. strandedBar' = strandedBar
  <2>1. /\ AllBonded' = AllBonded - Bonded(A, Periods)
        /\ AllBonded \in Nat /\ Bonded(A, Periods) \in Nat
    BY QuickUnbondBonded
  <2>2. totalStaked.staked \in Nat /\ totalStaked'.staked = totalStaked.staked - Bonded(A, Periods)
    BY DEF QuickUnbond, TypeOK
  <2> QED BY <2>1, <2>2 DEF strandedBar
<1>4. lpBalance' = lpBalance - Total([a \in Account |-> bondedBar[a] + leavingBar[a]], A)
  BY PayoutOfEach DEF QuickUnbond
<1>5. wallet' = [a \in Account |-> IF a \in A THEN wallet[a] + (bondedBar[a] + leavingBar[a]) ELSE wallet[a]]
  BY DEF QuickUnbond, Payout, bondedBar, leavingBar
<1>6. UNCHANGED converted
  BY DEF QuickUnbond
<1>7. Escrow!Evict(A)
  BY <1>1, <1>2, <1>3, <1>4, <1>5, <1>6, SameTotal
     DEF Escrow!Evict, bondedBar, leavingBar, strandedBar
<1> QED
  BY <1>7 DEF Escrow!Next
----------------------------------------------------------------------------
LEMMA EscrowInit == Init => Escrow!Init
<1> SUFFICES ASSUME Init PROVE Escrow!Init
  OBVIOUS
<1>1. ASSUME NEW a \in Account PROVE bondedBar[a] = 0 /\ leavingBar[a] = 0
  <2>1. \A k \in Own(a) : stake[k] = 0
    BY OwnKeys DEF Init
  <2>2. \A k \in OwnLocks(a) : locked[k] = 0
    BY OwnKeys DEF Init
  <2>3. \A k \in OwnClaims(a) : claims[k] = 0
    BY OwnKeys DEF Init
  <2> QED BY <2>1, <2>2, <2>3, TotalZero, Bars
<1>2. bondedBar = [a \in Account |-> 0] /\ leavingBar = [a \in Account |-> 0]
  BY <1>1 DEF bondedBar, leavingBar
<1>3. strandedBar = 0
  <2>1. \A k \in StakeKeys : stake[k] = 0
    BY DEF Init
  <2>2. \A l \in LockKeys : locked[l] = 0
    BY DEF Init
  <2>3. AllBonded = 0
    BY <2>1, <2>2, TotalZero, Alls
  <2> QED BY <2>3 DEF strandedBar, Init
<1> QED
  BY <1>2, <1>3 DEF Init, Escrow!Init, Escrow!Nothing, bondedBar, leavingBar, strandedBar

LEMMA EscrowUnchanged ==
  ASSUME UNCHANGED lpVars
  PROVE  UNCHANGED Escrow!escrowVars
<1>1. UNCHANGED <<bondedBar, leavingBar, strandedBar>>
  BY BarsUnchanged DEF lpVars, strandedBar
<1> QED
  BY <1>1 DEF lpVars, Escrow!escrowVars, bondedBar, leavingBar, strandedBar

LEMMA EscrowStaking ==
  ASSUME TypeOK, TypeOK', Custody, NEW a \in Account, Staking(a)
  PROVE  Escrow!Next \/ UNCHANGED Escrow!escrowVars
<1>1. ASSUME NEW p \in Periods, NEW n \in 1..wallet[a], NEW b \in Account, Delegate(a, p, n, b)
      PROVE  Escrow!Next
  <2>1. wallet[a] \in Nat
    BY DEF TypeOK
  <2>2. [x \in Account |-> IF x = b THEN n ELSE 0] \in [Account -> 0..n]
    BY <2>1
  <2> QED BY <1>1, <2>2, MassBondStep DEF Delegate
<1>2. ASSUME NEW p \in Periods, NEW n \in 1..wallet[a], NEW shares \in [Account -> 0..n],
             MassDelegate(a, p, n, shares)
      PROVE  Escrow!Next
  BY <1>2, MassBondStep DEF MassDelegate
<1>3. ASSUME NEW from \in Periods, NEW to \in Periods, NEW n \in 1..TotalStake(a, from),
             Rebond(a, from, to, n)
      PROVE  UNCHANGED Escrow!escrowVars
  BY <1>3, RebondStep
<1>4. ASSUME NEW p \in Periods, NEW n \in 1..TotalStake(a, p), Unbond(a, p, n)
      PROVE  Escrow!Next
  BY <1>4, UnbondStep
<1>5. ASSUME NEW p \in Periods, NEW n \in 1..TotalStake(a, p), MigrateStake(a, p, n)
      PROVE  Escrow!Next
  BY <1>5, MigrateStakeStep
<1>6. CASE Claim(a)
  BY <1>6, ClaimStep
<1> QED
  BY <1>1, <1>2, <1>3, <1>4, <1>5, <1>6 DEF Staking

LEMMA EscrowStep ==
  ASSUME TypeOK, TypeOK', Custody, [Next]_vars
  PROVE  [Escrow!Next]_Escrow!escrowVars
<1>1. CASE UNCHANGED vars
  BY <1>1, EscrowUnchanged DEF vars
<1>2. CASE Tick
  BY <1>2, EscrowUnchanged DEF Tick
<1>3. CASE Rewarding
  <2>1. UNCHANGED lpVars
    BY <1>3 DEF Rewarding, FundDistribution, SendRewards, DistributeRewards, WithdrawRewards,
       DelegateWithdrawal, lpVars
  <2> QED BY <2>1, EscrowUnchanged
<1>4. ASSUME NEW a \in Account, Governing(a) PROVE [Escrow!Next]_Escrow!escrowVars
  <2>1. ASSUME NEW A \in SUBSET Account, QuickUnbond(a, A) PROVE Escrow!Next
    BY <2>1, QuickUnbondStep
  <2>2. ASSUME \/ UnbondAll(a)
               \/ StopUnbondAll(a)
               \/ \E new \in NewAdmins : UpdateAdmin(a, new)
               \/ \E d \in Asset, m \in Multipliers : CreateDistributionFlow(a, d, m)
        PROVE  UNCHANGED Escrow!escrowVars
    <3>1. UNCHANGED lpVars
      BY <2>2 DEF UnbondAll, StopUnbondAll, UpdateAdmin, CreateDistributionFlow, lpVars
    <3> QED BY <3>1, EscrowUnchanged
  <2> QED BY <1>4, <2>1, <2>2 DEF Governing
<1>5. ASSUME NEW a \in Account, Staking(a) PROVE [Escrow!Next]_Escrow!escrowVars
  BY <1>5, EscrowStaking
<1> QED
  BY <1>1, <1>2, <1>3, <1>4, <1>5 DEF Next

(* Whatever happens to periods, locks, totals and rewards, the LP tokens     *)
(* move as the escrow says: an account's tokens leave the contract only to   *)
(* itself or, when it migrates, to the converter, and no others ever leave.  *)
THEOREM StakeImplementsEscrow == Spec => ImplementsEscrow
<1>1. Init => TypeOK /\ Custody
  BY InitType, CustodyInit
<1>2. TypeOK /\ Custody /\ [Next]_vars => (TypeOK /\ Custody)'
  BY NextType, NextCustody
<1>3. TypeOK /\ Custody /\ TypeOK' /\ [Next]_vars => [Escrow!Next]_Escrow!escrowVars
  BY EscrowStep
<1> QED
  BY <1>1, <1>2, <1>3, EscrowInit, PTL DEF Spec, ImplementsEscrow, Escrow!Spec

----------------------------------------------------------------------------
(* When the tokens of one account may leave *)

(* the stakes, locks and claims of an account that it can have out by time *)
(* t when it asks for them at time s                                       *)
StakesBy(a, s, t) == {a} \X {p \in Periods : s + p <= t}
LocksBy(a, s, t) == {l \in {a} \X Periods \X Times : s + l[2] <= t /\ l[3] + l[2] <= t}
ClaimsBy(a, t) == {a} \X (0..t)

LEMMA KeysBy ==
  ASSUME NEW a \in Account, NEW s \in Times, NEW t \in Times
  PROVE  /\ StakesBy(a, s, t) \in SUBSET StakeKeys
         /\ LocksBy(a, s, t) \in SUBSET LockKeys
         /\ ClaimsBy(a, t) \in SUBSET ClaimKeys
<1>1. 0..t \subseteq Times
  BY DEF Times
<1> QED
  BY <1>1 DEF StakesBy, LocksBy, ClaimsBy, StakeKeys, LockKeys, ClaimKeys

(* The four parts of what an account can have by a time. *)
LEMMA ReleasableParts ==
  ASSUME TypeOK, NEW a \in Account, NEW t \in now..Horizon
  PROVE  /\ ReleasableBy(a, t) = wallet[a] + Total(stake, StakesBy(a, now, t))
                + Total(locked, LocksBy(a, now, t)) + Total(claims, ClaimsBy(a, t))
         /\ wallet[a] \in Nat /\ Total(stake, StakesBy(a, now, t)) \in Nat
         /\ Total(locked, LocksBy(a, now, t)) \in Nat /\ Total(claims, ClaimsBy(a, t)) \in Nat
         /\ now \in Times /\ t \in Times /\ now <= t
<1>1. now \in Times /\ t \in Times /\ now <= t
  <2>1. now \in 0..MaxTime
    BY DEF TypeOK
  <2> QED BY <2>1 DEF Times
<1>2. /\ stake \in [StakeKeys -> Nat] /\ locked \in [LockKeys -> Nat]
      /\ claims \in [ClaimKeys -> Nat] /\ wallet[a] \in Nat
  BY DEF TypeOK
<1>3. Total(stake, StakesBy(a, now, t)) \in Nat
  BY <1>1, <1>2, KeysBy, StakeKeysFinite, TotalOfPart
<1>4. Total(locked, LocksBy(a, now, t)) \in Nat
  BY <1>1, <1>2, KeysBy, LockKeysFinite, TotalOfPart
<1>5. Total(claims, ClaimsBy(a, t)) \in Nat
  BY <1>1, <1>2, KeysBy, ClaimKeysFinite, TotalOfPart
<1> QED
  BY <1>1, <1>2, <1>3, <1>4, <1>5 DEF ReleasableBy, StakesBy, LocksBy, ClaimsBy

LEMMA ReleasablePartsNext ==
  ASSUME TypeOK, TypeOK', now' = now, NEW a \in Account, NEW t \in now..Horizon
  PROVE  /\ ReleasableBy(a, t)' = wallet'[a] + Total(stake', StakesBy(a, now, t))
                + Total(locked', LocksBy(a, now, t)) + Total(claims', ClaimsBy(a, t))
         /\ wallet'[a] \in Nat /\ Total(stake', StakesBy(a, now, t)) \in Nat
         /\ Total(locked', LocksBy(a, now, t)) \in Nat /\ Total(claims', ClaimsBy(a, t)) \in Nat
<1>1. now \in Times /\ t \in Times
  BY ReleasableParts
<1>2. /\ stake' \in [StakeKeys -> Nat] /\ locked' \in [LockKeys -> Nat]
      /\ claims' \in [ClaimKeys -> Nat] /\ wallet'[a] \in Nat
  BY DEF TypeOK, StakeKeys, LockKeys, ClaimKeys, Times
<1>3. Total(stake', StakesBy(a, now, t)) \in Nat
  BY <1>1, <1>2, KeysBy, StakeKeysFinite, TotalOfPart
<1>4. Total(locked', LocksBy(a, now, t)) \in Nat
  BY <1>1, <1>2, KeysBy, LockKeysFinite, TotalOfPart
<1>5. Total(claims', ClaimsBy(a, t)) \in Nat
  BY <1>1, <1>2, KeysBy, ClaimKeysFinite, TotalOfPart
<1> QED
  BY <1>2, <1>3, <1>4, <1>5 DEF ReleasableBy, StakesBy, LocksBy, ClaimsBy, Times

(* what a message leaves alone for an account *)
LeftAlone(a) ==
  /\ wallet'[a] = wallet[a]
  /\ \A k \in StakeKeys : k[1] = a => stake'[k] = stake[k]
  /\ \A l \in LockKeys : l[1] = a => locked'[l] = locked[l]
  /\ \A c \in ClaimKeys : c[1] = a => claims'[c] = claims[c]

LEMMA LeftAloneReleasable ==
  ASSUME TypeOK, TypeOK', now' = now, NEW a \in Account, LeftAlone(a), NEW t \in now..Horizon
  PROVE  ReleasableBy(a, t)' = ReleasableBy(a, t)
<1> DEFINE S == StakesBy(a, now, t)
           L == LocksBy(a, now, t)
           C == ClaimsBy(a, t)
<1>1. now \in Times /\ t \in Times
  BY ReleasableParts
<1>2. /\ \A k \in S : k \in StakeKeys /\ k[1] = a
      /\ \A l \in L : l \in LockKeys /\ l[1] = a
      /\ \A c \in C : c \in ClaimKeys /\ c[1] = a
  BY <1>1, KeysBy DEF StakesBy, LocksBy, ClaimsBy
<1> HIDE DEF S, L, C
<1>3. Total(stake', S) = Total(stake, S)
  BY <1>2, TotalSame DEF LeftAlone
<1>4. Total(locked', L) = Total(locked, L)
  BY <1>2, TotalSame DEF LeftAlone
<1>5. Total(claims', C) = Total(claims, C)
  BY <1>2, TotalSame DEF LeftAlone
<1> QED
  BY <1>3, <1>4, <1>5, ReleasableParts, ReleasablePartsNext DEF LeftAlone, S, L, C

(* Taking unlocked tokens out of the stake of a period, with its expired   *)
(* locks, takes them out of what the period lets leave in time.            *)
LEMMA FreedReleasable ==
  ASSUME TypeOK, NEW a \in Account, NEW p \in Periods, NEW n \in Nat, n <= Unlocked(a, p),
         NEW u \in [StakeKeys -> Nat],
         \A k \in StakeKeys \ {<<a, p>>} : u[k] = stake[k],
         u[<<a, p>>] = Unlocked(a, p) - n,
         NEW t \in now..Horizon
  PROVE  Total(u, StakesBy(a, now, t)) + Total(LocksLeft(a, p), LocksBy(a, now, t))
           = Total(stake, StakesBy(a, now, t)) + Total(locked, LocksBy(a, now, t))
               - (IF now + p <= t THEN n ELSE 0)
<1> DEFINE S == StakesBy(a, now, t)
           L == LocksBy(a, now, t)
           R == {a} \X {p} \X (0..now)
           left == LocksLeft(a, p)
           k == <<a, p>>
<1>1. /\ now \in Times /\ t \in Times /\ now <= t /\ p \in Nat
      /\ 0..now \subseteq Times
  BY ReleasableParts, PastTimes
<1>2. /\ S \in SUBSET StakeKeys /\ L \in SUBSET LockKeys /\ R \in SUBSET LockKeys
      /\ k \in StakeKeys
  <2>1. k \in StakeKeys /\ R \in SUBSET LockKeys
    BY <1>1 DEF StakeKeys, LockKeys
  <2> QED BY <1>1, <2>1, KeysBy
<1>3. /\ stake \in [StakeKeys -> Nat] /\ locked \in [LockKeys -> Nat]
      /\ left \in [LockKeys -> Nat] /\ Unlocked(a, p) \in Nat
  BY UnlockedType DEF TypeOK
<1>4. Unlocked(a, p) = stake[k] + Total(locked, R) /\ stake[k] \in Nat
  BY <1>2, <1>3 DEF Unlocked
<1>5. k \in S <=> now + p <= t
  BY DEF StakesBy
<1>6. /\ now + p <= t => R \subseteq L
      /\ ~(now + p <= t) => R \cap L = {}
  <2>1. ASSUME now + p <= t, NEW r \in R PROVE r \in L
    <3>1. r \in {a} \X Periods \X Times /\ r[2] = p /\ r[3] \in 0..now
      BY <1>1
    <3>2. r[3] + p <= t
      BY <1>1, <2>1, <3>1 DEF Times
    <3> QED BY <2>1, <3>1, <3>2 DEF LocksBy
  <2>2. ASSUME ~(now + p <= t), NEW r \in R PROVE r \notin L
    BY <2>2 DEF LocksBy
  <2> QED BY <2>1, <2>2
<1>7. /\ \A x \in LockKeys \ R : left[x] = locked[x]
      /\ \A x \in R : left[x] = 0
  <2>1. ASSUME NEW x \in LockKeys
        PROVE  x \in R <=> x[1] = a /\ x[2] = p /\ x[3] <= now
    <3>1. x = <<x[1], x[2], x[3]>> /\ x[3] \in Times
      BY DEF LockKeys
    <3> QED BY <1>1, <3>1 DEF Times
  <2> QED BY <1>2, <2>1 DEF LocksLeft
<1> HIDE DEF S, L, R, left, k
<1>8. /\ Total(u, S) = Total(stake, S) + (IF k \in S THEN Total(locked, R) - n ELSE 0)
      /\ Total(stake, S) \in Nat
  <2>1. Total(locked, R) \in Nat
    BY <1>2, <1>3, LockKeysFinite, TotalOfPart
  <2>2. u[k] = stake[k] + (Total(locked, R) - n) /\ Total(locked, R) - n \in Int
    BY <1>4, <2>1 DEF k
  <2>3. \A x \in StakeKeys \ {k} : stake[x] = u[x]
    BY DEF k
  <2> QED BY <1>2, <1>3, <2>2, <2>3, StakeKeysFinite, TotalPartAddAtOne
<1>9. /\ R \subseteq L => Total(left, L) = Total(locked, L) - Total(locked, R)
      /\ R \cap L = {} => Total(left, L) = Total(locked, L)
      /\ Total(locked, L) \in Nat /\ Total(left, L) \in Nat /\ Total(locked, R) \in Nat
  BY ONLY <1>2, <1>3, <1>7, LockKeysFinite, TotalPartEmptied
<1>10. Total(u, S) + Total(left, L)
         = Total(stake, S) + Total(locked, L) - (IF now + p <= t THEN n ELSE 0)
  <2>1. CASE now + p <= t
    BY <1>5, <1>6, <1>8, <1>9, <2>1
  <2>2. CASE ~(now + p <= t)
    BY <1>5, <1>6, <1>8, <1>9, <2>2
  <2> QED BY <2>1, <2>2
<1> QED
  BY <1>10 DEF S, L, left

(* no account can have more out by any time than it could before *)
Lasting == \A a \in Account, t \in now..Horizon : ReleasableBy(a, t)' <= ReleasableBy(a, t)

LEMMA RemoveStakeReleasable ==
  ASSUME TypeOK, NEW a \in Account, NEW p \in Periods, NEW n \in Nat,
         RemoveStake(a, p, n), NEW t \in now..Horizon
  PROVE  /\ Total(stake', StakesBy(a, now, t)) + Total(locked', LocksBy(a, now, t))
              = Total(stake, StakesBy(a, now, t)) + Total(locked, LocksBy(a, now, t))
                  - (IF now + p <= t THEN n ELSE 0)
         /\ \A k \in StakeKeys : k[1] # a => stake'[k] = stake[k]
         /\ \A l \in LockKeys : l[1] # a => locked'[l] = locked[l]
<1> DEFINE j == <<a, p>>
           v == Unlocked(a, p) - n
<1>1. /\ stake' = [stake EXCEPT ![j] = v] /\ locked' = LocksLeft(a, p)
      /\ n <= Unlocked(a, p) /\ j \in StakeKeys /\ stake \in [StakeKeys -> Nat]
  BY DEF RemoveStake, CanRelease, StakeKeys, TypeOK
<1>2. stake' \in [StakeKeys -> Nat]
  BY RemoveStakeType
<1>3. /\ \A k \in StakeKeys \ {j} : stake'[k] = stake[k]
      /\ stake'[j] = v
  <2> HIDE DEF j, v
  <2> QED BY <1>1
<1>4. Total(stake', StakesBy(a, now, t)) + Total(locked', LocksBy(a, now, t))
        = Total(stake, StakesBy(a, now, t)) + Total(locked, LocksBy(a, now, t))
            - (IF now + p <= t THEN n ELSE 0)
  <2> DEFINE u == stake'
  <2>1. /\ u \in [StakeKeys -> Nat] /\ \A k \in StakeKeys \ {<<a, p>>} : u[k] = stake[k]
        /\ u[<<a, p>>] = Unlocked(a, p) - n
    BY <1>2, <1>3
  <2> HIDE DEF u
  <2>2. Total(u, StakesBy(a, now, t)) + Total(LocksLeft(a, p), LocksBy(a, now, t))
          = Total(stake, StakesBy(a, now, t)) + Total(locked, LocksBy(a, now, t))
              - (IF now + p <= t THEN n ELSE 0)
    <3>1. n <= Unlocked(a, p) /\ TypeOK /\ a \in Account /\ p \in Periods /\ n \in Nat /\ t \in now..Horizon
      BY <1>1
    <3> QED BY ONLY <2>1, <3>1, FreedReleasable
  <2> QED BY <1>1, <2>2 DEF u
<1>5. \A k \in StakeKeys : k[1] # a => k \in StakeKeys \ {j}
  OBVIOUS
<1>6. \A l \in LockKeys : l[1] # a => locked'[l] = locked[l]
  BY <1>1 DEF LocksLeft
<1> HIDE DEF j, v
<1> QED
  BY <1>3, <1>4, <1>5, <1>6

(* The tokens of an unbonding leave when its claim matures, which is when  *)
(* the period would have let them leave.                                   *)
LEMMA UnbondLasting ==
  ASSUME TypeOK, TypeOK', ~unbondAll, NEW a \in Account, NEW p \in Periods, NEW n \in Nat,
         Unbond(a, p, n)
  PROVE  Lasting
<1> DEFINE c == <<a, now + p>>
<1>1. /\ RemoveStake(a, p, n) /\ now' = now /\ wallet' = wallet
      /\ claims' = [claims EXCEPT ![c] = @ + n]
  BY DEF Unbond
<1>2. /\ claims \in [ClaimKeys -> Nat] /\ claims' \in [ClaimKeys -> Nat]
      /\ wallet \in [Account -> Nat]
  BY DEF TypeOK, ClaimKeys, Times
<1>3. c \in ClaimKeys /\ now \in Nat /\ p \in Nat
  <2>1. now \in 0..MaxTime /\ p \in Nat /\ MaxTime + p <= Horizon
    BY DEF TypeOK
  <2> QED BY <2>1 DEF ClaimKeys, Times
<1>4. /\ claims'[c] = claims[c] + n
      /\ \A k \in ClaimKeys \ {c} : claims[k] = claims'[k]
  <2> HIDE DEF c
  <2> QED BY <1>1, <1>2, <1>3
<1>5. ASSUME NEW b \in Account, NEW t \in now..Horizon
      PROVE  ReleasableBy(b, t)' <= ReleasableBy(b, t)
  <2>1. CASE b # a
    <3>1. \A k \in ClaimKeys : k[1] = b => claims'[k] = claims[k]
      BY <1>4, <2>1
    <3>2. LeftAlone(b)
      BY <1>1, <2>1, <3>1, RemoveStakeReleasable DEF LeftAlone
    <3>3. ReleasableBy(b, t)' = ReleasableBy(b, t)
      BY <1>1, <3>2, LeftAloneReleasable
    <3> QED BY <3>3, ReleasableParts
  <2>2. CASE b = a
    <3> DEFINE C == ClaimsBy(a, t)
    <3>1. t \in Times /\ now \in Times /\ C \in SUBSET ClaimKeys
      BY ReleasableParts, KeysBy
    <3>2. c \in C <=> now + p <= t
      BY <1>3, <3>1 DEF ClaimsBy, Times
    <3>3. Total(claims', C) = Total(claims, C) + (IF c \in C THEN n ELSE 0)
      <4> HIDE DEF c, C
      <4> QED BY <1>2, <1>3, <1>4, <3>1, ClaimKeysFinite, TotalPartAddAtOne
    <3>4. Total(stake', StakesBy(a, now, t)) + Total(locked', LocksBy(a, now, t))
            = Total(stake, StakesBy(a, now, t)) + Total(locked, LocksBy(a, now, t))
                - (IF now + p <= t THEN n ELSE 0)
      BY <1>1, RemoveStakeReleasable
    <3> HIDE DEF c, C
    <3>5. Total(claims', C) = Total(claims, C) + (IF now + p <= t THEN n ELSE 0)
      BY <3>2, <3>3
    <3> DEFINE out == IF now + p <= t THEN n ELSE 0
    <3>6. out \in Nat
      OBVIOUS
    <3> HIDE DEF out
    <3>7. /\ wallet'[a] = wallet[a]
          /\ Total(claims', ClaimsBy(a, t)) = Total(claims, ClaimsBy(a, t)) + out
      BY <1>1, <3>5 DEF C, out
    <3>8. Total(stake', StakesBy(a, now, t)) + Total(locked', LocksBy(a, now, t))
            = Total(stake, StakesBy(a, now, t)) + Total(locked, LocksBy(a, now, t)) - out
      BY <3>4 DEF out
    <3>9. /\ ReleasableBy(a, t) = wallet[a] + Total(stake, StakesBy(a, now, t))
                + Total(locked, LocksBy(a, now, t)) + Total(claims, ClaimsBy(a, t))
          /\ wallet[a] \in Nat /\ Total(stake, StakesBy(a, now, t)) \in Nat
          /\ Total(locked, LocksBy(a, now, t)) \in Nat /\ Total(claims, ClaimsBy(a, t)) \in Nat
      BY ReleasableParts
    <3>10. /\ ReleasableBy(a, t)' = wallet'[a] + Total(stake', StakesBy(a, now, t))
                + Total(locked', LocksBy(a, now, t)) + Total(claims', ClaimsBy(a, t))
           /\ Total(stake', StakesBy(a, now, t)) \in Nat
           /\ Total(locked', LocksBy(a, now, t)) \in Nat
      BY <1>1, ReleasablePartsNext
    <3> QED BY ONLY <2>2, <3>6, <3>7, <3>8, <3>9, <3>10
  <2> QED BY <2>1, <2>2
<1> QED
  BY <1>5 DEF Lasting

(* Migrated tokens go to the converter, and no wallet has them. *)
LEMMA MigrateStakeLasting ==
  ASSUME TypeOK, TypeOK', NEW a \in Account, NEW p \in Periods, NEW n \in Nat,
         MigrateStake(a, p, n)
  PROVE  Lasting
<1>1. /\ RemoveStake(a, p, n) /\ now' = now /\ wallet' = wallet /\ claims' = claims
  BY DEF MigrateStake
<1>2. ASSUME NEW b \in Account, NEW t \in now..Horizon
      PROVE  ReleasableBy(b, t)' <= ReleasableBy(b, t)
  <2>1. CASE b # a
    <3>1. LeftAlone(b)
      BY <1>1, <2>1, RemoveStakeReleasable DEF LeftAlone
    <3>2. ReleasableBy(b, t)' = ReleasableBy(b, t)
      BY <1>1, <3>1, LeftAloneReleasable
    <3> QED BY <3>2, ReleasableParts
  <2>2. CASE b = a
    <3> DEFINE out == IF now + p <= t THEN n ELSE 0
    <3>1. Total(stake', StakesBy(a, now, t)) + Total(locked', LocksBy(a, now, t))
            = Total(stake, StakesBy(a, now, t)) + Total(locked, LocksBy(a, now, t)) - out
      BY <1>1, RemoveStakeReleasable
    <3>2. out \in Nat
      OBVIOUS
    <3> HIDE DEF out
    <3>3. wallet'[a] = wallet[a] /\ Total(claims', ClaimsBy(a, t)) = Total(claims, ClaimsBy(a, t))
      BY <1>1
    <3> QED BY <2>2, <1>1, <3>1, <3>2, <3>3, ReleasableParts, ReleasablePartsNext
  <2> QED BY <2>1, <2>2
<1> QED
  BY <1>2 DEF Lasting

(* A claim pays out what had matured. *)
LEMMA ClaimLasting ==
  ASSUME TypeOK, TypeOK', NEW a \in Account, Claim(a)
  PROVE  Lasting
<1> DEFINE R == {a} \X (0..now)
<1>1. /\ now' = now /\ stake' = stake /\ locked' = locked
      /\ wallet' = [wallet EXCEPT ![a] = @ + Total(claims, R)]
      /\ claims' = [c \in ClaimKeys |-> IF c[1] = a /\ c[2] <= now THEN 0 ELSE claims[c]]
  BY DEF Claim, Matured, ClaimsLeft
<1>2. /\ claims \in [ClaimKeys -> Nat] /\ claims' \in [ClaimKeys -> Nat]
      /\ wallet \in [Account -> Nat]
  BY DEF TypeOK, ClaimKeys, Times
<1>3. ASSUME NEW b \in Account, NEW t \in now..Horizon
      PROVE  ReleasableBy(b, t)' <= ReleasableBy(b, t)
  <2>1. CASE b # a
    <3>1. LeftAlone(b)
      BY <1>1, <1>2, <2>1 DEF LeftAlone
    <3>2. ReleasableBy(b, t)' = ReleasableBy(b, t)
      BY <1>1, <3>1, LeftAloneReleasable
    <3> QED BY <3>2, ReleasableParts
  <2>2. CASE b = a
    <3> DEFINE C == ClaimsBy(a, t)
    <3>1. t \in Times /\ now \in Times /\ C \in SUBSET ClaimKeys /\ now <= t
      BY ReleasableParts, KeysBy
    <3>2. R \in SUBSET C /\ R \in SUBSET ClaimKeys
      <4>1. R \in SUBSET C
        BY <3>1 DEF ClaimsBy, Times
      <4> QED BY <3>1, <4>1
    <3>3. /\ \A c \in ClaimKeys \ R : claims'[c] = claims[c]
          /\ \A c \in R : claims'[c] = 0
      <4>1. ASSUME NEW c \in ClaimKeys
            PROVE  c \in R <=> c[1] = a /\ c[2] <= now
        <5>1. c = <<c[1], c[2]>> /\ c[2] \in Nat
          BY DEF ClaimKeys, Times
        <5>2. now \in Nat
          BY <3>1 DEF Times
        <5> QED BY <5>1, <5>2
      <4> QED BY <1>1, <3>2, <4>1
    <3> HIDE DEF C, R
    <3>4. Total(claims', C) = Total(claims, C) - Total(claims, R) /\ Total(claims, R) \in Nat
      <4>1. IsFiniteSet(ClaimKeys) /\ R \subseteq C
        BY <3>2, ClaimKeysFinite
      <4> DEFINE next == claims'
      <4>2. /\ next \in [ClaimKeys -> Nat]
            /\ \A c \in ClaimKeys \ R : next[c] = claims[c]
            /\ \A c \in R : next[c] = 0
        BY <1>2, <3>3
      <4> HIDE DEF next
      <4>3. Total(next, C) = Total(claims, C) - Total(claims, R) /\ Total(claims, R) \in Nat
        BY ONLY <1>2, <3>1, <3>2, <4>1, <4>2, TotalPartEmptied
      <4> QED BY <4>3 DEF next
    <3>5. wallet'[a] = wallet[a] + Total(claims, R)
      BY <1>1, <1>2
    <3>6. /\ Total(stake', StakesBy(a, now, t)) = Total(stake, StakesBy(a, now, t))
          /\ Total(locked', LocksBy(a, now, t)) = Total(locked, LocksBy(a, now, t))
      BY <1>1
    <3> QED BY <2>2, <1>1, <3>4, <3>5, <3>6, ReleasableParts, ReleasablePartsNext DEF C
  <2> QED BY <2>1, <2>2
<1> QED
  BY <1>3 DEF Lasting

(* Time passing lets no stake leave sooner. *)
LEMMA TickLasting ==
  ASSUME TypeOK, TypeOK', Tick
  PROVE  Lasting
<1>1. now' = now + 1 /\ UNCHANGED <<wallet, stake, locked, claims>> /\ now < MaxTime
  BY DEF Tick, lpVars
<1>2. ASSUME NEW a \in Account, NEW t \in now..Horizon
      PROVE  ReleasableBy(a, t)' <= ReleasableBy(a, t)
  <2>1. now \in Times /\ t \in Times /\ now + 1 \in Times
    <3>1. now \in 0..MaxTime /\ now + 1 \in 0..MaxTime
      BY <1>1 DEF TypeOK
    <3> QED BY <3>1, ReleasableParts DEF Times
  <2>2. /\ StakesBy(a, now, t) \in SUBSET StakeKeys /\ LocksBy(a, now, t) \in SUBSET LockKeys
        /\ StakesBy(a, now + 1, t) \in SUBSET StakesBy(a, now, t)
        /\ LocksBy(a, now + 1, t) \in SUBSET LocksBy(a, now, t)
    <3>1. StakesBy(a, now, t) \in SUBSET StakeKeys /\ LocksBy(a, now, t) \in SUBSET LockKeys
      BY <2>1, KeysBy
    <3>2. \A p \in Periods : now + 1 + p <= t => now + p <= t
      BY <2>1 DEF Times
    <3>3. \A l \in {a} \X Periods \X Times : l[2] \in Periods
      OBVIOUS
    <3> QED BY <3>1, <3>2, <3>3 DEF StakesBy, LocksBy
  <2>3. stake \in [StakeKeys -> Nat] /\ locked \in [LockKeys -> Nat] /\ wallet[a] \in Nat
    BY DEF TypeOK
  <2>4. Total(stake, StakesBy(a, now + 1, t)) <= Total(stake, StakesBy(a, now, t))
    BY <2>2, <2>3, StakeKeysFinite, TotalGrows
  <2>5. Total(locked, LocksBy(a, now + 1, t)) <= Total(locked, LocksBy(a, now, t))
    BY <2>2, <2>3, LockKeysFinite, TotalGrows
  <2>6. /\ Total(stake, StakesBy(a, now + 1, t)) \in Nat
        /\ Total(locked, LocksBy(a, now + 1, t)) \in Nat
    <3>1. /\ StakesBy(a, now + 1, t) \in SUBSET StakeKeys
          /\ LocksBy(a, now + 1, t) \in SUBSET LockKeys
      BY <2>2
    <3> QED BY <2>3, <3>1, StakeKeysFinite, LockKeysFinite, TotalOfPart
  <2>7. ReleasableBy(a, t)' = wallet[a] + Total(stake, StakesBy(a, now + 1, t))
           + Total(locked, LocksBy(a, now + 1, t)) + Total(claims, ClaimsBy(a, t))
    BY <1>1 DEF ReleasableBy, StakesBy, LocksBy, ClaimsBy, Times
  <2> QED BY <2>4, <2>5, <2>6, <2>7, ReleasableParts
<1> QED
  BY <1>2 DEF Lasting

(* Rebonding to a longer period takes longer, and the lock of tokens       *)
(* rebonded to a shorter one is exactly what is missing of the old period. *)
LEMMA RebondLasting ==
  ASSUME TypeOK, TypeOK', NEW a \in Account, NEW from \in Periods, NEW to \in Periods,
         NEW n \in Nat, Rebond(a, from, to, n)
  PROVE  Lasting
<1> DEFINE j == <<a, from>>
           k == <<a, to>>
           v == Unlocked(a, from) - n
           u == [stake EXCEPT ![j] = v]
           left == LocksLeft(a, from)
           until == <<a, to, LockUntil(from, to)>>
<1>1. /\ now' = now /\ wallet' = wallet /\ claims' = claims
      /\ stake' = [stake EXCEPT ![j] = v, ![k] = IF from < to THEN @ + n ELSE @]
      /\ locked' = IF from < to THEN left ELSE [left EXCEPT ![until] = @ + n]
      /\ from # to /\ n <= Unlocked(a, from)
  BY DEF Rebond, CanRelease
<1>2. /\ stake \in [StakeKeys -> Nat] /\ stake' \in [StakeKeys -> Nat]
      /\ locked \in [LockKeys -> Nat] /\ locked' \in [LockKeys -> Nat]
      /\ left \in [LockKeys -> Nat] /\ Unlocked(a, from) \in Nat
      /\ j \in StakeKeys /\ k \in StakeKeys /\ j # k
  BY <1>1, UnlockedType DEF TypeOK, StakeKeys, LockKeys, Times
<1>3. v \in Nat
  BY <1>1, <1>2
<1>4. from \in Nat /\ to \in Nat /\ now \in Nat /\ now + from <= Horizon
  <2>1. now \in 0..MaxTime /\ from \in Nat /\ to \in Nat /\ MaxTime + from <= Horizon
    BY DEF TypeOK
  <2> QED BY <2>1
<1>5. /\ u \in [StakeKeys -> Nat] /\ u[j] = v
      /\ \A x \in StakeKeys \ {j} : u[x] = stake[x]
      /\ \A x \in StakeKeys \ {k} : u[x] = stake'[x]
      /\ stake'[k] = u[k] + (IF from < to THEN n ELSE 0)
  <2> HIDE DEF j, k, v
  <2>1. /\ u \in [StakeKeys -> Nat] /\ u[j] = v
        /\ \A x \in StakeKeys \ {j} : u[x] = stake[x]
    BY <1>2, <1>3
  <2>2. /\ stake'[j] = v
        /\ \A x \in StakeKeys \ {j, k} : stake'[x] = stake[x]
        /\ stake'[k] = IF from < to THEN stake[k] + n ELSE stake[k]
    BY <1>1, <1>2
  <2>3. stake[k] \in Nat /\ u[k] = stake[k]
    BY <1>2
  <2> HIDE DEF u
  <2>4. stake'[k] = u[k] + (IF from < to THEN n ELSE 0)
    BY <2>2, <2>3
  <2>5. \A x \in StakeKeys \ {k} : u[x] = stake'[x]
    BY <2>1, <2>2
  <2> QED BY <2>1, <2>4, <2>5
<1>6. ASSUME ~(from < to)
      PROVE  /\ until \in LockKeys /\ locked'[until] = left[until] + n
             /\ \A x \in LockKeys \ {until} : left[x] = locked'[x]
  <2>1. until \in LockKeys
    <3>1. LockUntil(from, to) \in Times
      BY <1>4, <1>6 DEF LockUntil, Times
    <3> QED BY <3>1 DEF LockKeys
  <2> HIDE DEF until, left
  <2> QED BY <1>1, <1>2, <1>6, <2>1
<1>7. ASSUME NEW b \in Account, NEW t \in now..Horizon
      PROVE  ReleasableBy(b, t)' <= ReleasableBy(b, t)
  <2>1. CASE b # a
    <3>1. \A x \in StakeKeys : x[1] = b => stake'[x] = stake[x]
      BY <1>5, <2>1
    <3>2. ASSUME NEW l \in LockKeys, l[1] = b PROVE locked'[l] = locked[l]
      <4>1. left[l] = locked[l] /\ l # until
        BY <2>1, <3>2 DEF LocksLeft
      <4> HIDE DEF left, until
      <4> QED BY <1>1, <1>6, <4>1
    <3>3. LeftAlone(b)
      BY <1>1, <3>1, <3>2 DEF LeftAlone
    <3>4. ReleasableBy(b, t)' = ReleasableBy(b, t)
      BY <1>1, <3>3, LeftAloneReleasable
    <3> QED BY <3>4, ReleasableParts
  <2>2. CASE b = a
    <3> DEFINE S == StakesBy(a, now, t)
               L == LocksBy(a, now, t)
               due(p) == IF now + p <= t THEN n ELSE 0
    <3>1. /\ t \in Times /\ now \in Times /\ t \in Nat
          /\ S \in SUBSET StakeKeys /\ L \in SUBSET LockKeys
      BY ReleasableParts, KeysBy DEF Times
    <3>2. Total(u, S) + Total(left, L) = Total(stake, S) + Total(locked, L) - due(from)
      <4>1. /\ u \in [StakeKeys -> Nat] /\ u[<<a, from>>] = Unlocked(a, from) - n
            /\ \A x \in StakeKeys \ {<<a, from>>} : u[x] = stake[x]
        BY <1>5
      <4>2. n <= Unlocked(a, from) /\ TypeOK /\ a \in Account /\ from \in Periods /\ n \in Nat /\ t \in now..Horizon
        BY <1>1
      <4> HIDE DEF u
      <4> QED BY ONLY <4>1, <4>2, FreedReleasable
    <3>3. Total(u, S) \in Nat /\ Total(left, L) \in Nat /\ Total(stake, S) \in Nat /\ Total(locked, L) \in Nat
      BY <1>2, <1>5, <3>1, StakeKeysFinite, LockKeysFinite, TotalOfPart
    <3>4. (k \in S <=> now + to <= t)
      BY DEF StakesBy
    <3>5. Total(stake', S) = Total(u, S) + (IF k \in S THEN (IF from < to THEN n ELSE 0) ELSE 0)
      <4> DEFINE m == IF from < to THEN n ELSE 0
      <4>1. stake'[k] = u[k] + m /\ m \in Int
        BY <1>5
      <4> HIDE DEF m, u, k, S
      <4>2. Total(stake', S) = Total(u, S) + (IF k \in S THEN m ELSE 0)
        <5> DEFINE g == stake'
        <5>1. /\ g \in [StakeKeys -> Nat] /\ g[k] = u[k] + m
              /\ \A x \in StakeKeys \ {k} : u[x] = g[x]
          BY <1>2, <1>5, <4>1
        <5> HIDE DEF g
        <5>2. Total(g, S) = Total(u, S) + (IF k \in S THEN m ELSE 0)
          <6>1. /\ IsFiniteSet(StakeKeys) /\ u \in [StakeKeys -> Nat] /\ S \in SUBSET StakeKeys
                /\ k \in StakeKeys /\ m \in Int
            BY <1>2, <1>5, <3>1, <4>1, StakeKeysFinite
          <6> QED BY ONLY <5>1, <6>1, TotalPartAddAtOne
        <5> QED BY <5>2 DEF g
      <4> QED BY <4>2 DEF m
    <3>6. /\ ReleasableBy(a, t) = wallet[a] + Total(stake, S) + Total(locked, L)
                + Total(claims, ClaimsBy(a, t))
          /\ wallet[a] \in Nat /\ Total(claims, ClaimsBy(a, t)) \in Nat
      BY ReleasableParts
    <3>7. ReleasableBy(a, t)' = wallet[a] + Total(stake', S) + Total(locked', L)
                + Total(claims, ClaimsBy(a, t))
      BY <1>1, ReleasablePartsNext
    <3> HIDE DEF S, L, u, left
    <3>8. CASE from < to
      <4>1. locked' = left
        BY <1>1, <3>8
      <4>2. Total(stake', S) = Total(u, S) + due(to)
        BY <3>4, <3>5, <3>8
      <4>3. due(to) <= due(from) /\ due(to) \in Nat /\ due(from) \in Nat
        BY <1>4, <3>1, <3>8
      <4> HIDE DEF due
      <4> QED BY ONLY <2>2, <3>2, <3>3, <3>6, <3>7, <4>1, <4>2, <4>3
    <3>9. CASE ~(from < to)
      <4>1. Total(stake', S) = Total(u, S)
        BY <3>3, <3>5, <3>9
      <4>2. Total(locked', L) = Total(left, L) + (IF until \in L THEN n ELSE 0)
        <5> DEFINE g == locked'
        <5>1. /\ g \in [LockKeys -> Nat] /\ until \in LockKeys /\ g[until] = left[until] + n
              /\ \A x \in LockKeys \ {until} : left[x] = g[x]
              /\ n \in Int
          BY <1>2, <1>6, <3>9
        <5> HIDE DEF g, until
        <5>2. Total(g, L) = Total(left, L) + (IF until \in L THEN n ELSE 0)
          <6>1. /\ IsFiniteSet(LockKeys) /\ left \in [LockKeys -> Nat] /\ L \in SUBSET LockKeys
            BY <1>2, <3>1, LockKeysFinite
          <6> QED BY ONLY <5>1, <6>1, TotalPartAddAtOne
        <5> QED BY <5>2 DEF g
      <4>3. until \in L <=> now + from <= t
        <5>1. until \in {a} \X Periods \X Times
          BY <1>6, <3>9 DEF LockKeys
        <5>2. until[2] = to /\ until[3] + to = now + from
          BY <1>4 DEF LockUntil
        <5>3. until \in L <=> now + to <= t /\ now + from <= t
          BY <5>1, <5>2 DEF L, LocksBy
        <5> QED BY <1>4, <3>1, <3>9, <5>3
      <4>4. Total(locked', L) = Total(left, L) + due(from) /\ due(from) \in Nat
        BY <4>2, <4>3
      <4> HIDE DEF due
      <4> QED BY ONLY <2>2, <3>2, <3>3, <3>6, <3>7, <4>1, <4>4
    <3> QED BY <3>8, <3>9
  <2> QED BY <2>1, <2>2
<1> QED
  BY <1>7 DEF Lasting

LEMMA AllLeftAlone ==
  ASSUME TypeOK, TypeOK', UNCHANGED <<now, lpVars>>
  PROVE  Lasting
<1>1. \A a \in Account : LeftAlone(a)
  BY DEF LeftAlone, lpVars
<1>2. now' = now
  OBVIOUS
<1>3. ASSUME NEW a \in Account, NEW t \in now..Horizon
      PROVE  ReleasableBy(a, t)' <= ReleasableBy(a, t)
  <2>1. ReleasableBy(a, t)' = ReleasableBy(a, t)
    BY <1>1, <1>2, LeftAloneReleasable
  <2> QED BY <2>1, ReleasableParts
<1> QED
  BY <1>3 DEF Lasting

LEMMA StakingLasting ==
  ASSUME TypeOK, TypeOK', NEW a \in Account, Staking(a)
  PROVE  unbondAll \/ lpBalance' > lpBalance \/ Lasting
<1>1. ASSUME NEW p \in Periods, NEW n \in 1..wallet[a], NEW shares, MassBond(a, p, n, shares)
      PROVE  lpBalance' > lpBalance
  <2>1. lpBalance' = lpBalance + n /\ lpBalance \in Nat
    BY <1>1 DEF MassBond, TypeOK
  <2> QED BY <2>1
<1>2. ASSUME NEW from \in Periods, NEW to \in Periods, NEW n \in 1..TotalStake(a, from),
             Rebond(a, from, to, n)
      PROVE  Lasting
  BY <1>2, RebondLasting
<1>3. ASSUME NEW p \in Periods, NEW n \in 1..TotalStake(a, p), Unbond(a, p, n)
      PROVE  unbondAll \/ Lasting
  BY <1>3, UnbondLasting
<1>4. ASSUME NEW p \in Periods, NEW n \in 1..TotalStake(a, p), MigrateStake(a, p, n)
      PROVE  Lasting
  BY <1>4, MigrateStakeLasting
<1> QED
  BY <1>1, <1>2, <1>3, <1>4, ClaimLasting DEF Staking, Delegate, MassDelegate

LEMMA NextLasting ==
  ASSUME TypeOK, TypeOK', [Next]_vars
  PROVE  unbondAll \/ Evicting \/ lpBalance' > lpBalance \/ Lasting
<1>1. CASE UNCHANGED vars
  BY <1>1, AllLeftAlone DEF vars
<1>2. CASE Tick
  BY <1>2, TickLasting
<1>3. CASE Rewarding
  BY <1>3, AllLeftAlone DEF Rewarding, FundDistribution, SendRewards, DistributeRewards,
                            WithdrawRewards, DelegateWithdrawal
<1>4. ASSUME NEW a \in Account, Governing(a)
      PROVE  Evicting \/ Lasting
  <2>1. ASSUME NEW stakers \in SUBSET Account, QuickUnbond(a, stakers) PROVE Evicting
    BY <2>1 DEF Evicting
  <2>2. ASSUME \/ UnbondAll(a)
               \/ StopUnbondAll(a)
               \/ \E new \in NewAdmins : UpdateAdmin(a, new)
               \/ \E d \in Asset, m \in Multipliers : CreateDistributionFlow(a, d, m)
        PROVE  Lasting
    BY <2>2, AllLeftAlone DEF UnbondAll, StopUnbondAll, UpdateAdmin, CreateDistributionFlow
  <2> QED BY <1>4, <2>1, <2>2 DEF Governing
<1> QED
  BY <1>1, <1>2, <1>3, <1>4, StakingLasting DEF Next

(* Outside unbond-all mode and but for quick unbond, no message brings     *)
(* forward the time by which an account can have its tokens out, whatever  *)
(* the periods and however it rebonds, unbonds and claims.                 *)
THEOREM NoEarlyExitAlways == Spec => NoEarlyExit
<1>1. TypeOK /\ TypeOK' /\ [Next]_vars =>
        [\/ unbondAll \/ Evicting \/ lpBalance' > lpBalance
         \/ \A a \in Account, t \in now..Horizon : ReleasableBy(a, t)' <= ReleasableBy(a, t)]_vars
  BY NextLasting DEF Lasting
<1>2. Spec => []TypeOK
  BY TypeCorrect
<1> QED
  BY <1>1, <1>2, PTL DEF Spec, NoEarlyExit
=============================================================================
