------------------------------- MODULE Stake -------------------------------
(***************************************************************************)
(* The staking contract, contracts/stake/src.  LP tokens (a cw20) are      *)
(* bonded for an unbonding period, the bonded stake earns the rewards of   *)
(* the distributions, and unbonding turns stake into a claim that matures  *)
(* after the period.  One action is one message: the chain executes a      *)
(* message and everything it calls atomically and reverts it on an error   *)
(* or a panic (overflow-checks is on in the release profile), so an error  *)
(* return and an arithmetic panic are both the absence of a step.          *)
(***************************************************************************)
EXTENDS Integers, FiniteSets, TokenUnits

CONSTANTS
  Account,          \* addresses that call the contract
  NONE,             \* an address that is not set (Option::None)
  Periods,          \* Config.unbonding_periods, as a set: all distinct
  MinBond,          \* Config.min_bond
  TokensPerPower,   \* Config.tokens_per_power
  Unbonder,         \* Config.unbonder, or NONE
  HasConverter,     \* whether Config.converter is set
  MaxDistributions, \* Config.max_distributions
  InitialAdmin,     \* the admin set by instantiate, or NONE
  DecimalOne,       \* the denominator of a reward multiplier (cosmwasm_std::Decimal)
  SharesScale,      \* 1 << SHARES_SHIFT
  Asset,            \* reward assets; the staked cw20 is not one of them
  Multipliers,      \* reward multipliers an admin may choose, functions on Periods
  NewAdmins,        \* addresses UpdateAdmin may name
  Delegates,        \* addresses DelegateWithdrawal may name
  Holdings,         \* LP tokens each account owns at the start
  RewardSupply,     \* bound: units of each reward asset that exist outside
  MaxTime,          \* bound: the last block time
  Horizon           \* bound: the last time a lock, claim or curve names

ASSUME AccountAssumption == IsFiniteSet(Account) /\ NONE \notin Account
ASSUME PeriodsAssumption == IsFiniteSet(Periods) /\ Periods \subseteq Nat
ASSUME PowerAssumption == /\ MinBond \in Nat \ {0} /\ TokensPerPower \in Nat \ {0}
                          /\ DecimalOne \in Nat \ {0} /\ SharesScale \in Nat \ {0}
ASSUME RoleAssumption == /\ Unbonder \in Account \cup {NONE}
                         /\ InitialAdmin \in Account \cup {NONE}
                         /\ NewAdmins \subseteq Account \cup {NONE}
                         /\ Delegates \subseteq Account
                         /\ HasConverter \in BOOLEAN
ASSUME RewardAssumption == /\ MaxDistributions \in Nat /\ RewardSupply \in Nat
                           /\ IsFiniteSet(Asset)
                           /\ Multipliers \subseteq [Periods -> Nat]
ASSUME HoldingsAssumption == Holdings \in [Account -> Nat]
ASSUME TimeAssumption == /\ MaxTime \in Nat /\ Horizon \in Nat /\ MaxTime <= Horizon
                         /\ \A p \in Periods : MaxTime + p <= Horizon

VARIABLES
  now,         \* env.block.time, in seconds
  wallet,      \* LP tokens an account holds
  lpBalance,   \* LP tokens this contract holds
  converted,   \* LP tokens handed to the converter on behalf of an account
  stake,       \* STAKE: unlocked BondingInfo.stake by account and period
  locked,      \* STAKE: BondingInfo.locked_tokens by account, period and expiry
  total,       \* TOTAL_PER_PERIOD
  totalStaked, \* TOTAL_STAKED
  claims,      \* CLAIMS by account and release time
  unbondAll,   \* UNBOND_ALL
  admin,       \* ADMIN
  dist,        \* DISTRIBUTION, its keys are the distributions that exist
  curve,       \* REWARD_CURVE, the value at each time
  adjust,      \* WITHDRAW_ADJUSTMENT by account and asset
  delegated,   \* DELEGATED
  rewardPool,  \* reward tokens that were not sent to the contract yet
  rewardBalance \* reward tokens this contract holds

lpVars == <<wallet, lpBalance, converted, stake, locked, total, totalStaked, claims>>
rewardVars == <<dist, curve, adjust, delegated, rewardPool, rewardBalance>>
vars == <<now, lpVars, unbondAll, admin, rewardVars>>

Times == 0..Horizon
StakeKeys == Account \X Periods
LockKeys == Account \X Periods \X Times
ClaimKeys == Account \X Times

----------------------------------------------------------------------------
(* BondingInfo: what an account has bonded for a period *)

(* the tokens of the accounts A bonded for the periods P, locked or not *)
Bonded(A, P) == Total(stake, A \X P) + Total(locked, A \X P \X Times)

TotalStake(a, p) == Bonded({a}, {p})

(* what release_stake can release: unlocked tokens and the locks that expired *)
Unlocked(a, p) == stake[<<a, p>>] + Total(locked, {a} \X {p} \X (0..now))

(* A bug release_stake avoids: measuring the request against locked tokens too *)
CanReleaseLocked(a, p, amount) == amount <= TotalStake(a, p)

CanRelease(a, p, amount) == amount <= Unlocked(a, p)

(* A bug: tokens moved to a shorter period are free to leave at once *)
NoLock(from, to) == now

(* when tokens rebonded to a shorter period unlock *)
LockUntil(from, to) == now + (from - to)

(* A bug: an expired lock is freed and kept *)
LocksLeftExpired(a, p) == [l \in LockKeys |-> locked[l]]

(* the locks left once free_unlocked_tokens moved the expired ones to the stake *)
LocksLeft(a, p) ==
  [l \in LockKeys |-> IF l[1] = a /\ l[2] = p /\ l[3] <= now THEN 0 ELSE locked[l]]

----------------------------------------------------------------------------
(* Powers and totals *)

(* the part of one staker's stake that counts: nothing below min_bond *)
Counted(s) == IF s >= MinBond THEN s ELSE 0

(* A bug: a fraction of a power counts as a whole one for each staker *)
CalcPowerRoundedUp(s, multiplier) ==
  (Counted(s) * multiplier + DecimalOne * TokensPerPower - 1) \div (DecimalOne * TokensPerPower)

CalcPower(s, multiplier) == ((Counted(s) * multiplier) \div DecimalOne) \div TokensPerPower

(* Distribution::calc_rewards_power and Distribution::total_rewards_power *)
RewardsPower(a, d) ==
  Total([p \in Periods |-> CalcPower(TotalStake(a, p), dist[d].multipliers[p])], Periods)
TotalRewardsPower(d) ==
  Total([p \in Periods |-> CalcPower(total[p].powered, dist[d].multipliers[p])], Periods)

(* A bug: the threshold min_bond is forgotten *)
UpdateWithoutThreshold(entry, old, new) ==
  [staked |-> entry.staked + new - old, powered |-> entry.powered + new - old]

(* update_total_stake: what the entry of a period becomes when one staker  *)
(* moves from old to new; its four cases are one difference of Counted     *)
UpdateTotalStake(entry, old, new) ==
  [staked |-> entry.staked + new - old, powered |-> entry.powered + Counted(new) - Counted(old)]

(* no checked_sub or Uint128 subtraction of update_total_stake underflows *)
NoUnderflow(totals) == \A p \in Periods : totals[p].staked >= 0 /\ totals[p].powered >= 0

(* A bug: only a growing power is corrected *)
CorrectedOnGrowth(d, old, new) == IF new > old THEN dist[d].sharesPerPoint * (new - old) ELSE 0

(* apply_points_correction: points a new power must not earn for the past *)
Correction(d, old, new) == dist[d].sharesPerPoint * (new - old)

(* update_rewards for the accounts A in every distribution, by the powers  *)
(* before and after the step; equal powers leave the correction alone      *)
UpdateRewards(A) ==
  adjust' = [k \in Account \X Asset |->
    IF k[1] \in A /\ k[2] \in DOMAIN dist
    THEN [adjust[k] EXCEPT !.correction = @ - Correction(k[2], RewardsPower(k[1], k[2]),
                                                         RewardsPower(k[1], k[2])')]
    ELSE adjust[k]]
----------------------------------------------------------------------------
NoAdjustment == [correction |-> 0, withdrawn |-> 0]

Init ==
  /\ now = 0
  /\ wallet = Holdings
  /\ lpBalance = 0
  /\ converted = [a \in Account |-> 0]
  /\ stake = [k \in StakeKeys |-> 0]
  /\ locked = [l \in LockKeys |-> 0]
  /\ total = [p \in Periods |-> [staked |-> 0, powered |-> 0]]
  /\ totalStaked = [staked |-> 0, unbonding |-> 0]
  /\ claims = [c \in ClaimKeys |-> 0]
  /\ unbondAll = FALSE
  /\ admin = InitialAdmin
  /\ dist = [d \in {} |-> 0]
  /\ curve = [d \in {} |-> 0]
  /\ adjust = [k \in Account \X Asset |-> NoAdjustment]
  /\ delegated = [a \in Account |-> a]
  /\ rewardPool = [d \in Asset |-> RewardSupply]
  /\ rewardBalance = [d \in Asset |-> 0]

(* a block with a later time *)
Tick ==
  /\ now < MaxTime
  /\ now' = now + 1
  /\ UNCHANGED <<lpVars, unbondAll, admin, rewardVars>>
----------------------------------------------------------------------------
(* Bonding *)

(* execute_mass_bond: s sent `sent` tokens, account a is credited shares[a] *)
MassBond(s, p, sent, shares) ==
  /\ ~unbondAll
  /\ p \in Periods
  /\ sent <= wallet[s]
  /\ Total(shares, Account) <= sent
  /\ wallet' = [wallet EXCEPT ![s] = @ - sent]
  /\ lpBalance' = lpBalance + sent
  /\ stake' = [k \in StakeKeys |-> IF k[2] = p THEN stake[k] + shares[k[1]] ELSE stake[k]]
  /\ total' = [total EXCEPT ![p] =
       [staked |-> @.staked + Total(shares, Account),
        powered |-> @.powered + Total([a \in Account |->
           Counted(TotalStake(a, p) + shares[a]) - Counted(TotalStake(a, p))], Account)]]
  /\ totalStaked' = [totalStaked EXCEPT !.staked = @ + sent]
  /\ UNCHANGED <<now, converted, locked, claims, unbondAll, admin,
                 dist, curve, delegated, rewardPool, rewardBalance>>
  /\ UpdateRewards(Account)

(* ReceiveMsg::Delegate, with delegate_as = b *)
Delegate(s, p, amount, b) ==
  MassBond(s, p, amount, [a \in Account |-> IF a = b THEN amount ELSE 0])

(* ReceiveMsg::MassDelegate *)
MassDelegate(s, p, sent, shares) == MassBond(s, p, sent, shares)

Rebond(a, from, to, amount) ==
  /\ ~unbondAll
  /\ amount # 0
  /\ from # to
  /\ from \in Periods /\ to \in Periods
  /\ CanRelease(a, from, amount)
  /\ stake' = [stake EXCEPT ![<<a, from>>] = Unlocked(a, from) - amount,
                            ![<<a, to>>] = IF from < to THEN @ + amount ELSE @]
  /\ locked' = IF from < to THEN LocksLeft(a, from)
               ELSE [LocksLeft(a, from) EXCEPT ![<<a, to, LockUntil(from, to)>>] = @ + amount]
  /\ total' = [total EXCEPT
       ![from] = UpdateTotalStake(@, TotalStake(a, from), TotalStake(a, from) - amount),
       ![to] = UpdateTotalStake(@, TotalStake(a, to), TotalStake(a, to) + amount)]
  /\ NoUnderflow(total')
  /\ UNCHANGED <<now, wallet, lpBalance, converted, totalStaked, claims, unbondAll, admin,
                 dist, curve, delegated, rewardPool, rewardBalance>>
  /\ UpdateRewards({a})

(* remove_stake_without_total: changes stake, locked, total and adjust *)
RemoveStake(a, p, amount) ==
  /\ p \in Periods
  /\ CanRelease(a, p, amount)
  /\ stake' = [stake EXCEPT ![<<a, p>>] = Unlocked(a, p) - amount]
  /\ locked' = LocksLeft(a, p)
  /\ total' = [total EXCEPT ![p] =
                 UpdateTotalStake(@, TotalStake(a, p), TotalStake(a, p) - amount)]
  /\ NoUnderflow(total')
  /\ UNCHANGED <<dist, curve, delegated, rewardPool, rewardBalance>>
  /\ UpdateRewards({a})

(* while the flag UNBOND_ALL is set the tokens are sent at once, without a claim *)
Unbond(a, p, amount) ==
  /\ RemoveStake(a, p, amount)
  /\ IF unbondAll
     THEN /\ amount <= lpBalance
          /\ lpBalance' = lpBalance - amount
          /\ wallet' = [wallet EXCEPT ![a] = @ + amount]
          /\ totalStaked' = [totalStaked EXCEPT !.staked = SaturatingSub(@, amount)]
          /\ UNCHANGED claims
     ELSE /\ claims' = [claims EXCEPT ![<<a, now + p>>] = @ + amount]
          /\ totalStaked' = [staked |-> SaturatingSub(totalStaked.staked, amount),
                             unbonding |-> totalStaked.unbonding + amount]
          /\ UNCHANGED <<wallet, lpBalance>>
  /\ UNCHANGED <<now, converted, unbondAll, admin>>

(* the claims of a that matured *)
Matured(a) == Total(claims, {a} \X (0..now))

ClaimsLeft(a) == [c \in ClaimKeys |-> IF c[1] = a /\ c[2] <= now THEN 0 ELSE claims[c]]

Claim(a) ==
  /\ Matured(a) # 0
  /\ Matured(a) <= lpBalance
  /\ claims' = ClaimsLeft(a)
  /\ totalStaked' = [totalStaked EXCEPT !.unbonding = SaturatingSub(@, Matured(a))]
  /\ lpBalance' = lpBalance - Matured(a)
  /\ wallet' = [wallet EXCEPT ![a] = @ + Matured(a)]
  /\ UNCHANGED <<now, converted, stake, locked, total, unbondAll, admin, rewardVars>>

(* MigrateStake transfers the tokens to the converter and calls Convert on it *)
MigrateStake(a, p, amount) ==
  /\ HasConverter
  /\ RemoveStake(a, p, amount)
  /\ amount <= lpBalance
  /\ totalStaked' = [totalStaked EXCEPT !.staked = SaturatingSub(@, amount)]
  /\ lpBalance' = lpBalance - amount
  /\ converted' = [converted EXCEPT ![a] = @ + amount]
  /\ UNCHANGED <<now, wallet, claims, unbondAll, admin>>

(* What quick unbond pays out: all the stake and all the claims of the accounts A *)
Payout(A) == Bonded(A, Periods) + Total(claims, A \X Times)

(* The totals of a period are updated once, with the sum over all stakers *)
QuickUnbond(s, stakers) ==
  /\ s = Unbonder
  /\ Payout(stakers) <= lpBalance
  /\ stake' = [k \in StakeKeys |-> IF k[1] \in stakers THEN 0 ELSE stake[k]]
  /\ locked' = [l \in LockKeys |-> IF l[1] \in stakers THEN 0 ELSE locked[l]]
  /\ claims' = [c \in ClaimKeys |-> IF c[1] \in stakers THEN 0 ELSE claims[c]]
  /\ total' = [p \in Periods |-> UpdateTotalStake(total[p], Bonded(stakers, {p}), 0)]
  /\ NoUnderflow(total')
  /\ totalStaked' = [staked |-> totalStaked.staked - Bonded(stakers, Periods),
                     unbonding |-> totalStaked.unbonding - Total(claims, stakers \X Times)]
  /\ totalStaked'.staked >= 0 /\ totalStaked'.unbonding >= 0
  /\ lpBalance' = lpBalance - Payout(stakers)
  /\ wallet' = [a \in Account |-> IF a \in stakers THEN wallet[a] + Payout({a}) ELSE wallet[a]]
  /\ UNCHANGED <<now, converted, unbondAll, admin, dist, curve, delegated,
                 rewardPool, rewardBalance>>
  /\ UpdateRewards(stakers)
----------------------------------------------------------------------------
(* Roles *)

UnbondAll(s) ==
  /\ s = Unbonder
  /\ ~unbondAll
  /\ unbondAll' = TRUE
  /\ UNCHANGED <<now, lpVars, admin, rewardVars>>

StopUnbondAll(s) ==
  /\ s = Unbonder \/ s = admin
  /\ unbondAll
  /\ unbondAll' = FALSE
  /\ UNCHANGED <<now, lpVars, admin, rewardVars>>

UpdateAdmin(s, new) ==
  /\ s = admin
  /\ admin' = new
  /\ UNCHANGED <<now, lpVars, unbondAll, rewardVars>>
----------------------------------------------------------------------------
(* Rewards *)

Extend(f, d, v) == [x \in DOMAIN f \cup {d} |-> IF x = d THEN v ELSE f[x]]

CreateDistributionFlow(s, d, multipliers) ==
  /\ s = admin
  /\ \A p, q \in Periods : p < q => multipliers[p] <= multipliers[q]
  /\ Cardinality(DOMAIN dist) < MaxDistributions
  /\ d \notin DOMAIN dist
  /\ dist' = Extend(dist, d, [multipliers |-> multipliers, sharesPerPoint |-> 0, leftover |-> 0,
                              distributed |-> 0, withdrawable |-> 0])
  /\ curve' = Extend(curve, d, [t \in Times |-> 0])
  /\ UNCHANGED <<now, lpVars, unbondAll, admin, adjust, delegated, rewardPool, rewardBalance>>

(* Curve::saturating_linear((start, amount), (end, 0)) of wynd_curve_utils *)
Schedule(start, end, amount) ==
  [t \in Times |-> IF t <= start THEN amount
                   ELSE IF t >= end THEN 0
                   ELSE amount - (amount * (t - start)) \div (end - start)]

(* FundDistribution (native funds) and ReceiveMsg::Fund (cw20): `sent` tokens *)
(* arrive and `amount` of them unlock linearly between start and end          *)
FundDistribution(d, sent, amount, start, end) ==
  /\ ~unbondAll
  /\ start >= now
  /\ d \in DOMAIN dist
  /\ amount <= sent
  /\ sent <= rewardPool[d]
  /\ curve' = [curve EXCEPT ![d] = [t \in Times |-> @[t] + Schedule(start, end, amount)[t]]]
  /\ rewardPool' = [rewardPool EXCEPT ![d] = @ - sent]
  /\ rewardBalance' = [rewardBalance EXCEPT ![d] = @ + sent]
  /\ UNCHANGED <<now, lpVars, unbondAll, admin, dist, adjust, delegated>>

(* a plain transfer of reward tokens to the contract *)
SendRewards(d, amount) ==
  /\ amount <= rewardPool[d]
  /\ rewardPool' = [rewardPool EXCEPT ![d] = @ - amount]
  /\ rewardBalance' = [rewardBalance EXCEPT ![d] = @ + amount]
  /\ UNCHANGED <<now, lpVars, unbondAll, admin, dist, curve, adjust, delegated>>

(* A bug: what the curve still locks is handed out *)
UndistributedWithLocked(d, balance) == balance - dist[d].withdrawable

(* what execute_distribute_rewards finds to distribute *)
Undistributed(d, balance) == balance - dist[d].withdrawable - curve[d][now]

(* a distribution after `amount` was shared out between the points in play *)
Distributed(r, power, amount) ==
  LET points == amount * SharesScale + r.leftover
  IN  [r EXCEPT !.sharesPerPoint = @ + points \div power,
                !.leftover = points % power,
                !.distributed = @ + amount,
                !.withdrawable = @ + amount]

(* the message may carry n tokens of f, which must be the asset of a distribution *)
DistributeRewards(f, n) ==
  LET balance == [rewardBalance EXCEPT ![f] = @ + n] IN
  /\ ~unbondAll
  /\ n <= rewardPool[f]
  /\ n # 0 => f \in DOMAIN dist
  /\ \A d \in DOMAIN dist : TotalRewardsPower(d) # 0 => Undistributed(d, balance[d]) >= 0
  /\ dist' = [d \in DOMAIN dist |->
       IF TotalRewardsPower(d) = 0 \/ Undistributed(d, balance[d]) = 0 THEN dist[d]
       ELSE Distributed(dist[d], TotalRewardsPower(d), Undistributed(d, balance[d]))]
  /\ rewardBalance' = balance
  /\ rewardPool' = [rewardPool EXCEPT ![f] = @ - n]
  /\ UNCHANGED <<now, lpVars, unbondAll, admin, curve, adjust, delegated>>

(* the points a has earned in d since it first staked, and its rewards left to withdraw *)
Points(a, d) == dist[d].sharesPerPoint * RewardsPower(a, d) + adjust[<<a, d>>].correction
WithdrawableRewards(a, d) == Points(a, d) \div SharesScale - adjust[<<a, d>>].withdrawn

(* a negative number of points would be read as a huge u128 and panic later on *)
WithdrawRewards(s, owner) ==
  /\ s \in {owner, delegated[owner]}
  /\ \A d \in DOMAIN dist : /\ Points(owner, d) >= 0
                            /\ WithdrawableRewards(owner, d) >= 0
                            /\ WithdrawableRewards(owner, d) <= dist[d].withdrawable
                            /\ WithdrawableRewards(owner, d) <= rewardBalance[d]
  /\ adjust' = [k \in Account \X Asset |->
       IF k[1] = owner /\ k[2] \in DOMAIN dist
       THEN [adjust[k] EXCEPT !.withdrawn = @ + WithdrawableRewards(owner, k[2])]
       ELSE adjust[k]]
  /\ dist' = [d \in DOMAIN dist |->
       [dist[d] EXCEPT !.withdrawable = @ - WithdrawableRewards(owner, d)]]
  /\ rewardBalance' = [d \in Asset |->
       IF d \in DOMAIN dist THEN rewardBalance[d] - WithdrawableRewards(owner, d)
       ELSE rewardBalance[d]]
  /\ UNCHANGED <<now, lpVars, unbondAll, admin, curve, delegated, rewardPool>>

DelegateWithdrawal(s, to) ==
  /\ delegated' = [delegated EXCEPT ![s] = to]
  /\ UNCHANGED <<now, lpVars, unbondAll, admin, dist, curve, adjust, rewardPool, rewardBalance>>
----------------------------------------------------------------------------
Staking(a) ==
  \/ \E p \in Periods, n \in 1..wallet[a], b \in Account : Delegate(a, p, n, b)
  \/ \E p \in Periods, n \in 1..wallet[a] :
       \E shares \in [Account -> 0..n] : MassDelegate(a, p, n, shares)
  \/ \E from, to \in Periods : \E n \in 1..TotalStake(a, from) : Rebond(a, from, to, n)
  \/ \E p \in Periods : \E n \in 1..TotalStake(a, p) : Unbond(a, p, n)
  \/ \E p \in Periods : \E n \in 1..TotalStake(a, p) : MigrateStake(a, p, n)
  \/ Claim(a)

Governing(a) ==
  \/ \E stakers \in SUBSET Account : QuickUnbond(a, stakers)
  \/ UnbondAll(a)
  \/ StopUnbondAll(a)
  \/ \E new \in NewAdmins : UpdateAdmin(a, new)
  \/ \E d \in Asset, multipliers \in Multipliers : CreateDistributionFlow(a, d, multipliers)

Rewarding ==
  \/ \E d \in Asset : \E sent \in 1..rewardPool[d] : \E amount \in 1..sent :
       \E start \in now..MaxTime : \E end \in (start + 1)..Horizon :
         FundDistribution(d, sent, amount, start, end)
  \/ \E d \in Asset : \E amount \in 1..rewardPool[d] : SendRewards(d, amount)
  \/ \E d \in Asset : \E n \in 0..rewardPool[d] : DistributeRewards(d, n)
  \/ \E s, owner \in Account : WithdrawRewards(s, owner)
  \/ \E s \in Account, to \in Delegates : DelegateWithdrawal(s, to)

Next == Tick \/ Rewarding \/ \E a \in Account : Staking(a) \/ Governing(a)

Spec == Init /\ [][Next]_vars
----------------------------------------------------------------------------
(* The types of the state; every amount is a natural number, which in the   *)
(* code is that no Uint128 underflows.                                      *)
Distribution == [multipliers : [Periods -> Nat], sharesPerPoint : Nat, leftover : Nat,
                 distributed : Nat, withdrawable : Nat]

TypeOK ==
  /\ now \in 0..MaxTime
  /\ wallet \in [Account -> Nat]
  /\ lpBalance \in Nat
  /\ converted \in [Account -> Nat]
  /\ stake \in [StakeKeys -> Nat]
  /\ locked \in [LockKeys -> Nat]
  /\ total \in [Periods -> [staked : Nat, powered : Nat]]
  /\ totalStaked \in [staked : Nat, unbonding : Nat]
  /\ claims \in [ClaimKeys -> Nat]
  /\ unbondAll \in BOOLEAN
  /\ admin \in Account \cup {NONE}
  /\ DOMAIN dist \subseteq Asset
  /\ dist \in [DOMAIN dist -> Distribution]
  /\ curve \in [DOMAIN dist -> [Times -> Nat]]
  /\ adjust \in [Account \X Asset -> [correction : Int, withdrawn : Nat]]
  /\ delegated \in [Account -> Account]
  /\ rewardPool \in [Asset -> Nat]
  /\ rewardBalance \in [Asset -> Nat]

(* The LP tokens the contract holds are the ones TOTAL_STAKED accounts for:  *)
(* the claims are exactly its `unbonding`, and the stakes are covered by its *)
(* `staked`, whatever order bonds, unbonds, claims and migrations come in.   *)
AllBonded == Total(stake, StakeKeys) + Total(locked, LockKeys)
AllClaimed == Total(claims, ClaimKeys)

Custody ==
  /\ lpBalance = totalStaked.staked + totalStaked.unbonding
  /\ totalStaked.unbonding = AllClaimed
  /\ totalStaked.staked >= AllBonded

(* TOTAL_PER_PERIOD is what its comment says: per period the sum of the      *)
(* stakes, and the sum of the stakes of at least min_bond.                   *)
PeriodTotals ==
  \A p \in Periods :
    LET stakes == [a \in Account |-> TotalStake(a, p)]
    IN  /\ total[p].staked = Total(stakes, Account)
        /\ total[p].powered = Total(stakes, {a \in Account : stakes[a] >= MinBond})

(* Only the unbonder lets tokens leave early: what an account can have in    *)
(* its wallet by time t, by unbonding as soon as it may, never grows except  *)
(* by bonding, in unbond-all mode and by quick unbond.                       *)
ReleasableBy(a, t) ==
  wallet[a] + Total(stake, {a} \X {p \in Periods : now + p <= t})
            + Total(locked, {l \in {a} \X Periods \X Times :
                               now + l[2] <= t /\ l[3] + l[2] <= t})
            + Total(claims, {a} \X (0..t))

Evicting == \E s \in Account, stakers \in SUBSET Account : QuickUnbond(s, stakers)

NoEarlyExit ==
  [][\/ unbondAll \/ Evicting \/ lpBalance' > lpBalance
     \/ \A a \in Account, t \in now..Horizon : ReleasableBy(a, t)' <= ReleasableBy(a, t)]_vars

(* The stakers never have more power together than the total that a          *)
(* distribution divides by, so no point is promised twice.                   *)
PowersCovered ==
  \A d \in DOMAIN dist :
    Total([a \in Account |-> RewardsPower(a, d)], Account) <= TotalRewardsPower(d)

(* Every staker can withdraw what it earned, in any order: the rewards owed  *)
(* are withdrawable, and the contract holds them and all that the curves     *)
(* still lock, so neither withdrawing nor distributing ever panics.          *)
RewardsSolvent ==
  \A d \in DOMAIN dist :
    /\ \A a \in Account : Points(a, d) >= 0 /\ WithdrawableRewards(a, d) >= 0
    /\ Total([a \in Account |-> WithdrawableRewards(a, d)], Account) <= dist[d].withdrawable
    /\ dist[d].withdrawable + curve[d][now] <= rewardBalance[d]

(* A staker earns exactly its power times the growth of shares_per_point:    *)
(* bonding, unbonding, rebonding, quick unbond and migration never change    *)
(* what anyone has earned so far.                                            *)
EarnsByPower ==
  [][\A d \in DOMAIN dist, a \in Account :
       Points(a, d)' = Points(a, d)
         + (dist'[d].sharesPerPoint - dist[d].sharesPerPoint) * RewardsPower(a, d)]_vars
----------------------------------------------------------------------------
(* The contract as an escrow of LP tokens (module StakeEscrow) *)
Escrow == INSTANCE StakeEscrow WITH
  vault <- lpBalance,
  bonded <- [a \in Account |-> Bonded({a}, Periods)],
  leaving <- [a \in Account |-> Total(claims, {a} \X Times)],
  stranded <- totalStaked.staked - AllBonded

(* Whatever happens to periods, locks and totals, the tokens move as the     *)
(* escrow says: an account's tokens leave only to itself or, when it         *)
(* migrates, to the converter.                                               *)
ImplementsEscrow == Escrow!Spec
============================================================================
