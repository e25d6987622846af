------------------------------ MODULE PairLsd ------------------------------
(***************************************************************************)
(* The stableswap pair of an asset and its liquid staking derivative,      *)
(* contracts/pair_lsd/src.  Its curve is amplified (Amplification) around  *)
(* the target rate of the derivative, which the pair asks a hub for at     *)
(* most once per epoch, inside whatever message needs it.                  *)
(*                                                                         *)
(* Users are one party where only what is paid out matters; ownership is   *)
(* told apart.  What the hub answers and what the factory charges for this *)
(* type of pair are free in every message.  Transfers of nothing fail.     *)
(***************************************************************************)
EXTENDS Amplification

CONSTANTS
  Users,           \* who may own the pair
  FactoryOwner,    \* the factory's Config.owner
  InitialOwners,   \* StablePoolParams.owner, or NONE
  MaxProposalTtl,  \* MAX_PROPOSAL_TTL
  RateEpochs,      \* values of LsdData.target_rate_epoch
  HubRates,        \* target rates the hub may answer with
  MinLiquidity,    \* MINIMUM_LIQUIDITY_AMOUNT
  DefaultSlippage, \* DEFAULT_SLIPPAGE
  MaxSlippage,     \* MAX_ALLOWED_SLIPPAGE
  FeeConfigs,      \* fee configs of the pair, [total, protocol]
  FactoryRates,    \* total fee rates the factory may have for this type of pair
  HasFeeAddress,   \* whether the factory's Config.fee_address is set
  MaxReferral,     \* the factory's Config.max_referral_commission
  TradingStarts,   \* Config.trading_starts
  PricePrecision,  \* 10^TWAP_PRECISION
  Modulus,         \* 2^128: cumulative prices wrap around
  Deposits,        \* deposits of the two assets, as sequences of two amounts
  Withdrawals,     \* what imbalanced withdrawals ask for, likewise
  Burns,           \* LP tokens sent in for a balanced withdrawal
  Offers,          \* amounts offered in swaps
  Beliefs,         \* belief prices users state, or NONE
  Spreads,         \* maximum spreads users state, or NONE
  Referrals,       \* referral commissions users ask for
  MaxMessages      \* bound: messages of users that move tokens

ASSUME OwnerAssumption == /\ FactoryOwner \in Users /\ NONE \notin Users
                          /\ InitialOwners \subseteq Users \cup {NONE} /\ InitialOwners # {}
                          /\ MaxProposalTtl \in Nat
ASSUME RateAssumption == RateEpochs \subseteq Nat /\ RateEpochs # {} /\ HubRates \subseteq Nat \ {0} /\ HubRates # {}
ASSUME FeeAssumption == /\ FeeConfigs \subseteq [total : 0..DecimalOne, protocol : 0..DecimalOne]
                        /\ FeeConfigs # {}
                        /\ FactoryRates \subseteq 0..DecimalOne
ASSUME AmountAssumption == /\ Deposits \cup Withdrawals \subseteq [Assets -> Nat]
                           /\ Burns \cup Offers \cup Referrals \subseteq Nat
                           /\ MaxReferral \in 0..DecimalOne
ASSUME PositiveAssumption == {MinLiquidity, PricePrecision, Modulus} \subseteq Nat \ {0}
                             /\ MaxMessages \in Nat

VARIABLES
  owner,      \* Config.owner, or NONE
  proposal,   \* OWNERSHIP_PROPOSAL, or NONE
  frozen,     \* FROZEN
  breaker,    \* whether CIRCUIT_BREAKER is set
  rate,       \* LsdData: target_rate, target_rate_epoch and last_target_query
  pool,       \* the balance the pair holds of asset 1 and asset 2
  lp,         \* the LP tokens that the users and the pair itself hold
  oracle,     \* last_price, or NONE before it is initialised, and the block of it
  cumulative, \* block_time_last and the cumulative price in either direction
  fees,       \* pair_info.fee_config
  toMigrate,  \* whether the factory lists the pair in PAIRS_TO_MIGRATE
  messages    \* how many messages have moved tokens (for the bound only)

access == <<owner, proposal, frozen, breaker, toMigrate>>
books == <<rate, pool, lp, oracle, cumulative, messages>>
vars == <<ampVars, access, books, fees>>

supply == lp.users + lp.pair

FromRatio(a, b) == (a * DecimalOne) \div b
Scaled(n, decimal) == (n * decimal) \div DecimalOne

(* compute_d of pools in base units, at the amplification of this block; the *)
(* pools of deposits and withdrawals are not put at the target rate          *)
D(p) == ComputeD(CurrentAmp, Atomics(p))
----------------------------------------------------------------------------
(* What every change of the pools records *)

(* A bug: a rate is asked for again only after its epoch has passed *)
OutdatedLate == LsdAsset # NONE /\ now > rate.queried + rate.epoch

Outdated == LsdAsset # NONE /\ now >= rate.queried + rate.epoch

(* A bug: the time of the next query is stored for that of the last *)
RefreshedUntil(answer) ==
  IF Outdated THEN [rate EXCEPT !.target = answer, !.queried = now + rate.epoch] ELSE rate

(* update_target_rate, in memory *)
Refreshed(answer) == IF Outdated THEN [rate EXCEPT !.target = answer, !.queried = now] ELSE rate

(* store_oracle_price: it needs an initialised oracle, and the first time in *)
(* a block the inverse of the last price                                     *)
StorePrice(price) ==
  /\ price # NONE /\ oracle.price # NONE
  /\ now > oracle.block => oracle.price > 0
  /\ oracle' = [price |-> price, block |-> now]

(* initialize_oracle *)
InitializePrice(price) == price # NONE /\ oracle' = [price |-> price, block |-> now]

(* calc_new_price_a_per_b: what a token of the second asset buys of the first *)
PriceOf(p, target) == SpotPrice(2, Atomics(p), CurrentAmp, target)

(* accumulate_prices of pools p at this moment, or NONE if a price cannot be *)
(* computed                                                                  *)
CumulativeNow(p, target) ==
  LET price(i) == SpotPrice(i, Atomics(p), CurrentAmp, target)
      elapsed == now - cumulative.last
  IN IF now <= cumulative.last THEN cumulative
     ELSE IF p[1] = 0 \/ p[2] = 0 THEN [cumulative EXCEPT !.last = now]
     ELSE IF \E i \in Assets : price(i) = NONE THEN NONE
     ELSE [last |-> now,
           price |-> [i \in Assets |-> (cumulative.price[i]
                        + elapsed * ((price(i) * PricePrecision) \div One)) % Modulus]]

(* A bug: the config is only saved when prices were accumulated *)
SaveOfPrices(old, quoted) ==
  LET after == CumulativeNow(old, quoted.target) IN
  /\ after # NONE
  /\ IF now > cumulative.last
     THEN cumulative' = after /\ rate' = quoted
     ELSE UNCHANGED <<cumulative, rate>>

(* the config is saved if prices were accumulated or the rate was refreshed *)
SaveConfig(old, quoted) ==
  LET after == CumulativeNow(old, quoted.target) IN
  /\ after # NONE
  /\ IF now > cumulative.last \/ Outdated
     THEN cumulative' = after /\ rate' = quoted
     ELSE UNCHANGED <<cumulative, rate>>
----------------------------------------------------------------------------
Init ==
  /\ AmpInit
  /\ owner \in InitialOwners
  /\ proposal = NONE
  /\ frozen = FALSE /\ breaker = FALSE /\ toMigrate = FALSE
  /\ \E epoch \in RateEpochs : rate = [target |-> DecimalOne, queried |-> 0, epoch |-> epoch]
  /\ pool = [i \in Assets |-> 0]
  /\ lp = [users |-> 0, pair |-> 0]
  /\ oracle = [price |-> NONE, block |-> 0]
  /\ cumulative = [last |-> 0, price |-> [i \in Assets |-> 0]]
  /\ fees \in FeeConfigs
  /\ messages = 0

Tick == AmpTick /\ UNCHANGED <<access, books, fees>>
----------------------------------------------------------------------------
(* Liquidity *)

(* the fee on the distance of each pool from the ideal one, in proportion to *)
(* the change of D; a fee above the pool is a panic, here a negative pool    *)
AfterFee(old, new, oldD, newD, factoryRate) ==
  LET fee == Times(factoryRate, FromRatio(2, 4))
      ideal(i) == (newD * old[i] * Fine) \div oldD
  IN [i \in Assets |-> new[i] * Fine - Times(fee, Distance(ideal(i), new[i] * Fine))]

(* the LP tokens minted for a deposit that is not the first: none, which is  *)
(* refused, where the code panics                                            *)
ShareOf(old, new, factoryRate) ==
  LET left == AfterFee(old, new, D(old), D(new), factoryRate)
      after == ComputeD(CurrentAmp, left)
  IN IF (\E i \in Assets : left[i] < 0) \/ after = NONE THEN 0
     ELSE ((supply * Fine * Without(after, D(old))) \div D(old)) \div Fine

(* provide_liquidity *)
ProvideLiquidity(deposits, answer, factoryRate) ==
  LET new == [i \in Assets |-> pool[i] + deposits[i]]
      quoted == Refreshed(answer)
      first == D(new) \div Fine - MinLiquidity
      share == ShareOf(pool, new, factoryRate)
  IN /\ ~toMigrate /\ ~frozen
     /\ \E i \in Assets : deposits[i] # 0
     /\ \A i \in Assets : new[i] # 0
     /\ \/ /\ supply = 0
           /\ NONE \notin {D(pool), D(new)}
           /\ first > 0
           /\ lp' = [users |-> first, pair |-> MinLiquidity]
           /\ InitializePrice(PriceOf(new, quoted.target))
        \/ /\ supply # 0
           /\ D(pool) \notin {0, NONE} /\ D(new) # NONE
           /\ share > 0
           /\ lp' = [lp EXCEPT !.users = @ + share]
           /\ StorePrice(PriceOf(new, quoted.target))
     /\ SaveConfig(pool, quoted)
     /\ pool' = new
     /\ UNCHANGED <<ampVars, access, fees>>

(* get_share_in_assets *)
Refund(i, burn) == IF supply = 0 THEN 0 ELSE Scaled(pool[i], FromRatio(burn, supply))

(* withdraw_liquidity without assets *)
WithdrawLiquidity(burn, answer) ==
  LET new == [i \in Assets |-> pool[i] - Refund(i, burn)]
      quoted == Refreshed(answer)
  IN /\ ~toMigrate
     /\ \A i \in Assets : Refund(i, burn) # 0
     /\ StorePrice(PriceOf(new, quoted.target))
     /\ SaveConfig(pool, quoted)
     /\ pool' = new
     /\ lp' = [lp EXCEPT !.users = @ - burn]
     /\ UNCHANGED <<ampVars, access, fees>>

(* A bug: the part of D withdrawn is taken of what is left of it *)
BurnOfRest(old, new, factoryRate) == (supply * Without(D(old), D(new))) \div (D(old) + D(new))

(* imbalanced_withdraw: the LP tokens to burn, or NONE if it fails *)
BurnFor(old, new, factoryRate) ==
  LET left == AfterFee(old, new, D(old), D(new), factoryRate)
      after == ComputeD(CurrentAmp, left)
  IN IF (\E i \in Assets : left[i] < 0) \/ after = NONE THEN NONE
     ELSE IF after > D(old) THEN NONE
     ELSE (supply * (D(old) - after)) \div D(old) + 1

(* withdraw_liquidity with assets, listed in the pair's order or the other  *)
(* way round.  The LP tokens not needed return.  The pools reported to the  *)
(* oracle are paired with the list by position; a list of one asset cannot  *)
(* be priced, and neither asset may be asked for in vain.                   *)
WithdrawImbalanced(asked, listed, answer, factoryRate) ==
  LET new == [i \in Assets |-> pool[i] - asked[i]]
      reported == [i \in Assets |-> pool[i] - asked[listed[i]]]
      quoted == Refreshed(answer)
      burn == BurnFor(pool, new, factoryRate)
  IN /\ ~toMigrate
     /\ supply # 0 /\ D(pool) \notin {0, NONE}
     /\ \A i \in Assets : asked[i] > 0 /\ new[i] >= 0 /\ reported[i] >= 0
     /\ D(new) # NONE
     /\ burn # NONE
     /\ burn <= lp.users
     /\ StorePrice(PriceOf(reported, quoted.target))
     /\ SaveConfig(pool, quoted)
     /\ pool' = new
     /\ lp' = [lp EXCEPT !.users = @ - burn]
     /\ UNCHANGED <<ampVars, access, fees>>
----------------------------------------------------------------------------
(* Swaps *)

OrElse(option, default) == IF option = NONE THEN default ELSE option

(* assert_max_spread *)
SpreadAccepted(offer, return, spread, belief, maxSpread) ==
  LET limit == OrElse(maxSpread, DefaultSlippage) IN
  /\ limit <= MaxSlippage
  /\ IF belief = NONE
     THEN return + spread > 0 /\ FromRatio(spread, return + spread) <= limit
     ELSE /\ belief > 0
          /\ LET expected == Scaled(offer, (DecimalOne * DecimalOne) \div belief)
             IN  return < expected => FromRatio(expected - return, expected) <= limit

(* calculate_protocol_fee *)
ProtocolFee(commission) == IF HasFeeAddress THEN Scaled(commission, fees.protocol) ELSE 0

(* A bug: the protocol's part of the commission stays in the reported pools *)
PoolsBeforeFee(i, offer, net, protocol) == [pool EXCEPT ![i] = @ + offer, ![Other(i)] = @ - net]

(* the pools swap reports to the oracle *)
PoolsAfterSwap(i, offer, net, protocol) ==
  [pool EXCEPT ![i] = @ + offer, ![Other(i)] = @ - net - protocol]

(* swap: the offer arrives less the referral commission *)
Swap(i, amount, belief, maxSpread, referral, answer) ==
  LET offer == amount - Scaled(amount, referral)
      quoted == Refreshed(answer)
      swap == ComputeSwap(i, offer * Fine, Atomics(pool), CurrentAmp, quoted.target)
      commission == Scaled(swap.return, fees.total)
      net == swap.return - commission
      protocol == ProtocolFee(commission)
  IN /\ ~toMigrate /\ ~frozen
     /\ now >= TradingStarts
     /\ referral <= MaxReferral
     /\ pool[1] # 0 /\ pool[2] # 0 /\ offer # 0
     /\ swap # NONE
     /\ SpreadAccepted(offer, net, swap.spread + commission, belief, maxSpread)
     /\ net # 0
     /\ StorePrice(PriceOf(PoolsAfterSwap(i, offer, net, protocol), quoted.target))
     /\ SaveConfig(pool, quoted)
     /\ pool' = [pool EXCEPT ![i] = @ + offer, ![Other(i)] = @ - net - protocol]
     /\ UNCHANGED <<ampVars, access, lp, fees>>

(* query_reverse_simulation: what to offer for `ask` of asset i, with the    *)
(* factory's fee for pairs of this type, or NONE                             *)
ReverseSimulation(i, ask, factoryRate, target) ==
  LET before == IF factoryRate = DecimalOne THEN ask * Fine
                ELSE Times((DecimalOne * DecimalOne) \div (DecimalOne - factoryRate), ask * Fine)
      left == pool[i] * Fine - before
      y == CalcY(i, left, Atomics(pool), CurrentAmp, target)
  IN IF left < 0 THEN NONE
     ELSE IF y = NONE THEN NONE
     ELSE IF y < pool[Other(i)] THEN NONE
     ELSE y - pool[Other(i)]
----------------------------------------------------------------------------
(* Who may change what *)

EffectiveOwner == IF owner = NONE THEN FactoryOwner ELSE owner

(* update_fees, by the owner of the pair alone: the factory, which sends it, *)
(* is heard only if it is the owner                                          *)
UpdateFees(new) ==
  /\ ~toMigrate /\ ~frozen
  /\ owner # NONE
  /\ fees' = new
  /\ UNCHANGED <<ampVars, access, books>>

(* update_config, by the owner of the pair or else of the factory *)
UpdateConfig ==
  /\ ~toMigrate
  /\ \/ \E next \in 1..MaxAmp, until \in Genesis..(MaxTime + MinAmpChangingTime) :
          StartChangingAmp(next, until)
     \/ StopChangingAmp
  /\ UNCHANGED <<access, books, fees>>

ProposeNewOwner(new, expiresIn) ==
  /\ ~toMigrate
  /\ new # EffectiveOwner
  /\ expiresIn <= MaxProposalTtl
  /\ proposal' = [owner |-> new, ttl |-> now + expiresIn]
  /\ UNCHANGED <<ampVars, owner, frozen, breaker, toMigrate, books, fees>>

DropOwnershipProposal ==
  /\ ~toMigrate
  /\ proposal' = NONE
  /\ UNCHANGED <<ampVars, owner, frozen, breaker, toMigrate, books, fees>>

ClaimOwnership ==
  /\ ~toMigrate
  /\ proposal # NONE
  /\ now <= proposal.ttl
  /\ owner' = proposal.owner
  /\ proposal' = NONE
  /\ UNCHANGED <<ampVars, frozen, breaker, toMigrate, books, fees>>

(* Freeze, by the circuit breaker *)
Freeze(new) ==
  /\ ~toMigrate
  /\ breaker
  /\ frozen' = new
  /\ UNCHANGED <<ampVars, owner, proposal, breaker, toMigrate, books, fees>>

(* migrate with UpdateFreeze, by the chain's admin of the contract *)
UpdateFreeze(new, setsBreaker) ==
  /\ frozen' = new
  /\ breaker' = (breaker \/ setsBreaker)
  /\ UNCHANGED <<ampVars, owner, proposal, toMigrate, books, fees>>

(* the factory's owner changed: the pair waits until it is marked as migrated *)
ChangeMigration ==
  /\ toMigrate' = ~toMigrate
  /\ UNCHANGED <<ampVars, owner, proposal, frozen, breaker, books, fees>>
----------------------------------------------------------------------------
Orders == {<<1, 2>>, <<2, 1>>}

Provide == \E deposits \in Deposits, answer \in HubRates, factoryRate \in FactoryRates :
  ProvideLiquidity(deposits, answer, factoryRate)

Withdraw == \E burn \in Burns, answer \in HubRates :
  burn <= lp.users /\ WithdrawLiquidity(burn, answer)

WithdrawListed(listed) == \E asked \in Withdrawals, answer \in HubRates, factoryRate \in FactoryRates :
  WithdrawImbalanced(asked, listed, answer, factoryRate)

Trade == \E i \in Assets, amount \in Offers, belief \in Beliefs, maxSpread \in Spreads,
            referral \in Referrals, answer \in HubRates :
  Swap(i, amount, belief, maxSpread, referral, answer)

Administer ==
  \/ \E new \in FeeConfigs : UpdateFees(new)
  \/ UpdateConfig
  \/ \E new \in Users, expiresIn \in 0..MaxProposalTtl : ProposeNewOwner(new, expiresIn)
  \/ DropOwnershipProposal
  \/ ClaimOwnership
  \/ \E new \in BOOLEAN : Freeze(new) \/ \E setsBreaker \in BOOLEAN : UpdateFreeze(new, setsBreaker)
  \/ ChangeMigration

(* what users do as time passes *)
UserNext ==
  \/ Tick
  \/ /\ messages < MaxMessages
     /\ messages' = messages + 1
     /\ \/ Provide
        \/ Withdraw
        \/ \E listed \in Orders : WithdrawListed(listed)
        \/ Trade

Next == UserNext \/ Administer

Spec == Init /\ [][Next]_vars
UserSpec == Init /\ [][UserNext]_vars
----------------------------------------------------------------------------
(* The types of the state.  Once there is liquidity the oracle is            *)
(* initialised and the second pool never empties, since no price could be    *)
(* computed; nor does the first, unless a swap takes all of it at the price  *)
(* that store_oracle_price then saves as zero.                               *)
TypeOK ==
  /\ AmpTypeOK
  /\ owner \in Users \cup {NONE}
  /\ proposal = NONE \/ (proposal.owner \in Users /\ proposal.ttl \in Nat)
  /\ {frozen, breaker, toMigrate} \subseteq BOOLEAN
  /\ rate.target \in Nat \ {0} /\ rate.queried \in 0..now /\ rate.epoch \in RateEpochs
  /\ pool \in [Assets -> Nat]
  /\ lp.users \in Nat /\ lp.pair \in Nat
  /\ (oracle.price = NONE) <=> (supply = 0)
  /\ supply > 0 => pool[2] > 0 /\ (pool[1] > 0 \/ oracle.price = 0)
  /\ cumulative.last \in 0..now
  /\ fees \in FeeConfigs

(* D with the derivative at its target rate, which is what swaps trade along *)
RatedD(p, target) == ComputeD(CurrentAmp, [i \in Assets |-> AtRate(i, p[i] * Fine, target)])

(* the pools of the next state, had one unit less been paid out              *)
Spared == [i \in Assets |-> IF pool'[i] < pool[i] THEN pool'[i] + 1 ELSE pool'[i]]

(* No message takes from the holders of LP tokens, whatever is rounded: D    *)
(* per LP token does not fall by a base unit in a deposit or a withdrawal,   *)
(* and a swap pays out no more than a unit, rounded up, beyond what keeps D  *)
(* at the target rate, as closely as D is known (provide_liquidity,          *)
(* imbalanced_withdraw, compute_swap).  The swap that takes all of the first *)
(* asset is left out: there D is zero.                                       *)
ShareValueKept ==
  [][supply > 0 /\ pool' # pool /\ pool'[1] > 0 =>
       IF lp' = lp
       THEN RatedD(Spared, rate'.target) + 2 * Fine >= RatedD(pool, rate'.target)
       ELSE (D(pool') + Fine) * supply >= D(pool) * supply']_vars

(* A * sum(x_i) * n**n + D = A * D * n**n + D**(n+1) / (n**n * prod(x_i)),   *)
(* the equation compute_d quotes: what the left side has over the right, in  *)
(* base units and times the denominators.  It falls with d.                  *)
OverCurve(d, x) ==
  LET product == 4 * x[1] * x[2] IN
  2 * CurrentAmp * (x[1] + x[2] - d) * product + AmpPrecision * d * (product - d * d)

DOnCurve ==
  LET d == RatedD(pool, rate.target) \div Fine
      rated == [i \in Assets |-> AtRate(i, pool[i] * Fine, rate.target) \div Fine]
  IN OverCurve(d - 2, rated) >= 0 /\ OverCurve(d + 3, rated) <= 0

SwapOnCurve(i, offer) ==
  LET swap == ComputeSwap(i, offer * Fine, Atomics(pool), CurrentAmp, rate.target)
      d == RatedD(pool, rate.target) \div Fine
      after(slack) ==
        LET x == [pool EXCEPT ![i] = @ + offer, ![Other(i)] = @ - swap.return + slack]
        IN  [j \in Assets |-> AtRate(j, x[j] * Fine, rate.target) \div Fine]
  IN swap # NONE /\ OverCurve(d, after(2)) >= 0 /\ OverCurve(d, after(-2)) <= 0

(* what the reverse simulation says to offer, and two units more, brings in *)
(* what was asked for, but for the unit the solver is off                   *)
ReverseSuffices(i, ask) ==
  LET offer == ReverseSimulation(i, ask, fees.total, rate.target)
      swap == ComputeSwap(Other(i), (offer + 2) * Fine, Atomics(pool), CurrentAmp, rate.target)
  IN offer # NONE => swap.return - Scaled(swap.return, fees.total) >= ask - 1

(* query_spot_price_prediction, at the saved rate *)
PredictedTrade(i, most, target, iterations) ==
  FindSpotPrice(i, Atomics(pool), most, target, CurrentAmp, rate.target, iterations)

(* as far as the bisection can tell (pools_after_swap), but for the base     *)
(* unit the solver is off: the price is at the target or above after one     *)
(* unit less than it answers, at the target or below after two more, and all *)
(* is sold only if the price stays above                                     *)
PredictionAtTarget(i, most) ==
  LET target == SpotPrice(i, Atomics(pool), CurrentAmp, rate.target) - 2
      trade == PredictedTrade(i, most, target, 7)
      price(units) == PriceAfterTrade(i, Atomics(pool), units * Fine, CurrentAmp, rate.target)
  IN target > 0 /\ trade # NONE =>
       /\ trade \in 0..most
       /\ trade > 0 => price(trade - 1) + 1 >= target
       /\ IF trade = most THEN price(most) + 1 >= target ELSE price(trade + 2) <= target + 1

(* While both pools hold something, Newton's method ends where the curve is: *)
(* D is within two base units of the root, and swaps, here of one token and  *)
(* of four, land within two of the curve ("Should definitely converge in 32  *)
(* iterations", math.rs 146).  While the factory's fee for this type of pair *)
(* is the pair's, a reverse simulation says enough to offer, but for two     *)
(* base units; and what the spot price prediction says to sell is where its  *)
(* bisection crosses the target, although the price is rounded and does not  *)
(* fall with every unit.                                                     *)
QuotesOnCurve ==
  supply > 0 /\ pool[1] > 0 =>
    /\ DOnCurve
    /\ \A i \in Assets, amount \in {One, 4 * One} : SwapOnCurve(i, amount) /\ ReverseSuffices(i, amount)
    /\ \A i \in Assets : PredictionAtTarget(i, 4 * One)

(* A message that moves tokens quotes with the rate it leaves saved, and     *)
(* that rate is not older than the epoch (update_target_rate; handlers save  *)
(* the config only under a condition).                                       *)
RateFresh ==
  [][pool' # pool /\ LsdAsset # NONE =>
       rate'.queried = now' \/ now' < rate'.queried + rate'.epoch]_vars

(* Withdrawals that list the assets the other way round report other pools *)
Misordered == WithdrawListed(<<2, 1>>)

(* The price a message reports, computed before any token moves, is the      *)
(* price of the pools once all its transfers are made, at the rate that the  *)
(* pair then has saved.                                                      *)
OracleSeesPools ==
  [][pool' # pool /\ ~Misordered => oracle'.price = PriceOf(pool', rate'.target)]_vars

(* "calculate pools with withdrawn balances" (contract.rs 696): the same for *)
(* withdrawals that list the assets the other way round.                     *)
MisorderedSeesPools ==
  [][pool' # pool /\ Misordered => oracle'.price = PriceOf(pool', rate'.target)]_vars
=============================================================================
