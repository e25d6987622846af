-------------------------------- MODULE Pair --------------------------------
(***************************************************************************)
(* The constant product pair, contracts/pair/src, with the helpers of      *)
(* packages/palomadex/src/pair.  The pools are the balances the contract   *)
(* holds of two assets; providing liquidity mints LP tokens, withdrawing   *)
(* burns them, a swap sends one asset for the other less a commission.     *)
(* Every handler first computes what the pools will be, reports the price  *)
(* to the oracle, and then emits the messages that move the tokens.        *)
(*                                                                         *)
(* A Decimal is counted in units of 1 / DecimalOne and rounds down.  The   *)
(* pair is open to everybody, so who sends a message only matters for what *)
(* is paid out: the users are one party here.  Transfers of nothing fail (cw20-base 1.0, x/bank).    *)
(* CIRCUIT_BREAKER is written nowhere, so Freeze always fails and FROZEN   *)
(* stays false: neither is part of the state.                              *)
(***************************************************************************)
EXTENDS Integers

CONSTANTS
  NONE,            \* a parameter that is not given (Option::None)
  DecimalOne,      \* the denominator of a Decimal
  MinLiquidity,    \* MINIMUM_LIQUIDITY_AMOUNT
  DefaultSlippage, \* DEFAULT_SLIPPAGE
  MaxSlippage,     \* MAX_ALLOWED_SLIPPAGE
  Slippages,       \* tolerances and spreads users ask for, or NONE
  Beliefs,         \* belief prices users state, or NONE
  FeeConfigs,      \* fee configs the factory may set, [total, protocol]
  HasFeeAddress,   \* whether the factory's Config.fee_address is set
  MaxReferral,     \* the factory's Config.max_referral_commission
  Referrals,       \* referral commissions users ask for (zero without a referral)
  TradingStarts,   \* Config.trading_starts
  PricePrecision,  \* 10^TWAP_PRECISION
  Modulus,         \* 2^128: cumulative prices wrap around
  TokenSupply,     \* bound: how much there is of each asset
  MaxTime          \* bound: the last block time

ASSUME DecimalAssumption == /\ DecimalOne \in Nat \ {0} /\ PricePrecision \in Nat \ {0}
                            /\ Modulus \in Nat \ {0}
                            /\ DefaultSlippage \in 0..MaxSlippage
                            /\ MaxSlippage \in 0..DecimalOne
ASSUME LiquidityAssumption == MinLiquidity \in Nat \ {0} /\ TokenSupply \in Nat
ASSUME FeeAssumption == /\ FeeConfigs \subseteq [total : 0..DecimalOne, protocol : 0..DecimalOne]
                        /\ FeeConfigs # {}
                        /\ HasFeeAddress \in BOOLEAN
                        /\ MaxReferral \in 0..DecimalOne
ASSUME InputAssumption == /\ Slippages \subseteq Nat \cup {NONE}
                          /\ Beliefs \subseteq Nat \cup {NONE}
                          /\ Referrals \subseteq Nat
ASSUME NoneAssumption == NONE \notin Nat
ASSUME TimeAssumption == MaxTime \in Nat /\ TradingStarts \in Nat

VARIABLES
  now,        \* env.block.time, in seconds
  pool,       \* the balance the pair holds of asset 1 and asset 2
  lp,         \* the LP tokens that the users and the pair itself hold
  lastPrice,  \* the oracle's last price, or NONE before it is initialised
  lastStored, \* the block of the oracle's snapshot
  cumulative, \* price0_cumulative_last, price1_cumulative_last and block_time_last
  fees,       \* pair_info.fee_config
  toMigrate   \* whether the factory lists the pair in PAIRS_TO_MIGRATE

vars == <<now, pool, lp, lastPrice, lastStored, cumulative, fees, toMigrate>>

(* the total supply of the LP token *)
supply == lp.users + lp.pair

Assets == 1..2
Other(i) == 3 - i

(* Decimal::from_ratio, and the product of an integer and a Decimal *)
FromRatio(a, b) == (a * DecimalOne) \div b
Scaled(n, decimal) == (n * decimal) \div DecimalOne

Lesser(m, n) == IF m < n THEN m ELSE n
SquareRoot(n) == CHOOSE r \in 0..n : r * r <= n /\ n < (r + 1) * (r + 1)
----------------------------------------------------------------------------
(* Swaps *)

(* A bug: the offer trades at the price of the pools before it *)
ConstantPrice(offerPool, askPool, offer) == (offer * askPool) \div offerPool

(* what the constant product gives for an offer, before the commission *)
GrossReturn(offerPool, askPool, offer) ==
  (askPool * DecimalOne - FromRatio(offerPool * askPool, offerPool + offer)) \div DecimalOne

ComputeSwap(offerPool, askPool, offer) ==
  LET gross == GrossReturn(offerPool, askPool, offer)
      commission == Scaled(gross, fees.total)
  IN  [gross |-> gross,
       spread |-> Scaled(offer, FromRatio(askPool, offerPool)) - gross,
       commission |-> commission,
       return |-> gross - commission,
       protocol |-> IF HasFeeAddress THEN Scaled(commission, fees.protocol) ELSE 0]

OrElse(option, default) == IF option = NONE THEN default ELSE option

(* assert_max_spread accepts the outcome of a swap *)
SpreadAccepted(swap, offer, belief, maxSpread) ==
  LET limit == OrElse(maxSpread, DefaultSlippage) IN
  /\ limit <= MaxSlippage
  /\ IF belief = NONE
     THEN swap.gross + swap.spread > 0 /\ FromRatio(swap.spread, swap.gross + swap.spread) <= limit
     ELSE /\ belief > 0
          /\ LET expected == Scaled(offer, (DecimalOne * DecimalOne) \div belief)
             IN  swap.gross < expected => FromRatio(expected - swap.gross, expected) <= limit

(* A bug: the protocol's part of the commission stays in the price *)
PoolsBeforeProtocolFee(p, i, offer, swap) ==
  [p EXCEPT ![i] = @ + offer, ![Other(i)] = @ - swap.return]

(* the pools that do_swap reports to the oracle *)
PoolsAfterSwap(p, i, offer, swap) ==
  [p EXCEPT ![i] = @ + offer, ![Other(i)] = @ - swap.protocol - swap.return]

(* do_swap finds nothing wrong with offering `offer` of asset i to pools p *)
SwapAllowed(p, i, offer, belief, maxSpread) ==
  LET swap == ComputeSwap(p[i], p[Other(i)], offer) IN
  /\ now >= TradingStarts
  /\ p[1] # 0 /\ p[2] # 0 /\ offer # 0
  /\ swap.spread >= 0
  /\ SpreadAccepted(swap, offer, belief, maxSpread)

(* the user's offer less the referral commission of handle_referral *)
AfterReferral(amount, referral) == amount - Scaled(amount, referral)
----------------------------------------------------------------------------
(* What every change of the pools records *)

(* store_oracle_price: it needs an initialised oracle, and the first time in *)
(* a block the inverse of the last price                                     *)
StorePrice(p) ==
  /\ lastPrice # NONE
  /\ now > lastStored => lastPrice > 0
  /\ p[2] # 0
  /\ lastPrice' = FromRatio(p[1], p[2])
  /\ lastStored' = now

(* initialize_oracle *)
InitializePrice(p) ==
  /\ p[2] # 0
  /\ lastPrice' = FromRatio(p[1], p[2])
  /\ lastStored' = now

PriceOverTime(x, y, elapsed) == (elapsed * PricePrecision * y) \div x

(* accumulate_prices: the cumulative prices of pools p at this moment *)
CumulativeNow(p) ==
  IF now <= cumulative.last THEN cumulative
  ELSE IF p[1] = 0 \/ p[2] = 0 THEN [cumulative EXCEPT !.last = now]
  ELSE [last |-> now,
        price |-> [i \in Assets |->
          (cumulative.price[i] + PriceOverTime(p[i], p[Other(i)], now - cumulative.last)) % Modulus]]

(* A bug: the time counted stays to be counted again *)
AccumulateTwice(p) == cumulative' = [CumulativeNow(p) EXCEPT !.last = cumulative.last]

AccumulatePrices(p) == cumulative' = CumulativeNow(p)
----------------------------------------------------------------------------
Init ==
  /\ now = 0
  /\ pool = [i \in Assets |-> 0]
  /\ lp = [users |-> 0, pair |-> 0]
  /\ lastPrice = NONE
  /\ lastStored = 0
  /\ cumulative = [last |-> 0, price |-> [i \in Assets |-> 0]]
  /\ fees \in FeeConfigs
  /\ toMigrate = FALSE

(* the block time moves on *)
Tick ==
  /\ now < MaxTime
  /\ now' = now + 1
  /\ UNCHANGED <<pool, lp, lastPrice, lastStored, cumulative, fees, toMigrate>>

(* a plain transfer to the pair, which it is not told of *)
Donate(i, amount) ==
  /\ pool[i] + amount <= TokenSupply
  /\ pool' = [pool EXCEPT ![i] = @ + amount]
  /\ UNCHANGED <<now, lp, lastPrice, lastStored, cumulative, fees, toMigrate>>
----------------------------------------------------------------------------
(* Liquidity *)

(* assert_slippage_tolerance *)
SlippageAccepted(tolerance, deposits, p) ==
  LET limit == OrElse(tolerance, DefaultSlippage) IN
  /\ limit <= MaxSlippage
  /\ \A i \in Assets : Scaled(FromRatio(deposits[i], deposits[Other(i)]), DecimalOne - limit)
                         <= FromRatio(p[i], p[Other(i)])

(* A bug: the minimum liquidity is not kept by the pair *)
AllToProvider(root) == [users |-> root, pair |-> 0]

(* the LP tokens minted for the first deposits *)
FirstMint(root) == [users |-> root - MinLiquidity, pair |-> MinLiquidity]

(* A bug: the better of the two deposits decides *)
ShareOfBetter(deposits, p) ==
  LET of(i) == (deposits[i] * supply) \div p[i] IN IF of(1) < of(2) THEN of(2) ELSE of(1)

(* the share of the deposits in pools p *)
ShareOf(deposits, p) ==
  Lesser((deposits[1] * supply) \div p[1], (deposits[2] * supply) \div p[2])

AddTo(p, deposits) == [i \in Assets |-> p[i] + deposits[i]]

(* provide_liquidity with two assets, into an empty pair *)
ProvideFirst(deposits) ==
  /\ ~toMigrate
  /\ supply = 0
  /\ deposits[1] # 0 /\ deposits[2] # 0
  /\ SquareRoot(deposits[1] * deposits[2]) > MinLiquidity
  /\ lp' = FirstMint(SquareRoot(deposits[1] * deposits[2]))
  /\ InitializePrice(AddTo(pool, deposits))
  /\ AccumulatePrices(pool)
  /\ pool' = AddTo(pool, deposits)
  /\ UNCHANGED <<now, fees, toMigrate>>

(* what provide_liquidity mints for deposits into pools p *)
MintShare(deposits, p, tolerance) ==
  /\ supply # 0
  /\ \A i \in Assets : deposits[i] # 0 /\ p[i] # 0
  /\ SlippageAccepted(tolerance, deposits, p)
  /\ ShareOf(deposits, p) > 0
  /\ lp' = [lp EXCEPT !.users = @ + ShareOf(deposits, p)]

(* provide_liquidity with two assets *)
ProvideLiquidity(deposits, tolerance) ==
  /\ ~toMigrate
  /\ MintShare(deposits, pool, tolerance)
  /\ StorePrice(AddTo(pool, deposits))
  /\ AccumulatePrices(pool)
  /\ pool' = AddTo(pool, deposits)
  /\ UNCHANGED <<now, fees, toMigrate>>

(* provide_liquidity with one asset: half of it is swapped inside the pair for *)
(* the other asset, and what the swap returns is deposited with the other half; *)
(* only the protocol fee leaves the pair.  The price is stored twice in the     *)
(* block, the second time for good, and accumulated once.                       *)
ProvideSingle(i, amount, tolerance) ==
  LET half == amount \div 2
      swap == ComputeSwap(pool[i], pool[Other(i)], half)
      swapped == PoolsAfterSwap(pool, i, half, swap)
      deposits == [j \in Assets |-> IF j = i THEN amount - half ELSE swap.return]
  IN /\ ~toMigrate
     /\ SwapAllowed(pool, i, half, NONE, NONE)
     /\ swapped[2] # 0
     /\ MintShare(deposits, swapped, tolerance)
     /\ StorePrice(AddTo(swapped, deposits))
     /\ AccumulatePrices(pool)
     /\ pool' = [pool EXCEPT ![i] = @ + amount, ![Other(i)] = @ - swap.protocol]
     /\ UNCHANGED <<now, fees, toMigrate>>

(* get_share_in_assets *)
Refund(i, amount) == Scaled(pool[i], FromRatio(amount, supply))

(* withdraw_liquidity: `amount` LP tokens arrive and are burnt *)
WithdrawLiquidity(amount) ==
  LET left == [i \in Assets |-> pool[i] - Refund(i, amount)] IN
  /\ ~toMigrate
  /\ \A i \in Assets : Refund(i, amount) # 0
  /\ StorePrice(left)
  /\ AccumulatePrices(pool)
  /\ pool' = left
  /\ lp' = [lp EXCEPT !.users = @ - amount]
  /\ UNCHANGED <<now, fees, toMigrate>>
----------------------------------------------------------------------------
(* swap, of a native asset or through a cw20's Receive hook *)
Swap(i, amount, belief, maxSpread, referral) ==
  LET offer == AfterReferral(amount, referral)
      swap == ComputeSwap(pool[i], pool[Other(i)], offer)
  IN /\ ~toMigrate
     /\ referral <= MaxReferral
     /\ SwapAllowed(pool, i, offer, belief, maxSpread)
     /\ swap.return # 0
     /\ StorePrice(PoolsAfterSwap(pool, i, offer, swap))
     /\ AccumulatePrices(pool)
     /\ pool' = [pool EXCEPT ![i] = @ + amount - (amount - offer),
                             ![Other(i)] = @ - swap.return - swap.protocol]
     /\ UNCHANGED <<now, lp, fees, toMigrate>>

(* update_fees, which the factory sends *)
UpdateFees(new) ==
  /\ ~toMigrate
  /\ fees' = new
  /\ UNCHANGED <<now, pool, lp, lastPrice, lastStored, cumulative, toMigrate>>

(* the factory's owner changed: the pair waits until it is marked as migrated *)
ChangeMigration ==
  /\ toMigrate' = ~toMigrate
  /\ UNCHANGED <<now, pool, lp, lastPrice, lastStored, cumulative, fees>>
----------------------------------------------------------------------------
(* what users own outside the pair *)
Owned(i) == 1..(TokenSupply - pool[i])

Next ==
  \/ Tick
  \/ \E i \in Assets : \E amount \in Owned(i) : Donate(i, amount)
  \/ \E m \in Owned(1), n \in Owned(2) :
       \/ ProvideFirst(<<m, n>>)
       \/ \E tolerance \in Slippages : ProvideLiquidity(<<m, n>>, tolerance)
  \/ \E i \in Assets : \E amount \in Owned(i), tolerance \in Slippages :
       ProvideSingle(i, amount, tolerance)
  \/ \E amount \in 1..lp.users : WithdrawLiquidity(amount)
  \/ \E i \in Assets : \E amount \in Owned(i) :
       \E belief \in Beliefs, maxSpread \in Slippages, referral \in Referrals :
         Swap(i, amount, belief, maxSpread, referral)
  \/ \E new \in FeeConfigs : UpdateFees(new)
  \/ ChangeMigration

Spec == Init /\ [][Next]_vars
----------------------------------------------------------------------------
(* The types of the state; nothing is paid out that is not there, and the    *)
(* oracle is initialised exactly while LP tokens exist: were it not, the     *)
(* next deposit would reset it and its history.                              *)
TypeOK ==
  /\ now \in 0..MaxTime
  /\ pool \in [Assets -> 0..TokenSupply]
  /\ lp \in [users : Nat, pair : Nat]
  /\ lastPrice \in Nat \cup {NONE}
  /\ (lastPrice = NONE) <=> (supply = 0)
  /\ lastStored \in 0..now
  /\ cumulative \in [last : 0..now, price : [Assets -> 0..(Modulus - 1)]]
  /\ fees \in FeeConfigs
  /\ toMigrate \in BOOLEAN

(* Once there is liquidity the pair never empties: neither withdrawals nor   *)
(* swaps take the last of an asset, so the pair can always quote a price.    *)
NeverEmpty == supply > 0 => supply >= MinLiquidity /\ pool[1] > 0 /\ pool[2] > 0

(* What an LP token is worth never falls: the product of the pools per       *)
(* square of the supply does not decrease in any step, whatever is swapped,  *)
(* deposited, withdrawn or rounded, but for the last digit of the Decimal in *)
(* compute_swap, which is worth less than one part of DecimalOne in each     *)
(* unit of the pools.                                                        *)
ShareValueKept ==
  [][supply > 0 =>
       pool[1]' * pool[2]' * DecimalOne * supply * supply
         + (pool[1]' + pool[2]') * supply' * supply'
         >= pool[1] * pool[2] * DecimalOne * supply' * supply']_vars

Donating == \E i \in Assets : \E amount \in Owned(i) : Donate(i, amount)

(* The price a message reports to the oracle, computed before any token      *)
(* moves, is the ratio of the pools once all its transfers are made.         *)
OracleSeesPools ==
  [][(pool' # pool \/ lastPrice' # lastPrice) /\ ~Donating
       => lastPrice' = FromRatio(pool'[1], pool'[2])]_vars

(* The cumulative prices the pair answers with (query_cumulative_prices)     *)
(* grow by the price of the pools in each second that passes, but for a last *)
(* digit, since the price of many seconds is rounded at once, and not at all *)
(* in a message, whether or not the message stores them.                     *)
CumulativePrices ==
  [][~Donating =>
       \A i \in Assets : \E digit \in 0..(now' - now) :
         CumulativeNow(pool)'.price[i] =
           (CumulativeNow(pool).price[i]
              + IF pool[1] = 0 \/ pool[2] = 0 THEN 0
                ELSE PriceOverTime(pool[i], pool[Other(i)], now' - now) + digit) % Modulus]_vars
============================================================================
