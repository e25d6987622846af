# A verification project for Palomadex

TLA+ models of the contracts of this repository, TLC runs that check them on
small instances, and TLAPS proofs for every value of the parameters. Source
paths below are those of the repository; `PROJECT.json` maps each definition to
the lines it stands for and lists runs, mutants, findings, hazards and theorems.

## The system

Palomadex is a set of CosmWasm contracts. A chain executes one message at a
time. A message and everything it calls is one transaction: it happens as a
whole or, on an error or a panic (overflow checks are on in the release
profile), not at all. So one action of a model is one message, and a failing
message is the absence of a step. Concurrency is the order of messages of
different senders, and block time moving between them. Nothing happens unless
somebody sends a message.

| Component | State | Operations | Talks to | What is hard | What makes it correct |
|---|---|---|---|---|---|
| **stake** (`contracts/stake`) | stake per account and period with locks, totals, claims, distributions, reward curves, corrections | Delegate, MassDelegate, Rebond, Unbond, Claim, QuickUnbond, UnbondAll, MigrateStake, CreateDistributionFlow, FundDistribution, DistributeRewards, WithdrawRewards, DelegateWithdrawal, UpdateAdmin | LP token, reward tokens, lp converter, factory | order of bonding, rebonding, unbonding against time; totals kept by difference; a fixed-point split of rewards while powers change | tokens held = tokens owed; totals = sums; nobody leaves early; rewards are always payable and earned by power |
| **pair** (`contracts/pair`, `packages/palomadex/src/pair`) | pools (its balances), LP supply, cumulative prices, fees | ProvideLiquidity (both assets or one), WithdrawLiquidity, Swap, UpdateFees | LP token, oracle, factory (fees, migration list), referrals | prices are computed before tokens move; everything rounds | an LP token never loses value; the pair never empties; both price records follow the pools |
| **oracle** (`packages/palomadex/src/oracle.rs`) | accumulator, three ring buffers of checkpoints | initialize, store price, range queries | the pair that embeds it | stores at irregular times against checkpoints at regular ones; nanoseconds against seconds; answers between stores | every checkpoint is the exact integral of the price; queries average the true price |
| **factory** (`contracts/factory`, `common.rs`) | pairs, routes, staking addresses, pair configs, owner and proposal, pairs to migrate | CreatePair (with the replies of the instantiation), Deregister, UpdateConfig, UpdatePairConfig, ProposeNewOwner, DropOwnershipProposal, ClaimOwnership, MarkAsMigrated | pairs, staking contracts, nominated trader | three indexes kept by hand; ownership and migration over several tenures | indexes agree; exactly the pairs of earlier tenures are blocked |
| **nominated trader** (`contracts/nominated-trader`) | routes | Collect, SwapHopAssets (to itself), UpdateRoutes, Transfer | factory routes, pairs | one collection is many messages; balances read before swaps run; routes that change after they were validated | swaps are covered; nothing is left half way |
| **splitter** (`contracts/splitter`) | recipients and weights | SendTokens (anyone) | bank, cw20 tokens | rounding, repeated tokens | each recipient gets its share, once |
| **pair_lsd** (`contracts/pair_lsd`) | as pair, with amplification ramp, target rate, freeze, its own owner | as pair, StartChangingAmp, StopChangingAmp, Freeze, ownership | liquid staking hub | ramps over time; Newton iterations; target rate refreshed per epoch | the ramp moves at most tenfold a day and never jumps; frozen means frozen |
| **lp converter** (`contracts/lp-converter`) | temporary data of one conversion | Convert and three replies | stake, two pairs, hub | whole balances swept at every reply | the owner of the stake owns what comes out |
| **multi-hop** (`contracts/multi-hop`) | none but the factory address | ExecuteSwapOperations, AssertMinimumReceive | pairs | whole balances at each hop; spread check off in the middle | the receiver gets the minimum or nothing happens |
| **gauge adapter** (`contracts/gauge-adapter`) | amount per epoch | UpdateRewards, SampleGaugeMsgs | factory, stake | rounding of weights | never more than the epoch's amount |

The rest (pair instantiation, message types, queriers, the legacy oracle,
placeholder, scripts, test support) holds no state of its own; `PROJECT.json`
says for each part why it is left out.

A fee's way through the system: a swap in a pair pays the protocol's part of
the commission to the nominated trader, which turns it into PALOMA along the
factory's routes; its owner transfers that to the splitter. LP tokens go from
the pair to the staking contract, and the gauge adapter funds the latter's
distributions. A claim of the factory's ownership blocks all pairs until the
new owner lists them as migrated.

## Modules

| Module | Stands for |
|---|---|
| `TokenUnits` | sums of amounts, written as cardinalities so that they can be proved about |
| `Stake` | the staking contract, one action per message |
| `StakeEscrow` | what it promises about LP tokens: an abstract escrow without periods, locks, powers or totals |
| `Oracle` | accumulator, buffers and queries of the price oracle, with a ghost history of the true price |
| `Pair` | the constant product pair with referrals, fees, both price records |
| `Factory` | the factory with ownership and migration |
| `NominatedTrader`, `Splitter` | the two fee contracts |
| `FeeFlow` | their composition |
| `StableMath` | the stableswap arithmetic of the pair_lsd: Newton's method with its roundings, swaps, and the search for the trade that reaches a price |
| `Amplification` | how that pair's owner moves the amplification; a specification of its own (`AmpSpec`) |
| `PairLsd` | the stableswap pair around it: liquidity, swaps, prices, the hub's target rate, ownership, freeze |
| `Transactions` | balances, and transactions that are a queue of messages and commit or abort |
| `MultiHop`, `LpConverter` | the router and the converter, one action per message |
| `Periphery` | their composition, with the fairness of the chain |
| `MCStake`, `MCOracle`, `MCPair`, `MCFactory`, `MCFeeFlow`, `MCPairLsd`, `MCPeriphery` | instances for TLC |
| `TokenUnitsProofs`, `StakeProofs`, `FactoryProofs`, `FeeFlowProofs`, `OracleProofs`, `PairProofs`, `PairLsdProofs`, `PeripheryProofs` | theorems; those of `Stake` include the refinement of `StakeEscrow`, those of `FeeFlow` include both fee contracts, those of the `PairLsd` also `Amplification` |

How state and actions correspond to the code:

- Storage items are variables of the same meaning. A `Map` is a function, an
  absent key a zero or, where absence matters, a key outside the domain. Names
  of the code are kept where TLA+ allows it.
- In `Stake`, a `BondingInfo` is two functions: the unlocked stake and the
  locked amounts by expiry. Claims are summed by account and release time, which
  is all the controller tells apart. Reward tokens outside the contract are
  `rewardPool`. The converter's side of MigrateStake is `converted`.
- In `Oracle`, time is in nanoseconds (`NanosPerSecond` of them a second) so that
  checkpoints in whole seconds and snapshots in nanoseconds differ as in the
  code. `area` is a ghost: the integral of the price at each time.
- In `Pair`, all users are one party, because who sends a message matters only
  for what is paid out. A `Decimal` counts units of `1 / DecimalOne` and rounds
  where the code rounds. Cumulative prices are modulo `Modulus`. `Donate` is
  anybody sending tokens to the pair.
- In `Factory`, an asset is named by a sequence, because `pair_key` runs names
  together. `tenure`, `proposedIn` and `adminSince` are ghosts: who proposed, and
  whose admin a pair still has.
- In `NominatedTrader`, `queue` holds the messages of the running transaction;
  the chain lets nothing in between. `RunSwap` is the pair's answer, any amount
  above zero; `Abort` is any failure and restores the balances. Submessages run
  right after the message that emitted them, and SwapHopAssets is always the
  last of its message, so one queue is enough. UpdateRoutes with several
  additions is several steps with one.
- In `NominatedTrader`, `ValidRoute` states the recursion of validate_route as the
  path it walks, and a hop's hash map is any order of its assets.
- In `Splitter`, a message lists a native denom at most once (the bank takes no
  coins that repeat a denom) and a cw20 token up to `MaxListed` times.

- In `StableMath`, a token has `One` base units and a `Decimal256` counts `Fine`
  atomics per base unit, so `compute_d` rounds in atomics and `calc_y` in base
  units, as in the code. An error or panic is the result `NONE`, in a step of Newton's
  method too: a division by zero once D is, or a negative divisor. `StepOfD` and
  `StepOfY` are the two iterations and `Newton` the loop around either. The bisection
  of `find_spot_price` keeps its half atomics and, as the code does, divides the
  amount by the target rate from the derivative on. Both assets
  have one precision; pools of three assets are not modelled.
- In `Amplification`, `amp` holds the four fields of the ramp and `recent` is a
  ghost, the coefficients of the last `MinAmpChangingTime` seconds. `PairLsd`
  extends it: its `Tick` and `UpdateConfig` are the only actions that use
  `Amplification`'s.
- In `PairLsd`, `Refreshed` is update_target_rate, which changes the rate in
  memory; `SaveConfig` decides whether the handler writes it. The hub's answer
  and the factory's fee for pairs of this type are free in each message.
  Deposits and withdrawals measure D without the target rate and swaps with it,
  as the code does. `slippage_tolerance` is ignored by the code, so there is none.
- In `Transactions`, `Begin` is a message whose handler answers with others,
  `Run` the next of them, `Commit` and `Abort` the two ends. What a pair or the
  hub pays is anything above zero. `before` is the state to go back to; `job`
  and `undone` are for the properties.
- In `MultiHop`, referral commissions and the spread limit are part of what a
  pair pays or refuses. In `LpConverter`, `stored` is `TMP_DATA`, which no
  message clears, and every reply reads whole balances.

Messages of senders the code refuses are left out where the refusal is all they
do. A transfer of zero fails (cw20-base 1.0 and the bank refuse it), which
decides several guards. `Freeze` of the constant product pair is no action: it
compares the sender with `CIRCUIT_BREAKER`, which nothing in that pair writes.

## Runs

Every property has a mutant in `PROJECT.json`: a plausible bug in the code that
the same run catches.

| Run | Instance | Shows |
|---|---|---|
| `stake_custody` | two accounts with two LP tokens each, periods 1 and 2, four blocks, min_bond 2, no unbonder, a converter | `Custody`, `PeriodTotals`, `NoEarlyExit`, and that the contract implements `StakeEscrow` (`ImplementsEscrow`) |
| `stake_rewards` | two accounts, of which one is admin and the other unbonder, one distribution with a multiplier of 1.5 and two reward tokens | `PowersCovered`, `RewardsSolvent`, `EarnsByPower` with quick unbonding and unbond-all |
| `oracle_twap` | two prices, periods of 1, 2 and 3 seconds, buffers of three, five seconds of half-second blocks | `CheckpointsExact`, `NeverStuck`, `FullHistory`, `RangeAverages` |
| `pair_liquidity` | pools of up to seven tokens, decimals in quarters, two fee configs, referrals of 0 and 1/4, three blocks | `NeverEmpty`, `ShareValueKept`, `OracleSeesPools`, `CumulativePrices` |
| `factory_directory` | three assets, two users, up to three pairs, two changes of owner | `RoutesMatchPairs`, `StakingMatchesPairs`, `BlockedUntilMigrated`, `ProposalOfThisOwner` |
| `fee_flow` | three fee assets and PALOMA, two markets, two fees held at a time, recipients three to one | `SwapsCovered`, `NothingLeftOnTheWay`, `HopsGoThrough`, `SharesPaidOnce`, `OnlyDustLeft` |
| `pair_lsd_amp` | amplifications up to 8, at most doubled or halved in two seconds, six seconds, ramps of any length started and stopped at any time while the pair changes owner, freezes and migrates | `AmpChangesSlowly`, `AmpContinuous` |
| `pair_lsd_pools` | ten base units to a token, decimals in hundredths, up to four messages in three blocks, offers of four tokens and of nine hundred, hub rates 1 and 1.5, epochs of zero and two seconds, two fee configs, a referral of a tenth | `QuotesOnCurve`, `ShareValueKept`, `OracleSeesPools`, `RateFresh` |
| `periphery` | a coin, its derivative and one more in two pairs, six routes, three transactions, gifts to the converter | `RouteDelivered`, `ConversionEnds` |

Each passing run also checks the type invariant of its module except
`stake_rewards`, whose module's is checked by `stake_custody` and proved;
`pair_lsd_amp` checks `AmpTypeOK`.

Why the bounds are enough for the interesting cases:

- *stake*: two periods and four blocks are the least in which a stake can be
  rebonded down (which locks it for the difference), rebonded again, unbonded
  and claimed in one behaviour; amounts of one and two lie on both sides of
  min_bond. `Horizon` only bounds the times a lock, claim or curve may name.
  Rewards use power 1.5 per token, so powers are rounded, and
  `SharesScale` 4 for 2^32, so the remainder of a distribution is met.
- *oracle*: ten time steps are more than the longest period times the buffer
  needs to overflow the shortest buffers more than once, half a second is the
  finest step that separates snapshots from checkpoints. Prices 7 and 11 with
  `Scale` 77 have exact inverses, so the only rounding is the code's.
- *pair*: the pools are so small that each division of the code rounds in some
  step. `Modulus` 8 for 2^128 makes the cumulative prices wrap around.
  `PricePrecision` 100 is not a multiple of every pool, so the price of two
  seconds is not always twice that of one.
- *factory*: the third pair can be created after one was deregistered, and two
  tenures are the least in which a pair can be left over from an earlier list.
- *fee flow*: one market has only the chain C, A, B, PALOMA, so routes of the
  full depth are needed, the other direct pools too. Two fees let a request mix
  a limit, a route and a direct swap. Four units split three to one are the
  least that pay everybody, and two of a native denom the least that pay one.

- *pair_lsd*: `pair_lsd_amp` leaves the pools out of account: six seconds with
  a limit that applies over two are room for three ramps in a row, one started
  in the middle of another. In `pair_lsd_pools` four messages are the least in
  which a pool is filled, pushed off balance by a large swap, deposited to on
  one side and withdrawn from. `MinLiquidity` 50 keeps the smallest pools out of
  the range where one base unit is more than the tolerance of the solvers; the
  code's own minimum is a thousand units. An epoch of zero asks the hub in every
  message, also after the prices of the block were accumulated; one of two seconds
  leaves blocks in which prices are accumulated and the hub is not asked.
  The offer of nine hundred tokens, with a belief price to match, takes all of
  the first asset, so the state after that is reached too.
- *periphery*: the third transaction meets what the second left in a contract
  that the first had used. `MaxSwapOperations` 2 for 50, so a route of three is
  refused; the routes include one that is not chained and one with two outputs.

Deadlock is checked except in the staking, pair_lsd and periphery runs, where
time, tokens or messages end with the bounds. No run replaces a definition;
`stake_custody` uses symmetry of the two accounts, which have no roles there.

**Fairness and liveness.** A contract runs only when somebody calls it, and
nothing in the repository promises that anybody does, so no model assumes that a
message is ever sent. What the chain does promise is that a transaction which
has begun goes on, message by message, to its end or its revert, and that
nothing else happens meanwhile. `Periphery` states that as weak fairness of
`Transact`, the steps of a transaction in progress, and of nothing else. Under
it `ConversionEnds` says that a conversion that was accepted ends with stake for
its own owner or is undone; without it the four messages could stop half way.

### Where the code disagrees with its own words

These runs check one property each and TLC finds it violated; the findings in
`PROJECT.json` quote the lines.

| Run | Property | What happens |
|---|---|---|
| `stake_quick_unbond_min_bond` | `PeriodTotals` | quick unbonding passes the sum over stakers to a function meant for one staker; two stakers below min_bond together take power out of the total that was never in it |
| `oracle_average_to_now` | `AverageToNow` | a query that ends now divides by the time since the last *stored* checkpoint but starts from an interpolated one |
| `lsd_imbalanced_price` | `MisorderedSeesPools` | a withdrawal that lists the assets the other way round reports to the oracle the price of pools that never are |

Met while modelling, without a run of their own:

- *stake*: a mass delegation below the amount sent leaves the rest staked for
  nobody (`contracts/stake/src/contract.rs` 553), though the message's comment
  says the sender gets it; `StakeEscrow` calls it `stranded`.
- *pair*: very uneven pools report a price of zero, whose inverse panics in the
  next block (`contracts/pair/src/contract.rs` 440, `oracle.rs` 83).
- *factory*: the sets {a, bc} and {ab, c} have the same key (`state.rs` 62),
  the hypothesis of `RoutesExact`. Its README lets anyone create a pair while
  `only_owner_can_create_pairs` is off, but no message stores the deposit that
  requires, so nobody can. `UpdatePairFees` forwards a fee config nobody validates.
- *nominated trader*: routes in a loop are followed without end inside one
  collection, which then fails (`contract.rs` 235, 274). Routes of native denoms
  can be replaced but not removed; a stale route stops an asset from being
  collected even if it has a pool for PALOMA, which is why `HopsGoThrough` speaks
  of routes that are all valid.
- *pair_lsd*: a swap may take all of the first asset. Without fees, with a
  belief price that switches the spread limit off, a large enough offer of the
  second makes `calc_y` round the other pool down to nothing; the second pool is
  safe only because `store_oracle_price` cannot price what is left. The pair
  saves the price zero, and from then on no deposit, withdrawal or swap succeeds
  (`EmptyPoolIsStuck`). In the instance of `pair_lsd_pools`, pools of 90 and 100
  take an offer of 8100, which is 9000 less the referral; in general it takes
  more than about the square root of D^3 / 8A, in base units. In pools as uneven
  as that one unit of the scarce asset is worth many of the other, so
  `ShareValueKept` compares D as if one unit less had been paid out: that unit
  is what rounding may give the trader. The spread a swap is judged by includes
  the commission, though the pair's README says it is compared before the
  commission. `UpdateFees` listens to the pair's owner only, so the factory's
  `UpdatePairFees` is refused unless the factory is that owner. A spot price
  prediction promises "the lowest spot price any offer token should be sold at"
  (`pair.rs` 311), but it moves the same amount out of one pool as into the
  other, divided by the target rate in the order of the assets and not by what
  is offered (`utils.rs` 371), and quotes at the saved rate. In `StableMath`
  with pools of 100 and 100, an amplification of one and a rate of 1.5, the
  answer for 35 units of the derivative at 0.9 leaves the price at 0.8.
  `QuotesOnCurve` therefore compares the answer with what the bisection itself
  can see, not with a swap. A reverse simulation uses the factory's fee, a swap
  the pair's. A deposit with a fee above what is left of a pool panics.
  `query_cumulative_prices` quotes at the saved rate, which may be old.
- *multi-hop*: nothing requires that each swap offers what the one before
  asked for. What an unchained route leaves in the router goes to whoever comes
  next, and so `RouteDelivered` speaks of chained routes where it says that
  nothing is left. The spread limit of a route of several swaps is ignored.
- *lp converter*: what lies in it, whoever put it there, goes into the stake of
  the next conversion.

## Proofs

`tlapm` checks every theorem to the last leaf; constants are arbitrary up to the
named assumptions of the modules.

| Theorem | States |
|---|---|
| `StakeProofs!TypeCorrect` | `Spec => []TypeOK`: no amount in the staking contract's books ever goes below zero |
| `StakeProofs!CustodySafe` | `Spec => []Custody`: the LP tokens held are exactly those accounted for |
| `FactoryProofs!TypeCorrect` | `Spec => []TypeOK` |
| `FactoryProofs!StakingIndex` | `Spec => []StakingMatchesPairs`, for any names |
| `FactoryProofs!MigrationBlocks` | `Spec => []BlockedUntilMigrated` |
| `FactoryProofs!ProposalHonest` | `Spec => []ProposalOfThisOwner` |
| `FactoryProofs!RoutesExact` | `Spec => []RoutesMatchPairs`, if different sets of assets have different keys; without that hypothesis it is false |
| `StakeProofs!StakeImplementsEscrow` | `Spec => ImplementsEscrow`: each message of the staking contract is one step of the escrow or none |
| `StakeProofs!NoEarlyExitAlways` | `Spec => NoEarlyExit` |
| `StakeProofs!PeriodTotalsKept` | `Spec => []PeriodTotals`, if `min_bond` is one or nobody may call quick unbond; otherwise it is false |
| `StakeProofs!PowersCoveredKept` | `Spec => []PowersCovered`, under the same hypothesis |
| `StakeProofs!EarnsByPowerAlways` | `Spec => EarnsByPower` |
| `StakeProofs!RewardsSolventKept` | `Spec => []RewardsSolvent`, under the hypothesis of `PeriodTotalsKept` |
| `FeeFlowProofs!FlowTypeCorrect` | `Spec => []TypeOK` of both fee contracts |
| `FeeFlowProofs!SwapsCoveredAlways` | `Spec => []SwapsCovered` |
| `FeeFlowProofs!NothingLeftAlways` | `Spec => []NothingLeftOnTheWay`, for any routes, loops included |
| `FeeFlowProofs!HopsGoThroughAlways` | `Spec => []HopsGoThrough`, for routes of any depth |
| `FeeFlowProofs!SharesPaidOnceAlways` | `Spec => SharesPaidOnce` |
| `FeeFlowProofs!OnlyDustLeftAlways` | `Spec => OnlyDustLeft` |
| `OracleProofs!OracleTypeCorrect` | `Spec => []TypeOK` of the oracle |
| `OracleProofs!NeverStuckAlways` | `Spec => []NeverStuck` |
| `OracleProofs!FullHistoryAlways` | `Spec => []FullHistory`, however long nothing is stored |
| `OracleProofs!CheckpointsExactAlways` | `Spec => []CheckpointsExact` |
| `OracleProofs!RangeAveragesAlways` | `Spec => []RangeAverages` |
| `PairLsdProofs!AmpInRange` | `AmpSpec => []AmpTypeOK` |
| `PairLsdProofs!AmpSteady` | `AmpSpec => AmpContinuous` |
| `PairLsdProofs!AmpSlow` | `AmpSpec => []AmpChangesSlowly` |
| `PairLsdProofs!PairImplementsAmp` | `Spec => AmpSpec`: the whole pair moves its amplification as `Amplification` says; `PairAmp` draws the three results above for the pair |
| `PairLsdProofs!RateIsFresh` | `Spec => RateFresh` |
| `PairLsdProofs!OracleSeesPair` | `Spec => OracleSeesPools` |
| `PairLsdProofs!SolverLands` | whenever `calc_y` says it is done, its answer is the root of its quadratic, up to the unit of the rounding |
| `PairLsdProofs!PairIsTyped` | `Spec => []TypeOK` of the stableswap pair |
| `PairLsdProofs!SwapsLandOnCurve` | `Spec => SwapsKeepCurve`: no swap leaves less than that root in the pool it pays from |
| `PairLsdProofs!EmptyPoolIsStuck` | `Spec => EmptiedForGood`: once all of the first asset is gone, no message of the pair moves anything |
| `PairLsdProofs!SharesPricedAlways` | `Spec => SharesPriced`: what deposits mint and withdrawals burn is at nobody else's expense, in the D that `compute_d` answers |
| `PairProofs!TypeCorrect` | `Spec => []TypeOK` of the constant product pair |
| `PairProofs!OracleSeesPair` | `Spec => OracleSeesPools` of the constant product pair |
| `PairProofs!NeverEmpties` | `Spec => []NeverEmpty`, if `TokenSupply <= DecimalOne` |
| `PairProofs!ShareValueAlwaysKept` | `Spec => ShareValueKept` of the constant product pair |
| `PairProofs!CumulativePricesFollow` | `Spec => CumulativePrices` |
| `PeripheryProofs!TypesHold` | `Spec => []TypeOK` of the router and the converter |
| `PeripheryProofs!RoutesDeliver` | `Spec => []RouteDelivered`, for routes of any length |
| `PeripheryProofs!ConversionsConvert` | a conversion whose messages have all run is `Converted`: the part of `ConversionEnds` that needs no fairness |

*Stake.* The inductive invariant is `TypeOK /\ Custody`. Neither part stands
alone: releasing stake stays in the naturals because the totals cover the stakes
(`Custody`), and the sums in `Custody` are defined because amounts are naturals
(`TypeOK`). The totals that the code keeps by difference are compared with sums
over accounts, periods and times. A sum is the number of units of its amounts
(`TokenUnits`), so `TokenUnitsProofs` derives from the library's theorems about
cardinalities how a sum splits, and what a change at one place, or at all places
of one account, does to it; no induction is needed. One lemma per message shows
its effect on the sums (`RemoveStakeBonded` for the core of unbonding,
rebonding and migration), and `NextCustody` puts them together.

*Factory.* The inductive invariant is `TypeOK`, that a key has at most one
registered pair (`OneKeyForPair`), and the three properties. MigrationBlocks
needs that the saved list covers exactly the pairs registered when the owner
changed. RoutesExact adds that a registered pair is stored under its own key.

*Escrow.* The escrow knows amounts per account, the contract keys per account,
period and time. `BondedOfOne` says that when the keys of one account change,
that account gains what all gain together, so each step of the refinement
follows from the sums already proved for `Custody`. `TotalOfParts` cuts a sum
over keys into the sums of the accounts, which the messages for many accounts
need (`MassDelegate`, `QuickUnbond`). `Custody` is needed for the guards of the
escrow: nothing is returned that is not there.

`NoEarlyExit` is an action property of `TypeOK` states. What an account can
have out by a time is the sum of four parts, stake, locks, claims and what lies
outside; for each message it is shown what that takes from one part and adds to
another, never earlier (`RebondLasting` is the hard one: shortening a period
locks the stake for what was left of the longer one).

*Rewards.* `TOTAL_PER_PERIOD` counts a stake only from `min_bond` on and is kept
by difference; `PeriodTotals` is inductive with `TypeOK` and `Custody` as long as
no message takes the stakes of several accounts off as one, hence the
hypothesis. `PowersCovered` then follows without induction: powers are rounded
down, so those of the parts come to no more than that of the total
(`PowerOfSuperadditive`, `TotalSuperadditive`). `EarnsByPower` holds of every
message because `update_rewards` corrects exactly what the change of power would
have made (`UpdateRewardsEarns`). With it `RewardBooks`, the books of a
distribution, is inductive: points handed out cover those earned, what was handed
out is withdrawn or withdrawable, and the contract holds that with what the curve
still locks. `RewardsSolvent` is what it says about payments. A fact about every
partial sum (`GrowingParts`) is proved from a smallest set without it, which the
library's theorem that `<` is well founded gives.

*Oracle.* The inductive invariant is `OracleInv`. Rounding down loses at most a
digit of a second's integral for each nanosecond (`Tracks`), but the averages
subtract two values and need more: that two values have lost about the same.
`Trails` bounds how far a value in a buffer and the accumulator are apart in
what they lost, `Near` any two values of a buffer. `Clocked` says that a buffer is
as long as its past and that its next checkpoint lies after the snapshot, which
is what `NeverStuck` and `FullHistory` come down to. A store may write several checkpoints at
once and push as many values out of the buffer; the values it keeps move back as
far as their checkpoints fall behind, so each is still of its own time. The
clock is assumed to run for at least a second.

*Fees.* The splitter needs no invariant but its type. `ShareSum` compares the
shares with the weights, which add up to one: they come to no more than what is
held and miss it by less than a unit for each recipient. `SplitOnce` is why a
token listed twice is not paid twice: the second message finds less than the
same shares again, unless every share is zero, and then none is paid. The
trader's properties are not inductive one by one, since each says what the queue
does next. `TraderInv` describes the whole queue of a running collection:
SwapHopAssets is its last message (`Shaped`); its swaps are of different assets
and covered (`Covered`); what a swap brings in is PALOMA or on the way, and an
asset is on the way only if a route leads to it (`Routed`); of each asset on the
way there will be something (`Funded`); of what there is more of than before,
all will be sold (`Sold`); and PALOMA never falls below what there was
(`Gained`). `HopsGoThrough` then needs only the first step of a valid route, so
the depth of routes is arbitrary.

*pair_lsd.* The invariant of `Amplification` is `AmpTypeOK`, whose last
conjunct, that the interpolated value is in range, follows from the order of the
ramp's ends. `AmpSteady` needs the invariant, because a new ramp only starts at
the current value if the old one is well formed. For `AmpSlow` the invariant
`AmpHistory` tells where each remembered value came from: a ramp starts no
sooner than `MinAmpChangingTime` after the one before, so at most two ramps are
seen in that time, the second begins where the first was left, and every stop
since keeps a value of one of them. `OneRamp` and `TwoRamps` then bound what the
interpolations can make of it: the second ramp may reach ten times where it
began only if it lasts as long as a whole change must, so what is left of the
look back after the first has run is worth only its part of a factor of ten.
`NextAmp` shows that every
step of the pair is a step of `Amplification` or leaves it alone. `MovesQuoted`
shows for each message that moves tokens that it saves the rate it quoted with
(`SavedAsUsed`) and reports the pools its transfers leave.

The type invariant of the pair, and what its swaps pay, depend on where Newton's
method ends. `Newton` is a recursive function, and a `CHOOSE` to the provers, so
its existence comes first (`NewtonDefined`): the library's induction theorem
cannot be used here, but there is no smallest number of steps for which the
function is missing (`EveryNumber`, from the well-foundedness of `<`), and so
`NewtonIs` may unfold it. `NewtonType` then says that it answers with a number or
with nothing, and is done only where one step led from a value to the answer,
within the tolerance. For `calc_y` that is enough: a step that moves by one unit
at most ends on the root, wherever it started (`StepToRoot`), which gives
`SolverLands` whatever the number of iterations. For `compute_d` it is enough
for the types, not for a bound on D, which has cubes in it and returns its last
iterate even if it has not converged. The inductive invariant `PairTyped` adds to
`TypeOK` that the locked LP tokens are never burned, so the supply does not return
to zero, for which `BurnType` shows that a withdrawal by list that empties a pool
would cost more than there is; and `EmptyPrice` shows which empty pools have a
price: none of the second asset, and zero of the first. `SwapTyped` draws from
`SolverLands` that what is left of the asset paid out lies on the curve.
`MintedBound`, `BurnBound` and `RefundBound` follow what each division of the
liquidity messages rounds off, which is why `SharesPriced` needs no tolerance.

*Pair.* The invariant is `TypeOK` with `Kept`: LP tokens exist only with the
minimum liquidity still in the pair, which the first deposit leaves there and
no withdrawal can reach. Lemmas bound what each division and multiplication of
the handlers rounds to, and each message that moves tokens is shown to have the
`Outcome` that both theorems need. The library's well-foundedness of `<` gives
the integer square root. `NeverEmpties` needs its hypothesis: `compute_swap`
rounds a quotient to a `Decimal256` before it subtracts it, so with a pool larger
than the precision of a `Decimal` the rounding could amount to a whole token.

`ShareValueKept` compares products of pools and supplies before and after. A
swap loses less than the last digit of a `Decimal` in each unit of the pool it
pays from (`GrossKeepsProduct`), and fees only leave more behind; a deposit mints
no more than its smaller share and a withdrawal refunds no more than its own
(`MintKeeps`, `RefundKeeps`). A deposit of one asset is a swap and a deposit in
one message, which `WorthKept` puts together; there the loss of the swap is
carried over to the larger supply, so the property counts it per new token. A
version that counted it per old token passed TLC on small pools and failed in
this proof: with pools of 4 and 27, a precision of 6 and a fee of 5/6, a deposit
of 34 breaks it. `CumulativePrices` comes down to how `\div` and `%` split over
the seconds before and after a step (`DivOfSum`, `ModOfSum`): the code rounds the
price of all seconds since the last store at once, so a second may bring a last
digit more, but a message, stored or not, none.

*Periphery.* `RouteDelivered` speaks of the end of a route, so the invariant
`PeripheryInv` says how it gets there. After `k` messages what is left to run is
`Rest`, a function of the request and the balances it began with; the router
holds nothing of what the first `k` swaps offered, but what the next is to offer
(`WayCleared`), which `SwapAdvances` carries over one swap; and an assertion that
has run held of what the receiver had before, without what it put in
(`HadBefore`), although the code reads that balance once the coins have
arrived. A conversion always has one message left, and `ConvertStep` says for
each what it will find in the contract. `TMP_DATA` then belongs to the running
conversion because `Convert` writes it and nothing else runs before the replies.

*Only model-checked*: `QuotesOnCurve` and `ShareValueKept` of the pair_lsd. Both
compare D before and after, and so need a bound on how far `compute_d` is from
the root after at most `Iterations` steps; there is none for every value of that
constant, since the code returns the last iterate whether it has converged or
not, and for 32 it would take the rate of convergence, an induction over data.
What does not depend on it is proved: `SharesPriced` has the D of the pools less
the fee where `ShareValueKept` has that of the pools themselves, and
`SwapsKeepCurve` the root that `calc_y` found where `ShareValueKept` has D.
*Out of the prover's reach* is also
that a conversion ends at all (`ConversionEnds`), which needs fairness.

Assumptions worth knowing: periods are distinct (`instantiate` sorts but does
not deduplicate them); `min_bond` is at least one (`instantiate` raises it) and
`tokens_per_power` is positive (a zero, which `instantiate` takes, divides by
zero in every message); fee rates are at most one; the staked token is not a
reward token (the code refuses it); the value `NONE` that stands for an absent
item is none of the items; `ShareValueKept` allows for the last digit
of a `Decimal`, which `compute_swap` may round in the trader's favour.

## Plan

Modelled: every contract that keeps state but the gauge adapter. Proved: every
property that a passing run checks, but for two of the pair_lsd that need a bound
on D and one that needs fairness, and that the staking contract implements its
escrow.

Left: how far `compute_d` is from the root after 32 steps, for balances within
the width of the code's integers; the instantiation of a pair with its replies
as one transaction of `Transactions`, in front of `Factory`.

## Not modelled

The gauge adapter stores one amount its owner overwrites, and its query is one
formula over its input. Pair instantiation is a straight line of messages
without choices; `Factory` has its outcome. Messages of the factory that only
forward to another contract (CreateDistributionFlow, UpdatePairFees) change
nothing in it and appear where they arrive. Simulation queries of the
router ask pairs and keep no state. Assets of different precision in the
pair_lsd (it takes exactly two assets) and plain transfers to it are left out;
what a pair pays the fee and periphery contracts is left open. Message types, queriers, the legacy oracle,
the placeholder, scripts and tests hold no logic of their own.
