------------------------------- MODULE Oracle -------------------------------
(***************************************************************************)
(* The price oracle of a pair, packages/palomadex/src/oracle.rs.  A pair   *)
(* initialises it with its first liquidity and stores the price after      *)
(* every change of its pools.  The oracle accumulates price * time and     *)
(* keeps, for each period, the values the accumulator had at the last      *)
(* checkpoints of the period, so that the average price between two        *)
(* checkpoints is a difference of two values.                              *)
(*                                                                         *)
(* Block times are in nanoseconds and checkpoints in whole seconds.        *)
(* A price is counted in its smallest units (10^-18), and so is an         *)
(* accumulator: one unit is one price unit that lasts a second.            *)
(***************************************************************************)
EXTENDS Integers, Sequences

CONSTANTS
  Prices,         \* prices of B in A a pool may report, in units
  Scale,          \* the unit of a price squared: an inverse is Scale \div price
  NanosPerSecond, \* 10^9
  Periods,        \* MINUTE, HALF_HOUR and SIX_HOURS, in seconds
  BufferDepth,    \* BUFFER_DEPTH
  MaxTime         \* bound: the last block time, in nanoseconds

ASSUME PricesAssumption == Prices \subseteq Nat \ {0} /\ Scale \in Nat \ {0}
ASSUME ClockAssumption == /\ NanosPerSecond \in Nat \ {0}
                          /\ Periods \subseteq Nat \ {0}
                          /\ BufferDepth \in Nat \ {0}
                          /\ MaxTime \in Nat /\ NanosPerSecond <= MaxTime

VARIABLES
  now,         \* env.block.time, in nanoseconds
  started,     \* whether the oracle was initialised
  accumulator, \* LAST_UPDATES.accumulator
  updated,     \* LAST_UPDATES.minutes, half_hours and six_hours
  buffer,      \* LAST_MINUTES_PRICES, LAST_HALF_HOUR_PRICES and LAST_SIX_HOUR_PRICES
  spot,        \* history: the price of the pool
  began,       \* history: when the oracle was initialised
  area         \* history: price * time since then, in unit * nanoseconds, at each nanosecond

oracleVars == <<started, accumulator, updated, buffer>>
historyVars == <<spot, began, area>>
vars == <<now, oracleVars, historyVars>>

Seconds(nanos) == nanos \div NanosPerSecond
Nanos(seconds) == seconds * NanosPerSecond

Inverse(price) == Scale \div price
----------------------------------------------------------------------------
ZeroTwap == [aPerB |-> 0, bPerA |-> 0]

(* Twap::accumulate_nanos for both directions; each step rounds down *)
AccumulateNanos(twap, price, elapsed) ==
  [aPerB |-> twap.aPerB + (price * elapsed) \div NanosPerSecond,
   bPerA |-> twap.bPerA + (Inverse(price) * elapsed) \div NanosPerSecond]

NewAccumulator(price) == [snapshot |-> now, lastPrice |-> price, twap |-> ZeroTwap]

(* A bug: the time since the snapshot is accumulated with the new price *)
UpdateWithNewPrice(acc, price) ==
  [snapshot |-> now, lastPrice |-> price,
   twap |-> AccumulateNanos(acc.twap, price, now - acc.snapshot)]

(* Accumulator::update *)
Update(acc, price) ==
  [snapshot |-> now, lastPrice |-> price,
   twap |-> AccumulateNanos(acc.twap, acc.lastPrice, now - acc.snapshot)]

(* A bug: only one period is caught up at a time *)
OneStep(last, step) == IF Seconds(now) - last >= step THEN last + step ELSE last

(* A bug: the checkpoint after the present one is taken *)
RoundedUp(last, step) == last + ((Seconds(now) - last + step - 1) \div step) * step

(* calc_checkpoint, which is last itself when no period has passed *)
Checkpoint(last, step) == last + ((Seconds(now) - last) \div step) * step

(* the checkpoint before the first one that Prices::accumulate writes *)
FirstWritten(last, latest, step) ==
  IF (latest - last) \div step < BufferDepth THEN last ELSE latest - step * BufferDepth

(* A bug: the checkpoints passed are filled in from the oldest on *)
OldestFirst(first, written, i, step) == first + i * step

(* the time of the i-th newest of the checkpoints written after `first` *)
NewestFirst(first, written, i, step) == first + (written - i + 1) * step

(* A bug: the values already in the buffer are dropped *)
FreshOnly(length, fresh) == IF fresh < BufferDepth THEN fresh ELSE BufferDepth

(* how many values the buffer holds after `fresh` new ones *)
BufferLength(length, fresh) ==
  IF length + fresh < BufferDepth THEN length + fresh ELSE BufferDepth

(* Prices::accumulate: the newest value comes first; the values at the     *)
(* checkpoints passed are interpolated with the accumulator's last price   *)
(* and push the older ones back, out of the buffer when it is full.        *)
Accumulate(prices, last, latest, acc, step) ==
  LET fresh == (latest - last) \div step
      first == FirstWritten(last, latest, step)
      written == (latest - first) \div step
      elapsed(i) == Nanos(NewestFirst(first, written, i, step)) - acc.snapshot
  IN  [i \in 1..BufferLength(Len(prices), fresh) |->
         IF i <= written THEN AccumulateNanos(acc.twap, acc.lastPrice, elapsed(i))
         ELSE prices[i - fresh]]

(* diff_nanos of Prices::accumulate does not underflow: the accumulator is  *)
(* not ahead of any checkpoint that is due                                  *)
Interpolable(step) ==
  Checkpoint(updated[step], step) # updated[step] =>
    accumulator.snapshot <=
      Nanos(FirstWritten(updated[step], Checkpoint(updated[step], step), step) + step)
----------------------------------------------------------------------------
Init ==
  /\ now \in 0..(NanosPerSecond - 1)
  /\ started = FALSE
  /\ accumulator = [snapshot |-> 0, lastPrice |-> 0, twap |-> ZeroTwap]
  /\ updated = [step \in Periods |-> 0]
  /\ buffer = [step \in Periods |-> <<>>]
  /\ spot = 0
  /\ began = 0
  /\ area = <<>>

(* initialize_oracle: the first liquidity; the pair calls it only while the *)
(* supply of the LP token is zero, which it never is again                  *)
InitializeOracle(price) ==
  /\ ~started
  /\ started' = TRUE
  /\ accumulator' = NewAccumulator(price)
  /\ updated' = [step \in Periods |-> Seconds(now)]
  /\ buffer' = [step \in Periods |-> <<>>]
  /\ spot' = price
  /\ began' = now
  /\ area' = <<ZeroTwap>>
  /\ UNCHANGED now

(* store_oracle_price, again in the block of the last one *)
StoreInSameBlock(price) ==
  /\ started
  /\ now = accumulator.snapshot
  /\ accumulator' = [accumulator EXCEPT !.lastPrice = price]
  /\ spot' = price
  /\ UNCHANGED <<now, started, updated, buffer, began, area>>

(* store_oracle_price, the first time in a block *)
StoreInNewBlock(price) ==
  /\ started
  /\ now > accumulator.snapshot
  /\ \A step \in Periods : Interpolable(step)
  /\ buffer' = [step \in Periods |->
       Accumulate(buffer[step], updated[step], Checkpoint(updated[step], step), accumulator, step)]
  /\ updated' = [step \in Periods |-> Checkpoint(updated[step], step)]
  /\ accumulator' = Update(accumulator, price)
  /\ spot' = price
  /\ UNCHANGED <<now, started, began, area>>

StoreOraclePrice(price) == StoreInSameBlock(price) \/ StoreInNewBlock(price)

(* the block time moves on by a nanosecond and the pool keeps its price *)
Tick ==
  /\ now < MaxTime
  /\ now' = now + 1
  /\ area' = IF started
             THEN Append(area, [aPerB |-> area[Len(area)].aPerB + spot,
                                bPerA |-> area[Len(area)].bPerA + Inverse(spot)])
             ELSE area
  /\ UNCHANGED <<oracleVars, spot, began>>

Next == Tick \/ \E price \in Prices : InitializeOracle(price) \/ StoreOraclePrice(price)

Spec == Init /\ [][Next]_vars
----------------------------------------------------------------------------
(* query_oracle_range; start and end are counted in periods back from the  *)
(* newest checkpoint, and every buffer is first brought up to the present  *)

Present(step) ==
  Accumulate(buffer[step], updated[step], Checkpoint(updated[step], step), accumulator, step)

(* Twap::average_price: the quotient keeps nine decimals of the price *)
AveragePrice(new, old, elapsed) ==
  [aPerB |-> ((new.aPerB - old.aPerB) \div elapsed) * NanosPerSecond,
   bPerA |-> ((new.bPerA - old.bPerA) \div elapsed) * NanosPerSecond]

(* the average from `start` to `end` periods ago, end_index = Some(end) *)
QueryRange(step, start, end) ==
  AveragePrice(Present(step)[end + 1], Present(step)[start + 1], Nanos(step) * (start - end))

(* the average from `start` periods ago to this moment, end_index = None *)
QueryToNow(step, start) ==
  AveragePrice(AccumulateNanos(accumulator.twap, accumulator.lastPrice,
                               now - accumulator.snapshot),
               Present(step)[start + 1],
               Nanos(step) * start + now - Nanos(updated[step]))
----------------------------------------------------------------------------
Twap == [aPerB : Nat, bPerA : Nat]

(* The types of the state; a buffer never holds more than BUFFER_DEPTH      *)
(* values, and no checkpoint is in the future.                              *)
TypeOK ==
  /\ now \in 0..MaxTime
  /\ started \in BOOLEAN
  /\ accumulator \in [snapshot : 0..now, lastPrice : Prices \cup {0}, twap : Twap]
  /\ updated \in [Periods -> 0..Seconds(now)]
  /\ \A step \in Periods : /\ buffer[step] \in Seq(Twap)
                           /\ Len(buffer[step]) <= BufferDepth
  /\ spot \in Prices \cup {0}
  /\ began \in 0..now
  /\ area \in Seq(Twap)

(* the history of the price at a time since the oracle was initialised *)
AreaAt(time) == area[time - began + 1]

(* an accumulator value that is behind the exact integral by no more than   *)
(* what rounding down once in every nanosecond can lose                     *)
Follows(value, exact, nanos) ==
  /\ value * NanosPerSecond <= exact
  /\ exact - value * NanosPerSecond <= (NanosPerSecond - 1) * nanos

(* Every value in a buffer is the integral of the price the pool had, from  *)
(* the first liquidity up to that value's own checkpoint, however the price *)
(* changed within blocks and however long nothing was stored.               *)
CheckpointsExact ==
  started =>
    \A step \in Periods : \A i \in 1..Len(buffer[step]) :
      LET time == Nanos(updated[step] - (i - 1) * step)
      IN  /\ time >= began
          /\ Follows(buffer[step][i].aPerB, AreaAt(time).aPerB, time - began)
          /\ Follows(buffer[step][i].bPerA, AreaAt(time).bPerA, time - began)

(* store_oracle_price and the queries never panic: no checkpoint that is    *)
(* due lies before the accumulator's snapshot, although snapshots are taken *)
(* in nanoseconds and checkpoints in seconds.                               *)
NeverStuck == started => \A step \in Periods : Interpolable(step)

(* The buffer misses no checkpoint: it reaches back to the first liquidity  *)
(* or as many periods as it is deep.                                        *)
FullHistory ==
  started => \A step \in Periods :
    LET passed == (updated[step] - Seconds(began)) \div step
    IN  Len(buffer[step]) = IF passed < BufferDepth THEN passed ELSE BufferDepth

(* the average `r` of a price whose integral grew by `exact` in `nanos` *)
AverageOf(r, exact, nanos) ==
  /\ r * nanos <= exact + NanosPerSecond - 1
  /\ exact - r * nanos <= NanosPerSecond * nanos + (NanosPerSecond - 1) * (nanos + 1)

(* A query between two checkpoints returns the average of the price the     *)
(* pool had between them, whether or not the checkpoints were stored yet.   *)
RangeAverages ==
  started => \A step \in Periods :
    LET latest == Checkpoint(updated[step], step) IN
    \A start \in 1..(Len(Present(step)) - 1) : \A end \in 0..(start - 1) :
      LET nanos == Nanos(step) * (start - end)
          exact(f) == AreaAt(Nanos(latest - end * step))[f]
                        - AreaAt(Nanos(latest - start * step))[f]
      IN  \A f \in DOMAIN ZeroTwap : AverageOf(QueryRange(step, start, end)[f], exact(f), nanos)

(* A query up to now (end_age None, "count until the current time", says    *)
(* packages/palomadex/src/pair.rs) returns the average from its start       *)
(* checkpoint to this moment.                                               *)
AverageToNow ==
  started => \A step \in Periods : \A start \in 0..(Len(Present(step)) - 1) :
    LET from == Nanos(Checkpoint(updated[step], step) - start * step)
    IN  now > from =>
          \A f \in DOMAIN ZeroTwap :
            AverageOf(QueryToNow(step, start)[f], area[Len(area)][f] - AreaAt(from)[f], now - from)
============================================================================
