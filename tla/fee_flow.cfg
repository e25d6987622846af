SPECIFICATION Spec
CONSTANTS
  A = A
  B = B
  C = C
  Paloma = Paloma
  denom = denom
  first = first
  second = second
  Assets = {A, B, C, Paloma}
  Tokens = {A, C, Paloma}
  RoutesMaxDepth = 2
  Markets <- SomeMarkets
  Requests <- SomeRequests
  MaxHeld = 2
  Denoms = {denom}
  Cw20s = {Paloma}
  Recipients = {first, second}
  Weight <- ThreeToOne
  WeightOne = 4
  MaxListed = 2
  MaxShared <- SmallAmounts
INVARIANTS TypeOK SwapsCovered NothingLeftOnTheWay HopsGoThrough
PROPERTIES SharesPaidOnce OnlyDustLeft
