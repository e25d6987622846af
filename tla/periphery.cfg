SPECIFICATION Spec
CONSTANTS
  NONE = NONE
  juno = juno
  wyjuno = wyjuno
  atom = atom
  junoLp = junoLp
  wyLp = wyLp
  alice = alice
  bob = bob
  Router = router
  Converter = converter
  Users = {alice, bob}
  Traders = {alice}
  Contracts = {router, converter}
  Coins = {juno, wyjuno, atom, junoLp, wyLp}
  Pairs <- TwoPairs
  LpOf <- LpTokens
  MaxPaid = 2
  MaxHeld = 1
  MaxBegun = 3
  MaxSwapOperations = 2
  Routes <- SomeRoutes
  Minimums = {NONE, 2}
  BaseDenom = juno
  Derivative = wyjuno
  Traded = {juno, wyjuno}
  Gifts = {junoLp}
INVARIANTS TypeOK RouteDelivered
PROPERTIES ConversionEnds
CHECK_DEADLOCK FALSE
