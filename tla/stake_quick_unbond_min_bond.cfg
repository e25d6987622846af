SPECIFICATION Spec
CONSTANTS
  a = a
  b = b
  c = c
  NONE = NONE
  Account = {a, b, c}
  Periods = {1}
  MinBond = 2
  TokensPerPower = 1
  Unbonder = a
  HasConverter = FALSE
  MaxDistributions = 0
  InitialAdmin = NONE
  DecimalOne = 1
  SharesScale = 1
  Asset = {}
  Multipliers <- NoMultipliers
  NewAdmins = {}
  Delegates = {}
  Holdings <- TwoEach
  RewardSupply = 0
  MaxTime = 0
  Horizon = 1
INVARIANT PeriodTotals
CHECK_DEADLOCK FALSE
