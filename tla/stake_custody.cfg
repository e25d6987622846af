SPECIFICATION Spec
CONSTANTS
  a = a
  b = b
  NONE = NONE
  Account = {a, b}
  Periods = {1, 2}
  MinBond = 2
  TokensPerPower = 1
  Unbonder = NONE
  HasConverter = TRUE
  MaxDistributions = 0
  InitialAdmin = NONE
  DecimalOne = 1
  SharesScale = 1
  Asset = {}
  Multipliers <- NoMultipliers
  NewAdmins = {}
  Delegates = {}
  Holdings <- TwoEach
  RewardSupply = 0
  MaxTime = 3
  Horizon = 5
SYMMETRY Symmetry
INVARIANTS TypeOK Custody PeriodTotals
PROPERTIES NoEarlyExit ImplementsEscrow
CHECK_DEADLOCK FALSE
