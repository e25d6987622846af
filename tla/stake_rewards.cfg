SPECIFICATION Spec
CONSTANTS
  a = a
  b = b
  NONE = NONE
  d1 = d1
  Account = {a, b}
  Periods = {1}
  MinBond = 1
  TokensPerPower = 1
  Unbonder = b
  HasConverter = FALSE
  MaxDistributions = 1
  InitialAdmin = a
  DecimalOne = 2
  SharesScale = 4
  Asset = {d1}
  Multipliers <- OneAndAHalf
  NewAdmins = {NONE}
  Delegates = {b}
  Holdings <- TwoOutside
  RewardSupply = 2
  MaxTime = 1
  Horizon = 2
INVARIANTS PowersCovered 
PROPERTIES EarnsByPower
CHECK_DEADLOCK FALSE
