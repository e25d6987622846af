SPECIFICATION Spec
CONSTANTS
  NONE = NONE
  DecimalOne = 4
  MinLiquidity = 2
  DefaultSlippage = 1
  MaxSlippage = 2
  Slippages = {NONE, 2}
  Beliefs = {NONE, 4}
  FeeConfigs <- SomeFees
  HasFeeAddress = TRUE
  MaxReferral = 1
  Referrals = {0, 1}
  TradingStarts = 1
  PricePrecision = 100
  Modulus = 8
  TokenSupply = 7
  MaxTime = 2
INVARIANTS TypeOK NeverEmpty
PROPERTIES ShareValueKept OracleSeesPools CumulativePrices
