SPECIFICATION UserSpec
CONSTANTS
  NONE = NONE
  alice = alice
  dao = dao
  One = 10
  Fine = 10
  AmpPrecision = 2
  Iterations = 32
  LsdAsset = 2
  MaxAmp = 2
  MaxAmpChange = 1
  MinAmpChangingTime = 9
  InitialAmps = {2}
  Genesis = 1
  MaxTime = 3
  Users = {dao}
  FactoryOwner = dao
  InitialOwners = {dao}
  MaxProposalTtl = 0
  RateEpochs = {0, 2}
  HubRates = {100, 150}
  MinLiquidity = 50
  DefaultSlippage = 25
  MaxSlippage = 50
  FeeConfigs <- SomeFees
  FactoryRates = {50}
  HasFeeAddress = TRUE
  MaxReferral = 50
  TradingStarts = 2
  PricePrecision = 4
  Modulus = 4
  Deposits <- SomeDeposits
  Withdrawals <- OneWithdrawal
  Burns = {30}
  Offers = {40, 9000}
  Beliefs = {NONE, 2500}
  Spreads = {50}
  Referrals = {10}
  MaxMessages = 4
INVARIANTS TypeOK QuotesOnCurve
PROPERTIES RateFresh OracleSeesPools 
CHECK_DEADLOCK FALSE
