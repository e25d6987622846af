SPECIFICATION Spec
CONSTANTS
  NONE = NONE
  alice = alice
  dao = dao
  One = 10
  Fine = 10
  AmpPrecision = 5
  Iterations = 32
  LsdAsset = 2
  MaxAmp = 8
  MaxAmpChange = 2
  MinAmpChangingTime = 2
  InitialAmps = {4}
  Genesis = 1
  MaxTime = 6
  Users = {dao, alice}
  FactoryOwner = dao
  InitialOwners = {NONE}
  MaxProposalTtl = 0
  RateEpochs = {1}
  HubRates = {100}
  MinLiquidity = 50
  DefaultSlippage = 25
  MaxSlippage = 50
  FeeConfigs <- NoFees
  FactoryRates = {50}
  HasFeeAddress = TRUE
  MaxReferral = 50
  TradingStarts = 2
  PricePrecision = 4
  Modulus = 1
  Deposits <- OneDeposit
  Withdrawals = {}
  Burns = {}
  Offers = {}
  Beliefs = {NONE}
  Spreads = {50}
  Referrals = {0}
  MaxMessages = 0
INVARIANTS AmpTypeOK AmpChangesSlowly
PROPERTIES AmpContinuous
CHECK_DEADLOCK FALSE
