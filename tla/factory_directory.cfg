SPECIFICATION Spec
CONSTANTS
  NONE = NONE
  Users = {u1, u2}
  Deployer = u1
  Assets <- DistinctNames
  PairTypes = {xyk}
  MaxProposalTtl = 1
  MaxPairs = 3
  MaxTenures = 2
  MaxTime = 2
INVARIANTS TypeOK RoutesMatchPairs StakingMatchesPairs BlockedUntilMigrated ProposalOfThisOwner
