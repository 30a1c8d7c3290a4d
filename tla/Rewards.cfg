SPECIFICATION Spec
CONSTANTS
  Ann = Ann
  Bob = Bob
  Pool = Pool
  Migrator = Migrator
  ZeroAddress = ZeroAddress
  Accounts = {Ann, Bob, Pool}
  Treasury = Ann
  Routers = {}
  Pools = {Pool}
  Migrators = {Pool}
  INITIAL_SUPPLY = 8
  RESERVE_BUFFER = 3
  REWARD_PRECISION = 3
  MINT_PER_SECOND = 2
  BURN_ON_TRANSFER = 2
  BURN_FROM_LP = 1
  BURN_PRECISION = 4
  MaxTime = 3
  MaxUint = 28
  Amounts = {0, 4}
  Spenders = {}
  Approvals = {}
INVARIANTS
  TypeOK
  PhysicalSupply
  BurnScoreAccounted
  RewardsBacked
  SupplyCoversBalances
  SettlementNeverReverts
  InflationCap
PROPERTIES
  ProportionalShare
