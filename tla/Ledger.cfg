SPECIFICATION Spec
CONSTANTS
  Ann = Ann
  Bob = Bob
  Pool = Pool
  Migrator = Migrator
  ZeroAddress = ZeroAddress
  Accounts = {Ann, Bob, Pool}
  Treasury = Ann
  Routers = {Pool}
  Pools = {Ann, Pool}
  Migrators = {Bob, Pool}
  INITIAL_SUPPLY = 12
  RESERVE_BUFFER = 3
  REWARD_PRECISION = 3
  MINT_PER_SECOND = 2
  BURN_ON_TRANSFER = 2
  BURN_FROM_LP = 1
  BURN_PRECISION = 4
  MaxTime = 2
  MaxUint = 32
  Amounts = {0, 4, 8}
  Spenders = {}
  Approvals = {}
INVARIANTS
  ExemptHaveNoScore
  BalanceIsSpendable
PROPERTIES
  PoolReserveKept
  ImplementsLedger
