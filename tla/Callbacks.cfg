SPECIFICATION SystemSpec
CONSTANTS
  Ann = Ann
  Bob = Bob
  Pool = Pool
  Mig = Mig
  Cash = Cash
  Other = Other
  Psm = Psm
  Hook = Hook
  ZeroAddress = ZeroAddress
  Accounts = {Ann, Bob, Mig}
  Treasury = Ann
  Routers = {}
  Pools = {Bob}
  Migrators = {Mig}
  INITIAL_SUPPLY = 5
  RESERVE_BUFFER = 1
  REWARD_PRECISION = 3
  MINT_PER_SECOND = 1
  BURN_ON_TRANSFER = 2
  BURN_FROM_LP = 1
  BURN_PRECISION = 4
  MaxTime = 1
  MaxUint = 24
  Amounts = {2}
  Spenders = {Bob}
  Approvals = {0}
  Tokens = {Hook}
  CashAddresses = {Cash, Other, ZeroAddress}
  DecimalBase = 2
  MaxDecimals = 2
  MigratorAddress = Mig
  CashAddress = Cash
  HookTokens = {Hook}
  Holdings = 3
  MigrateAmounts = {1, 3}
  Ratios = {0, 3}
  Decimals = {1, 2}
  MaxCalls = 2
INVARIANTS
  QuotesAreFair
PROPERTIES
  ImplementsDesk
