SPECIFICATION SystemSpec
CONSTANTS
  Ann = Ann
  Bob = Bob
  Pool = Pool
  Mig = Mig
  Cash = Cash
  Other = Other
  Psm = Psm
  Hook = Hook
  ZeroAddress = ZeroAddress
  Accounts = {Ann, Bob, Mig}
  Treasury = Ann
  Routers = {}
  Pools = {Bob}
  Migrators = {Bob, Mig}
  INITIAL_SUPPLY = 6
  RESERVE_BUFFER = 1
  REWARD_PRECISION = 3
  MINT_PER_SECOND = 2
  BURN_ON_TRANSFER = 2
  BURN_FROM_LP = 1
  BURN_PRECISION = 4
  MaxTime = 1
  MaxUint = 24
  Amounts = {2, 4}
  Spenders = {Bob}
  Approvals = {0}
  Tokens = {Psm}
  CashAddresses = {Cash, Other, ZeroAddress}
  DecimalBase = 2
  MaxDecimals = 2
  MigratorAddress = Mig
  CashAddress = Cash
  HookTokens = {}
  Holdings = 3
  MigrateAmounts = {0, 1, 3}
  Ratios = {0, 3}
  Decimals = {0, 1, 2}
  MaxCalls = 1
INVARIANTS
  SystemTypeOK
  QuoteIsHonoured
PROPERTIES
  ImplementsDesk
