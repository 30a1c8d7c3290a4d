SPECIFICATION PermitSpec
CONSTANTS
  Ann = Ann
  Bob = Bob
  Pool = Pool
  ZeroAddress = ZeroAddress
  Accounts = {Ann, Bob, Pool}
  Treasury = Ann
  Routers = {}
  Pools = {Pool}
  Migrators = {Pool}
  INITIAL_SUPPLY = 4
  RESERVE_BUFFER = 1
  REWARD_PRECISION = 3
  MINT_PER_SECOND = 2
  BURN_ON_TRANSFER = 2
  BURN_FROM_LP = 1
  BURN_PRECISION = 4
  MaxTime = 1
  MaxUint = 12
  Amounts = {4}
  Spenders = {Bob, ZeroAddress}
  Approvals = {12}
  Signers = {Ann}
  SignedValues = {4}
  MaxNonce = 1
  MaxSigned = 2
PROPERTIES
  AllowanceBoundsLoss
  ImplementsBook
