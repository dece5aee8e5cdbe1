CONSTANTS
  a = a
  b = b
  Users = 2
  Token = {a, b}
  Precision = 1
  TokenUnit = 1
  UsdUnit = 1
  Price <- MCPrice
  Collateral = {b}
  MCR = {2}
  LiquidationRate = {1}
  InitWhitelist = {a, b}
  InitWallet <- MCWalletBoth
  RewardToken = {}
  RewardAmount = {}
  MaxReward = 0
  InitRewardTokens = {}
  Validators = 2
  MigrateStakeLimit = 1
  InitValidators <- MCInitValidators
  ValidatorLists <- MCValidatorLists
  Amount = {1}
  Plugin = {}
  MaxSupply = 0
SPECIFICATION Spec
PROPERTY
  MigratedValidatorIsEmpty
CHECK_DEADLOCK FALSE
