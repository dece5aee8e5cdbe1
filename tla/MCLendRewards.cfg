CONSTANTS
  a = a
  b = b
  Users = 2
  Token = {a}
  Precision = 2
  TokenUnit = 1
  UsdUnit = 2
  Price <- MCPriceA
  Collateral = {a}
  MCR = {4}
  LiquidationRate = {8}
  InitWhitelist = {a}
  InitWallet <- MCWalletA
  RewardToken = {r}
  RewardAmount = {1}
  MaxReward = 2
  InitRewardTokens = {r}
  Validators = 1
  MigrateStakeLimit = 1
  InitValidators <- MCOneValidator
  ValidatorLists <- MCNoLists
  Amount = {1}
  Plugin = {TRUE}
  MaxSupply = 2
SPECIFICATION Spec
INVARIANTS
  RewardSolvent
CHECK_DEADLOCK FALSE
