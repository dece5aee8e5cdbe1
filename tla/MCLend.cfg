CONSTANTS
  a = a
  b = b
  Users = 2
  Token = {a, b}
  Precision = 1
  TokenUnit = 1
  UsdUnit = 2
  Price <- MCPrice
  Collateral = {b}
  MCR = {3}
  LiquidationRate = {1}
  InitWhitelist = {a, b}
  InitWallet <- MCWallet
  RewardToken = {}
  RewardAmount = {}
  MaxReward = 0
  InitRewardTokens = {}
  Validators = 2
  MigrateStakeLimit = 1
  InitValidators <- MCInitValidators
  ValidatorLists <- MCValidatorLists
  Amount = {1, 2}
  Plugin = {}
  MaxSupply = 0
SPECIFICATION Spec
INVARIANTS
  PoolSolvent
  UsdIsDebt
  StakesConserved
PROPERTIES
  StakeFollowsSupply
  CollateralKept
  BorrowIsWithinMax
CHECK_DEADLOCK FALSE
