CONSTANTS
  User = {u1}
  ModuleAddress = erc20
  ZeroAddress = zero
  Coin = {atuc}
  External = {x}
  Approving = {}
  Taxed = {}
  Fee <- MCFee
  SendDisabled = {atuc}
  Metadata = {m1}
  NoMetadata = NoMetadata
  NoPair = NoPair
  NoId = NoId
  UserCoins = 2
  UserTokens = 2
  InitCoins <- MCInitCoins
  InitSupply <- MCInitSupply
  InitTokens <- MCInitTokens
  InitTotal <- MCInitTotal
  Amount = {1, 2}
  MaxNonce = 2
  MaxSupply = 2
  MaxLogs = 2
SPECIFICATION Spec
INVARIANTS
  IndInv
  PairsIndexed
  NativeCoinBacked
  HookNeverFails
  Redeemable
PROPERTIES
  ImplementsVault
