CONSTANTS
  User = {u1, u2}
  ModuleAddress = erc20
  ZeroAddress = zero
  Coin = {atuc}
  External = {x}
  Approving = {}
  Taxed = {x}
  Fee <- MCFee
  SendDisabled = {}
  Metadata = {m1}
  NoMetadata = NoMetadata
  NoPair = NoPair
  NoId = NoId
  UserCoins = 1
  UserTokens = 2
  InitCoins <- MCInitCoins
  InitSupply <- MCInitSupply
  InitTokens <- MCInitTokens
  InitTotal <- MCInitTotal
  Amount = {1, 2}
  MaxNonce = 1
  MaxSupply = 2
  MaxLogs = 1
SPECIFICATION Spec
PROPERTIES
  ConversionIsFair
INVARIANTS
  NativeTokenBacked
SYMMETRY Symmetry
