CONSTANTS
  User = {alice, trader}
  Receiver = {alice, erc20}
  Trader = trader
  Standard = standard
  Voucher = voucher
  External = x
  CoinswapModule = coinswap
  FeeCollector = feeCollector
  Erc20Module = erc20
  ZeroAddress = zero
  TransferEscrow = transferEscrow
  open = open
  Channel = {open}
  Remote <- MCRemote
  PoolStandard = 3
  PoolVoucher = 1
  Funds = 1
  One = 1
  Amount = {1, 2}
  MaxPackets = 2
  ParamChoices <- MCParamChoices
  MaxSwap = {0, 2}
  None = None
SPECIFICATION Spec
INVARIANTS
  CoinsConserved
  TokensBacked
PROPERTIES
  OnboardingIsFair
