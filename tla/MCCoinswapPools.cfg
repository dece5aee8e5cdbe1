CONSTANTS
  User = {u1}
  Token = {atom, usdc}
  Standard = canto
  ModuleAccount = coinswap
  FeeCollector = feeCollector
  One = 10
  MaxPools = 2
  MaxTime = 2
  Amount = {1, 2}
  Bound = {0, 1}
  Deadline = {1, 2}
  InitBalance <- MCInitBalance
  InitSupply <- MCInitSupply
  InitParams <- MCInitParams
  ParamChoices <- MCParamChoices
  InitStandard = 5
  InitToken = 2
  Fee = 0
  PoolFee = 1
  MaxStandard = 3
SPECIFICATION Spec
INVARIANTS
  IndInv
  GenesisRoundTrip
CHECK_DEADLOCK FALSE
