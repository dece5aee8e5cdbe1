CONSTANTS
  User = {u1, u2}
  Token = {atom}
  Standard = canto
  ModuleAccount = coinswap
  FeeCollector = feeCollector
  One = 10
  MaxPools = 1
  MaxTime = 1
  Amount = {1, 2, 3}
  Bound = {0, 1}
  Deadline = {1}
  InitBalance <- MCInitBalance
  InitSupply <- MCInitSupply
  InitParams <- MCInitParams
  ParamChoices <- MCParamChoices
  InitStandard = 4
  InitToken = 4
  Fee = 1
  PoolFee = 1
  MaxStandard = 5
SPECIFICATION Spec
INVARIANTS
  SharesAreBacked
  SupplyIsBalances
  HoldersCanExit
PROPERTY ShareValueNeverFalls
SYMMETRY Symmetry
CHECK_DEADLOCK FALSE
