CONSTANTS
  Contract = {c1, c2}
  EOA = {e1}
  None = None
  MaxNFT = 2
  One = 2
  GasLimit = 2
  GasUsed = {0, 1, 2}
  GasPrice = {0, 1}
  Funds = 3
  ParamChoices <- MCParamChoices
SPECIFICATION Spec
INVARIANTS
  RegistryIndexed
  RegistryFromTurnstile
  RevenueIsEarned
  FeesConserved
  HookFailsUnsplit
PROPERTY RegistrationIsFinal
SYMMETRY Symmetry
