CONSTANTS
  Body = {b1, b2}
  Lending <- MCLending
  Treasury <- MCTreasury
  Gov = gov
  User = user
  None = None
  MaxProposals = 3
SPECIFICATION GovshuttleSpec
INVARIANT
  StoreIsExecuted
CHECK_DEADLOCK FALSE
