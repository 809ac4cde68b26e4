\* The DEX program as this repository builds it.
SPECIFICATION KeeperSpec
CONSTANTS
  Ids = {o1}
  Requests <- KeeperRequests
  Listed <- KeeperRequests
  MaxSkew = 1
  DiscoveryLimit = 1
  Markets <- FeeMarkets
  PoolFees <- Fees
  SwapLayout <- RepoLayout
  Payees = {"keeper", "escrow"}
  Gifts = {}
  MaxEscrow = 0
  Genesis = 4
  MaxTime = 7
  MaxRounds = 1
CHECK_DEADLOCK FALSE
PROPERTY FillableIsFilled
