\* Two orders over one moving market, one of which the window of the keeper may
\* lose, and snapshots, balances and transactions that the chain has overtaken.
\* Clock and addresses are bounded, so the system may come to rest.
SPECIFICATION KeeperSpec
CONSTANTS
  Ids = {o1, o2}
  Requests <- KeeperRequests
  Listed <- KeeperRequests
  MaxSkew = 0
  DiscoveryLimit = 2
  Markets <- FeeMarkets
  PoolFees <- Fees
  SwapLayout <- LegacyLayout
  Payees = {"keeper"}
  Gifts = {}
  MaxEscrow = 0
  Genesis = 4
  MaxTime = 5
  MaxRounds = 1
CHECK_DEADLOCK FALSE
PROPERTIES NoWastedSend FillableIsFilled EveryOrderEnds
