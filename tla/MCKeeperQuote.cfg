\* Protocol fees lie in the vaults.
SPECIFICATION KeeperSpec
CONSTANTS
  Ids = {o1}
  Requests <- QuoteRequests
  Listed <- QuoteRequests
  MaxSkew = 1
  DiscoveryLimit = 1
  Markets <- FeeMarkets
  PoolFees <- Fees
  SwapLayout <- LegacyLayout
  Payees = {"keeper", "escrow"}
  Gifts = {}
  MaxEscrow = 0
  Genesis = 4
  MaxTime = 7
  MaxRounds = 1
CHECK_DEADLOCK FALSE
INVARIANT QuoteDecidesFill
