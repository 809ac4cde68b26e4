\* One order address, used and re-used: every request, market and gift.
SPECIFICATION Spec
CONSTANTS
  Ids = {o1}
  Requests <- OrderRequests
  Markets <- TwoMarkets
  PoolFees <- Fees
  SwapLayout <- LegacyLayout
  Payees = {"keeper", "escrow"}
  Gifts = {3}
  MaxEscrow = 1028
  Genesis = 4
  MaxTime = 8
  MaxRounds = 2
INVARIANTS TypeOK EscrowCovers LimitHonoured KeeperFeeBounded CadenceKept NeverStuck
PROPERTY KeepsPromise
