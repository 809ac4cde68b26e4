\* Two addresses, one chain of pools x - y - z, amounts around the size of the
\* pools; the last step allowed is the end of a behaviour.
SPECIFICATION MCSpec
CONSTANTS
  Accounts = {alice, bob}
  Nobody = Nobody
  Pools = {"xy", "yz"}
  Mints = {"x", "y", "z"}
  PoolMint <- TwoPools
  Fees <- EighthFees
  Funding = 4
  InitialSupply = 9
  Endowment = 16
  U64Max = 31
  Amounts = {3, 14}
  LpAmounts = {4}
  Limits = {0, 2, 16}
  MaxSteps = 4
INVARIANTS TypeOK ZapDepositsOutput
PROPERTIES BoundsHonoured RouteKeepsToItself PauseStopsTrading FrozenForEver
CHECK_DEADLOCK FALSE
