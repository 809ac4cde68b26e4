\* A swap whose step stalls after it has crossed a tick.
SPECIFICATION Spec
CONSTANTS
  Q64 = 64
  FeeDenom = 10
  GrowthMod = 4096
  MinTick <- Lowest
  MaxTick = 3
  SqrtRatios <- Ratios
  FeePips = 1
  TickSpacing = 2
  TickArraySize = 2
  MaxCrossings = 2
  U64Max = 100000
  OpeningPrices = {64}
  Positions <- Overlapping
  Liquidities = {0, 64}
  SwapAmounts = {2, 16, 40}
  PriceLimits = {0, 60, 71}
  MaxChanges = 3
  MaxSwaps = 2
CHECK_DEADLOCK FALSE
INVARIANT LiquidityInRange
