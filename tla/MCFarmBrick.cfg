\* Widths scaled so that accrue() never overflows (MaxTime * MaxRewardPerSecond *
\* AccPrecision = U128Max) and position * accumulator can, as with u64, u128, 1e12.
SPECIFICATION Spec
CONSTANTS
  Stakers = {alice, bob}
  Rates = {3}
  Amounts = {1, 2}
  Endowment = 2
  AccPrecision = 4
  MaxRewardPerSecond = 3
  U64Max = 60
  U128Max = 36
  MaxTime = 3
  MaxChanges = 4
CHECK_DEADLOCK FALSE
INVARIANTS UnstakeWorks
