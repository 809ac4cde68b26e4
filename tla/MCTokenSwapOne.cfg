\* One key that is admin, treasury, trader and LP; token A may come to charge
\* for transfers.
SPECIFICATION Spec
CONSTANTS
  Keys = {alice}
  Default = Default
  UpgradeAuthority = alice
  Endowment = 6
  InitialSupply = 3
  U64Max = 9
  FeeInputs <- SplitSchedules
  Constraints <- NoConstraints
  TransferFees <- Taxable
  Amounts = {0, 1, 2, 4}
  LpAmounts = {1, 2, 3}
  Limits = {0, 9}
INVARIANTS TypeOK FeesBacked SoleLpCanExit
PROPERTIES LpValueNeverDiluted ExactInputIsEnough
