\* Two fees of one half each: each is valid, together they take everything.
SPECIFICATION Spec
CONSTANTS
  Keys = {alice}
  Default = Default
  UpgradeAuthority = alice
  Endowment = 8
  InitialSupply = 4
  U64Max = 12
  FeeInputs <- WholeSchedules
  Constraints <- NoConstraints
  TransferFees <- Untaxable
  Amounts = {1, 2, 3}
  LpAmounts = {1, 2}
  Limits = {0, 12}
PROPERTY LpValueNeverDiluted
