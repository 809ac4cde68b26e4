\* Two keys: the admin hands over, the treasury and the policy change while
\* fees accrue, and a second LP comes and goes.
SPECIFICATION Spec
CONSTANTS
  Keys = {alice, bob}
  Default = Default
  UpgradeAuthority = alice
  Endowment = 2
  InitialSupply = 2
  U64Max = 4
  FeeInputs <- OwnerSchedules
  Constraints <- OwnerConstraints
  TransferFees <- Untaxable
  Amounts = {1, 2}
  LpAmounts = {1, 2}
  Limits = {0, 2}
INVARIANT ConfigTypeOK
PROPERTIES AdminHandover LpValueNeverDiluted FeesLeaveOnlyToTreasury
