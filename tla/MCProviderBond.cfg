SPECIFICATION Spec
CONSTANTS
  Providers = {p1, p2}
  EscrowIds = {e1, e2}
  BondAmounts = {1, 2}
  RequestValues = {1}
  SlashAmounts = {1, 3}
  CollateralAmounts = {1}
  MIN_BOND = 2
  BOND_COVERAGE_RATIO = 1
  WITHDRAWAL_DELAY = 1
  SLASH_TO_INSURANCE_BPS = 1
  BPS_DENOMINATOR = 2
  MaxTime = 3
  MaxDeposits = 4
  EarnedCap = 0
SYMMETRY Symmetric
CHECK_DEADLOCK FALSE
INVARIANTS
  TypeOK
  BondsAreFunded
  PendingMatchesRequests
  RequestsStayCovered
PROPERTIES
  DelayServed
