SPECIFICATION ResolverSpec
CONSTANTS
  Providers = {p1}
  BondAmounts = {4}
  RequestValues = {2}
  SlashAmounts = {}
  CollateralAmounts = {}
  MIN_BOND = 2
  BOND_COVERAGE_RATIO = 2
  WITHDRAWAL_DELAY = 1
  SLASH_TO_INSURANCE_BPS = 1
  BPS_DENOMINATOR = 2
  MaxTime = 4
  MaxDeposits = 4
  EarnedCap = 0
  Agents = {a1}
  MaxNonce = 0
  NoReceipt = NoReceipt
  NoEscrow = NoEscrow
  MIN_VALIDITY = 1
  MAX_VALIDITY = 1
  DISPUTE_WINDOW = 1
  SETTLEMENT_FEE_BPS = 1
  Treasury = Treasury
  Preimages = {s1}
  ReuseIdInBlock = FALSE
  MaxEscrows = 1
  AdminScope = {}
CHECK_DEADLOCK FALSE
PROPERTIES
  DisputedIsResolved
