SPECIFICATION MCSpec
CONSTANTS
  Agents = {a1, a2}
  Payers = {a1}
  MaxNonce = 2
  NoReceipt = NoReceipt
  NoEscrow = NoEscrow
  OtherSettlers = {"X402EscrowManager"}
  OtherReceipts = {r1, r2, r3}
  MaxBatch = 2
  Providers = {p1}
  Amounts = {2}
  PaidNonces = {0, 1}
  DISPUTE_WINDOW = 1
  BATCH_EXPIRY = 1
  SETTLEMENT_FEE_BPS = 1
  BPS_DENOMINATOR = 2
  Resolvers = {}
  MaxBatches = 2
  MaxTime = 3
  Amount = 2
  Nonce = 0
  Scenarios = {"batches"}
SYMMETRY Symmetric
CHECK_DEADLOCK FALSE
INVARIANT
  UnclaimedStaysFunded
