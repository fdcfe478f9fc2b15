CONSTANTS
  a1 = a1
  a2 = a2
  w1 = w1
  w2 = w2
  Accruals = {a1}
  Wallets = {w1}
  PayoutWallet <- OneAccrual
  Batches = {1, 2}
  Sequences = {1}
  Attempts = {1, 2}
  Workers = {c1, c2}
  Handlers = {c1, c2}
  SignatureChoices = {TRUE}
  Runbook = TRUE
  Exclusive = TRUE
  AllowOverride = FALSE
  ForksDrop = FALSE
  LateHeights = FALSE
  MayCrash = TRUE
SPECIFICATION Spec
CONSTRAINT TwoTransactions
SYMMETRY Replicas
INVARIANTS
  AvailableIsUnpaid
  PaidIffClosed
  AllocationExclusive
PROPERTIES
  ObligationKept
CHECK_DEADLOCK FALSE
