CONSTANTS
  a1 = a1
  a2 = a2
  w1 = w1
  w2 = w2
  Accruals = {a1, a2}
  Wallets = {w1, w2}
  PayoutWallet <- TwoWallets
  Batches = {1}
  Sequences = {1, 2}
  Attempts = {1}
  Workers = {c1, c2}
  Handlers = {c1, c2}
  SignatureChoices = {TRUE}
  Runbook = TRUE
  Exclusive = TRUE
  AllowOverride = FALSE
  ForksDrop = FALSE
  LateHeights = FALSE
  MayCrash = TRUE
SPECIFICATION Spec
SYMMETRY Replicas
INVARIANTS
  FinalizedBatchIsSettled
  RecordedIsTrue
PROPERTIES
  FinalizedStaysAllocated
CHECK_DEADLOCK FALSE
