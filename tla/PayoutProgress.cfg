CONSTANTS
  a1 = a1
  a2 = a2
  w1 = w1
  w2 = w2
  Accruals = {a1}
  Wallets = {w1}
  PayoutWallet <- OneAccrual
  Batches = {1}
  Sequences = {1}
  Attempts = {1}
  Workers = {c1}
  Handlers = {c1, c2}
  SignatureChoices = {TRUE}
  Runbook = TRUE
  Exclusive = TRUE
  AllowOverride = TRUE
  ForksDrop = TRUE
  LateHeights = TRUE
  MayCrash = TRUE
SPECIFICATION FairSpec
INVARIANTS
  PaidIsFinalOnChain
PROPERTIES
 SubmittedIsResolved
 FinalizedIsClosed
CHECK_DEADLOCK FALSE
