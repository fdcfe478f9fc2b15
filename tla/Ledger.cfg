CONSTANTS
  Accruals = {1, 2, 3}
  Wallets = {1, 2}
  PayoutWallet <- TwoAndOne
  Prices <- SmallPrices
  CommissionBps = 3333
  FeeBps = 1000
  Batches = {1, 2, 3, 4}
  MaxReleases = 1
  Minimum = 15
  MaxRecipients = 1
  MaxAccruals = 3
SPECIFICATION FairSpec
INVARIANTS
  LedgerMatchesSummary
  ClosureBalances
PROPERTIES
  DueIsPlanned
CHECK_DEADLOCK FALSE
