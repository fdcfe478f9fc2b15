CONSTANTS
  Items = {1, 2, 3}
  Amounts = {1, 2}
  Stranger = 0
  MaxTransactionAmount = 4
  Sizes = {2, 3}
SPECIFICATION TransfersSpec
INVARIANTS
  ClosedIsPaid
  SignedIsVerified
CHECK_DEADLOCK FALSE
