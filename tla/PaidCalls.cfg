CONSTANTS
  Payments = {1, 2}
  Tries = 2
  Dispatchers = {d1, d2}
  MaxAttempts = 3
  NoReceipt = NoReceipt
  Budget = 2
  Quoted <- BothQuoted
  Prices = {1, 3}
  MaxVersion = 2
  MaxKey = 2
  Changes <- FirstChanges
  VerifyReceipts = TRUE
  RecorderChoices = {TRUE, FALSE}
  Sinks = {1}
SPECIFICATION FairSpec
INVARIANTS
  AcceptedIsIngested
  GivenUpForCause
  SuccessIsRecorded
  HeldReceiptEndsIt
PROPERTIES
  ReceiptLeavesOutbox
CHECK_DEADLOCK FALSE
