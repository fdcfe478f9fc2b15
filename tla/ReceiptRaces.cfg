CONSTANTS
  r1 = r1
  r2 = r2
  t1 = t1
  t2 = t2
  Receipts = {r1, r2}
  Key <- SameSettlement
  Settlements = {t1}
  Commissioned = {r1, r2}
  Matching = {r1}
  Handlers = {h1, h2}
  Workers = {w1, w2}
  AttemptCap = 1
  MayCrash = TRUE
SPECIFICATION FairSpec
INVARIANTS
  OneCreditPerSettlement
  LostRaceIsExplained
  PayableIsSettled
PROPERTIES
  ReceiptIsDecided
CHECK_DEADLOCK FALSE
