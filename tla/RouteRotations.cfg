CONSTANTS
  c1 = c1
  c2 = c2
  c3 = c3
  w1 = w1
  w2 = w2
  Claims = {c1, c2, c3}
  Wallets = {w1, w2}
  PayoutWallet <- WalletOf
  IssuedAt <- TimeOf
  VersionMin = 2
  MaxCampaign = 2
  MaxVersion = 3
  NoClaim = NoClaim
  Handlers = {h1, h2}
SPECIFICATION Spec
SYMMETRY Replicas
INVARIANTS
  PointerIsRegistered
  VersionAheadIsInHand
  AnsweredIsRegistered
  CreditFollowsClaim
CHECK_DEADLOCK FALSE
