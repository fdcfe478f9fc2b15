CONSTANTS
  Challenges = {c1}
  Handlers = {h1, h2, h3}
  NoPair = NoPair
  Never = Never
  MaxPairs = 3
  MaxTime = 4
  ChallengeTtl = 1
  SessionTtl = 1
  RefreshTtl = 2
SPECIFICATION Spec
SYMMETRY Replicas
INVARIANTS
  OneHolder
  LogoutIsFinal
  EndedOnlyByLogoutOrCrash
  AccessEndsAfterLogout
CHECK_DEADLOCK FALSE
