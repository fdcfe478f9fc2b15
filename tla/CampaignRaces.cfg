CONSTANTS
  Origins = {o1, o2}
  Keys = {k1}
  Handlers = {h1, h2}
  MaxVersion = 2
  NoSignature = NoSignature
  VersionNamed = TRUE
SPECIFICATION Spec
SYMMETRY Replicas
INVARIANTS
  SignatureCoversTerms
  OfferedIsSigned
  SignedOriginIsVetted
PROPERTIES
  VersionsAreImmutable
  LaterRequestsKeepClosed
CHECK_DEADLOCK FALSE
