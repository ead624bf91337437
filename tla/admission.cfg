SPECIFICATION Spec
CONSTANTS
  Host = {x1}
  Nonce = {n1, n2}
  Handler = {h1, h2}
  NoRequest = NoRequest
  NonceTTL = 1
  MaxRememberedNonce = 1
  VerifyLimit = 1
  MaxSkew = 1
  MaxTime = 3
SYMMETRY Symmetry
INVARIANTS
  TypeOK
  EntriesAreAcceptances
  CacheBounded
PROPERTIES
  ReplaySpacing
  RepeatNeedsEarlyUse
  RefusalHasReason
  AcceptedWithinWindow
