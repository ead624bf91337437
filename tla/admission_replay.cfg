SPECIFICATION Spec
CONSTANTS
  Host = {x1, x2}
  Nonce = {n1}
  Handler = {h1, h2}
  NoRequest = NoRequest
  NonceTTL = 2
  MaxRememberedNonce = 1
  VerifyLimit = 0
  MaxSkew = 1
  MaxTime = 5
SYMMETRY Symmetry
PROPERTY
  RepeatedNonceRejected
