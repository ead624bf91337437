SPECIFICATION BrokerSpec
CONSTANTS
  Host = {x1}
  Nonce = {n1}
  Handler = {h1, h2}
  NoRequest = NoRequest
  NonceTTL = 1
  MaxRememberedNonce = 1
  VerifyLimit = 1
  MaxSkew = 1
  MaxTime = 3
  WriteTimeout = 2
SYMMETRY Symmetry
INVARIANT
  BrokerTypeOK
PROPERTY
  DeliveredWhileRecentlyActive
