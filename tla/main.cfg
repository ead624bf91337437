SPECIFICATION MainSpec
CONSTANTS
  Name = {k1, k2}
  MaxDepth = 3
  MaxInputBytes = 1
  MaxTokens = 9
  Address = {public, private}
  Private = {private}
  DNSName = DNSName
  ServiceName = ServiceName
  PathPart <- Parts
  StateRoot <- Root
  DefaultStatePath <- Default
  MinTokenTTL = 2
  MaxTokenTTL = 4
  DefaultTokenTTL = 3
  MinWrapTTL = 1
  MaxWrapTTL = 4
  DefaultWrapTTL = 2
  MaxVaultToken = 1
  Duration <- Durations
  MaxPathParts = 3
  Unset = Unset
  Malformed = Malformed
  Call = {c1, c2}
  NoAddress = NoAddress
SYMMETRY Symmetry
INVARIANTS
  MainTypeOK
  VerdictFitsDocument
  ExitCodeIsTrue
  StdinUntouched
  TokenFileReadToItsEnd
  StartsAsAsked
  CredentialsStayPrivate
  TokenSentWhole
CHECK_DEADLOCK FALSE
