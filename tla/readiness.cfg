CONSTANTS
  Probe = {p1, p2}
  RenewInterval = 3
  RequestTimeout = 2
  DrainLimit = 2
  IssuerTTL = 10
SPECIFICATION FairSpec
INVARIANTS TypeOK FlagIsRecent
PROPERTIES ReadyMeansIssuerAlive RenewalRecovers
