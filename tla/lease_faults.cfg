SPECIFICATION FairSpec
CONSTANTS
  Key = {k1}
  Accessor = {a1, a2}
  None = None
  Handler = {h1, h2}
  NoHandler = NoHandler
  MaxFaults = 2
INVARIANT
  OrphansHaveCauses
PROPERTY
  EveryRequestAnswered
