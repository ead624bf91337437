SPECIFICATION PowerLossSpec
CONSTANTS
  Key = {k1}
  Accessor = {a1, a2}
  None = None
  Handler = {h1}
  NoHandler = NoHandler
  MaxFaults = 1
INVARIANT
  NoUsableLeaseAtCreate
