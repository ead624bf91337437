SPECIFICATION Spec
CONSTANTS
  Key = {k1, k2}
  Accessor = {a1, a2, a3}
  None = None
  Handler = {h1, h2}
  NoHandler = NoHandler
  MaxFaults = 1
SYMMETRY Symmetry
INVARIANTS
  TypeOK
  UsableLeaseIsRecorded
  NoUsableLeaseAtCreate
PROPERTIES
  RevokedMeansUnusable
  ImplementsLedger
