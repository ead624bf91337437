SPECIFICATION Spec
CONSTANTS
  Key = {k1, k2}
  Accessor = {a1, a2}
  None = None
  Torn = Torn
  Absent = Absent
  NoTemp = NoTemp
  MaxLoadable = 2
INVARIANTS
  TypeOK
  ReadersSeeFile
  StateFileReloads
PROPERTY
  ImplementsDurableMap
