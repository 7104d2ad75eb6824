SPECIFICATION Spec
CONSTANTS
  Keys = {k1, k2}
  FieldCount = 2
  ReadAllFields = TRUE
  WriteAllFields = FALSE
  MaxScanLength = 2
  DbName = "lock_stl"
  Threads = {t1, t2}
  MaxCalls = 2
  NULL = NULL
  Garbage = Garbage
SYMMETRY MCSymmetry
INVARIANTS
  TypeOK
  LookupsAreLive
  NoDanglingUse
  NothingLost
PROPERTY
  ImplementsRecordStore
