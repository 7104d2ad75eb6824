SPECIFICATION Spec
CONSTANTS
  Keys = {1, 2, 3}
  FieldCount = 2
  ReadAllFields = TRUE
  WriteAllFields = FALSE
  MaxScanLength = 2
  DbName = "leveldb"
  Threads = {t1, t2}
  MaxCalls = 2
  CanFail = TRUE
  NULL = NULL
SYMMETRY MCSymmetry
INVARIANTS
  TypeOK
  IInv
  NoStaleRecord
  MissesAreReal
