SPECIFICATION Spec
CONSTANTS
  Keys = {k1}
  FieldCount = 2
  ReadAllFields = TRUE
  WriteAllFields = FALSE
  MaxScanLength = 1
  DbName = "lock_stl"
  Threads = {t1, t2}
  MaxCalls = 1
  NULL = NULL
  Garbage = Garbage
INVARIANT
  InsertedIsStored
