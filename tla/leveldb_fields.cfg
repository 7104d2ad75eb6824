SPECIFICATION Spec
CONSTANTS
  Keys = {1, 2}
  FieldCount = 2
  ReadAllFields = TRUE
  WriteAllFields = TRUE
  MaxScanLength = 2
  DbName = "leveldb"
  Threads = {t1}
  MaxCalls = 2
  CanFail = FALSE
  NULL = NULL
INVARIANT
  AllFieldsWritten
