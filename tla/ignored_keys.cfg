SPECIFICATION Spec
CONSTANTS
  UINT64_MAX = 15
  Hash <- MCHash
  RecordCount = 2
  OperationCount = 4
  InsertStart = 0
  Proportion <- MCMixReadInsert
  OrderedInserts = TRUE
  NumThreads = 2
  Patterns = {"both"}
  Durations = {0}
  RequestDists = {"zipfian"}
  Preloaded = {}
  CanFail = FALSE
PROPERTY
  IgnoredKeysNotInserted
