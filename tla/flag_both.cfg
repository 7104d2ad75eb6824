SPECIFICATION Spec
CONSTANTS
  UINT64_MAX = 15
  Hash <- MCHash
  RecordCount = 2
  OperationCount = 2
  InsertStart = 0
  Proportion <- MCMixRead
  OrderedInserts = TRUE
  NumThreads = 2
  Patterns = {"both"}
  Durations = {0}
  RequestDists = {"uniform"}
  Preloaded = {}
  CanFail = FALSE
INVARIANT
  FlagAllocatedWhenUsed
