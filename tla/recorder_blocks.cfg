SPECIFICATION FairSpec
CONSTANTS
  UINT64_MAX = 15
  Hash <- MCHash
  RecordCount = 1
  OperationCount = 1
  InsertStart = 0
  Proportion <- MCMixRead
  OrderedInserts = TRUE
  NumThreads = 1
  Patterns = {"load"}
  Durations = {1}
  RequestDists = {"uniform"}
  Preloaded = {}
  CanFail = FALSE
PROPERTY
  Termination
