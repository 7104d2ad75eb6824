SPECIFICATION FairSpec
CONSTANTS
  UINT64_MAX = 15
  Hash <- MCHash
  RecordCount = 5
  OperationCount = 3
  InsertStart = 0
  Proportion <- MCMixAll
  OrderedInserts = FALSE
  NumThreads = 2
  Patterns = {"load", "run", "both", "none"}
  Durations = {0}
  RequestDists = {"uniform", "zipfian", "latest"}
  Preloaded <- MCPreloaded
  CanFail = FALSE
INVARIANT
  SumIsRecordsLoaded
PROPERTIES
  Termination
  ClaimedKeyIsStored
