SPECIFICATION Spec
CONSTANTS
  UINT64_MAX = 15
  Hash <- MCHash
  RecordCount = 4
  OperationCount = 4
  InsertStart = 0
  Proportion <- MCMixAll
  OrderedInserts = FALSE
  NumThreads = 2
  Patterns = {"load", "run", "both", "none"}
  Durations = {0, 1}
  RequestDists = {"uniform", "zipfian", "latest"}
  Preloaded <- MCPreloaded
  CanFail = TRUE
INVARIANTS
  TypeOK
  IInv
  LoadComplete
  SumIsRecordsLoaded
  InsertsAreNew
  LoadedKeysAreFound
  PhasesDoNotOverlap
  MissCountBounds
  FlagSafeInOnePhase
PROPERTY
  ImplementsBenchmark
