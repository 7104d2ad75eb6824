SPECIFICATION Spec
CONSTANTS
  Argv <- MCArgv
  Files <- MCFiles
  Configs <- MCConfigs
  Stoi <- MCStoi
  Stod <- MCStod
  Lower <- MCLower
  DbFails = TRUE
INVARIANTS
  TypeOK
  LastAssignmentWins
  LateFailure
  SuccessMeansWork
PROPERTY
  StopsOrBlocks
