SPECIFICATION Spec
CONSTANTS
  NShards = 2
  MaxVersions = 1
  MaxRuns = 3
  MaxFaults = 1
INVARIANTS TypeOK OnlyWholeFiles DirsApart DumpSurvives RestartRestores
PROPERTY CloseReturns
CHECK_DEADLOCK FALSE
