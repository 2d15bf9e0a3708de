\* The caller may stop for good once the bound on executions is reached.
CHECK_DEADLOCK FALSE
SPECIFICATION Spec
CONSTANTS
  k1 = k1
  k2 = k2
  Db = "mongo"
  DatasetSize = 2
  TotalRows = 2
  NoRow = NoRow
  UserKey <- MCUserKey
  KeyOf <- MCKeyOf
  SampleSizes = {0, 2}
  MaxExecutions = 3
INVARIANTS
  IndexedAsMeant
  IndexLeaksOnlyByFailure
  SampledRowsArePresent
  RecordersCount
PROPERTIES
  ExecuteEnds
