\* The caller may stop for good once the bound on executions is reached.
CHECK_DEADLOCK FALSE
SPECIFICATION Spec
CONSTANTS
  k1 = k1
  k2 = k2
  Db = "cassandra"
  DatasetSize = 4
  NoRow = NoRow
  UserKey <- MCUserKey
  KeyOf <- MCKeyOf
  TotalRows = 3
  NumRuns = 3
  MaxExecutions = 2
INVARIANTS
  ReadsAreCold
  ReadsFindRows
  StoredRunsAreSymmetric
  AveragesOneExecution
PROPERTIES
  ImplementsBulkLoad
  ExecuteEnds
