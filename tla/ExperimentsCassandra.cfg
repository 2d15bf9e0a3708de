\* The caller may stop for good once the bound on executions is reached.
CHECK_DEADLOCK FALSE
SPECIFICATION Spec
CONSTANTS
  k1 = k1
  k2 = k2
  Db = "cassandra"
  DatasetSize = 3
  TotalRows = 3
  NoRow = NoRow
  UserKey <- MCUserKey
  KeyOf <- MCKeyOf
  SampleSizes = {2}
  MaxExecutions = 3
INVARIANTS
  FirstReadsAreCold
  BeforeAndAfterMatch
