\* The process may stop for good once the bound on executions is reached.
CHECK_DEADLOCK FALSE
SPECIFICATION Spec
CONSTANTS
  k1 = k1
  k2 = k2
  k3 = k3
  k4 = k4
  Db = "cassandra"
  DatasetSize = 7
  TotalRows = 8
  UInt32 = 8
  NumThreads = 3
  MaxRuns = 2
  NoRow = NoRow
  UserKey <- MCUserKey
  KeyOf <- MCKeyOf
INVARIANTS
  TypeOK
  FreshInserts
  LoadedExactly
  OutOfSyncBound
  UserViewAgrees
  ConnectionsReleased
PROPERTIES
  ImplementsBulkLoad
  ExecuteEnds
