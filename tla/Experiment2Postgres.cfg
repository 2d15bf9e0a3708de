\* The process may stop for good once the bound on executions is reached.
CHECK_DEADLOCK FALSE
SPECIFICATION Spec
CONSTANTS
  k1 = k1
  k2 = k2
  k3 = k3
  k4 = k4
  Db = "postgres"
  DatasetSize = 9
  TotalRows = 10
  UInt32 = 5
  NumThreads = 3
  MaxRuns = 2
  NoRow = NoRow
  UserKey <- MCUserKey
  KeyOf <- MCKeyOf
INVARIANTS
  OpsReported
  ConnectionsReleased
