\* A client whose driver objects are gone does nothing any more.
CHECK_DEADLOCK FALSE
SPECIFICATION ClientSpec
CONSTANTS
  o1 = o1
  o2 = o2
  o3 = o3
  o4 = o4
  Order <- MCOrder
  UserOf <- MCUserOf
  CreatedAt <- MCCreatedAt
  NoRow = NoRow
  MaxBatch = 3
  MaxConnects = 3
  Recorder = {1, 2}
  Latency = {1, 2, 7}
  MaxCount <- MCMaxCount
  ExperimentName = {first, second}
  MaxResults = 3
INVARIANTS
  TypeOK
  HandlesTypeOK
  NoDanglingPointer
  ConnectedIsUsable
  CrashesOnlyUnopened
  OneSessionPerOverlap
  CleanLifeLeaksNothing
  PercentileIsNearestRank
  MergedStatsAreOfAll
  SummaryShowsAll
PROPERTIES
  ImplementsDBInterface
