SPECIFICATION QuotaSpec
CONSTANTS
  Requests = {}
  Cap = 4
  SelfCap = 4
  Reserve = 1
  Slice <- MCSlice
  QueriesPerRun = 2
  MaxQueries = 2
  Batch = 2
  DiscoveryEnabled = TRUE
  DayLength = 3
  NearWindow = 1
  Lead = 1
  MaxClock = 3
  MaxLosses = 0
INVARIANTS WithinCap
CHECK_DEADLOCK FALSE \* the clock stops
