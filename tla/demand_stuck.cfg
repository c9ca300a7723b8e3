SPECIFICATION Spec
CHECK_DEADLOCK FALSE  \* the clock stops
CONSTANTS
  Artists = {"a"}
  Channels = {"c1"}
  RefreshTypes = {"catalogue"}
  Priority <- MCPriority
  Every <- MCEvery
  RetryEvery <- MCRetryEvery
  Batch = 1
  MaxAttempts = 2
  BackoffBase = 1
  BackoffCap = 2
  AutoOnboard = TRUE
  Registry <- MCRegistry
  Answers = {"ok", "unavailable", "not_found", "undecided", "resolved"}
  Operator = {}
  MaxTime = 2
  MaxCrashes = 0
PROPERTIES FailuresAreIsolated
