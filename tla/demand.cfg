SPECIFICATION QueueSpec
CHECK_DEADLOCK FALSE  \* the event loop may hang for good
CONSTANTS
  Artists = {"a"}
  Channels = {"c1", "c2"}
  RefreshTypes = {"catalogue"}
  Priority <- MCPriority
  Every <- MCEvery
  RetryEvery <- MCRetryOften
  Batch = 1
  MaxAttempts = 2
  BackoffBase = 1
  BackoffCap = 2
  AutoOnboard = TRUE
  Registry <- MCRegistry
  Answers = {"ok", "unavailable", "not_found", "resolved", "quota"}
  Operator = {"onboard", "hint", "pause"}
  MaxTime = 1
  MaxCrashes = 1
INVARIANTS QueueIsSound NobodyIsForgotten
PROPERTIES DueIsExecuted WindowsStayFinal
