SPECIFICATION Spec
CONSTANTS
  None = None
  Events = {e1}
  OnDemand = {}
  Workers = {w1}
  MaxTracked = 1
  Limit = 1
  LockTTL = 1
  CadenceSteps = {2}
  FollowUps = {}
  Results = {"SUCCESS_RECORD_PRESENT"}
  EnrichmentEffects = {"reschedule"}
  MultiProcess = FALSE
  MaxTime = 3
  MaxAborts = 0
  MaxAttempts = 2
  ParserRetryLimit = 2
  BasePriority = 3
  MinuteLength = 2
  RetryAfters = {2}
  Backoff <- MCBackoff
INVARIANTS
  WindowStillOpen
CHECK_DEADLOCK FALSE \* the clock stops
