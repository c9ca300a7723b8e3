SPECIFICATION Spec
CONSTANTS
  None = None
  Events = {e1}
  OnDemand = {e1}
  Workers = {w1, w2}
  MaxTracked = 1
  Limit = 1
  LockTTL = 1
  CadenceSteps = {2}
  FollowUps = {3}
  Results = {"SUCCESS_RECORD_PRESENT", "SUCCESS_RECORD_ABSENT", "RATE_LIMITED"}
  EnrichmentEffects = {"unchanged", "reschedule", "city_stop"}
  MultiProcess = TRUE
  MaxTime = 2
  MaxAborts = 0
  MaxAttempts = 2
  ParserRetryLimit = 2
  BasePriority = 3
  MinuteLength = 2
  RetryAfters = {2}
  Backoff <- MCBackoff
SYMMETRY Symmetry
PROPERTIES
  FinishedStaysFinished
