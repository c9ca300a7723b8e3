SPECIFICATION FairSpec
CONSTANTS
  None = None
  Events = {e1, e2}
  OnDemand = {}
  Workers = {w1}
  MaxTracked = 2
  Limit = 1
  LockTTL = 1
  CadenceSteps = {2}
  FollowUps = {3}
  Results = {"SUCCESS_RECORD_PRESENT", "SUCCESS_RECORD_ABSENT", "RATE_LIMITED"}
  EnrichmentEffects = {}
  MultiProcess = FALSE
  MaxTime = 3
  MaxAborts = 1
  MaxAttempts = 2
  ParserRetryLimit = 2
  BasePriority = 3
  MinuteLength = 2
  RetryAfters = {2}
  Backoff <- MCBackoff
INVARIANTS
  WindowStillOpen
PROPERTIES
  DueIsServed
