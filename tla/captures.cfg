SPECIFICATION CapturesSpec
CHECK_DEADLOCK FALSE  \* nobody has to observe: the ledger may rest for ever
CONSTANTS
  \* the scheduler: workers of one process
  None = None
  Events = {e1}
  OnDemand = {e1}
  Workers = {w1, w2}
  MaxTracked = 1
  Limit = 1
  LockTTL = 1
  CadenceSteps = {2}
  FollowUps = {}
  Results = {"SUCCESS_RECORD_PRESENT", "PARSER_FAILED"}
  EnrichmentEffects = {"reschedule", "city_stop"}
  MultiProcess = FALSE
  MaxTime = 3
  MaxAborts = 0
  MaxAttempts = 2
  ParserRetryLimit = 2
  BasePriority = 3
  MinuteLength = 2
  RetryAfters = {2}
  Backoff <- MCBackoff
  \* the ledger
  Null = Null
  ExplicitNull = ExplicitNull
  Blank = Blank
  Unseen = Unseen
  price_min = price_min
  venue = venue
  read = read
  o1 = o1
  Fields = {price_min, venue}
  PriceFields = {price_min}
  NullableFields = {price_min}
  Values = {read}
  Readings = {read, ExplicitNull, Unseen}
  Statuses = {"CAPTURE_SUCCESS_RECORD_PRESENT", "CAPTURE_SUCCESS_RECORD_ABSENT", "EXPLICITLY_REMOVED", "CAPTURE_FAILED"}
  Threshold = 2
  Observers = {o1}
  MaxStamp = 3
  MaxRows = 4
SYMMETRY Symmetry
INVARIANTS
  TypeOK
  LeaseExclusion
  OneActiveWindow
  HistoryIsOrdered
  StateIsLastReading
  LogExplainsStates
PROPERTIES
  NothingIsUndone
  ImplementsVisibility
