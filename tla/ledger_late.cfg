SPECIFICATION RememberedSpec
CHECK_DEADLOCK FALSE  \* nobody has to observe: the ledger may rest for ever
CONSTANTS
  Null = Null
  ExplicitNull = ExplicitNull
  Blank = Blank
  Unseen = Unseen
  price_min = price_min
  venue = venue
  v = v
  o1 = o1
  Fields = {price_min, venue}
  PriceFields = {price_min}
  NullableFields = {price_min}
  Values = {v}
  Readings = {v, ExplicitNull, Unseen}
  Statuses = {"CAPTURE_SUCCESS_RECORD_PRESENT", "CAPTURE_SUCCESS_RECORD_ABSENT", "EXPLICITLY_REMOVED", "CAPTURE_FAILED"}
  Threshold = 2
  Observers = {o1}
  MaxStamp = 3
  MaxRows = 4
PROPERTIES LateNeverCurrent
