SPECIFICATION Spec
CONSTANTS
  None = None
  e1 = e1
  e2 = e2
  Api = "web"
  Processes = {"web", "cron"}
  Events = {e1, e2}
  Names = {"kala", "sangeet"}
  Facts <- MCFacts
  Slug <- MCSlug
  Threshold <- MCThreshold
  Source <- MCSource
  Page <- MCScript
  Retype = {}
  SeriesNames = {}
  MaxPasses = 2
  MaxCommands = 0
  External = {}
  Corrections = {}
INVARIANT
  NamesStayApart
CHECK_DEADLOCK FALSE
