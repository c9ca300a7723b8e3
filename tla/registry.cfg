SPECIFICATION Spec
CONSTANTS
  None = None
  e1 = e1
  e2 = e2
  Api = "web"
  Processes = {"web", "cron"}
  Events = {e1, e2}
  Names = {"king", "star", "promo", "fest"}
  Facts <- MCFacts
  Slug <- MCSlug
  Threshold <- MCThreshold
  Source <- MCSource
  Page <- MCPage
  Retype = {"ARTIST"}
  SeriesNames = {"fest"}
  MaxPasses = 2
  MaxCommands = 2
  External = {"star"}
  Corrections = {"CONFIRM_EXISTING_MATCH", "MARK_PLACEHOLDER"}
INVARIANTS
   EdgesHaveDecisions NamesMergeNothing
  OneTypePerIdentity DecisionsAreBacked
PROPERTIES
  SeenHandlesStay
CHECK_DEADLOCK FALSE
