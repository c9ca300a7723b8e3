SPECIFICATION Spec
CHECK_DEADLOCK FALSE
CONSTANTS
  Services = {"enrichment", "matching", "social", "discovery", "ingest", "media", "watchlist", "promotion", "movement", "quota"}
  None = None
  Null = Null
  Nil = Nil
  w1 = w1
  w2 = w2
  c1 = c1
  c2 = c2
  ArtistIds = {c1, c2}
  Bearing <- MCBearing
  Picks <- MCPicks
  Finds <- MCFinds
  MayIdentify <- MCMayIdentify
  Clients = {w1}
  Passes = {w2}
  MinSources = 2
  MaxTargets = 2
  MaxRequests = 2
  NoReading = NoReading
  Owned = {2, 3}
  Hours = {0, 2, 3, 4}
  MayGather <- MCMayGather
  MayPublish <- MCMayPublish
  LastHour = 6
  WindowHours = 2
  MinSpan = 1
  MinReadings = 2
  MinCohort = 1
  AgeBounds <- MCAgeBounds
  YoungAge = 9
  RisingRatio <- MCRisingRatio
  BreakoutRatio <- MCBreakoutRatio
  BreakoutAcceleration <- MCBreakoutAcceleration
  CoolingRatio <- MCCoolingRatio
  PerHour = 4
  v1 = v1
  v2 = v2
  v3 = v3
  n1 = n1
  n2 = n2
  pune = pune
  goa = goa
  listed = listed
  gone = gone
  m1 = m1
  m2 = m2
  s1 = s1
  s2 = s2
  mbLabel = mbLabel
  mbArtist = mbArtist
  r3 = r3
  r2 = r2
  r1 = r1
  imprint = imprint
  untitled = untitled
  dj = dj
  act = act
  i2 = i2
  i1 = i1
  o1 = o1
  o2 = o2
  MinConfidence = 60
  Nodes <- MCNodes
  Pages <- MCPages
  Cards <- MCCards
  Origin = "boshow"
  Allowed = {pune}
  MaxBatches = 3
  LeftListings = {"l1", "l2"}
  RightListings = {"r1", "r2"}
  LeftSource = "boshow"
  RightSource = "district"
  MayRead <- MCMayRead
  Words <- MCWords
  Similar <- MCSimilar
  PageSays <- MCPageSays
  Tolerance = 36
  AutoScore = 750
  PossibleScore = 500
  MaxPairs = 2
  MatchRuns = {m1, m2}
  MaxMatchRuns = 2
  MaxMoves = 1
  AccountOf <- MCAccountOf
  MayPost <- MCMayPost
  Cues <- MCCues
  KnownEvents <- MCKnownEvents
  MaxIdentities = 1
  MaxMentions = 2
  SocialRuns = {s1, s2}
  MaxSocialRuns = 3
  MaxEdits = 1
  Traits <- MCTraits
  VerifiedCities <- MCVerifiedCities
  CityIds <- MCCityIds
  YearLength = 300
  Sources = {"boshow", "district", "skillbox", "knowafest", "townscript"}
  Stock <- MCStock
  MayList <- MCMayList
  Managed = {"boshow", "district", "skillbox", "townscript"}
  Disabled = {"townscript"}
  CityFilter = pune
  FetchCap = 2
  DiscoveryLimit = 1
  Today = 0
  MaxReports = 1
  MaxRestocks = 1
  LabelNames = {imprint}
  SameName <- MCSameName
  Ingests = {i1, i2}
  Subjects = {"boshow", "townscript", "search", "channel", "spotify"}
  MayAnswer <- MCMayAnswer
  MayKnow <- MCMayKnow
  LedgerSources = {"boshow"}
  MaxIngests = 2
  MaxFailures = 1
  Slots <- MCSlots
  MayObserve <- MCMayObserve
  MayServe <- MCMayServe
  RedirectLimit = 1
  MaxBytes = 2
  AllowedTypes = {"png"}
  Observers = {o1, o2}
  MaxObserves = 3
  MaxPublications = 1
  MaxMediaRestarts = 1
  Requests = {"r1"}
  Cap = 3
  SelfCap = 1
  Reserve = 2
  Slice <- MCSlice
  QueriesPerRun = 1
  MaxQueries = 2
  Batch = 2
  DiscoveryEnabled = TRUE
  DayLength = 2
  NearWindow = 1
  Lead = 0
  MaxClock = 2
  MaxLosses = 1
INVARIANTS EvidenceDecides PlanFollowsEvent
INVARIANTS MatchesAreFounded
INVARIANTS VersionsDiffer ReadingsFollowEvidence
INVARIANTS AbsenceIsAnswered ReportIsHonest
INVARIANTS GraphIsFounded HandlesAreApart FeedIsVouched
INVARIANTS SlotIsNewestPresence TransitionsAreVouched ReadsFollowLooks
INVARIANTS WatchedIsPursued TargetsAreSound
INVARIANTS LabelsAreEarned
INVARIANTS SpendingIsBounded
PROPERTIES OverrideLasts ReserveKept
