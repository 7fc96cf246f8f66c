SPECIFICATION FairServiceSpec
CONSTANTS
  Videos = {v1, v2}
  Queries = {q1, q2}
  MaxEntries = 2
  NoVideo = NoVideo
  Curated = {v1}
  Week = 1
  Month = 1
  DayLength = 1
  DailyLimit = 1
  MaxTime = 1
  Flights = {f1, f2}
  Callers = {c1, c2}
  NoFlight = NoFlight
  HasKey = TRUE
  Enough = 1
  MaxResults = 1
  Deliveries = {d1, d2}
  RequestIds = {r1, r2}
  MaxClients = 2
INVARIANTS
  ProviderAskedSparingly
  DeliveriesAgree
  PopularityIsEarned
PROPERTIES
  TextNeverGoesBack
  DepartedAddNothing
  FreshReachesCallers
  SearchesEnd
CHECK_DEADLOCK FALSE
