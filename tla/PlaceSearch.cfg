SPECIFICATION SearchFairSpec
CONSTANTS
  m1 = m1  w1 = w1  t1 = t1  p1 = p1  p2 = p2  c1 = c1  c2 = c2
  NoJob = NoJob  NoOwner = NoOwner  Orphan = Orphan  NoCategory = NoCategory
  AnyCategory = AnyCategory  NotRead = NotRead
  Workers = {w1}
  Meetings = {m1}
  MaxVersion = 2
  Categories = {c1, c2}
  Unmapped = {c2}
  PlanChanges <- PlanGrows
  Tiles = {t1}
  Tour <- TourMoving
  Places = {p1, p2}
  Circle <- CircleMoving
  Nearest <- NearestMoving
  Found <- FoundOne
  Filters = {AnyCategory}
  PageSize = 1
  MaxPage = 2
  MaxAttempts = 3
  RetryDelay <- DelaysAndLease
  LeaseTtl = 3
  StaleAfter = 2
  Faults = {"crash"}
  MaxFaults = 1
  MaxClaims = 6
  Prompt = TRUE
  ProviderFails = FALSE
INVARIANTS ReadyAnswersCovered QuietWalkComplete
PROPERTIES AnswersNeverRegress EndsReady
