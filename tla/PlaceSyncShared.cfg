SPECIFICATION Spec
CONSTANTS
  m1 = m1  m2 = m2  w1 = w1  w2 = w2  t1 = t1  t2 = t2  p1 = p1  p2 = p2
  c1 = c1  c2 = c2
  NoJob = NoJob  NoOwner = NoOwner  Orphan = Orphan  NoCategory = NoCategory
  Workers = {w1, w2}
  Meetings = {m1, m2}
  MaxVersion = 1
  Categories = {c1}
  Unmapped = {}
  PlanChanges <- WholePlan
  Tiles = {t1, t2}
  Tour <- TourShared
  Places = {p1, p2}
  Circle <- CircleShared
  Found <- FoundOne
  MaxAttempts = 3
  RetryDelay <- Delays
  LeaseTtl = 2
  StaleAfter = 3
  Faults = {"crash", "error"}
  MaxFaults = 1
  MaxClaims = 6
  Prompt = TRUE
  ProviderFails = TRUE
SYMMETRY WorkerSymmetry
INVARIANTS TypeOK CompletedMeansCovered OneWorkerPerJob CollectorsExclusive AttemptBudget Claimed
PROPERTIES CompletedIsFinal
