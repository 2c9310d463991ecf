CONSTANTS
  r1 = r1  r2 = r2  r3 = r3
  None = None
  Requests = {r1, r2, r3}
  BatchSize = 1
  MaxFaults = 2
  LostPublish = FALSE
SPECIFICATION FairSpec
INVARIANTS
  DeletesUnpublished
  AnsweredPublished
PROPERTIES
  OrphansRemoved
