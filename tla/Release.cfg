SPECIFICATION ReleaseSpec
CONSTANTS
  r1 = r1 r2 = r2 u1 = u1 u2 = u2 blue = blue pink = pink
  here = here there = there n1 = n1 n2 = n2 nook = nook pub = pub peak = peak
  None = None
  Runners = {r1, r2}
  Users = {u1, u2}
  Avatars = {blue, pink}
  DefaultAvatar = blue
  Addresses = {here}
  Nicknames = {n1, n2}
  LegacyNames = {"old cafe", "brunch", "bar", "old", "SOCIAL", "OTHER"}
  Contents <- SomeContents
  RevertsRace = FALSE
  Courses <- SomeCourses
  Types <- SomeTypes
  Spots = {here, there}
  Places = {nook, pub, peak}
  SlugOf <- SlugOfPlace
  Near <- NearSpot
  MaxVersion = 2
SYMMETRY PodSymmetry
INVARIANTS
  TypeOK HistoryMatchesSchema ListsFitHistory CatalogueSeeded ChoicesCarried FreshRunFits
  OnlyKnownGaps SeedsCoverSchemas StrangersLearnNothing JobsFollowPlan
