CONSTANTS
  c1 = c1  c2 = c2
  cafe = cafe  bar = bar
  north = north  south = south
  p = p  q = q
  None = None
  Clients = {c1, c2}
  Categories = {cafe, bar}
  Spots = {north, south}
  Places = {p}
  CategoryOf <- MCOnePlace
  InRange <- MCOneInRange
  MaxSteps = 2
  MaxPlans = 3
  MaxMoves = 2
SPECIFICATION Spec
INVARIANTS
  TypeOK
  ReadInv
  AddedFitted
  AddedOnce
PROPERTIES
  UntornSaverSawPlan
