SPECIFICATION Spec
CONSTANTS
  c1 = c1
  c2 = c2
  a1 = a1
  a2 = a2
  read = read
  refund = refund
  k1 = k1
  None = None
  Requests = {c1, c2}
  Identity = {}
  MaxDeliveries = 1
  Runs = {a1, a2}
  Caps = {read, refund}
  RunOf <- MCRunOf
  PlanOf <- MCPlanOf
  TierOf <- MCTierOf
  Keys = {k1}
  MaxReviews = 2
  ReadBudget = 2
SYMMETRY Interchangeable
INVARIANTS
  TypeOK
  ReleasesAreEarned
  KeyNamesOneRelease
  PublishedBytesAreServed
CHECK_DEADLOCK FALSE
PROPERTIES
  BlockedIsNotPublished
