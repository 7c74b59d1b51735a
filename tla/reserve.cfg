\* Three sessions race for the last units of two sales of one product.
SPECIFICATION Spec
CONSTANTS
  p1 = p1
  p2 = p2
  s1 = s1
  s2 = s2
  u1 = u1
  u2 = u2
  lower = lower
  upper = upper
  NULL = NULL
  Products = {p1}
  Sales = {s1, s2}
  Users = {u1, u2}
  Spellings = {lower, upper}
  ReservationIDs = {1, 2}
  Keys = {k1, k2}
  PaymentKeys = {}
  Sessions = {a, b, c}
  MaxQuantity = 2
  MaxTime = 1
  TTL = 1
  ProductOf <- TwoSaleProduct
  Allocated <- RaceAllocated
  MaxPerUser <- RaceLimit
  StartsAt <- TwoSaleOpens
  EndsAt <- TwoSaleCloses
  Stock <- OneStock2
  StockLevels = {}
  SeedSales = {s1, s2}
  ReserveRequests <- TwoSaleRequests
  TransitionTargets = {}
  PaymentOutcomes = {}
  BatchSizes = {}
  AdminSaleStates = {"ended"}
  ActiveFlags = {}
SYMMETRY KeySymmetric
INVARIANTS
  TypeOK
  SpelledLimitHeld
  SaleNotOversold
  KeysAccount
  AnswersDurable
  NoDeadlock
PROPERTIES
  ResponsesFinal
