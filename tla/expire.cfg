\* Workers, confirmations and cancellations race over two reservations of two sales
\* that share the stock of their product exactly.
SPECIFICATION Spec
CONSTANTS
  p1 = p1
  p2 = p2
  s1 = s1
  s2 = s2
  u1 = u1
  u2 = u2
  lower = lower
  upper = upper
  NULL = NULL
  Products = {p1}
  Sales = {s1, s2}
  Users = {u1, u2}
  Spellings = {lower}
  ReservationIDs = {1, 2}
  Keys = {k1, k2}
  PaymentKeys = {}
  Sessions = {a, b}
  MaxQuantity = 2
  MaxTime = 2
  TTL = 1
  ProductOf <- TwoSaleProduct
  Allocated <- SharedAllocated
  MaxPerUser <- TwoSaleLimit
  StartsAt <- TwoSaleOpens
  EndsAt <- TwoSaleCloses
  Stock <- OneStock2
  StockLevels = {}
  SeedSales = {s1, s2}
  ReserveRequests <- ExpireRequests
  TransitionTargets = {"confirmed", "cancelled"}
  PaymentOutcomes = {}
  BatchSizes = {1, 2}
  AdminSaleStates = {}
  ActiveFlags = {}
SYMMETRY KeySymmetric
INVARIANTS
  UnitsAreThere
  NothingLeaks
PROPERTIES
  ImplementsLedger
