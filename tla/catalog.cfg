\* Products and sales come and go while reservations run.
SPECIFICATION Spec
CONSTANTS
  p1 = p1
  p2 = p2
  s1 = s1
  s2 = s2
  u1 = u1
  u2 = u2
  lower = lower
  upper = upper
  NULL = NULL
  Products = {p1}
  Sales = {s1}
  Users = {u1, u2}
  Spellings = {lower}
  ReservationIDs = {1, 2}
  Keys = {k1, k2}
  PaymentKeys = {}
  Sessions = {a, b}
  MaxQuantity = 2
  MaxTime = 2
  TTL = 1
  ProductOf <- OneSaleProduct
  Allocated <- OneSaleAllocated2
  MaxPerUser <- OneSaleLimit2
  StartsAt <- OneSaleOpensAt1
  EndsAt <- OneSaleClosesAt2
  Stock <- OneStock2
  StockLevels = {1}
  SeedSales = {}
  ReserveRequests <- CatalogRequests
  TransitionTargets = {}
  PaymentOutcomes = {}
  BatchSizes = {}
  AdminSaleStates = {"active", "ended", "cancelled"}
  ActiveFlags = {TRUE, FALSE}
SYMMETRY KeySymmetric
INVARIANTS
  InventoryReconciled
PROPERTIES
  ImplementsLedger
