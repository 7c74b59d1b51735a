\* One user asks for the one unit a user may have, writing the sale in two ways.
SPECIFICATION Spec
CONSTANTS
  p1 = p1
  p2 = p2
  s1 = s1
  s2 = s2
  u1 = u1
  u2 = u2
  lower = lower
  upper = upper
  NULL = NULL
  Products = {p1}
  Sales = {s1}
  Users = {u1, u2}
  Spellings = {lower, upper}
  ReservationIDs = {1, 2}
  Keys = {k1, k2}
  PaymentKeys = {}
  Sessions = {a, b}
  MaxQuantity = 2
  MaxTime = 0
  TTL = 1
  ProductOf <- OneSaleProduct
  Allocated <- OneSaleAllocated2
  MaxPerUser <- OneSaleLimit1
  StartsAt <- OneSaleOpens
  EndsAt <- OneSaleNeverCloses
  Stock <- OneStock2
  StockLevels = {}
  SeedSales = {s1}
  ReserveRequests <- SpelledRequests
  TransitionTargets = {}
  PaymentOutcomes = {}
  BatchSizes = {}
  AdminSaleStates = {}
  ActiveFlags = {}
INVARIANTS
  PurchaseLimitHeld
