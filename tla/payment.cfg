\* Payments race each other, the customer and the worker over one reservation.
SPECIFICATION Spec
CONSTANTS
  p1 = p1
  p2 = p2
  s1 = s1
  s2 = s2
  u1 = u1
  u2 = u2
  lower = lower
  upper = upper
  NULL = NULL
  Products = {p1}
  Sales = {s1}
  Users = {u1, u2}
  Spellings = {lower}
  ReservationIDs = {1}
  Keys = {k1}
  PaymentKeys = {m1, m2}
  Sessions = {a, b}
  MaxQuantity = 2
  MaxTime = 1
  TTL = 1
  ProductOf <- OneSaleProduct
  Allocated <- OneSaleAllocated2
  MaxPerUser <- OneSaleLimit2
  StartsAt <- OneSaleOpens
  EndsAt <- OneSaleNeverCloses
  Stock <- OneStock2
  StockLevels = {}
  SeedSales = {s1}
  ReserveRequests <- OneSaleBothUnits
  TransitionTargets = {"confirmed", "cancelled"}
  PaymentOutcomes = {"successful", "failed", "delayed"}
  BatchSizes = {1}
  AdminSaleStates = {}
  ActiveFlags = {}
SYMMETRY KeySymmetric
INVARIANTS
  InvariantCheckPasses
  OrdersAgree
  ChargedOnce
  PaymentAnswersDurable
  EventsTrace
  NoDeadlock
PROPERTIES
  LifecycleRespected
  ImplementsLedger
