\* The demo's controls on one database, over an administrator's catalogue.
SPECIFICATION ControlSpec
CONSTANTS
  NULL = NULL
  Drivers = {d1, d2}
  DriverKinds = {"status", "reset", "seed", "loadtest", "loadgen"}
  RequestIDs = {id}
  Buyers = {b1, b2}
  Proofs = 2
  DemoUnits = 1
  DemoProducts <- SaleIds
  Products <- AllIds
  Sales <- AllIds
  Users <- AllUsers
  Spellings = {lower}
  Canonical = lower
  Keys <- AllKeys
  PaymentKeys = {}
  ReservationIDs <- Ids
  MaxQuantity = 1
  ProductOf <- AllItself
  Allocated <- OneOfAll
  MaxPerUser <- OneOfAll
  StartsAt <- AllOpen
  EndsAt <- AllClose
  Stock <- OneOfAll
  StockLevels = {}
  SeedSales = {0}
  TTL = 1
  MaxTime = 0
SYMMETRY Interchangeable
INVARIANTS
  ReportsExact
  StatusHolds
  
CHECK_DEADLOCK FALSE
