\* Two visitors' calls, one action per minute, and days that pass.
SPECIFICATION DemoSpec
CONSTANTS
  p1 = p1
  s1 = s1
  NULL = NULL
  Products = {p1}
  Sales = {s1}
  Users = {k1, k2, k3}
  Spellings = {lower}
  Canonical = lower
  ReservationIDs = {r1, r2}
  Keys = {k1, k2}
  PaymentKeys = {}
  MaxQuantity = 1
  MaxTime = 3
  TTL = 1
  ProductOf <- DemoProduct
  Allocated <- DemoUnits
  MaxPerUser <- DemoLimit
  StartsAt <- DemoOpens
  EndsAt <- DemoCloses
  Stock <- DemoStock
  StockLevels = {}
  SeedSales = {s1}
  Calls = {a, b}
  MaxPerMinute = 1
  Minute = 1
  Day = 1
SYMMETRY DemoSymmetry
INVARIANTS
  PublicBudgetHeld
  OneGrantADay
  OneUnitPerKey
