SPECIFICATION StoreSpec
CONSTANTS
  Query = {q1, q2}
  MaxRetries = 1
  MaxAvailable = 2
  RestoreRate = 1
  QueryCost = 2
  BaseDelay = 1
  Run = {r1, r2}
  NoRun = NoRun
  Lines = 2
  MaxAgain = 1
  MaxProducts = 2
  MaxCollections = 2
  MaxRefs = 2
  Publication = {w}
  Holder = {p1, p2}
  Counter = {k1, k2}
  Location = {l1}
  Warehouse = l1
  MaxVariants = 3
  MaxQuantity = 1
  Text = {x1, x2}
  Default = Default
  MaxContent = 2
  MenuEditor = {m1, m2}
  MaxRows = 5
  PageSize = 2
  NoRow = NoRow
  Owner = {o1}
  Key = {f1, f2}
  SeededKey = f1
  MetaType = {t1, t2}
  SeededType = t1
  Handle = {h1}
  SetMax = 2
  MaxIds = 3
  Source = {s1, s2}
  Alt = {a1, a2}
  MaxFiles = 3
  ShopProduct = {p1, p2}
  FirstProduct = p1
  Email = {e1}
  MaxOrders = 3
  MaxDrafts = 1
  MaxCustomers = 2
  MaxItems = 2
  MarketHandle = {g1, g2}
  FirstHandle = g1
  Currency = {d1, d2}
  PricedVariant = {v1}
  GoneVariant = {v2}
  Locale = {en, fr}
  FirstLocale = en
  SourceText = {x1, x2}
  MaxMarkets = 2
  MaxCatalogs = 1
  MaxPriceLists = 1
  Code = {b1, b2}
  SeededCode = b1
  Address = {u1, u2}
  BadAddress = {u2}
  MaxOffers = 2
INVARIANTS AdminCallsSafe BulkOperationsSafe
PROPERTIES DemoStoreHolds
CHECK_DEADLOCK FALSE
