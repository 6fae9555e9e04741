SPECIFICATION MCSpec
CONSTANTS
  k1 = k1
  s1 = s1
  Call = {1, 2, 3, 4}
  Client = {k1, k2}
  Shop = {s1, s2}
  NoCall = NoCall
  NoClient = NoClient
  NoShop = NoShop
  Post = {1, 2, 3}
  t1 = t1
  t2 = t2
  Target = {t1, t2}
  ClientName = {n1, n2}
  Nothing = Nothing
  MaxItems = 2
  Name = {"a", "b", "c"}
  NoTool = "-"
  FreeTools = {"a"}
  Catalogs <- TheCatalogs
  Scripts <- TheScripts
  Asker = {1, 2}
  Ttl = 1
INVARIANTS OAuthSafe McpSafe SurfaceSafe
CHECK_DEADLOCK FALSE
