SPECIFICATION AccessSpec
CONSTANTS
  Visit = {v1, v2, v3}
  Email = {e1}
  NoVisit = NoVisit
  NoEmail = NoEmail
  PerWindow = 1
  MaxWrong = 1
  Task = {t1, t2}
  Cred = {r1, r2}
  MaxInstalls = 2
  Writer = {w1, w2, w3}
  Nobody = Nobody
SYMMETRY Symmetry
INVARIANTS LoginSafe ShopSafe CredentialsEnd SettingsSafe
PROPERTIES LinksAreOneShot
CHECK_DEADLOCK FALSE
