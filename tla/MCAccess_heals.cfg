SPECIFICATION HealSpec
CONSTANTS
  Visit = {}
  Email = {e1}
  NoVisit = NoVisit
  NoEmail = NoEmail
  PerWindow = 1
  MaxWrong = 1
  Task = {t1, t2}
  Cred = {}
  MaxInstalls = 2
  Writer = {}
  Nobody = Nobody
CHECK_DEADLOCK FALSE
PROPERTY Heals
