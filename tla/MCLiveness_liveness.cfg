SPECIFICATION LivenessSpec
CONSTANTS
  c1 = c1  c2 = c2  t1 = t1  t2 = t2  p1 = p1  p2 = p2
  Call = {c1}
  Token = {t1}
  Plan = {p1}
  Request <- FewRequests
  NoPlan = NoPlan  NoToken = NoToken  NoRequest = NoRequest  NoCall = NoCall
  TTL = 1
  MaxClock = 2
  MaxCrashes = 1
  File = {f1}
  Content = {a, b}
  Op = {o1}
  Rollback = {r1}
  Missing = Missing
  NoOp = NoOp
  NoRollback = NoRollback
  NoFile = NoFile
  Strategies = {"files", "snapshot", "resource", "metafield", "redirect", "order", "customer"}
  MaxEdits = 1
  MaxDeaths = 1
  Query = {q1}
  MaxRetries = 1
  MaxAvailable = 2
  RestoreRate = 1
  QueryCost = 2
  BaseDelay = 1
  Event = {e1}
  Writer = {v1, v2}
  Reader = {}
  Grace = 1
  Ttl = 1
  MaxNow = 0
  MaxWrites = 1
  MaxRestarts = 1
  NoEvent = NoEvent
  Item = {i1}
  Worker = {w1, w2}
  NoItem = NoItem
  MaxAttempts = 2
  ClientRetries = 1
  MaxStarts = 2
  MaxKills = 1
PROPERTIES EveryCallEnds RunEnds RollbackEnds CallEnds EventsAreRecorded
CHECK_DEADLOCK FALSE
