\* Two calls compete for two tokens, or one call of every kind; or a bulk change of two items.
\* The server may crash once.
SPECIFICATION ExecutionSpec
CONSTANTS
  c1 = c1  c2 = c2  t1 = t1  t2 = t2  p1 = p1  p2 = p2
  Call = {c1, c2}
  Token = {t1, t2}
  Plan = {p1, p2}
  Request <- AllRequests
  NoPlan = NoPlan  NoToken = NoToken  NoRequest = NoRequest  NoCall = NoCall
  TTL = 1
  MaxClock = 2
  MaxCrashes = 1
  Item = {i1, i2}
  Worker = {w1, w2}
  NoItem = NoItem
  MaxAttempts = 2
  ClientRetries = 1
  MaxStarts = 3
  MaxKills = 1
INVARIANTS TypeOK OneCallPerToken GrantMatchesPlan NoApprovalWasted WriteAhead SuccessIsReal AnswerInLedger ProfileContract BulkSafe NoReplayWithoutExcuse
PROPERTIES ImplementsOneShotApproval
CHECK_DEADLOCK FALSE
