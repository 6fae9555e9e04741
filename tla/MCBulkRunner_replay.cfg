SPECIFICATION BulkSpec
CONSTANTS
  Item = {i1, i2}
  Worker = {w1, w2}
  NoItem = NoItem
  MaxAttempts = 2
  ClientRetries = 1
  MaxStarts = 1
  MaxKills = 0
SYMMETRY Symmetry
INVARIANTS
  NeverReplayed
CHECK_DEADLOCK FALSE
