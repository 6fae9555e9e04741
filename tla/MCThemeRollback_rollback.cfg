SPECIFICATION MCSpec
CONSTANTS
  File = {f1, f2}
  Content = {a, b}
  Op = {o1}
  Rollback = {r1, r2}
  Missing = Missing
  NoOp = NoOp
  NoRollback = NoRollback
  NoFile = NoFile
  Strategies = {"files", "snapshot", "resource", "metafield", "redirect", "order", "customer"}
  MaxEdits = 1
  MaxDeaths = 1
SYMMETRY Symmetry
INVARIANTS RollbackSafe 
PROPERTIES NoBlindOverwrite
CHECK_DEADLOCK FALSE
