SPECIFICATION ThemesSpec
CONSTANTS
  Caller = {c1, c2}
  File = {f1, f2}
  NumThemes = 4
  Cap = 2
  Workers = 2
  MaxOutside = 1
  MaxFaults = 1
  Snap = {s1, s2}
  Key = {k1, k2}
  Text = {x1, x2}
  Gone = Gone
  MaxSaves = 1
  MaxRestarts = 1
  MaxSections = 2
  MaxBlocks = 1
  Trees <- TheTrees
  Settings <- TheSettings
  Sections <- TheSections
SYMMETRY Symmetry
INVARIANTS WorkingThemeSafe SnapshotsSafe MergeSafe
CHECK_DEADLOCK FALSE
