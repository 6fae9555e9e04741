SPECIFICATION RecordsSpec
CONSTANTS
  Cred = {k1}
  Name = {n1, n2}
  Flush = {f1, f2}
  MaxAsked = 2
  MaxRows = 2
  Caller = {s1, s2, s3}
  Skill = {house, own}
  Builtin = {house}
  NoCaller = NoCaller
  Author = {a1, a2, a3}
  NoAuthor = NoAuthor
  MaxManifests = 3
  Visitor = {v1, v2, v3}
  NoVisitor = NoVisitor
  OpenTickets = 1
  Audit = {d1, d2, d3}
  NoAudit = NoAudit
  Sessions = 2
  Editor = {e1, e2}
  Slug = {p1, p2}
  NoEditor = NoEditor
  Call = {1, 2, 3}
  Seed = Seed
  Nothing = Nothing
  Keep = 2
  b1 = b1
  Reader = {1, 2}
  FileKey = {key}
  Body = {b1, b2}
  NoFile = NoFile
  SetTtl = 1
  MaxTime = 1
  MaxChanges = 2
INVARIANTS ConnectionsSafe MemoriesSafe RecordsSafe
CHECK_DEADLOCK FALSE
