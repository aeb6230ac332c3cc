SPECIFICATION Spec
CONSTANTS
  p1 = p1
  t1 = t1
  t2 = t2
  d1 = d1
  d2 = d2
  db1 = db1
  db2 = db2
  r1 = r1
  r2 = r2
  Runs <- MCRuns
  Absent = Absent
  Empty = Empty
  Older = Older
  Torn = Torn
  Body = Body
  Procedures <- NoNames
  Tables <- OneTable
  Dirs <- MCDirs
  Dbs <- MCDbs
  Settings <- BareSettings
INVARIANT
  CustomTempDirWorks
CHECK_DEADLOCK FALSE
