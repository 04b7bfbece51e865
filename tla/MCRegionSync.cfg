CONSTANTS
  c1 = c1
  c2 = c2
  c3 = c3
  c4 = c4
  c5 = c5
  e1 = e1
  e2 = e2
  m1 = m1
  m3 = m3
  m4 = m4
  a = a
  b = b
  Absent = Absent
  NoVersion = NoVersion
  NoCommit = NoCommit
  Commit = {c1, c2, c3, c4, c5}
  Entity = {e1, e2}
  Value = {a, b}
  Version = {m1, m3, m4}
  Data <- MCData
  Manifest <- MCManifest
  FirstCommit = c1
  Follows <- Forward
  SaveMayLose <- AllButRunning
SPECIFICATION CalmSpec
INVARIANTS
  TypeOK
  SuccessDescribesStore
  ReportedSuccessIsRecorded
PROPERTIES
  ServedStoreIsStable
  InterruptedStaysRecoverable
  Converges
