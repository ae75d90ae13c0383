SPECIFICATION MCSpec
CONSTANTS
  a1 = a1
  a2 = a2
  t1 = t1
  s1 = s1
  Account = {a1, a2, a3}
  No = {"1", "2"}
  Call = {c1, c2}
  Patches <- MCPatches
  TTL = 1
  MaxHash = 2
  MaxCalls = 2
  NoAccount = NoAccount
  Unused = Unused
  Gone = Gone
  NoRow = NoRow
  Key = {"retention_days", "trash_days"}
  Value = {"v1", "v2"}
  Default = "v1"
  Saver = {w1, w2}
  MaxSaves = 3
  NoSave = NoSave
  LimitKey = {k1}
  Try = {l1, l2}
  MaxFailures = 2
  Window = 2
  MaxFailed = 3
  NoBucket = NoBucket
  Task = {t1, t2}
  Sess = {s1, s2}
  Chunk = {0, 1}
  Concurrency = 2
  MaxRetry = 2
  NoSess = NoSess
  Writer = {p1, p2}
  Node = {n1, n2, n3}
  MaxBlock = 2
  MaxPuts = 3
  NoNode = NoNode
  NoPut = NoPut
  NoSize = NoSize
INVARIANTS AdminRemains StaleEntryIsRaced FilesOutliveOthers InForceIsStored FailuresAreBounded RefusalIsEarned TaskIsTrue ChunkIsWhole ReceivedIsSum
PROPERTIES RevocationTakesHold OthersAreKept RunEnds
CHECK_DEADLOCK FALSE
