SPECIFICATION FairSpec
CONSTANTS
  Session = {s1}
  Request = {r1, r2}
  FileId = {f1, f2, f3}
  LastIdx = 1
  Declares = {}
  Bodies = {"good"}
  Ops = {"put", "complete", "cancel"}
  Faults = {"io"}
  MaxFaults = 1
  NoSession = NoSession
  NoFile = NoFile
INVARIANTS NothingLeftBehind
PROPERTIES AssembledIsCompleted
