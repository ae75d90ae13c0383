SPECIFICATION FairMSpec
CONSTANTS
  Session = {s1}
  Request = {r1}
  FileId = {f1, f2}
  LastIdx = 0
  Declares = {}
  Bodies = {"good"}
  Ops = {"put", "complete", "cancel"}
  Faults = {"cut", "db", "crash"}
  MaxFaults = 1
  NoSession = NoSession
  NoFile = NoFile
  Tasks = {"uploads", "orphans"}
INVARIANTS FinishedIsKept
PROPERTIES StaleIsReclaimed GhostsAreCollected ChunksAreReclaimed
