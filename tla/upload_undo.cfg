SPECIFICATION Spec
CONSTANTS
  Session = {s1}
  Request = {r1, r2}
  FileId = {f1, f2}
  LastIdx = 1
  Declares = {}
  Bodies = {"good"}
  Ops = {"put", "complete", "cancel"}
  Faults = {"cut", "io"}
  MaxFaults = 1
  NoSession = NoSession
  NoFile = NoFile
SYMMETRY Symmetry
INVARIANTS FailedMergeIsUndone
