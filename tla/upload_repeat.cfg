SPECIFICATION Spec
CONSTANTS
  Session = {s1, s2}
  Request = {r1, r2}
  FileId = {f1, f2}
  LastIdx = 1
  Declares = {}
  Bodies = {"good"}
  Ops = {"put", "complete", "cancel"}
  Faults = {}
  MaxFaults = 0
  NoSession = NoSession
  NoFile = NoFile
SYMMETRY Symmetry
INVARIANTS CompleteIsIdempotent
