SPECIFICATION MSpec
CONSTANTS
  Session = {s1}
  Request = {r1, r2}
  FileId = {f1, f2, f3}
  LastIdx = 1
  Declares = {}
  Bodies = {"good"}
  Ops = {"put", "complete", "cancel"}
  Faults = {"cut", "db", "io", "crash"}
  MaxFaults = 1
  NoSession = NoSession
  NoFile = NoFile
  Tasks = {"uploads"}
SYMMETRY Symmetry
INVARIANTS MTypeOK CreatedIsReadable
PROPERTIES PromiseKept ContractKept
