SPECIFICATION MSpec
CONSTANTS
  Session = {s1}
  Request = {r1, r2}
  FileId = {f1, f2}
  LastIdx = 0
  Declares = {}
  Bodies = {"good"}
  Ops = {"put", "complete", "cancel"}
  Faults = {}
  MaxFaults = 0
  NoSession = NoSession
  NoFile = NoFile
  Tasks = {"orphans"}
SYMMETRY Symmetry
PROPERTIES ScanSparesFinished
