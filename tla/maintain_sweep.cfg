SPECIFICATION MSpec
CONSTANTS
  Session = {s1}
  Request = {r1}
  FileId = {f1, f2}
  LastIdx = 2
  Declares = {}
  Bodies = {"good"}
  Ops = {"put", "complete", "cancel"}
  Faults = {}
  MaxFaults = 0
  NoSession = NoSession
  NoFile = NoFile
  Tasks = {"orphans"}
CONSTRAINT NeverStale
SYMMETRY Symmetry
PROPERTIES SweepSparesUploads
