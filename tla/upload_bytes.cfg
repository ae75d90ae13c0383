SPECIFICATION Spec
CONSTANTS
  Session = {s1}
  Request = {r1, r2}
  FileId = {f1, f2}
  LastIdx = 1
  Declares = {s1}
  Bodies = {"good", "short", "wide", "long"}
  Ops = {"put", "complete", "cancel"}
  Faults = {"cut", "db", "lost", "crash"}
  MaxFaults = 1
  NoSession = NoSession
  NoFile = NoFile
SYMMETRY Symmetry
INVARIANTS OneProduct DigestMatchesBytes
