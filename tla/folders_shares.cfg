SPECIFICATION MCSpec
CONSTANTS
  d1 = d1
  d2 = d2
  Folder = {d1, d2, d3}
  Name = {"a", "b"}
  File = {x1}
  Request = {r1, r2}
  MaxDepth = 3
  MaxFolders = 3
  MaxOps = 3
  NoFolder = NoFolder
  Share = {s1}
  Visitor = {v1}
  MaxViews = 2
  NoShare = NoShare
SYMMETRY Symmetry
INVARIANTS STypeOK SoundTree KeyIsFree BytesAreKept ServedWasLive
PROPERTIES DeletionTakesFiles CountedWasUsable
CHECK_DEADLOCK FALSE
