SPECIFICATION MCSpec
CONSTANTS
  d1 = d1
  d2 = d2
  Folder = {d1, d2, d3}
  Name = {"a", "b"}
  File = {x1}
  Request = {r1}
  MaxDepth = 3
  MaxFolders = 3
  MaxOps = 2
  NoFolder = NoFolder
  Share = {s1}
  Visitor = {v1}
  MaxViews = 2
  NoShare = NoShare
INVARIANT RelPathNamesBytes
CHECK_DEADLOCK FALSE
