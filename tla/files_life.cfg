SPECIFICATION MCSpec
CONSTANTS
  f1 = f1
  f2 = f2
  r1 = r1
  File = {f1, f2}
  Nested <- MCNested
  Size <- MCSize
  Quota = 1
  Names = {"n1", "n2"}
  Request = {r1, r2}
  Ops = {"rename", "trash", "restore", "purge", "permanent", "term", "folderPermanent", "folderTerm", "folderDelete", "ownerDelete"}
  MaxFaults = 1
  NoFile = NoFile
INVARIANTS FTypeOK MissingIsBeingPurged
PROPERTIES PurgeLeavesNoBytes TrashedIsFrozen PermanenceIsKept QuotaOverrunIsRaced ExpiredIsTrashed DueIsPurged
CHECK_DEADLOCK FALSE
