CONSTANTS
  MaxInodes = 5
  MaxData = 3
  Names = {f1}
  NoName = NoName
  Sealed = Sealed
  Completed = Completed
  Vals = {v0}
  Empty = Empty
  Absent = Absent
  Blank = Blank
  NoFile = NoFile
  Threshold = 40
  CrashPoints = {"idle", "pick", "seal", "erase", "eraseFs1", "header", "copy", "complete", "unlink", "commit", "close"}
  MaxIno <- MCStaleMaxIno
  Threads = {t1}
  NoThread = NoThread
  MaxLost = 0
  Ops = {"out", "write", "delete"}
SPECIFICATION Spec

INVARIANT MountFindsFiles
