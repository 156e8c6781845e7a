CONSTANTS
  MaxInodes = 5
  MaxData = 2
  Names = {f1, f2}
  NoName = NoName
  Sealed = Sealed
  Completed = Completed
  Vals = {v0}
  Empty = Empty
  Absent = Absent
  Blank = Blank
  NoFile = NoFile
  Threshold = 40
  CrashPoints = {"idle", "pick", "seal", "erase", "header", "copy", "complete", "unlink", "commit", "close"}
  MaxIno <- MCMaxIno
  Threads = {t1, t2}
  NoThread = NoThread
  MaxLost = 1
  Ops = {"in", "out", "trunc", "look", "recreate", "write", "delete", "rename", "flush"}
SPECIFICATION Spec
INVARIANTS MountFindsFiles LockBalanced
SYMMETRY MCSym
