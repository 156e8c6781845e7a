CONSTANTS
  MaxInodes = 4
  FsSize = 7
  Names = {f1}
  NoName = NoName
  Vals = {v0}
  Zero = v0
  Blank = Blank
  Torn = Torn
  Handles = {h1}
  Tmp = Tmp
  Erasing = TRUE
  WearLeveling = TRUE
  Calls = {"openOut", "openTrunc", "write", "flush", "delete", "cleanup"}
  Exclusive = TRUE
  MaxFilePages = 8
  MaxLen = 1
  MaxVer = 4
  MaxIno = 1
SPECIFICATION Spec
CHECK_DEADLOCK FALSE
PROPERTY DeletedStaysDeleted
