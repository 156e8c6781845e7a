CONSTANTS
  MaxInodes = 5
  FsSize = 8
  Names = {f1, f2}
  NoName = NoName
  Vals = {v0}
  Zero = v0
  Blank = Blank
  Torn = Torn
  Handles = {h1, h2}
  Tmp = Tmp
  Erasing = TRUE
  WearLeveling = FALSE
  Calls = {"openOut", "write", "flush", "full"}
  Exclusive = TRUE
  MaxFilePages = 8
  MaxLen = 2
  MaxVer = 3
  MaxIno = 2
SPECIFICATION Spec
SYMMETRY Symmetry
CHECK_DEADLOCK FALSE
INVARIANT CommittedPagesKept
