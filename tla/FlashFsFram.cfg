CONSTANTS
  MaxInodes = 3
  FsSize = 6
  Names = {f1, f2}
  NoName = NoName
  Vals = {v0}
  Zero = v0
  Blank = Blank
  Torn = Torn
  Handles = {h1, h2}
  Tmp = Tmp
  Erasing = TRUE
  WearLeveling = TRUE
  Calls = {"openOut", "write", "delete", "cleanup", "crash"}
  Exclusive = TRUE
  MaxFilePages = 8
  MaxLen = 1
  MaxVer = 1
  MaxIno = 2
SPECIFICATION Spec
SYMMETRY Symmetry
INVARIANTS CommittedPagesKept
PROPERTIES FilesAreAtomic FreshNumbers
