CONSTANTS
  MaxInodes = 4
  FsSize = 7
  Names = {f1, f2}
  NoName = NoName
  Vals = {v0, v1}
  Zero = v0
  Blank = Blank
  Torn = Torn
  Handles = {h1}
  Tmp = Tmp
  Erasing = TRUE
  WearLeveling = FALSE
  Calls = {"openOut", "openTrunc", "openIn","write", "part", "overwrite", "flush", "delete", "rename", "crash"}
  Exclusive = TRUE
  MaxFilePages = 8
  MaxLen = 1
  MaxVer = 3
  MaxIno = 1
SPECIFICATION Spec
SYMMETRY Symmetry
INVARIANTS CommittedPagesKept NoReservationLeaks
PROPERTIES FilesAreAtomic
