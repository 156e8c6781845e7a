CONSTANTS
  MaxInodes = 4
  FsSize = 7
  Names = {f1, f2}
  NoName = NoName
  Vals = {v0, v1}
  Zero = v0
  Blank = Blank
  Torn = Torn
  Handles = {h1}
  Tmp = Tmp
  Erasing = FALSE
  WearLeveling = FALSE
  Calls = {"openOut", "openIn","write", "overwrite", "part", "flush", "delete", "rename", "full", "crash"}
  Exclusive = TRUE
  MaxFilePages = 8
  MaxLen = 2
  MaxVer = 2
  MaxIno = 2
SPECIFICATION Spec
SYMMETRY Symmetry
INVARIANTS CommittedPagesKept
PROPERTIES FilesAreAtomic
