CONSTANTS
  MaxInodes = 4
  FsSize = 7
  Names = {f1}
  NoName = NoName
  Vals = {v0, v1}
  Zero = v0
  Blank = Blank
  Torn = Torn
  Handles = {h1}
  Tmp = Tmp
  Erasing = TRUE
  WearLeveling = FALSE
  Calls = {"openOut", "openIn", "write", "overwrite", "part", "truncate", "grow", "seek", "flush", "ioerror", "full", "crash"}
  Exclusive = TRUE
  MaxFilePages = 8
  MaxLen = 2
  MaxVer = 2
  MaxIno = 1
SPECIFICATION Spec
SYMMETRY Symmetry
INVARIANTS CommittedPagesKept DraftPagesKept
PROPERTIES FilesAreAtomic MountReclaims
