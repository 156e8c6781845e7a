CONSTANTS
  MaxInodes = 4
  FsSize = 7
  Names = {f1, f2}
  NoName = NoName
  Vals = {v0, v1}
  Zero = v0
  Blank = Blank
  Torn = Torn
  Handles = {h1, h2}
  Tmp = Tmp
  Erasing = TRUE
  WearLeveling = FALSE
  Calls = {"openOut", "write", "part", "flush", "delete", "rename", "crash"}
  Exclusive = TRUE
  MaxFilePages = 8
  MaxLen = 1
  MaxVer = 1
  MaxIno = 2
SPECIFICATION Spec
SYMMETRY Symmetry
INVARIANTS CommittedPagesKept DraftPagesKept NoReservationLeaks UnmodifiedIsCommitted
PROPERTIES FilesAreAtomic MountReclaims FreshNumbers NamesAreUnique
