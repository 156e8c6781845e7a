CONSTANTS
  MaxInodes = 2
  FsSize = 5
  Names = {f1}
  NoName = NoName
  Vals = {v0}
  Zero = v0
  Blank = Blank
  Torn = Torn
  Handles = {h1}
  Tmp = Tmp
  Erasing = TRUE
  WearLeveling = TRUE
  Calls = {"openIn","openOut", "openTrunc","write","overwrite","part","draftPart","truncate","grow","seek","flush","delete","rename","renameSelf","cleanup","list","crash","restart","ioerror","zeroerror"}
  Exclusive = FALSE
  MaxFilePages = 8
  MaxLen = 1
  MaxVer = 1
  MaxIno = 2
SPECIFICATION Spec
INVARIANTS TypeOK NumbersBounded
PROPERTIES CallsReturn
