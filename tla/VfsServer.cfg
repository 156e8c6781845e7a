CONSTANTS
  Drives = {a}
  Names = {f1}
  Roots = {None}
  Bytes = {z}
  Zero = z
  Absent = Absent
  Threads = {t1, t2}
  Keepers = {t1}
  None = None
  Expired = Expired
  Nothing = Nothing
  Commands = {"cat", "cp", "rm", "touch", "mv", "cleanup", "format", "cd"}
  Uses = {"write", "seek", "truncate"}
  Modes <- MCModes
  MaxLen = 1
SPECIFICATION FairSpec
INVARIANTS TypeOK OneLiveHandle UpdatesLostOnlyByRace
PROPERTIES CursorsIndependent CommandsReturn
