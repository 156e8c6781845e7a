------------------------------ MODULE FlashSwap ------------------------------
(***************************************************************************)
(* Two NoDel file systems on two flash areas of which one is active:       *)
(* src/src_2face/SimpleFlashFs2FlashPages.h on top of SimpleFlashFsNoDel.h.*)
(* A NoDel file system only grows; when it is nearly full at mount time    *)
(* its latest files are copied to the other flash, and the two swap roles. *)
(* Two marker files say how far that came: the source is sealed before the *)
(* target is erased, the target is completed after the last file.  Which   *)
(* flash is active is not stored: every mount reads it off the markers.    *)
(*                                                                         *)
(* As in FlashFs, a call is a list of tasks with at most one write or      *)
(* erase of the flash each, and the power can fail between any two of      *)
(* them.  The content of a file is one value that fills one data page, and *)
(* a write replaces it; an inode page that is torn by a power loss counts  *)
(* as free, for the allocator (wrong CRC) and in the statistic alike, and  *)
(* is not told apart from a blank one.  One file is open at a time: see    *)
(* TwoFace.                                                                *)
(***************************************************************************)
EXTENDS Integers, FiniteSets, Sequences

CONSTANTS
  MaxInodes,         \* header.max_inodes: inode pages 0 .. MaxInodes - 1
  MaxData,           \* data pages of each flash, numbered 1 .. MaxData
  Names, NoName,     \* file names, and the name of a deleted file
  Sealed, Completed, \* FILESYSTEM_SEALED_FILE_NAME, COPY_COMPLETED_FILE_NAME
  Vals, Empty,       \* contents, and the content of an empty file
  Absent,            \* what View says of a name without a file
  Blank,             \* an inode page without an inode
  NoFile,            \* no open file
  Threshold,         \* treshold_percentage of should_cleanup()
  CrashPoints        \* the tasks before which the power may fail

ASSUME SwapAssumption ==
  /\ MaxInodes \in Nat /\ MaxInodes > 4
  /\ MaxData \in Nat \ {0}
  /\ Threshold \in 0 .. 100
ASSUME NamesAssumption ==
  /\ NoName \notin Names \cup {Sealed, Completed}
  /\ {Sealed, Completed} \cap Names = {}
  /\ Sealed # Completed
  /\ Empty \notin Vals
  /\ Absent \notin Vals \cup {Empty}

Flashes    == {1, 2}
Other(c)   == 3 - c
InodePages == 0 .. MaxInodes - 1
DataPages  == 1 .. MaxData
NoPage     == -1
Least(S)    == CHOOSE x \in S : \A y \in S : x <= y
Greatest(S) == CHOOSE x \in S : \A y \in S : x >= y

VARIABLES
  valid,    \* flash: is there a header with a good CRC
  area,     \* flash: the inode pages of both
  engaged,  \* the components c1, c2 whose fs is not empty
  stat,     \* get_stat() of the active file system: taken at its init()
  maxIno,   \* max_inode_number of each engaged file system
  freeData, \* free_data_pages of each engaged file system
  file,     \* the open file
  todo,     \* what is left of the running call
  files     \* history: the files the user last committed

flash == <<valid, area>>
mount == <<engaged, stat, maxIno, freeData>>
swapVars == <<valid, area, engaged, stat, maxIno, freeData, file, todo, files>>

Version == [ino : Nat, ver : Nat, name : Names \cup {NoName, Sealed, Completed},
            val : Vals \cup {Empty}, data : 0 .. MaxData]
OpenFile == [ino : Nat, ver : Nat, name : Names \cup {NoName},
             val : Vals \cup {Empty}, data : 0 .. MaxData,
             page : InodePages, held : InodePages, mod : BOOLEAN]
Task == [t : {"pick", "seal", "erase", "header", "copy", "complete",
              "recreateErase", "recreateHeader", "unlink", "commit", "close"},
         c : {0} \cup Flashes, n : Names \cup {NoName}]

ASSUME MarkAssumption == Blank \notin Version /\ NoFile \notin OpenFile

Do(t, c) == [t |-> t, c |-> c, n |-> NoName]

(***************************************************************************)
(* One NoDel file system.                                                  *)
(***************************************************************************)
Used(c) == {p \in InodePages : area[c][p] # Blank}

\* InodeVersionStore::add
Latest(c, p) ==
  /\ p \in Used(c)
  /\ \A q \in Used(c) : area[c][q].ino = area[c][p].ino =>
       \/ area[c][q].ver < area[c][p].ver
       \/ area[c][q].ver = area[c][p].ver /\ p <= q

LatestPages(c) == {p \in Used(c) : Latest(c, p)}

\* find_file(): NoPage when there is none
Find(c, n) ==
  LET found == {p \in LatestPages(c) : area[c][p].name = n}
  IN IF found = {} THEN NoPage ELSE Least(found)

\* allocate_free_inode_page() and allocate_free_inode_page_number(): the
\* lowest free page, the last one is never looked at
NextPage(c, taken) ==
  LET free == (InodePages \ {MaxInodes - 1}) \ (Used(c) \cup taken)
  IN IF free = {} THEN NoPage ELSE Least(free)

UsedData(c) == {area[c][p].data : p \in Used(c)} \ {0}

\* read_all_free_data_pages(): trash_size counts the pages of every inode,
\* the latest ones included
Stat(c) ==
  [free  |-> MaxInodes - Cardinality(Used(c)),
   trash |-> Used(c) # LatestPages(c) \/ UsedData(c) # {}]

FreshStat == [free |-> MaxInodes, trash |-> FALSE]

HighestIno(c) ==
  IF Used(c) = {} THEN 0 ELSE Greatest({area[c][p].ino : p \in Used(c)})

\* what open() finds under the user's names
View(c) ==
  [n \in Names |->
     LET p == Find(c, n) IN IF p = NoPage THEN Absent ELSE area[c][p].val]

EmptyArea == [p \in InodePages |-> Blank]

(***************************************************************************)
(* init(): which flash is active, and does it need a cleanup.              *)
(***************************************************************************)
Has(c, marker) == Find(c, marker) # NoPage

ByMarkers_SealsOnly ==  \* mutant: the copy is not asked to be complete
  IF Has(2, Sealed) THEN 1
  ELSE IF Has(1, Sealed) THEN 2
  ELSE IF HighestIno(1) > HighestIno(2) THEN 1 ELSE 2

\* init_fs() with two valid file systems
ByMarkers ==
  IF Has(1, Completed) /\ Has(2, Sealed) THEN 1
  ELSE IF Has(2, Completed) /\ Has(1, Sealed) THEN 2
  ELSE IF ~Has(1, Completed) /\ Has(2, Sealed) THEN 2
  ELSE IF ~Has(2, Completed) /\ Has(1, Sealed) THEN 1
  ELSE IF HighestIno(1) > HighestIno(2) THEN 1 ELSE 2

Choice ==
  IF valid[1] /\ valid[2] THEN ByMarkers
  ELSE CHOOSE c \in Flashes : valid[c]

Percent(used, all) == (100 * used) \div all

\* all_data_pages counts the header page as well
ShouldCleanup(c) ==
  /\ Stat(c).trash
  /\ \/ Percent(Cardinality(Used(c)), MaxInodes) > Threshold
     \/ Percent(Cardinality(UsedData(c)) + 1, MaxData + 1) > Threshold

\* get_component( active )
Active == IF 1 \in engaged THEN 1 ELSE 2

Doing(t) == todo # <<>> /\ Head(todo).t = t
On       == Head(todo).c
Then(tasks) == todo' = tasks \o Tail(todo)

CreateBoth ==
  <<Do("recreateErase", 1), Do("recreateHeader", 1),
    Do("recreateErase", 2), Do("recreateHeader", 2), Do("pick", 0)>>

Pick ==
  LET c == Choice IN
  /\ Doing("pick")
  /\ IF \A d \in Flashes : ~valid[d]
     THEN Then(CreateBoth) /\ UNCHANGED mount
     ELSE /\ engaged' = {c}
          /\ stat' = Stat(c)
          /\ maxIno' = [maxIno EXCEPT ![c] = HighestIno(c)]
          /\ freeData' = [freeData EXCEPT ![c] = DataPages \ UsedData(c)]
          /\ Then(IF ShouldCleanup(c) THEN <<Do("seal", c)>> ELSE <<>>)
  /\ UNCHANGED <<flash, file, files>>

(***************************************************************************)
(* cleanup().                                                              *)
(***************************************************************************)
Marker(c, n) ==
  [ino |-> maxIno[c] + 1, ver |-> 0, name |-> n, val |-> Empty, data |-> 0]

\* open( SEALED, out | trunc ), and the flush in the destructor of that
\* handle.  An inode that is there already is opened on a page of its own
\* and flushed to another one; when that fails nobody notices.
Seal ==
  LET c     == On
      p     == NextPage(c, {})
      q     == NextPage(c, {p})
      there == Find(c, Sealed)
      swap  == <<Do("erase", Other(c)), Do("header", Other(c)),
                 Do("copy", Other(c)), Do("complete", Other(c))>>
  IN
  /\ Doing("seal")
  /\ IF p = NoPage
     THEN Then(<<>>) /\ UNCHANGED <<area, maxIno>>
     ELSE /\ Then(swap)
          /\ \/ /\ there = NoPage
                /\ area' = [area EXCEPT ![c][p] = Marker(c, Sealed)]
                /\ maxIno' = [maxIno EXCEPT ![c] = @ + 1]
             \/ /\ there # NoPage
                /\ area' = IF q = NoPage THEN area
                           ELSE [area EXCEPT ![c][q] =
                                   [area[c][there] EXCEPT !.ver = @ + 1]]
                /\ UNCHANGED maxIno
  /\ UNCHANGED <<valid, engaged, stat, freeData, file, files>>

\* create( component ): the flash is erased ...
Erase ==
  /\ Doing("erase") \/ Doing("recreateErase")
  /\ valid' = [valid EXCEPT ![On] = FALSE]
  /\ area' = [area EXCEPT ![On] = EmptyArea]
  /\ Then(<<>>)
  /\ UNCHANGED <<mount, file, files>>

\* ... and gets a new header; in a cleanup the inode numbers of the target
\* go on after those of the source
Header ==
  /\ Doing("header") \/ Doing("recreateHeader")
  /\ valid' = [valid EXCEPT ![On] = TRUE]
  /\ maxIno' = [maxIno EXCEPT ![On] =
                  IF Doing("header") THEN maxIno[Other(On)] + 1 ELSE 0]
  /\ freeData' = [freeData EXCEPT ![On] = DataPages]
  /\ engaged' = IF Doing("header") THEN engaged \cup {On} ELSE engaged
  /\ Then(<<>>)
  /\ UNCHANGED <<area, stat, file, files>>

\* the files of c that list_files() hands to cleanup(): special_file_filter
\* drops the markers, tombstones have no name
ToCopy(c) == {p \in LatestPages(c) : area[c][p].name \in Names}

\* each file is copied once, in the order of the list
CopyTarget(c, p) ==
  [ino |-> maxIno[c] + 1, ver |-> 0, name |-> area[Other(c)][p].name,
   val |-> area[Other(c)][p].val,
   data |-> IF area[Other(c)][p].data = 0 THEN 0 ELSE Least(freeData[c])]

CopyFile ==
  LET c    == On
      rest == {p \in ToCopy(Other(c)) : Find(c, area[Other(c)][p].name) = NoPage}
      new  == CopyTarget(c, Least(rest))
  IN
  /\ Doing("copy")
  /\ IF rest = {}
     THEN Then(<<>>) /\ UNCHANGED <<area, maxIno, freeData>>
     ELSE /\ area' = [area EXCEPT ![c][NextPage(c, {})] = new]
          /\ maxIno' = [maxIno EXCEPT ![c] = @ + 1]
          /\ freeData' = [freeData EXCEPT ![c] = @ \ {new.data}]
          /\ UNCHANGED todo
  /\ UNCHANGED <<valid, engaged, stat, file, files>>

\* the active file system becomes the inactive one; the statistic of the new
\* one is that of its init(), before the files were copied
Complete ==
  LET c == On IN
  /\ Doing("complete")
  /\ area' = [area EXCEPT ![c][NextPage(c, {})] = Marker(c, Completed)]
  /\ maxIno' = [maxIno EXCEPT ![c] = @ + 1]
  /\ engaged' = {c}
  /\ stat' = FreshStat
  /\ Then(<<>>)
  /\ UNCHANGED <<valid, freeData, file, files>>

(***************************************************************************)
(* The open file.  file.held is the page that open() reserved for it and   *)
(* that stays reserved when the file moves on to other pages.              *)
(***************************************************************************)
Opened(n, mode) ==
  LET p == Find(Active, n)
      q == NextPage(Active, {})
      i == area[Active][p]
  IN
  IF p = NoPage
  THEN IF mode = "in" \/ q = NoPage THEN NoFile
       ELSE [ino |-> 0, ver |-> 0, name |-> n, val |-> Empty, data |-> 0,
             page |-> q, held |-> q, mod |-> TRUE]
  ELSE IF mode = "trunc"
  THEN IF q = NoPage THEN NoFile
       ELSE [ino |-> i.ino, ver |-> i.ver, name |-> n, val |-> Empty,
             data |-> 0, page |-> q, held |-> q, mod |-> FALSE]
  ELSE [ino |-> i.ino, ver |-> i.ver, name |-> n, val |-> i.val,
        data |-> i.data, page |-> p, held |-> p, mod |-> FALSE]

\* a deleted file's handle is disconnected
Connected == todo = <<>> /\ file # NoFile /\ file.name # NoName

Write(v) ==
  /\ Connected
  /\ freeData[Active] # {}
  /\ LET d == Least(freeData[Active]) IN
     /\ file' = [file EXCEPT !.val = v, !.data = d, !.mod = TRUE]
     /\ freeData' = [freeData EXCEPT ![Active] = @ \ {d}]
  /\ UNCHANGED <<flash, engaged, stat, maxIno, todo, files>>

Flush ==
  /\ Connected
  /\ file.mod
  /\ todo' = <<Do("commit", 0)>>
  /\ UNCHANGED <<flash, mount, file, files>>

Close ==
  /\ todo = <<>> /\ file # NoFile
  /\ todo' = <<Do("commit", 0), Do("close", 0)>>
  /\ UNCHANGED <<flash, mount, file, files>>

Delete ==
  /\ Connected
  /\ file' = [file EXCEPT !.name = NoName, !.val = Empty, !.data = 0, !.mod = TRUE]
  /\ todo' = <<Do("commit", 0)>>
  /\ UNCHANGED <<flash, mount, files>>

Rename(n) ==
  /\ Connected
  /\ n # file.name
  /\ todo' = <<[Do("unlink", 0) EXCEPT !.n = n]>>
  /\ UNCHANGED <<flash, mount, file, files>>

\* rename_file(): the other file of that name is deleted first, successfully
\* or not
Unlink ==
  LET n == Head(todo).n
      p == Find(Active, n)
      q == NextPage(Active, {file.page, file.held})
  IN
  /\ Doing("unlink")
  /\ area' = IF p = NoPage \/ q = NoPage THEN area
             ELSE [area EXCEPT ![Active][q] =
                     [ino |-> area[Active][p].ino, ver |-> area[Active][p].ver + 1,
                      name |-> NoName, val |-> Empty, data |-> 0]]
  /\ file' = [file EXCEPT !.name = n, !.mod = TRUE]
  /\ Then(<<Do("commit", 0)>>)
  /\ UNCHANGED <<valid, mount>>
  /\ files' = View(Active)'

\* what a flush writes, and where: a new file to the page it was given, a
\* new version to a free page
Stored(f, ino, ver) ==
  [ino |-> ino, ver |-> ver, name |-> f.name, val |-> f.val, data |-> f.data]

Commit ==
  LET c == Active
      q == NextPage(c, {file.page, file.held})
      n == maxIno[c] + 1
  IN
  /\ Doing("commit")
  /\ \/ /\ ~file.mod \/ (file.ino # 0 /\ q = NoPage)
        /\ UNCHANGED <<area, maxIno, file>>
     \/ /\ file.mod /\ file.ino = 0
        /\ area' = [area EXCEPT ![c][file.page] = Stored(file, n, 0)]
        /\ maxIno' = [maxIno EXCEPT ![c] = n]
        /\ file' = [file EXCEPT !.ino = n, !.mod = FALSE]
     \/ /\ file.mod /\ file.ino # 0 /\ q # NoPage
        /\ area' = [area EXCEPT ![c][q] = Stored(file, file.ino, file.ver + 1)]
        /\ file' = [file EXCEPT !.ver = @ + 1, !.page = q, !.mod = FALSE]
        /\ UNCHANGED maxIno
  /\ Then(<<>>)
  /\ UNCHANGED <<valid, engaged, stat, freeData>>
  /\ files' = View(Active)'

(***************************************************************************)
(* Power, and the initial state: two flashes as the factory left them.     *)
(***************************************************************************)
CrashPoint ==
  IF todo = <<>> THEN "idle"
  ELSE IF Doing("erase") /\ On = 1 THEN "eraseFs1"
  ELSE Head(todo).t

Unmounted ==
  /\ engaged' = {}
  /\ stat' = FreshStat
  /\ maxIno' = [c \in Flashes |-> 0]
  /\ freeData' = [c \in Flashes |-> {}]
  /\ file' = NoFile

PowerLoss ==
  /\ CrashPoint \in CrashPoints
  /\ Unmounted
  /\ todo' = <<>>
  /\ UNCHANGED <<flash, files>>

SwapInit ==
  /\ valid = [c \in Flashes |-> FALSE]
  /\ area = [c \in Flashes |-> EmptyArea]
  /\ engaged = {}
  /\ stat = FreshStat
  /\ maxIno = [c \in Flashes |-> 0]
  /\ freeData = [c \in Flashes |-> {}]
  /\ file = NoFile
  /\ todo = <<>>
  /\ files = [n \in Names |-> Absent]

SwapTask ==
  \/ Pick \/ Seal \/ Erase \/ Header \/ CopyFile \/ Complete
  \/ Unlink \/ Commit
=============================================================================
