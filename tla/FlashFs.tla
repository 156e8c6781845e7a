------------------------------- MODULE FlashFs -------------------------------
(***************************************************************************)
(* The flash file system of src/src/base/SimpleFlashFsBase.h together with *)
(* the three ways the repository mounts it:                                *)
(*   - dynamic  (src/src/dynamic): old inode versions are erased on flush  *)
(*     and at mount, pages are taken lowest first;                         *)
(*   - FRAM     (src/src_vfs/FramFsImplDetail): dynamic plus random page   *)
(*     choice (wear levelling) and a cleanup() that erases tombstones;     *)
(*   - NoDel    (src/src_2face/SimpleFlashFsNoDel.h): nothing is erased.   *)
(*                                                                         *)
(* The flash is two arrays of pages.  An inode page holds one version of   *)
(* one inode and is valid when its CRC is; a data page holds one page of   *)
(* content.  Everything else is volatile and lost when the power goes.     *)
(*                                                                         *)
(* One call runs at a time.  A call is a list of tasks, todo, each task    *)
(* one step with at most one write or erase of the flash, so that the      *)
(* power can fail between any two of them.  File lengths are counted in    *)
(* pages and a page of content is one value; files small enough to live    *)
(* inside the inode page are not told apart from files without content.    *)
(***************************************************************************)
EXTENDS Integers, FiniteSets, Sequences

CONSTANTS
  MaxInodes,      \* header.max_inodes: inode pages 0 .. MaxInodes - 1
  FsSize,         \* header.filesystem_size, the header page included
  Names, NoName,  \* file names, and the empty name of a deleted file
  Vals, Zero,     \* page contents, and the content of a zero filled page
  Blank, Torn,    \* an erased page, and an inode page with a wrong CRC
  Handles, Tmp,   \* the user's file handles, and the file system's own
  Erasing,        \* TRUE: dynamic and FRAM; FALSE: NoDel
  WearLeveling,   \* TRUE: FRAM, pages are chosen at random
  Calls,          \* the calls (and faults) this instance makes
  Exclusive,      \* TRUE: at most one handle per file, as under the VFS
  MaxFilePages,   \* get_max_inode_data_pages()
  MaxLen,         \* bound: longest file asked for, in pages
  MaxVer,         \* bound: no call starts once a version reaches MaxVer
  MaxIno          \* bound: inode numbers handed out

ASSUME LayoutAssumption ==
  /\ MaxInodes \in Nat \ {0}
  /\ FsSize \in Nat
  /\ FsSize > MaxInodes + 1
ASSUME NameAssumption  == NoName \notin Names
ASSUME ValueAssumption == Zero \in Vals
ASSUME HandleAssumption == Tmp \notin Handles
ASSUME BoundAssumption ==
  /\ MaxFilePages \in Nat
  /\ MaxLen \in Nat
  /\ MaxVer \in Nat
  /\ MaxIno \in Nat
ASSUME FlavourAssumption ==
  /\ Erasing \in BOOLEAN
  /\ WearLeveling \in BOOLEAN
  /\ Exclusive \in BOOLEAN

InodePages == 0 .. MaxInodes - 1
DataPages  == MaxInodes .. FsSize - 2
AllPages   == InodePages \cup DataPages
FileNames  == Names \cup {NoName}
Actors     == Handles \cup {Tmp}
NoPage     == -1

VARIABLES
  inodeArea,  \* flash: [InodePages -> Inode \cup {Blank, Torn}]
  dataArea,   \* flash: [DataPages -> Vals \cup {Blank}]
  up,         \* "off", "mounting" or "up"
  freeData,   \* free_data_pages
  reserved,   \* allocated_unwritten_pages
  maxIno,     \* max_inode_number
  hs,         \* the file handles
  todo,       \* what is left of the running call
  scan,       \* iv_storage: <<first page, latest page>> of each inode
  old,        \* old_file of the running flush
  doomed      \* pages_to_erase of the running erase

flash    == <<inodeArea, dataArea>>
alloc    == <<freeData, reserved, maxIno>>
locals   == <<scan, old, doomed>>
vars     == <<inodeArea, dataArea, up, freeData, reserved, maxIno, hs, todo,
              scan, old, doomed>>

(***************************************************************************)
(* Data structures.                                                        *)
(***************************************************************************)

\* An inode as it is stored: ids are the data pages in file order, extra the
\* replaced pages that the first flush of a file writes behind them.
Inode == [ino : Nat, ver : Nat, name : FileNames, len : Nat,
          ids : Seq(DataPages), extra : SUBSET DataPages]

\* an erased page and an inode with a wrong CRC are told from what is stored
ASSUME MarkAssumption ==
  /\ Blank \notin Vals
  /\ Blank \notin Inode
  /\ Torn \notin Inode

\* data_page_t: state New (allocated, not written yet) or Stored.  The
\* Deleted entries are kept apart, in del: their order is never used.
Entry == [id : DataPages, new : BOOLEAN]

Handle == [open : BOOLEAN, ino : Nat, ver : Nat, name : FileNames, len : Nat,
           dp : Seq(Entry), del : SUBSET DataPages, page : InodePages,
           mod : BOOLEAN]

NoHandle == [open |-> FALSE, ino |-> 0, ver |-> 0, name |-> NoName, len |-> 0,
             dp |-> <<>>, del |-> {}, page |-> 0, mod |-> FALSE]

TaskKinds == {"flush", "zero", "metaNew", "meta", "erase", "drop", "deleted",
              "find", "visit", "openIn", "openOut", "openTrunc",
              "removeOther", "renameSelf", "write", "grow", "seek",
              "clean", "correct", "mount"}
Task == [t : TaskKinds, h : Actors, n : FileNames, k : Nat]

On(t, h)         == [t |-> t, h |-> h, n |-> NoName, k |-> 0]
OnName(t, h, n)  == [t |-> t, h |-> h, n |-> n, k |-> 0]
OnSize(t, h, k)  == [t |-> t, h |-> h, n |-> NoName, k |-> k]

Least(S)    == CHOOSE x \in S : \A y \in S : x <= y
Greatest(S) == CHOOSE x \in S : \A y \in S : x >= y
Cut(s, n)   == IF n < Len(s) THEN SubSeq(s, 1, n) ELSE s

\* every data page of the list of a stored inode, or of a handle
PagesOf(i)       == {i.ids[k] : k \in DOMAIN i.ids} \cup i.extra
HandlePages(f)   == {f.dp[k].id : k \in DOMAIN f.dp} \cup f.del

Valid(p)   == inodeArea[p] \notin {Blank, Torn}
ValidPages == {p \in InodePages : Valid(p)}

\* a page list longer than the file: get_inode() with error corrections cuts
\* it and marks the handle as modified
OverLong(i)  == i.extra # {} \/ Len(i.ids) > i.len

Serialised(f) ==
  [ino |-> f.ino, ver |-> f.ver, name |-> f.name, len |-> f.len,
   ids |-> [k \in 1 .. Len(f.dp) |-> f.dp[k].id], extra |-> f.del]

Loaded(p) ==
  LET i   == inodeArea[p]
      ids == Cut(i.ids, i.len)
  IN [open |-> TRUE, ino |-> i.ino, ver |-> i.ver, name |-> i.name,
      len |-> i.len,
      dp |-> [k \in 1 .. Len(ids) |-> [id |-> ids[k], new |-> FALSE]],
      del |-> {}, page |-> p, mod |-> OverLong(i)]

(***************************************************************************)
(* Which version counts.  InodeVersionStore::add keeps the highest version *)
(* and, of two equal ones, the page it met first.                          *)
(***************************************************************************)
Supersedes_LowestPage(q, p) ==  \* mutant: the version is not looked at
  inodeArea[q].ino = inodeArea[p].ino /\ q < p

Supersedes(q, p) ==
  /\ inodeArea[q].ino = inodeArea[p].ino
  /\ \/ inodeArea[q].ver > inodeArea[p].ver
     \/ inodeArea[q].ver = inodeArea[p].ver /\ q < p

Latest(p) == Valid(p) /\ \A q \in ValidPages : ~Supersedes(q, p)

FirstPage(p) ==
  Least({q \in ValidPages : inodeArea[q].ino = inodeArea[p].ino})

VersionStore == {<<FirstPage(p), p>> : p \in {q \in InodePages : Latest(q)}}

(***************************************************************************)
(* Page allocation.  An inode page is free when its CRC is wrong and no    *)
(* open file has reserved it.  The loop over the inode range never looks   *)
(* at the last page of the range; the FRAM range is shuffled first, so any *)
(* free page may be the answer and the only free one may be the one that   *)
(* is skipped.                                                             *)
(***************************************************************************)
FreeInodePages_Unreserved ==  \* mutant: reservations are not looked at
  {p \in InodePages : ~Valid(p)}

FreeInodePages == {p \in InodePages : ~Valid(p) /\ p \notin reserved}

InodePageChoices ==
  IF WearLeveling
  THEN FreeInodePages
         \cup (IF Cardinality(FreeInodePages) <= 1 THEN {NoPage} ELSE {})
  ELSE LET seen == FreeInodePages \ {MaxInodes - 1}
       IN IF seen = {} THEN {NoPage} ELSE {Least(seen)}

LowestDataPage == IF freeData = {} THEN {NoPage} ELSE {Least(freeData)}

\* allocate_free_data_page( file ): the page list must not outgrow the inode
DataPageChoices(f) ==
  IF Len(f.dp) + Cardinality(f.del) + 1 >= MaxFilePages THEN {NoPage}
  ELSE IF WearLeveling /\ freeData # {} THEN freeData
  ELSE LowestDataPage

(***************************************************************************)
(* erase_inode_and_unused_pages: everything the old version holds and the  *)
(* next one does not, and the page of the old version itself.              *)
(***************************************************************************)
UnusedPages_All(oldPage, oldIds, nextIds) ==  \* mutant: no comparison
  IF Erasing THEN oldIds \cup {oldPage} ELSE {}

UnusedPages_DataOnly(oldPage, oldIds, nextIds) ==  \* mutant: the inode stays
  IF Erasing THEN oldIds \ nextIds ELSE {}

UnusedPages(oldPage, oldIds, nextIds) ==
  IF Erasing THEN (oldIds \ nextIds) \cup {oldPage} ELSE {}

NextVersion_Same(v) == v  \* mutant: the version is not counted up

NextVersion(v) == v + 1

FreeUnwritten_Never(page) == reserved  \* mutant: the reservation stays

\* free_unwritten_pages()
FreeUnwritten(page) == reserved \ {page}

(***************************************************************************)
(* Calls.                                                                  *)
(***************************************************************************)
Idle == up = "up" /\ todo = <<>>

\* the bounds: checked once, when a call starts
WithinBounds ==
  /\ \A p \in ValidPages : inodeArea[p].ver < MaxVer
  /\ \A h \in Handles : hs[h].ver < MaxVer

NumbersLeft ==
  maxIno + Cardinality({h \in Handles : hs[h].open /\ hs[h].ino = 0}) < MaxIno

Exists(n) == \E p \in InodePages : Latest(p) /\ inodeArea[p].name = n

CommittedName(i) ==
  IF \E p \in InodePages : Latest(p) /\ inodeArea[p].ino = i
  THEN inodeArea[CHOOSE p \in InodePages : Latest(p) /\ inodeArea[p].ino = i].name
  ELSE NoName

\* no handle but h is on the file called n
Unshared(h, n) ==
  \A g \in Handles \ {h} :
    hs[g].open => hs[g].name # n /\ (hs[g].ino = 0 \/ CommittedName(hs[g].ino) # n)

Start(tasks) ==
  /\ WithinBounds
  /\ todo' = tasks

\* the tasks of the running call
Doing(t) == todo # <<>> /\ Head(todo).t = t
Then(tasks) == todo' = tasks \o Tail(todo)
Actor == Head(todo).h

Open(h, n, mode) ==
  /\ Idle
  /\ mode \in Calls
  /\ ~hs[h].open
  /\ mode = "openIn" \/ Exists(n) \/ NumbersLeft
  /\ Exclusive => Unshared(h, n)
  /\ Start(<<OnName("find", Tmp, n), OnName(mode, h, n)>>)
  /\ UNCHANGED <<flash, up, alloc, hs, locals>>

Flush(h) ==
  /\ Idle
  /\ "flush" \in Calls
  /\ hs[h].open
  /\ hs[h].mod
  /\ Start(<<On("flush", h)>>)
  /\ UNCHANGED <<flash, up, alloc, hs, locals>>

\* ~FileHandle()
Close(h) ==
  /\ Idle
  /\ hs[h].open
  /\ Start(<<On("flush", h), On("drop", h)>>)
  /\ UNCHANGED <<flash, up, alloc, hs, locals>>

\* delete_file() before its flush
Emptied(f) == [f EXCEPT !.name = NoName, !.len = 0, !.dp = <<>>, !.del = {},
                        !.mod = TRUE]

Delete(h) ==
  /\ Idle
  /\ "delete" \in Calls
  /\ hs[h].open
  /\ Start(<<On("flush", h), On("deleted", h)>>)
  /\ hs' = [hs EXCEPT ![h] = Emptied(@)]
  /\ UNCHANGED <<flash, up, alloc, locals>>

\* the name h has on flash, or will have after its next flush
OwnName(h, n) ==
  hs[h].name = n \/ (hs[h].ino # 0 /\ CommittedName(hs[h].ino) = n)

Rename(h, n) ==
  /\ Idle
  /\ hs[h].open
  /\ (IF OwnName(h, n) THEN "renameSelf" ELSE "rename") \in Calls
  /\ Exclusive => Unshared(h, n)
  /\ Start(<<OnName("find", Tmp, n), OnName("removeOther", h, n)>>)
  /\ UNCHANGED <<flash, up, alloc, hs, locals>>

(***************************************************************************)
(* write(): one page of it per step.  A page that was never written takes  *)
(* the data directly; a stored page is replaced by a fresh one, whole      *)
(* pages by write_page() in place in the list, parts of a page (after      *)
(* reading the old content) by allocate_new_data_page_at(), which keeps    *)
(* the old id as a Deleted entry.  The length and the modified flag are    *)
(* set after the last page.  When there is no page for the next one, or    *)
(* memory refuses the data, write() returns 0: the handle keeps what was   *)
(* done to its list and is not marked.  A write of several pages that      *)
(* nothing can refuse does what a call for each page does, and an instance *)
(* without refusals has only those.                                        *)
(***************************************************************************)
Refusals == Calls \cap {"full", "ioerror"} # {}

Stored(f, k) == k \in DOMAIN f.dp /\ ~f.dp[k].new

\* a write() that has done page k has another one to do; only then can a
\* refusal leave something behind
GoesOn(f, k) ==
  /\ Refusals
  /\ k < MaxLen
  /\ (IF Stored(f, k + 1) THEN "overwrite" ELSE "write") \in Calls

Put(h, f, k, page, v) ==
  \/ /\ dataArea' = [dataArea EXCEPT ![page] = v]
     /\ LET g == [f EXCEPT !.dp[k] = [id |-> page, new |-> FALSE]] IN
        \/ /\ hs' = [hs EXCEPT ![h] = [g EXCEPT !.len = IF k > @ THEN k ELSE @,
                                                 !.mod = TRUE]]
           /\ todo' = <<>>
        \/ /\ GoesOn(g, k)
           /\ hs' = [hs EXCEPT ![h] = g]
           /\ todo' = <<OnSize("write", h, k + 1)>>
  \/ /\ "ioerror" \in Calls
     /\ hs' = [hs EXCEPT ![h] = f]
     /\ todo' = <<>>
     /\ UNCHANGED dataArea

\* page k is in state New, or is the one after the last page
WriteFresh(h, k, v) ==
  LET f == hs[h] IN
  /\ "write" \in Calls
  /\ \/ /\ k \in DOMAIN f.dp
        /\ f.dp[k].new
        /\ Put(h, f, k, f.dp[k].id, v)
        /\ UNCHANGED freeData
     \/ /\ k = Len(f.dp) + 1
        /\ \E page \in DataPageChoices(f) \ {NoPage} :
             /\ Put(h, [f EXCEPT !.dp = Append(@, [id |-> page, new |-> TRUE])],
                    k, page, v)
             /\ freeData' = freeData \ {page}
  /\ UNCHANGED <<inodeArea, up, reserved, maxIno, locals>>

\* write_page() on a stored page: the base class allocator, in place
WriteWhole(h, k, v) ==
  LET f == hs[h] IN
  /\ "overwrite" \in Calls
  /\ Stored(f, k)
  /\ \E page \in LowestDataPage \ {NoPage} :
       /\ Put(h, f, k, page, v)
       /\ freeData' = freeData \ {page}
  /\ UNCHANGED <<inodeArea, up, reserved, maxIno, locals>>

ReplacedEntry(f, k, page) ==
  [f EXCEPT !.del = @ \cup {f.dp[k].id},
            !.dp[k] = [id |-> page, new |-> TRUE]]

WritesParts(f) == (IF f.ino = 0 THEN "draftPart" ELSE "part") \in Calls

\* a part of a page is the first page of a write or the last
WritePart(h, k, v) ==
  LET f == hs[h] IN
  /\ WritesParts(f)
  /\ Stored(f, k)
  /\ todo = <<>> \/ todo' = <<>>
  /\ \E page \in DataPageChoices(f) \ {NoPage} :
       /\ Put(h, ReplacedEntry(f, k, page), k, page, v)
       /\ freeData' = freeData \ {page}
  /\ UNCHANGED <<inodeArea, up, reserved, maxIno, locals>>

WritePage(h, k, v) ==
  WriteFresh(h, k, v) \/ WriteWhole(h, k, v) \/ WritePart(h, k, v)

Write(h, k, v) ==
  /\ Idle
  /\ WithinBounds
  /\ hs[h].open
  /\ k <= hs[h].len + 1
  /\ WritePage(h, k, v)

\* the next page of a write() of several pages
WriteOn(v) ==
  /\ Doing("write")
  /\ WritePage(Actor, Head(todo).k, v)

\* no space left for the next page
WriteRefused ==
  LET f == hs[Actor]
      k == Head(todo).k
  IN
  /\ Doing("write")
  /\ NoPage \in DataPageChoices(f)
  /\ \/ k > Len(f.dp)
     \/ Stored(f, k) /\ (freeData = {} \/ WritesParts(f))
  /\ todo' = <<>>
  /\ UNCHANGED <<flash, up, alloc, hs, locals>>

Truncate_FreesNow(h, n) ==  \* mutant: dropped pages are free at once
  /\ Idle
  /\ WithinBounds
  /\ "truncate" \in Calls
  /\ hs[h].open
  /\ n < hs[h].len
  /\ freeData' = freeData \cup {hs[h].dp[k].id : k \in n + 1 .. Len(hs[h].dp)}
  /\ hs' = [hs EXCEPT ![h].len = n, ![h].dp = Cut(@, n), ![h].mod = TRUE]
  /\ UNCHANGED <<flash, up, reserved, maxIno, todo, locals>>

\* truncate() below the current size drops pages and Deleted entries alike
Truncate(h, n) ==
  /\ Idle
  /\ WithinBounds
  /\ "truncate" \in Calls
  /\ hs[h].open
  /\ n < hs[h].len
  /\ hs' = [hs EXCEPT ![h].len = n, ![h].dp = Cut(@, n), ![h].del = {},
                      ![h].mod = TRUE]
  /\ UNCHANGED <<flash, up, alloc, todo, locals>>

(***************************************************************************)
(* enlarge_file(), reached by truncate() to n whole pages ("grow") and by  *)
(* seek() to the start of page n + 1 ("seek", which enlarges to one byte   *)
(* less).  The page index of the new end is allocated too, so growing to a *)
(* page boundary takes one page more than the file needs.                  *)
(***************************************************************************)
Enlarge(h, n, how) ==
  /\ Idle
  /\ how \in Calls
  /\ hs[h].open
  /\ n > hs[h].len /\ n <= MaxLen
  /\ IF how = "grow"
     THEN n - hs[h].len < Cardinality(freeData) /\ n < Cardinality(DataPages)
     ELSE n - hs[h].len <= Cardinality(freeData) /\ n <= Cardinality(DataPages)
  /\ Start(<<OnSize(how, h, n)>>)
  /\ UNCHANGED <<flash, up, alloc, hs, locals>>

EnlargeStep ==
  LET task  == Head(todo)
      f     == hs[task.h]
      needs == IF task.t = "grow" THEN task.k + 1 ELSE task.k
  IN
  /\ todo # <<>> /\ task.t \in {"grow", "seek"}
  /\ IF Len(f.dp) < needs
     THEN \E page \in DataPageChoices(f) :
            IF page = NoPage
            THEN todo' = Tail(todo) /\ UNCHANGED <<hs, freeData>>
            ELSE /\ hs' = [hs EXCEPT ![task.h].dp =
                             Append(@, [id |-> page, new |-> TRUE])]
                 /\ freeData' = freeData \ {page}
                 /\ UNCHANGED todo
     ELSE /\ hs' = [hs EXCEPT ![task.h].len = task.k, ![task.h].mod = TRUE]
          /\ todo' = Tail(todo)
          /\ UNCHANGED freeData
  /\ UNCHANGED <<flash, up, reserved, maxIno, locals>>

\* FramFsImplDetail::cleanup() and list_files(): every valid inode page is
\* loaded with error corrections
Survey == {<<p, p>> : p \in ValidPages}

Cleanup ==
  /\ Idle
  /\ "cleanup" \in Calls
  /\ Start(<<On("clean", Tmp), On("correct", Tmp)>>)
  /\ scan' = Survey
  /\ UNCHANGED <<flash, up, alloc, hs, old, doomed>>

ListFiles ==
  /\ Idle
  /\ "list" \in Calls
  /\ Start(<<On("correct", Tmp)>>)
  /\ scan' = Survey
  /\ UNCHANGED <<flash, up, alloc, hs, old, doomed>>

(***************************************************************************)
(* flush()                                                                 *)
(***************************************************************************)
\* nothing to do, or the first flush of a new file: it gets its number
FlushNumber ==
  LET f == hs[Actor] IN
  /\ Doing("flush")
  /\ IF ~f.mod
     THEN Then(<<>>) /\ UNCHANGED <<hs, maxIno>>
     ELSE /\ f.ino = 0
          /\ hs' = [hs EXCEPT ![Actor].ino = maxIno + 1]
          /\ maxIno' = maxIno + 1
          /\ Then(<<On("zero", Actor), On("metaNew", Actor)>>)
  /\ UNCHANGED <<flash, up, freeData, reserved, locals>>

\* a new version goes to a new inode page, the Deleted entries stay behind
FlushVersion ==
  LET f == hs[Actor] IN
  /\ Doing("flush")
  /\ f.mod /\ f.ino # 0
  /\ \E page \in InodePageChoices :
       IF page = NoPage
       THEN Then(<<>>) /\ UNCHANGED <<hs, reserved, old>>
       ELSE /\ reserved' = reserved \cup {page}
            /\ old' = [page |-> f.page, ids |-> HandlePages(f)]
            /\ hs' = [hs EXCEPT ![Actor].page = page,
                                ![Actor].ver = NextVersion(@),
                                ![Actor].del = {}]
            /\ Then(<<On("zero", Actor), On("meta", Actor)>>)
  /\ UNCHANGED <<flash, up, freeData, maxIno, scan, doomed>>

\* write_zero_pages(): a failure is logged, and flush() goes on
WriteZeroPage ==
  LET f   == hs[Actor]
      new == {k \in DOMAIN f.dp : f.dp[k].new}
  IN
  /\ Doing("zero")
  /\ \/ /\ new # {}
        /\ dataArea' = [dataArea EXCEPT ![f.dp[Least(new)].id] = Zero]
        /\ hs' = [hs EXCEPT ![Actor].dp[Least(new)].new = FALSE]
        /\ UNCHANGED todo
     \/ /\ new = {} \/ "zeroerror" \in Calls
        /\ Then(<<>>)
        /\ UNCHANGED <<dataArea, hs>>
  /\ UNCHANGED <<inodeArea, up, alloc, locals>>

\* write_meta_page(): the commit point
WriteMeta ==
  LET f == hs[Actor] IN
  /\ Doing("meta") \/ Doing("metaNew")
  /\ inodeArea' = [inodeArea EXCEPT ![f.page] = Serialised(f)]
  /\ hs' = [hs EXCEPT ![Actor].mod = FALSE]
  /\ IF Head(todo).t = "meta"
     THEN /\ doomed' = UnusedPages(old.page, old.ids, HandlePages(f))
          /\ Then(<<On("erase", Actor)>>)
     ELSE Then(<<>>) /\ UNCHANGED doomed
  /\ UNCHANGED <<dataArea, up, alloc, scan, old>>

WriteMetaFails ==
  /\ "ioerror" \in Calls
  /\ Doing("meta") \/ Doing("metaNew")
  /\ inodeArea' \in {inodeArea, [inodeArea EXCEPT ![hs[Actor].page] = Torn]}
  /\ Then(<<>>)
  /\ UNCHANGED <<dataArea, up, alloc, hs, locals>>

ReturnsToFree_Any(page) == TRUE  \* mutant: inode pages, too

\* data pages come back to free_data_pages, all but the first one: the test
\* is page > header.max_inodes
ReturnsToFree(page) == page > MaxInodes

ErasePage ==
  /\ Doing("erase")
  /\ IF doomed = {}
     THEN Then(<<>>) /\ UNCHANGED <<flash, freeData, reserved, doomed>>
     ELSE LET page == Least(doomed) IN
          /\ doomed' = doomed \ {page}
          /\ IF page \in InodePages
             THEN /\ inodeArea' = [inodeArea EXCEPT ![page] = Blank]
                  /\ UNCHANGED dataArea
             ELSE /\ dataArea' = [dataArea EXCEPT ![page] = Blank]
                  /\ UNCHANGED inodeArea
          /\ IF ReturnsToFree(page)
             THEN freeData' = freeData \cup {page} /\ UNCHANGED reserved
             ELSE reserved' = FreeUnwritten(page) /\ UNCHANGED freeData
          /\ UNCHANGED todo
  /\ UNCHANGED <<up, maxIno, hs, scan, old>>

\* the end of ~FileHandle(); nothing for a handle that has no file system
Drop ==
  /\ Doing("drop")
  /\ reserved' = IF hs[Actor].open THEN FreeUnwritten(hs[Actor].page) ELSE reserved
  /\ hs' = [hs EXCEPT ![Actor] = NoHandle]
  /\ Then(<<>>)
  /\ UNCHANGED <<flash, up, freeData, maxIno, locals>>

\* the end of delete_file(): disconnect() if the flush succeeded
Deleted ==
  /\ Doing("deleted")
  /\ hs' = IF hs[Actor].mod THEN hs ELSE [hs EXCEPT ![Actor] = NoHandle]
  /\ Then(<<>>)
  /\ UNCHANGED <<flash, up, alloc, locals>>

(***************************************************************************)
(* find_file(): the version store is built from every valid inode page,    *)
(* then the latest inodes are loaded in that order until the name fits.  A *)
(* loaded inode that was corrected is written back by the destructor of    *)
(* its temporary handle.                                                   *)
(***************************************************************************)
FindScan ==
  /\ Doing("find")
  /\ scan' = VersionStore
  /\ reserved' = reserved \ ValidPages
  /\ Then(<<OnName("visit", Tmp, Head(todo).n)>>)
  /\ UNCHANGED <<flash, up, freeData, maxIno, hs, old, doomed>>

Matters(p, n) ==
  Valid(p) /\ (OverLong(inodeArea[p]) \/ (inodeArea[p].name = n /\ n # NoName))

FirstOf(visits) == CHOOSE v \in visits : \A w \in visits : v[1] <= w[1]

\* visits that neither match nor correct anything leave no trace
Visit ==
  LET n    == Head(todo).n
      next == {v \in scan : Matters(v[2], n)}
      v    == FirstOf(next)
  IN
  /\ Doing("visit")
  /\ IF next = {}
     THEN scan' = {} /\ Then(<<>>) /\ UNCHANGED hs
     ELSE /\ hs' = [hs EXCEPT ![Tmp] = Loaded(v[2])]
          /\ IF inodeArea[v[2]].name = n
             THEN scan' = {} /\ Then(<<>>)
             ELSE /\ scan' = {w \in scan : w[1] > v[1]}
                  /\ todo' = <<On("flush", Tmp), On("drop", Tmp)>> \o todo
  /\ UNCHANGED <<flash, up, alloc, old, doomed>>

\* allocate_free_inode_page(): a handle on a reserved page
NewHandle(h, f, page) ==
  /\ hs' = [hs EXCEPT ![h] = [f EXCEPT !.open = TRUE, !.page = page]]
  /\ reserved' = reserved \cup {page}

\* open(): the file does not exist
OpenMissing ==
  LET task == Head(todo) IN
  /\ Doing("openIn") \/ Doing("openOut") \/ Doing("openTrunc")
  /\ ~hs[Tmp].open
  /\ IF task.t = "openIn"
     THEN UNCHANGED <<hs, reserved>>
     ELSE \E page \in InodePageChoices :
            IF page = NoPage
            THEN UNCHANGED <<hs, reserved>>
            ELSE NewHandle(task.h, [NoHandle EXCEPT !.name = task.n, !.mod = TRUE],
                           page)
  /\ Then(<<>>)
  /\ UNCHANGED <<flash, up, freeData, maxIno, locals>>

\* open(): the file exists, its handle is handed out
OpenFound ==
  /\ Doing("openIn") \/ Doing("openOut")
  /\ hs[Tmp].open
  /\ hs' = [hs EXCEPT ![Actor] = hs[Tmp], ![Tmp] = NoHandle]
  /\ Then(<<>>)
  /\ UNCHANGED <<flash, up, alloc, locals>>

\* open() with trunc: an empty copy of the inode on a page of its own, not
\* marked as modified; the handle that was found is destroyed
OpenTrunc ==
  LET f == hs[Tmp] IN
  /\ Doing("openTrunc")
  /\ f.open
  /\ \E page \in InodePageChoices :
       IF page = NoPage
       THEN UNCHANGED <<hs, reserved>>
       ELSE NewHandle(Actor,
              [NoHandle EXCEPT !.ino = f.ino, !.ver = f.ver, !.name = f.name],
              page)
  /\ Then(<<On("flush", Tmp), On("drop", Tmp)>>)
  /\ UNCHANGED <<flash, up, freeData, maxIno, locals>>

\* rename_file(): the other file of that name is deleted first
RemoveOther_Skipped ==  \* mutant: the name is taken over without a check
  /\ Doing("removeOther")
  /\ Then(<<OnName("renameSelf", Actor, Head(todo).n)>>)
  /\ UNCHANGED <<flash, up, alloc, hs, locals>>

RemoveOther ==
  LET task == Head(todo)
      self == <<OnName("renameSelf", task.h, task.n)>>
  IN
  /\ Doing("removeOther")
  /\ IF hs[Tmp].open
     THEN /\ hs' = [hs EXCEPT ![Tmp] = Emptied(@)]
          /\ Then(<<On("flush", Tmp), On("deleted", Tmp)>> \o self)
     ELSE Then(self) /\ UNCHANGED hs
  /\ UNCHANGED <<flash, up, alloc, locals>>

RenameSelf_Unmarked ==  \* mutant: modified is not set
  /\ Doing("renameSelf")
  /\ hs' = [hs EXCEPT ![Actor].name = Head(todo).n]
  /\ Then(<<On("flush", Actor), On("flush", Tmp), On("drop", Tmp)>>)
  /\ UNCHANGED <<flash, up, alloc, locals>>

RenameSelf ==
  LET task == Head(todo) IN
  /\ Doing("renameSelf")
  /\ hs' = [hs EXCEPT ![task.h].name = task.n, ![task.h].mod = TRUE]
  /\ Then(<<On("flush", task.h), On("flush", Tmp), On("drop", Tmp)>>)
  /\ UNCHANGED <<flash, up, alloc, locals>>

(***************************************************************************)
(* FramFsImplDetail::cleanup(): tombstones are erased, whatever older      *)
(* versions of them are still there.                                       *)
(***************************************************************************)
Tombstones_Any == {v \in scan : Valid(v[1])}  \* mutant: files, too

Tombstones == {v \in scan : Valid(v[1]) /\ inodeArea[v[1]].name = NoName}

Clean ==
  /\ Doing("clean")
  /\ IF Tombstones = {}
     THEN Then(<<>>) /\ UNCHANGED inodeArea
     ELSE /\ inodeArea' = [inodeArea EXCEPT ![FirstOf(Tombstones)[1]] = Blank]
          /\ UNCHANGED todo
  /\ UNCHANGED <<dataArea, up, alloc, hs, locals>>

\* the handles of get_all_inodes() are destroyed
Correct ==
  LET next == {v \in scan : Valid(v[1]) /\ OverLong(inodeArea[v[1]])} IN
  /\ Doing("correct")
  /\ IF next = {}
     THEN /\ reserved' = reserved \ {v[1] : v \in scan}
          /\ scan' = {}
          /\ Then(<<>>)
          /\ UNCHANGED hs
     ELSE /\ hs' = [hs EXCEPT ![Tmp] = Loaded(FirstOf(next)[1])]
          /\ scan' = scan \ {FirstOf(next)}
          /\ todo' = <<On("flush", Tmp), On("drop", Tmp)>> \o todo
          /\ UNCHANGED reserved
  /\ UNCHANGED <<flash, up, freeData, maxIno, old, doomed>>

(***************************************************************************)
(* Power loss, and init().                                                 *)
(***************************************************************************)
PowerLoss ==
  /\ up # "off"
  /\ \/ "crash" \in Calls
     \/ "restart" \in Calls /\ Idle /\ \A h \in Handles : ~hs[h].open
  /\ \/ UNCHANGED inodeArea
     \/ /\ Doing("meta") \/ Doing("metaNew")
        /\ inodeArea' = [inodeArea EXCEPT ![hs[Actor].page] = Torn]
  /\ up' = "off"
  /\ hs' = [h \in Actors |-> NoHandle]
  /\ todo' = <<>>
  /\ freeData' = {} /\ reserved' = {} /\ maxIno' = 0
  /\ scan' = {} /\ doomed' = {} /\ old' = [page |-> 0, ids |-> {}]
  /\ UNCHANGED dataArea

HighestNumber_Files ==  \* mutant: deleted files do not count
  LET named == {p \in ValidPages : inodeArea[p].name # NoName}
  IN IF named = {} THEN 0 ELSE Greatest({inodeArea[p].ino : p \in named})

HighestNumber ==
  IF ValidPages = {} THEN 0
  ELSE Greatest({inodeArea[p].ino : p \in ValidPages})

\* read_all_free_data_pages() of the dynamic file system: every data page is
\* free until the old versions are gone
MountScan ==
  /\ up = "off"
  /\ up' = "mounting"
  /\ maxIno' = HighestNumber
  /\ freeData' = DataPages
  /\ todo' = <<On("mount", Tmp)>>
  /\ UNCHANGED <<flash, reserved, hs, locals>>

Older_Newer(p, q) ==  \* mutant: the wrong one of two versions
  /\ inodeArea[p].ino = inodeArea[q].ino
  /\ \/ inodeArea[p].ver > inodeArea[q].ver
     \/ inodeArea[p].ver = inodeArea[q].ver /\ p < q

\* p is an older version; of equal versions the higher page survives
Older(p, q) ==
  /\ inodeArea[p].ino = inodeArea[q].ino
  /\ \/ inodeArea[p].ver < inodeArea[q].ver
     \/ inodeArea[p].ver = inodeArea[q].ver /\ p < q

Outdated == {p \in ValidPages : \E q \in ValidPages : Older(p, q)}

\* the oldest version of the first inode that has several is compared with
\* the version after it
EraseOutdated ==
  LET ino  == Least({inodeArea[p].ino : p \in Outdated})
      all  == {p \in ValidPages : inodeArea[p].ino = ino}
      a    == CHOOSE p \in all : \A q \in all \ {p} : Older(p, q)
      rest == all \ {a}
      b    == CHOOSE p \in rest : \A q \in rest \ {p} : Older(p, q)
  IN
  /\ Doing("mount")
  /\ Erasing /\ Outdated # {}
  /\ doomed' = UnusedPages(a, PagesOf(inodeArea[a]), PagesOf(inodeArea[b]))
  /\ todo' = <<On("erase", Tmp)>> \o todo
  /\ UNCHANGED <<flash, up, alloc, hs, scan, old>>

UsedPages_Long ==  \* mutant: a list of one page is taken for none
  UNION {PagesOf(inodeArea[p]) : p \in {q \in ValidPages : Len(inodeArea[q].ids) > 1}}

UsedPages == UNION {PagesOf(inodeArea[p]) : p \in ValidPages}

MountDone_Early ==  \* mutant: old versions are left where they are
  /\ Doing("mount")
  /\ freeData' = freeData \ UsedPages
  /\ up' = "up"
  /\ Then(<<>>)
  /\ UNCHANGED <<flash, reserved, maxIno, hs, locals>>

\* with NoDel old versions stay, and so do their pages
MountDone ==
  /\ Doing("mount")
  /\ Erasing => Outdated = {}
  /\ freeData' = freeData \ UsedPages
  /\ up' = "up"
  /\ Then(<<>>)
  /\ UNCHANGED <<flash, reserved, maxIno, hs, locals>>

(***************************************************************************)
(* The specification.  Init is the state after create().                   *)
(***************************************************************************)
Init ==
  /\ inodeArea = [p \in InodePages |-> Blank]
  /\ dataArea = [p \in DataPages |-> Blank]
  /\ up = "up"
  /\ freeData = DataPages
  /\ reserved = {}
  /\ maxIno = 0
  /\ hs = [h \in Actors |-> NoHandle]
  /\ todo = <<>>
  /\ scan = {}
  /\ old = [page |-> 0, ids |-> {}]
  /\ doomed = {}

Call ==
  \/ \E h \in Handles, n \in Names :
       \/ \E mode \in {"openIn", "openOut", "openTrunc"} : Open(h, n, mode)
       \/ Rename(h, n)
  \/ \E h \in Handles : Flush(h) \/ Close(h) \/ Delete(h)
  \/ \E h \in Handles, k \in 1 .. MaxLen, v \in Vals : Write(h, k, v)
  \/ \E h \in Handles, n \in 0 .. MaxLen :
       Truncate(h, n) \/ Enlarge(h, n, "grow") \/ Enlarge(h, n, "seek")
  \/ Cleanup \/ ListFiles

Work ==
  \/ (\E v \in Vals : WriteOn(v)) \/ WriteRefused
  \/ EnlargeStep
  \/ FlushNumber \/ FlushVersion \/ WriteZeroPage
  \/ WriteMeta \/ WriteMetaFails \/ ErasePage \/ Drop \/ Deleted
  \/ FindScan \/ Visit
  \/ OpenMissing \/ OpenFound \/ OpenTrunc
  \/ RemoveOther \/ RenameSelf
  \/ Clean \/ Correct
  \/ EraseOutdated \/ MountDone

Next == Call \/ Work \/ PowerLoss \/ MountScan

\* a call, once made, runs on: nothing in it waits
Fairness == WF_vars(Work) /\ WF_vars(MountScan)

Spec == Init /\ [][Next]_vars /\ Fairness

(***************************************************************************)
(* Types.                                                                  *)
(***************************************************************************)
\* Every variable keeps the type of the C++ member it stands for.
TypeOK ==
  /\ inodeArea \in [InodePages -> Inode \cup {Blank, Torn}]
  /\ dataArea \in [DataPages -> Vals \cup {Blank}]
  /\ up \in {"off", "mounting", "up"}
  /\ freeData \in SUBSET DataPages
  /\ reserved \in SUBSET InodePages
  /\ maxIno \in Nat
  /\ hs \in [Actors -> Handle]
  /\ todo \in Seq(Task)
  /\ scan \in SUBSET (InodePages \X InodePages)
  /\ old \in [page : InodePages, ids : SUBSET DataPages]
  /\ doomed \in SUBSET AllPages
=============================================================================
