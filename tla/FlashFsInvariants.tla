-------------------------- MODULE FlashFsInvariants --------------------------
(***************************************************************************)
(* The inductive invariants behind the properties of FlashFs.  Control     *)
(* says which lists of tasks a call can leave behind, whatever the calls   *)
(* are.  The other parts say how the pages of the flash are shared out     *)
(* between the stored inodes, the open files, the running flush and the    *)
(* free pages as long as the file system is in PlainUse.                   *)
(***************************************************************************)
EXTENDS FlashFsProperties

(***************************************************************************)
(* Control.                                                                *)
(***************************************************************************)
OpenModes == {"openIn", "openOut", "openTrunc"}

\* the flush of the handle of a, in front of the tasks r
Flushing(a, r) ==
  {<<On("flush", a)>> \o r,
   <<On("zero", a), On("meta", a)>> \o r, <<On("zero", a), On("metaNew", a)>> \o r,
   <<On("meta", a)>> \o r, <<On("metaNew", a)>> \o r, <<On("erase", a)>> \o r, r}

\* what follows the flush of a call of the user's own handle
AfterFlush(h) == {<<>>, <<On("drop", h)>>, <<On("deleted", h)>>}

OwnStack ==
  /\ ~hs[Tmp].open
  /\ \/ todo \in {<<>>, <<On("clean", Tmp), On("correct", Tmp)>>, <<On("correct", Tmp)>>}
     \/ \E h \in Handles, how \in {"write", "grow", "seek"}, k \in 0 .. MaxLen :
          todo = <<OnSize(how, h, k)>>
     \/ \E h \in Handles : \E r \in AfterFlush(h) : todo \in Flushing(h, r)

\* find_file() on behalf of handle h, and what it is done for
SearchStack ==
  \E h \in Handles, n \in Names, how \in OpenModes \cup {"removeOther"} :
    /\ hs[h].open <=> how = "removeOther"
    /\ \/ /\ ~hs[Tmp].open
          /\ \/ todo = <<OnName("find", Tmp, n), OnName(how, h, n)>>
             \/ todo = <<OnName("visit", Tmp, n), OnName(how, h, n)>>
       \/ todo = <<OnName(how, h, n)>>
       \/ todo \in Flushing(Tmp, <<On("drop", Tmp), OnName("visit", Tmp, n),
                                   OnName(how, h, n)>>)

RenameStack ==
  \E h \in Handles, n \in Names :
    /\ hs[h].open
    /\ \/ todo \in Flushing(Tmp, <<On("deleted", Tmp), OnName("renameSelf", h, n)>>)
       \/ todo = <<OnName("renameSelf", h, n)>>

LastStack ==
  \/ \E h \in Handles : todo \in Flushing(h, <<On("flush", Tmp), On("drop", Tmp)>>)
  \/ todo \in Flushing(Tmp, <<On("drop", Tmp)>>)
  \/ todo \in Flushing(Tmp, <<On("drop", Tmp), On("correct", Tmp)>>)

MountStack == todo \in {<<On("mount", Tmp)>>, <<On("erase", Tmp), On("mount", Tmp)>>}

AllClosed == \A a \in Actors : ~hs[a].open

\* The list of tasks of the running call.
Control ==
  \/ up = "off" /\ todo = <<>> /\ AllClosed
  \/ up = "mounting" /\ MountStack /\ AllClosed
  \/ up = "up" /\ (OwnStack \/ SearchStack \/ RenameStack \/ LastStack)

\* the flush of a has to write the inode page it has chosen
Committing(a) ==
  /\ todo # <<>>
  /\ Head(todo).h = a
  /\ Head(todo).t \in {"zero", "meta", "metaNew"}

\* and the page it chose replaces the one of an older version
Replacing(a) ==
  /\ todo # <<>>
  /\ Head(todo).h = a
  /\ Head(todo).t = "meta" \/ (Head(todo).t = "zero" /\ todo[2].t = "meta")

\* every file on flash and every file about to be written has its number
Numbered ==
  /\ \A p \in ValidPages : inodeArea[p].ino # 0
  /\ \A a \in Actors : Committing(a) => hs[a].ino # 0
  /\ hs[Tmp].open => hs[Tmp].ino # 0

(***************************************************************************)
(* Pages.                                                                  *)
(***************************************************************************)
\* Exclusive use as the VFS makes it, of a memory that takes every write and
\* has room for all of it.  Without grow, seek, draftPart and the writes that
\* stop before their last page, a page list is as long as its file.
PlainUse ==
  /\ Exclusive
  /\ ~Refusals
  /\ Calls \cap {"draftPart", "grow", "seek", "renameSelf", "cleanup"} = {}

StoredPages(p) == PagesOf(inodeArea[p])

SameFile(p, q) == inodeArea[p].ino = inodeArea[q].ino

StoredLists ==
  \A p \in ValidPages :
    /\ inodeArea[p].extra = {}
    /\ Len(inodeArea[p].ids) = inodeArea[p].len
    /\ \A j, k \in DOMAIN inodeArea[p].ids :
         inodeArea[p].ids[j] = inodeArea[p].ids[k] => j = k
    /\ \A d \in StoredPages(p) : dataArea[d] # Blank

StoredVersions ==
  \A p, q \in ValidPages :
    p # q /\ SameFile(p, q) => inodeArea[p].ver # inodeArea[q].ver

\* pages are shared by versions of one file only; where old versions are
\* erased, by a version and the next one only
StoredShares ==
  \A p, q \in ValidPages :
    p # q /\ StoredPages(p) \cap StoredPages(q) # {} =>
      /\ SameFile(p, q)
      /\ Erasing => \A r \in ValidPages :
           SameFile(p, r) => ~(inodeArea[p].ver < inodeArea[r].ver
                               /\ inodeArea[r].ver < inodeArea[q].ver)

\* once the old versions are gone no two inodes share a page
SettledShares ==
  Erasing /\ up = "up" =>
    \A p, q \in ValidPages \ doomed :
      p # q => StoredPages(p) \cap StoredPages(q) = {}

FreeIsUnused ==
  /\ up = "up" => \A p \in ValidPages : StoredPages(p) \cap freeData = {}
  /\ \A a \in Actors : HandlePages(hs[a]) \cap freeData = {}

\* what is being erased is an old version and pages of nobody else
DoomedIsOld ==
  /\ doomed # {} => todo # <<>> /\ Head(todo).t = "erase"
  /\ \A p \in ValidPages \cap doomed : \E q \in ValidPages \ doomed :
       SameFile(p, q) /\ inodeArea[p].ver < inodeArea[q].ver
  /\ \A p \in ValidPages \ doomed : StoredPages(p) \cap doomed = {}
  /\ \A a \in Actors : /\ HandlePages(hs[a]) \cap doomed = {}
                       /\ hs[a].open => hs[a].page \notin doomed

HandleLists ==
  \A a \in Actors :
    /\ ~hs[a].open => hs[a] = NoHandle
    /\ up # "up" => ~hs[a].open
    /\ Len(hs[a].dp) = hs[a].len
    /\ \A j, k \in DOMAIN hs[a].dp : hs[a].dp[j].id = hs[a].dp[k].id => j = k
    /\ \A k \in DOMAIN hs[a].dp : ~hs[a].dp[k].new /\ dataArea[hs[a].dp[k].id] # Blank
    /\ hs[a].ino = 0 => hs[a].del = {}

\* the inode page of an open file holds its version, or is held back for it
HandlePlaces ==
  \A a \in Actors :
    hs[a].open =>
      IF Valid(hs[a].page)
      THEN inodeArea[hs[a].page].ino = hs[a].ino /\ inodeArea[hs[a].page].ver = hs[a].ver
      ELSE hs[a].page \in reserved

\* a second handle on a file is the one find_file() made for open() with
\* trunc: it is not modified and about to be destroyed
HandlesApart ==
  \A a, b \in Actors :
    a # b =>
      /\ HandlePages(hs[a]) \cap HandlePages(hs[b]) = {}
      /\ hs[a].open /\ hs[b].open => hs[a].page # hs[b].page
      /\ hs[a].open /\ hs[b].open /\ hs[a].ino = hs[b].ino /\ hs[a].ino # 0 =>
           /\ ~hs[Tmp].mod
           /\ Tmp \in {a, b}
           /\ todo \in {<<On("flush", Tmp), On("drop", Tmp)>>, <<On("drop", Tmp)>>}

HandleShares ==
  \A a \in Actors, q \in ValidPages :
    HandlePages(hs[a]) \cap StoredPages(q) # {} =>
      /\ inodeArea[q].ino = hs[a].ino
      /\ Erasing => \/ q = hs[a].page
                    \/ q \in doomed
                    \/ Replacing(a) /\ q = old.page

HandleVersions ==
  \A a \in Actors, q \in ValidPages :
    hs[a].open /\ inodeArea[q].ino = hs[a].ino =>
      /\ inodeArea[q].ver <= hs[a].ver
      /\ Committing(a) => inodeArea[q].ver < hs[a].ver

CommitsToFresh ==
  \A a \in Actors :
    Committing(a) => /\ hs[a].open
                     /\ ~Valid(hs[a].page)
                     /\ hs[a].del = {}

ReplacesOld ==
  \A a \in Actors :
    Replacing(a) =>
      /\ HandlePages(hs[a]) \subseteq old.ids
      /\ old.ids \cap freeData = {}
      /\ \A b \in Actors \ {a} : old.ids \cap HandlePages(hs[b]) = {}
      /\ \A q \in ValidPages : old.ids \cap StoredPages(q) # {} =>
           inodeArea[q].ino = hs[a].ino /\ (Erasing => q = old.page)
      /\ \A b \in Actors : hs[b].open => hs[b].page # old.page
      /\ Valid(old.page) => /\ inodeArea[old.page].ino = hs[a].ino
                            /\ inodeArea[old.page].ver + 1 = hs[a].ver

\* no stored inode has to be corrected, so that nothing is searched twice
PlainTasks ==
  /\ \A k \in 1 .. Len(todo) : todo[k].t \notin {"write", "grow", "seek", "clean"}
  /\ \A k \in 2 .. Len(todo) : todo[k].t \notin {"visit", "correct"}

\* what find_file() and list_files() still have to look at, and what
\* find_file() has found
SearchesStored ==
  todo # <<>> =>
    /\ Head(todo).t \in {"find", "visit"} =>
         \A g \in Handles :
           hs[g].open /\ hs[g].ino # 0 => CommittedName(hs[g].ino) # Head(todo).n
    /\ Head(todo).t = "visit" => \A v \in scan : Latest(v[2])
    /\ Head(todo).t = "correct" => \A v \in scan : Valid(v[1])
    /\ Head(todo).t \in OpenModes \cup {"removeOther"} => ~hs[Tmp].mod

PagesInv ==
  /\ StoredLists /\ StoredVersions /\ StoredShares /\ SettledShares
  /\ FreeIsUnused /\ DoomedIsOld
  /\ HandleLists /\ HandlePlaces /\ HandlesApart /\ HandleShares /\ HandleVersions
  /\ CommitsToFresh /\ ReplacesOld /\ PlainTasks /\ SearchesStored

(***************************************************************************)
(* Reservations.                                                           *)
(***************************************************************************)
\* a handle that delete_file() is about to give up has been written
DeletedIsWritten ==
  todo # <<>> =>
    LET a == Head(todo).h IN
    /\ Head(todo).t = "deleted" => hs[a].mod \/ Valid(hs[a].page)
    /\ Head(todo).t = "flush" /\ Len(todo) > 1 /\ todo[2].t = "deleted" => hs[a].mod
    /\ Head(todo).t = "erase" /\ up = "up" => hs[a].open /\ Valid(hs[a].page)

\* what an inode page is held back for
Held(p) ==
  \/ Valid(p)
  \/ p \in doomed
  \/ \E a \in Actors : hs[a].open /\ hs[a].page = p
  \/ \E a \in Actors : Replacing(a) /\ p = old.page

ReservedIsHeld == \A p \in reserved : Held(p)

ReservationInv == DeletedIsWritten /\ ReservedIsHeld

(***************************************************************************)
(* What the refinement needs to know of numbers: the bound MaxIno, which   *)
(* is a guard of open(), suffices for the flushes that come later.         *)
(***************************************************************************)
\* files that will get their number with their first flush
Unnumbered == {h \in Handles : hs[h].open /\ hs[h].ino = 0}

\* the running open() will not find its file
Creating ==
  /\ todo # <<>>
  /\ LET n == Head(todo).n IN
     \/ /\ Head(todo).t \in {"openOut", "openTrunc"}
        /\ ~hs[Tmp].open
     \/ /\ Head(todo).t = "find" /\ todo[2].t \in {"openOut", "openTrunc"}
        /\ ~Exists(n)
     \/ /\ Head(todo).t = "visit" /\ todo[2].t \in {"openOut", "openTrunc"}
        /\ \A v \in scan : inodeArea[v[2]].name # n

NumbersSuffice ==
  /\ \A p \in ValidPages : inodeArea[p].ino <= MaxIno
  /\ IsFiniteSet(Unnumbered)
  /\ maxIno + Cardinality(Unnumbered) <= MaxIno
  /\ Creating => maxIno + Cardinality(Unnumbered) < MaxIno

\* only a file with changes is written
CommitsChanges == \A a \in Actors : Committing(a) => hs[a].mod

(***************************************************************************)
(* Names.                                                                  *)
(***************************************************************************)
\* the tasks that give a name to a handle, or look for the file that has it
NameKinds == OpenModes \cup {"removeOther", "renameSelf"}

StoredName(i) == CurrentFile(i).name

NamesStored ==
  \A i, j \in 1 .. MaxIno :
    StoredName(i) \in Names /\ StoredName(i) = StoredName(j) => i = j

NamesOpen ==
  \A g, h \in Handles :
    hs[g].open /\ hs[h].open /\ hs[g].name \in Names /\ hs[g].name = hs[h].name => g = h

NamesAgree ==
  \A i \in 1 .. MaxIno, h \in Handles :
    hs[h].open /\ hs[h].name \in Names /\ StoredName(i) = hs[h].name => i = hs[h].ino

\* only the user's handles write a name
NamelessTmp == hs[Tmp].open /\ hs[Tmp].mod => hs[Tmp].name = NoName

\* nobody else has the name the running call is about
NameTasks ==
  \A k \in 1 .. Len(todo) : todo[k].t \in NameKinds =>
    /\ todo[k].n \in Names
    /\ \A g \in Handles \ {todo[k].h} : hs[g].open => hs[g].name # todo[k].n

\* find_file() looks at every file, and what it has found is all there is
NamesFound ==
  todo # <<>> =>
    /\ Head(todo).t = "visit" => scan = VersionStore
    /\ Head(todo).t \in OpenModes \cup {"removeOther"} =>
         /\ hs[Tmp].open => hs[Tmp].name = Head(todo).n
         /\ \A i \in 1 .. MaxIno :
              StoredName(i) = Head(todo).n => hs[Tmp].open /\ i = hs[Tmp].ino

\* the file whose name is taken over is not renamed before it is deleted
NamesTaken ==
  \A k \in 1 .. Len(todo) : todo[k].t = "renameSelf" =>
    /\ \A i \in 1 .. MaxIno :
         StoredName(i) = todo[k].n => hs[Tmp].open /\ hs[Tmp].mod /\ i = hs[Tmp].ino
    /\ Head(todo).t \in {"erase", "deleted", "renameSelf"} => ~hs[Tmp].mod

NamesInv ==
  /\ NamesStored /\ NamesOpen /\ NamesAgree /\ NamelessTmp
  /\ NameTasks /\ NamesFound /\ NamesTaken
=============================================================================
