-------------------------- MODULE FlashFsProperties --------------------------
(***************************************************************************)
(* What FlashFs keeps true.  The refinement of AtomicFiles is the promise  *)
(* to the user; the invariants say how the pages of the flash are shared   *)
(* out while that promise is kept.                                         *)
(***************************************************************************)
EXTENDS FlashFs

(***************************************************************************)
(* The view of the flash and of the handles that AtomicFiles has.          *)
(***************************************************************************)
ContentAt(p) ==
  LET ids == inodeArea[p].ids
  IN [k \in 1 .. inodeArea[p].len |-> dataArea[ids[k]]]

CurrentFile(i) ==
  LET at == {p \in InodePages : Latest(p) /\ inodeArea[p].ino = i}
  IN IF at = {} THEN [name |-> NoName, content |-> <<>>]
     ELSE LET p == CHOOSE p \in at : TRUE
          IN [name |-> inodeArea[p].name, content |-> ContentAt(p)]

ReadBack(f) ==
  [k \in 1 .. f.len |-> IF f.dp[k].new THEN Zero ELSE dataArea[f.dp[k].id]]

DraftOf(f) ==
  [open |-> f.open, ino |-> f.ino, name |-> f.name, content |-> ReadBack(f),
   dirty |-> f.mod]

Abstract == INSTANCE AtomicFiles WITH
  Inos  <- 1 .. MaxIno,
  store <- [i \in 1 .. MaxIno |-> CurrentFile(i)],
  draft <- [h \in Actors |-> DraftOf(hs[h])]

\* Journaling (Readme.md, "Journaling mechanism"): on flash a file changes
\* only as a whole, when the flush of one of its handles writes the inode
\* page; a handle sees its own writes only; no erase, mount, rename, cleanup
\* or power loss between any two steps changes what a file holds.
FilesAreAtomic == Abstract!Spec

(***************************************************************************)
(* Pages.                                                                  *)
(***************************************************************************)
LatestPages == {p \in InodePages : Latest(p)}

\* the data pages a reader of the stored file gets to see
LivePages(p) ==
  {inodeArea[p].ids[k] : k \in 1 .. IF inodeArea[p].len < Len(inodeArea[p].ids)
                                    THEN inodeArea[p].len
                                    ELSE Len(inodeArea[p].ids)}

\* "Powerloss safe" (Readme.md): while the file system is in use, the pages
\* of a committed file are neither free for the next writer (allocate_free_
\* data_page) nor about to be erased (erase_inode_and_unused_pages), the
\* list is as long as the file, and no two files have a page in common.
CommittedPagesKept ==
  \A p \in LatestPages :
    /\ Cardinality(LivePages(p)) = inodeArea[p].len
    /\ \A d \in LivePages(p) : dataArea[d] # Blank
    /\ up = "up" => LivePages(p) \cap freeData = {}
    /\ doomed \cap (LivePages(p) \cup {p}) = {}
    /\ \A q \in LatestPages \ {p} : LivePages(p) \cap LivePages(q) = {}

\* The pages an open file works on belong to no other open file and are not
\* free, although data_pages, free_data_pages and the lists of the other
\* handles are kept apart in the code.
DraftPagesKept ==
  \A h \in Handles :
    /\ HandlePages(hs[h]) \cap freeData = {}
    /\ \A g \in Handles \ {h} : HandlePages(hs[h]) \cap HandlePages(hs[g]) = {}
    /\ \A g \in Handles \ {h} :
         hs[h].open /\ hs[g].open => hs[h].page # hs[g].page

\* Between calls, an inode page is held back in allocated_unwritten_pages
\* only for a handle that will write to it, or while it is in use anyway;
\* otherwise the inode area would fill up with pages nobody can have
\* (comment in erase_inode_and_unused_pages).
NoReservationLeaks ==
  todo = <<>> =>
    \A p \in reserved : Valid(p) \/ \E h \in Handles : hs[h].open /\ hs[h].page = p

\* init() starts with what the flash holds and nothing else: old versions
\* are gone and every data page is free or in the list of a latest inode.
MountReclaims ==
  [][up = "mounting" /\ up' = "up" =>
       /\ freeData' = DataPages \ UNION {PagesOf(inodeArea[p]) : p \in LatestPages}
       /\ ValidPages = LatestPages]_vars

(***************************************************************************)
(* Numbers and names.                                                      *)
(***************************************************************************)
\* max_inode_number is never below a number in use, on flash or in a handle,
\* at any moment in which flush() could hand out the next one.
NumbersBounded ==
  up # "off" =>
    /\ \A p \in ValidPages : inodeArea[p].ino <= maxIno
    /\ \A h \in Actors : hs[h].ino <= maxIno

\* The number that flush() gives to a new file is on no inode page and in no
\* other handle: a file is never written as a version of another one.
FreshNumbers ==
  [][\A h \in Actors :
       hs[h].open /\ hs[h].ino = 0 /\ hs'[h].open /\ hs'[h].ino # 0 =>
         /\ \A p \in ValidPages : inodeArea[p].ino # hs'[h].ino
         /\ \A g \in Actors \ {h} : hs[g].ino # hs'[h].ino]_vars

\* A name belongs to one file: no two files on flash have it, no two open
\* handles, and the handle and the file on flash that have it are the same.
OneFilePerName ==
  \A n \in Names :
    LET stored == {p \in LatestPages : inodeArea[p].name = n}
        opened == {h \in Handles : hs[h].open /\ hs[h].name = n}
    IN /\ Cardinality(stored) <= 1
       /\ Cardinality(opened) <= 1
       /\ \A p \in stored, h \in opened : inodeArea[p].ino = hs[h].ino

\* flush() finds no inode page for the next version and returns false
Refused ==
  /\ Doing("flush")
  /\ hs[Actor].mod /\ hs[Actor].ino # 0
  /\ NoPage \in InodePageChoices

\* open() creates a file only if the name was not found, and rename_file()
\* deletes the file that has the name.  It ignores whether that worked, so
\* names are unique only as long as no flush is refused an inode page.
NamesAreUnique == []~Refused => []OneFilePerName

(***************************************************************************)
(* Handles.                                                                *)
(***************************************************************************)
\* A handle that is not modified shows what is on flash: flush() returns
\* true without writing, so anything else would be lost.
UnmodifiedIsCommitted ==
  Idle => \A h \in Handles :
    hs[h].open /\ ~hs[h].mod =>
      CurrentFile(hs[h].ino) = [name |-> hs[h].name, content |-> ReadBack(hs[h])]

\* Every call returns and every mount finishes, whatever fails on the way.
CallsReturn == todo # <<>> ~> todo = <<>>

(***************************************************************************)
(* A statement of the documentation that the code does not keep.           *)
(***************************************************************************)
\* Readme.md:104: "only the page with a valid crc sum and the highest version
\* number is valid. All older versions are invalid": what was deleted does
\* not come back in an older version.
DeletedStaysDeleted ==
  [][\A p \in LatestPages, i \in 1 .. MaxIno :
       inodeArea[p].name = NoName /\ inodeArea[p].ino = i
         => CurrentFile(i)'.name = NoName]_vars
=============================================================================
