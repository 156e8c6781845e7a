# SimpleFlashFs in TLA+

SimpleFlashFs is a journaling file system for the flash of microcontrollers.
This directory models it in TLA+, checks the models with TLC and proves
theorems about them with TLAPS. Line numbers below refer to the files of the
repository; `Base.h` is `src/base/SimpleFlashFsBase.h`.

## The system

| Part | State | Operations | What is hard |
|---|---|---|---|
| base file system (`src/base/SimpleFlashFsBase.h`, `Base.h`) | the flash; `free_data_pages`, `allocated_unwritten_pages`, `max_inode_number`, the file handles | open, read, write, seek, truncate, flush, close, delete, rename, init | every change goes to new pages, the inode page commits it, the old pages are erased afterwards; power may fail in between |
| dynamic FS (`src/dynamic`) | none of its own | create, mount scan that erases old versions | power fails during the mount |
| FRAM drive (`src_vfs/FramFsImplDetail`) | random number generator | random page choice, cleanup of deleted files, list_files | cleanup looks at single inode pages, not at versions |
| NoDel FS (`src_2face/SimpleFlashFsNoDel.h`) | statistics | mount without erasing | old versions stay for ever |
| two flash page swap (`src_2face/SimpleFlashFs2FlashPages.h`) | two NoDel file systems and their marker files | choose, seal, copy, complete | power fails during the swap |
| H7TwoFace (`src_2face/H7TwoFace.cc`) | one global instance, a lock callback | open, list_files, get_stat, recreate | who gives the lock back |
| file buffer (`src_2face/SimpleFlashFsFileBuffer`) | one buffer, its place in the file, a modified flag | read, write, seek, flush, truncate | two positions that must agree |
| ini files (`src_2face/SimpleIni`) | a file buffer | read and rewrite values in place | length of a value changes |
| vfs server (`src_vfs/SimpleFlashFsVfsServer.cc`) | open file table of weak pointers | open, cleanup; per-opener cursors | threads; a file closed while it is opened again |
| vfs commands (`src_vfs/FilesystemCommands.cc`) | none | cat, cp, mv, rm, touch, format, cd, cleanup | sequences of the above, loops until a read returns nothing |
| page set (`src/base/SimpleFlashFsPageSet.h`) | lazily sorted vector with holes | insert, erase, count, size | order of holes and values |
| static FS, C wrapper, simulators, crc, tar tool | | configuration, glue, I/O | nothing the others do not have |

The file handles call the base file system; the base calls three virtual
functions that the flavours override (`init`, `allocate_free_data_page`,
`erase_inode_and_unused_pages`) and the inode range of the drive. The vfs server
keeps one handle per path and shares it among its openers; the two flash page
swap copies files from one NoDel file system to the other; the file buffer and
the ini files sit on any file handle.

What makes each part correct:

- base, dynamic, FRAM, NoDel: a file changes only as a whole and survives every
  loss of power; the pages of files and handles are disjoint and never handed
  out twice; reservations are given back; names and numbers are unique; calls
  return; a file is the same bytes wherever it keeps them.
- page set: it behaves as a set whose smallest member comes first.
- swap: whatever moment the power fails at, the next mount finds the files.
- H7TwoFace: one instance at a time; the lock is held once for the instance and
  once for a call on its way in, by the same thread, and given back by it. (Both are
  deviated from: a throwing constructor keeps the lock, and the instance outlives
  it for a moment; see "Observed" below.)
- vfs server: the openers of a path share one base handle, each with its own
  cursor; no update is lost; commands end.
- file buffer: reads and writes are those of the plain file.
- ini files: a file is a map from keys to values, and stays readable text.

## Modules

| Module | Contents |
|---|---|
| `FlashFs` | the file system in its three flavours, one action per step |
| `AtomicFiles` | the abstract specification: a store of files and drafts of them |
| `FlashFsProperties` | refinement mapping, invariants, action properties, liveness |
| `FlashSwap` | two NoDel file systems, the markers, the cleanup that swaps them |
| `TwoFace` | the interface of it to several threads; composes `FlashSwap` with the lock |
| `VfsServer` | drives, the open file table, threads with handles and with commands |
| `PageSet`, `DataPath`, `FileBuffer`, `SimpleIni` | the parts that meet only their caller |
| `DataStructures` | the four of them side by side, for one run |
| `MCFlashFs`, `MCTwoFace`, `MCVfsServer`, `MCDataStructures` | symmetry sets and values for TLC |
| `FlashFsInvariants` | the inductive invariants behind the properties of `FlashFs` |
| `FlashFsProofs` | lemmas about its operators; types, numbers, lists of tasks, what a mount leaves |
| `FlashFsPages`, `FlashFsCommits` | who owns which page, step by step |
| `FlashFsRefinement` | every step of `FlashFs` is one of `AtomicFiles` |
| `FlashFsHandles` | reservations, unmodified files, names |
| `TwoFaceProofs` | two theorems about `TwoFace`, one on its lock and one on the flash it mounts, with their lemmas |
| `VfsProofs` | two theorems about the open file table and two about the handles and their cursors, with their lemmas |
| `DataStructuresProofs` | a theorem each about `FileBuffer`, `DataPath` and `PageSet` and two about `SimpleIni`, with their lemmas |

Each of the proof modules of `FlashFs` EXTENDS the one before it in this table; the
modules of proofs about the other parts stand alone.

### FlashFs

The flash is two arrays. `inodeArea` holds for each inode page `Blank`, `Torn`
(wrong CRC) or an inode; `dataArea` holds for each data page `Blank` or a value.
All other variables are memory and lost with the power:

| Variable | Code |
|---|---|
| `freeData`, `reserved`, `maxIno` | `free_data_pages`, `allocated_unwritten_pages`, `max_inode_number` |
| `hs` | the `FileHandle` objects of the users, and `Tmp`, the temporary of `find_file()`, `get_all_inodes()` and the destructors |
| `todo` | the program counter: what the running call still has to do |
| `scan` | `iv_storage`, or the list of `get_all_inodes()` |
| `old`, `doomed` | `old_file` of `flush()`, `pages_to_erase` of the erase |
| `up` | off, mounting (`init()` running) or up |

A call puts its tasks into `todo`; each task is one action and makes at most one
write or erase of a page, so that the power can fail between any two. `flush()`,
for instance, is `FlushNumber` or `FlushVersion`, a `WriteZeroPage` for each page
in state New, `WriteMeta` (the commit) and an `ErasePage` for each page of
`pages_to_erase`. Two actions stand for more than a line: `Visit` skips the
inodes that `find_file()` loads without effect, and `Truncate`, `Delete` and the
others change a handle in one step because nothing else runs in between.

`write()` is a page per step. `Write` does the first page and `WriteOn`, with the task
"write", each further one; a page that is stored already may be replaced
(`WriteWhole`, `WritePart`), any other is filled or appended (`WriteFresh`). Each changes
`data_pages`, and only the last one the length and the modified flag
(Base.h:2109-2110): `Put` has a disjunct for either. `WriteRefused` is the return with 0
in between (2057-2059, 2079-2081, 2097-2100): the pages done stay in the list, length
and flag are the old ones, and what is in the list then comes up again in a flush, a
mount, an enlargement or a read. This matters only if a write can be refused, by a
full flash ("full" in `Calls`) or a failing memory ("ioerror"); in an instance with
neither (`~Refusals`) writes of several pages get all of them, which is what a
write per page comes to, and are modelled as that. With `MaxLen` 1 there is no other
write.

Abstractions. Lengths and positions are pages; bytes are in `DataPath`. A page of
content is one value. Files that live inside the inode page are files without
pages. `Deleted` list
entries are a set, `del`, and those of a first flush that reach the flash are
`extra`: their order is never used. Page sums, byte order and names are not
represented; an inode page is valid or not. `read()` changes nothing but the
position and is not an action; what it would return is `ReadBack`. An inode page
write that fails may leave the page as it was or torn; a data page write that
fails leaves the page as it was.

Bounds (all in guards, none in a step of a running call): `MaxVer`, `MaxIno`,
`MaxLen`. `MaxFilePages` is a parameter of the code, `get_max_inode_data_pages()`.
`Calls` says which calls and faults an instance has. `Exclusive` is the vfs
server's rule that a path has one handle.

### AtomicFiles

A store maps inode numbers to files; a handle is a draft. Drafts change by calls
of their own user; `Commit` replaces the stored file by the draft in one step.
`Overwrite` puts the pages of a write into a draft. Where writes may be refused
(`Refusals`), `Spoil` is what the code leaves of such a write: a page of the draft has changed and
the draft is not dirty; and a longer draft (`Resize`) may have anything behind its
old end (`Fillings`), else it has zeros. So there the promise to the owner of the
draft is weaker; the one about the store is the same.
`FlashFsProperties` maps the latest valid version of each inode to the store and
each handle to its draft. `FilesAreAtomic` says that every step of `FlashFs` is a
step of `AtomicFiles` or changes neither: erasing, mounting, looking up, cleaning
up, failing and losing power are all invisible.

### FlashSwap and TwoFace

`FlashSwap` has both flashes, `valid` (is there a header) and `area` (the inode
pages), and the memory of the mounted one: which components are `engaged`
(`c1.fs`, `c2.fs`), `stat` (taken once, at `init()`), `maxIno`, `freeData` and the
open `file`. A mount is the task `Pick`; if `ShouldCleanup` says so it puts the
tasks of `cleanup()` into `todo`: `Seal`, `Erase`, `Header`, a `CopyFile` per file,
`Complete`. Each makes one write or erase, and `PowerLoss` may come before any of
them. Which flash is active is a function of the markers, `ByMarkers`, the four
branches of `init_fs()` in their order.

A file is one value in one data page and is replaced by a write; this is enough
because the swap copies whole files and what one file system does with the pages
of one file is `FlashFs`. As in the code, `find_file()` takes the lowest page of
the latest versions, the allocator never looks at the last inode page, the page
that `open()` reserved stays reserved, and a flush that finds no page fails without
telling anybody. Header and erase of one area are one task each. Failing writes
are not modelled here (see "Not modelled").

`TwoFace` adds threads, the mutex behind `lock_unlock_instance_cb`, the instance
(`inst`, the thread that engaged `fs_impl`) and the running calls. The callback
is taken to be a recursive mutex: with another one the branch that refuses a
second instance (H7TwoFace.cc:194) could not be reached. `Enter`, `Refuse`,
`Mount`, `ServeOpen`, `ServeOther`, `Use` and `Closed` are the public calls, from
the lock to the `AutoFreeFs` and the destructors that give it back.

The end of an instance is two steps. `Release` is `fs_impl.reset()` up to the end of the
body of `~H7TwoFaceImpl()`, which gives the lock back (130); `fs_impl` is taken to be
empty from its beginning, as `std::optional` of libstdc++ has it (the standard leaves
the order open). `End` is the end of the members `file` and `fs` after it; in between
the thread is `dying`. A call of another thread that gets the lock there finds `fs_impl`
empty and builds an instance over those members: `Clash`, after which nothing is said
any more. `MountThrows` is the constructor that throws because the first mount of an
empty memory cannot write its header (120-124): the call ends, `fs_impl` stays empty
and nobody gives the lock back; `lost` counts these holds. `recreate()` that cannot write
a header returns false and gives the lock back like any other call; this is left out.

`files` is a history variable: what the user last committed. It is assigned from
the flash when a call of the user commits, and never by a mount or a swap.

### VfsServer

| Variable | Code |
|---|---|
| `disk` | what is committed on each drive: name to content |
| `entry` | the `OpenFile` objects with the base handle each owns |
| `table` | `m_open_files`; a path has an entry, an `Expired` weak pointer, or none |
| `user` | the `ThreadedFileHandle` objects: their `OpenFile`, cursor, append flag |
| `script`, `buf` | what is left of a thread's command, and its read buffer |
| `current` | `m_current_drive` |

A call holds the mutex of the server or of the `OpenFile` for its whole length and
is one action. The exception is the end of the last handle: `Close` lets the weak
pointer expire, and `Destroy`, the destructor of the base handle with its flush,
comes later, under no lock of the server. Commands are lists of calls as
`FilesystemCommands.cc` makes them, with their early returns (`Unwind` destroys the
handles in the order C++ does). A thread in `Keepers` is a caller of the library
that keeps one handle.

A flush of a handle whose file another handle has written since (`stale`) writes
a version or a name that is there already; which of the two counts afterwards
depends on page numbers, so either is possible (`Written`). `late` remembers that
a handle was opened while another one of the file was waiting for its destructor.

### PageSet, DataPath, FileBuffer, SimpleIni

Each keeps what its callers have made (a set, a file and a position, a map) next to
the state of the code, and its property compares the two.

- `PageSet`: the vector with `NO_DATA` holes and the flags `unsorted` and
  `unshrinked`; one action per call, `allocate` being `empty()` and `erase()` of an
  element as the allocators use them.
- `DataPath`: length, position, `inode_data` and the bytes of `data_pages` of one
  handle; `write()`, `read()`, `enlarge_file()`, `seek()`, `truncate()`, the reload of
  the inode, and a rename, which changes the space that the name leaves.
- `FileBuffer`: the file below with its position, the buffer with its place,
  its position and the modified flag; every call of the class.
- `SimpleIni`: text as a sequence of symbols, a value being one or more; find,
  append, `insert()` with its two buffers, overwriting with a shift, the typed
  conversions.

## Runs

| Run | Instance | Shows |
|---|---|---|
| `FlashFsAtomic` | dynamic, 2 handles, 2 names, 4 inode pages, power loss | refinement, pages, reservations, names, unmodified handles, mount, numbers |
| `FlashFsIoErrors` | 1 handle, files of 2 pages, 3 versions, failing writes, writes refused after their first page, power loss | refinement, pages, mount |
| `FlashFsFram` | random pages, cleanup, 2 handles, 3 inode pages, power loss | refinement, pages, numbers |
| `FlashFsRewrite` | 1 handle, 4 versions, open with trunc, whole page and partial writes, rename, delete, power loss | refinement, pages, reservations |
| `NoDelJournal` | nothing is erased, files of 2 pages, 3 versions, writes refused after their first page, power loss | refinement, pages |
| `FlashFsEverything` | every call and fault at once, files of 1 page, 2 inode pages, 2 data pages | types, numbers, calls return |
| `FlashSwap` | 2 threads, 2 files, 5 inode pages and 2 data pages per flash, inode numbers up to 10, a constructor that throws, power loss | mounts find the files, the lock is balanced |
| `VfsServer` | a thread with a handle and one with every command, one drive, one file of at most 1 byte | one live handle, lost updates, cursors, commands end |
| `DataStructures` | 4 pages and vectors of 6; files of 6 bytes, pages of 4; a buffer of 3 for files of 5; 2 sections with 2 keys of 4 types, a line buffer of 9 | set, file, buffered file, map |

In the passing runs the flash is small enough to run out of inode pages and of
data pages. In `FlashFsIoErrors`, `FlashFsRewrite` and `NoDelJournal` a file has three
versions or more, so that with erasing every inode page is used again, and a page is freed by
one flush, taken by the next and compared by the one after. `FlashFsAtomic` and
`FlashFsFram` have two versions of each file (`MaxVer` is 1, a bound on the calls: a flush that
has begun goes on) and two handles instead. Two handles suffice for pages and names, since every property of
handles is about pairs; three inode pages are the fewest in which a file, its next
version and another file coexist.

Five inode pages are the fewest with which `open()` lets a file be written at all
(H7TwoFace.cc:203-210 keeps three free), and inode numbers up to 10 are enough for
more than two swaps, so that each flash holds markers of an earlier one.
The third swap is the first that meets a marker of an earlier one together with files, and
needs `open()` for writing and a look to start at any number below 10; the other calls start up to
5 or 6 (`MaxIno` has a number for each call). After a
constructor has thrown, calls start on empty flashes only, until the power is lost. In
`VfsServer` two threads suffice because the properties are about pairs of
handles; a file of one byte lets a loop meet the end, a byte, and a position
behind the end after somebody has shortened the file. In `DataStructures` files
span two pages or two buffers, and both values of every boundary are there. An ini file
outgrows the line buffer: with 9 symbols in it a new section has to move more than
a buffer for some writes and not for others.

`NamesAreUnique` has the form `[]P => []Q`. Under the symmetry of `FlashFsAtomic` TLC
can be trusted with it: both are predicates of the state that every permutation of
the constants keeps, and a violation is a finite prefix. The run has 86,251 states;
it has been repeated without symmetry (325,070 states).

What the runs leave out, and why. In a run that checks `FilesAreAtomic`, calls
that the code answers in the ways listed below under "Deviations" would end the
search there. `renameSelf` (renaming a file to the name it has), `draftPart`
(rewriting part of a page before the first flush, together with a rename or a
second lookup while the file is open) and `zeroerror` (a failing zero page) are
therefore separate members of `Calls`. `FlashFsEverything` has them all. In the same
way `CrashPoints` of `FlashSwap` leaves out the moment before fs1 is erased (run
`StaleSwap` has it) and the two inside `recreate()`; `Careful` keeps the callers of
`FileBuffer`, `DataPath` and `SimpleIni` out of the cases that the operators `Sound...`
name (for `SimpleIni`: `insert()` has more to move than fits its two buffers); the
values of `SimpleIni` are those for which conversions are reversible.

Deadlock is checked in every run that does not say otherwise; the instances of
`FlashFs` without power loss stop at their bounds, and `TwoFace` has the action
`Terminating` for its bound and for what comes after a `Clash`.

Fairness. In `FlashFs` it is weak fairness of the steps of a running call and of
the mount: a call runs on its caller's thread to its end and waits for nothing. In
`VfsServer` it is weak fairness of the next call of each thread that runs a
command: the mutexes are held for one call only, and no call waits for another
thread. No fairness is assumed for the start of calls, for what a caller does with
a handle it keeps, for faults or for loss of power.

### Deviations

These runs each end in a counterexample to what the repository says of itself.

| Run | Property | The code |
|---|---|---|
| `Resurrection` | `DeletedStaysDeleted` | cleanup erases the page of a deleted file while an older version is left (FramFsImplDetail.cc:44) |
| `StaleSwap` | `MountFindsFiles` | the marker that an earlier swap left on fs1 makes a mount take fs1 for the result of a swap that has only sealed fs2: power lost between the seal and the erase of fs1 brings old files back (SimpleFlashFs2FlashPages.h:187) |
| `RefusedWrite` | `CommittedPagesKept` | a write that the flash has no room for leaves its first pages in the list of a new file; the flush stores a length shorter than the list, the next lookup corrects and rewrites the file while it is open, and both write the same version: what the handle then commits is erased by its own flush (Base.h:2097) |


Observed with the models or while writing them, without a run of their own:

- base: after a write that was refused an unmodified handle may differ from the
  flash, with pages replaced (Base.h:2057), and a file that is enlarged later shows what
  the refused write has left behind its end; a file that moves from its inode to
  pages and finds none has lost its bytes (1975-1980); a file opened with trunc and
  closed unwritten keeps its content (Base.h:1161); truncate drops pages from the list before the flush compares the
  lists, so that they are not erased (309, 1579); a file renamed to its own name
  is deleted (2269); a lookup corrects and rewrites a file that is open (1412); the
  first data page, number `max_inodes`, does not return to the free pages before
  the next mount (1797), nor does a page replaced by a whole page write (1870);
  each failing inode write reserves a page until the next mount; rename does not
  look at what `delete_file()` of the other file returns (2265), so that with a full
  inode area two files end up with one name, of which a later rename deletes one; numbers are given
  out again after a cleanup and a restart; a full inode area does not start the
  cleanup the Readme speaks of; with NoDel a page of an uncommitted write is
  written again after a restart without an erase.
- bytes: `enlarge_file()` keeps a file of exactly the space in the inode there,
  `write()` and `read()` look for it in pages (2300, 1938, 2133); a file that grows
  across that limit leaves its bytes in the inode and reads as zeros (2305); a
  paged file cut below it is taken for one in the inode by the next write (309);
  what a shortened file had behind its end shows up when it grows (309); a read
  from behind the end wraps around (2121); a rename to a longer name leaves
  `inode_data` larger than the space for it (1017), or the file exactly as long as the
  space, where `write()` and `read()` look for it in pages.
- swap: `trash_size` counts the pages of valid files too, so that a full flash is
  copied at every mount (SimpleFlashFs2FlashPages.h:123); after a swap the
  statistic is that of the empty target; `recreate()` interrupted between its two
  erases brings the files of the other flash back; a flash with no page left for
  the seal is never cleaned up; after a failed copy both components stay engaged
  (318), and `copy()` does not end when a read returns nothing (351). The reserved
  names are refused by `open()` and not by `rename_file()`.
- H7TwoFace: `fs_impl` is empty and the lock free while the members of the instance are
  still being destroyed (H7TwoFace.cc:130); a thread that gets the lock then emplaces
  the next instance over them, which the test of `fs_impl` (194) is there to prevent
  (two threads and one file suffice: `Clash`). A first mount that cannot write its
  header throws with the lock held (123): the other threads wait until a restart.
- vfs: a file is opened again while the handle that was closed last waits for its
  flush (SimpleFlashFsVfsServer.cc:234), because its weak pointer has expired: two base handles of
  one file, of which one overtakes the other, although the table is there so that
  concurrent calls "cannot corrupt each other" (SimpleFlashFsVfsServer.h:40-42). Two
  threads that write and close one file suffice. `OnlyTheRaceLoses` proves
  that this race is the only way (`UpdatesLostOnlyByRace`), and `HandlesAreShared` that even
  then only one of the handles has users.
- vfs: append of the first opener holds for all of them (Base.h:191); the table
  keeps the name a file was opened with when it is renamed; mv stores the whole
  path as the name and renames on the drive of the source; cp keeps the tail of a
  longer destination; relative paths follow the current drive of all threads;
  `create()` does not look whether files are open.
- file buffer: a write inside a modified buffer drops what was behind it, and one
  at the end of a full buffer passes the test for room (SimpleFlashFsFileBuffer.cc:233);
  a seek to where the file below stands does nothing although the position is
  elsewhere (174); reads and writes larger than the buffer start at the position of
  the file below (19, 203); `eof()` is early by one byte when the buffer is empty.
- ini: `insert()` loses pieces when what is behind it is longer than the line
  buffer (SimpleIni.cc:338); a key added to an empty section without an empty line
  goes into the header's line; comments between keys are overwritten; a negative
  char does not read back (801).

## Proofs

`FlashFsProofs` proves, for all sizes of the flash, all sets of names, contents
and handles, all three flavours and all sets of calls and faults:

- `TypeCorrect`: `Spec => []TypeOK`. `TypeOK` is inductive. There is a lemma per
  group of actions (`CallType`, `FlushType`, `FindType`, `SweepType`), one step per
  action. What needs care is that the chosen pages exist: the least of a set of
  naturals (`LeastExists`), the greatest number on flash, which exists because the
  inode pages are finitely many (`BoundExists`, `GreatestExists`,
  `HighestNumberBounds`), the oldest of several versions (`OldestExists`), and
  the first entry of a scan.
- `NumbersStayBounded`: `Spec => []NumbersBounded`. The inductive invariant is
  `NumbersInv`, `TypeOK` and `NumbersBounded` strengthened by `PoweredOff`: while
  the power is off no handle has a number. Without it the step that mounts the
  file system could not conclude that the highest number on flash bounds the
  numbers of the handles.

The second half of `FlashFsProofs` proves, for the same constants, what does not depend
on which calls and faults there are. Its invariant `BaseInv` is `NumbersInv` with two more parts:

- `Control` lists the task lists a call can leave behind and the state of `Tmp` that
  goes with each. Most other proofs split on the head of `todo` and need to know what
  follows it; this is where it comes from. It is also the proof that a call never
  starts while another one is on its way.
- `Numbered`: no inode page holds a version without a number, no flush commits one,
  and `Tmp` is never a file without one.

Two theorems follow. `NumbersAreFresh`, `Spec => FreshNumbers`: the number that
`flush()` gives to a new file is on no page and in no other handle. `MountsReclaim`,
`Spec => MountReclaims`, whenever `Erasing`: a mount ends with one version per file and
with exactly those data pages in use that a file lists. (NoDel keeps old versions on
purpose, so the hypothesis is the flavour's.)

The other theorems about `FlashFs` have the hypothesis

    PlainUse == /\ Exclusive
                /\ ~Refusals
                /\ Calls \cap {"draftPart", "grow", "seek", "renameSelf", "cleanup"} = {}

It says how the file system is used, not how large anything is: one handle per path
(the vfs server sees to it) and no call or fault for which the code is known to
deviate or which needs a weaker invariant. `draftPart`, `renameSelf` and `cleanup` are
under "Deviations"; `Refusals` are the calls "full" and "ioerror". With "full" a write may
stop between two of its pages, for which `RefusedWrite` and the first lines of
"Observed" show that a handle, a name and in the end a committed file may be lost: so
the theorems below say nothing of a flash that fills up in the middle of a write
of several pages (a write whose first page finds no room changes nothing and is in
plain use). With "ioerror" a page list may also name a page that was never written,
and a reserved page is lost; with `grow` and `seek` a call may stop between a longer
length and the pages for it. Open in three modes, whole page and partial writes,
truncate, flush, close, delete, rename, list, restart and the loss of power between any
two steps are all in plain use, as are both ways of choosing pages and both values
of `Erasing`. The runs `FlashFsAtomic` and `FlashFsRewrite` satisfy it; what is
outside of it is checked by `FlashFsIoErrors`, `NoDelJournal`, `FlashFsFram` and
`FlashFsEverything`.

`FlashFsPages` and `FlashFsCommits` prove `CommittedFilesKeepTheirPages`
(`[]CommittedPagesKept`) and `OpenFilesKeepTheirPages` (`[]DraftPagesKept`). Neither
property is inductive: a page is free, erased or shared because of what happened
several steps before. `PagesInv` says for each owner of pages what it may share with
the others:

| Part | Says | Needed where |
|---|---|---|
| `StoredLists` | a stored list is as long as its file, without repetition, and written | a mount loads it, `CommittedPagesKept` counts it |
| `StoredVersions` | two pages of one file differ in their version | the newest one is a page |
| `StoredShares` | pages are shared between versions of a file only, and with erasing between neighbours only | a flush may erase what the next version does not list |
| `SettledShares` | after the mount nothing is shared but with what is being erased | an erase takes nobody's pages |
| `FreeIsUnused` | free pages are in no list and no handle | allocation |
| `DoomedIsOld` | what is being erased is an older version, and its pages are nobody's | erase, and a loss of power during it |
| `HandleLists`, `HandlePlaces` | a handle's list is written to the last page, its inode page holds its version or is held back | commit, reload |
| `HandlesApart` | handles share neither pages nor inode pages nor numbers, but for the one that open with trunc is about to drop | commit of either |
| `HandleShares`, `HandleVersions` | what a handle shares with the flash is its own previous version, and none is newer | commit: the new version becomes the latest |
| `CommitsToFresh`, `ReplacesOld` | between choosing a page and writing it, the page is not valid, and `old` is the version before | `WriteMeta` computes what to erase from `old` |
| `PlainTasks`, `SearchesStored` | no stored inode needs to be corrected; what a scan still has to look at is on flash | `Visit` |

The difficult steps are `WriteMeta`, where a version becomes the latest and its
predecessor is doomed (`CommitPages`), `ErasePage` and a loss of power before it
(`GonePages`, `LossPages`), and the mount, which removes the oldest of several
versions without knowing which flush was interrupted (`OutdatedPages`).

`FlashFsRefinement` proves `FilesChangeAtomically`, `Spec => FilesAreAtomic`: the
refinement of `AtomicFiles` under the mapping of `FlashFsProperties`. The invariant is
`RefinementInv`, `BaseInv` and `PagesInv` with `NumbersSuffice` (the bound `MaxIno`, a guard
of `open()`, leaves a number for every new file that waits for its first flush) and
`CommitsChanges` (only modified handles are written). `StepKinds` splits `Next`, and one
lemma says for each kind what it is in `AtomicFiles`:

| `FlashFs` | `AtomicFiles` |
|---|---|
| `Write`, in a page that it fills, replaces or adds | `Overwrite` (`WriteRefines`) |
| `Truncate`, `Delete` | `Resize`, `Discard` |
| `FlushNumber` | `Number` (`NumberRefines`) |
| `WriteMeta` | `Commit` (`CommitRefines`) |
| `Visit` that finds the file | `Load` into `Tmp` (`VisitRefines`) |
| `OpenFound`, `OpenMissing`, `OpenTrunc` | `HandOver`, `Create`, `StartOver` |
| `RemoveOther`, `RenameSelf` | `Discard` of `Tmp`, `Retitle` |
| `Drop`, `Deleted` | `Close` (`CloseRefines`) |
| `PowerLoss` | `PowerLoss` |
| `FlushVersion`, `WriteZeroPage`, `ErasePage`, the scans, the mount, the beginning of a call | nothing |

The work is in the last row and in `Commit`: that the value of a page that a stored
file lists is the same before and after, that the version written is the latest one
(`LatestAfter`), and that what is erased was not (`LatestNotDoomed`, `LatestWithout`).

`FlashFsHandles` has three theorems. `ReservationsAreReturned`
(`[]NoReservationLeaks`, hypotheses `PlainUse` and `Erasing`): the invariant
`ReservationInv` follows a page that is held back through the flush that will write it
(`ReservedIsHeld`), and needs to know that a handle that `delete_file()` gives up has
been written (`DeletedIsWritten`). `UnmodifiedFilesAreCommitted`
(`[]UnmodifiedIsCommitted`, `PlainUse` without open with trunc, which does leave an
unmodified handle that differs from the flash): read off the refinement, since only
a draft that is dirty can differ from the store. `NamesStayUnique`
(`Spec => NamesAreUnique`): `NamesInv` says that a name belongs to one stored file
(`NamesStored`), to one open file (`NamesOpen`) and to the same one of both (`NamesAgree`),
and follows the two calls that give names: the tasks of `open()` and `rename_file()`
have their name to themselves (`NameTasks`), a search that ends has looked at every
file (`NamesFound`), and the file whose name is taken over is gone, or about to be
written without it, when the name is given (`NamesTaken`). `NamesAreUnique` is
conditional on `[]~Refused`; see `rename_file()` under "Observed".

All of these rest on the assumptions in `FlashFs` and no others: there are at least
one inode page and two data pages, the markers are distinct from what they mark (`NoName`,
`Zero`, `Tmp`, and with `MarkAssumption` `Blank` and `Torn`), and the bounds are
numbers. Every inductive invariant was checked with TLC in the instances above before
it was proved.

`TwoFaceProofs` proves `LocksStayBalanced`, `Spec => []LockBalanced`, for all
numbers of threads, pages and throwing constructors and all sets of names and crash points.
`LockBalanced` says that the lock is held as often as `fs_impl` has an instance, a call is on
its way in, and a constructor has thrown (`lost`); it does not say that the instance is
destroyed under it, which it is not (`Clash`). `LockBalanced`
alone is not inductive: that a `Release` gives back exactly the one lock of the
instance needs to know that no other call is past the lock. `LockInv` adds the
types, `MountedByOwner` (a call that has mounted is the instance's), `TasksAfterLock`
(while the file system has something to do no call waits behind the lock) and
`ClosedAlone` (the task that destroys the handle is there only when no call is).

The same module proves `MountsFindTheFiles`, `Spec => []MountFindsFiles`, under the
hypothesis that the power does not fail before the tasks `eraseFs1`, `recreateErase`
and `recreateHeader`. The first is the deviation that the run `StaleSwap` shows, so
that without it the theorem is false; in the other two the user has given up the files
and a mount after a half done `recreate()` may still find them. The power may fail at
every other point, any number of times, and the first mount may fail to write its
header (`MountThrowsWorks`; `NothingThere` in `Creating` says that the flashes are empty
then). The run `FlashSwap` satisfies the hypothesis. The invariant `SwapInv` (checked with TLC in the instance of `FlashSwap`:
967,232 states) has one disjunct per task, which says what the flashes look like
before it:

| Disjunct | The next task | What holds |
|---|---|---|
| `Working` | none, or one of the open file | off, and the next mount finds the files; or mounted on the flash that the markers lead to |
| `Mounting` | `init()` chooses a flash | the next mount finds the files (`Found`) |
| `Creating` | a recreate | no files |
| `ToSeal` | seal c | mounted on c, and the markers lead to c |
| `ToErase` | erase the other flash | c has the files and a seal; they lead to c unless fs1 is the one to be erased |
| `ToCreate` | its header | the other flash has no header |
| `ToCopyFiles`, `ToComplete` | copy, completion marker | c has the files and a seal, the other flash has copies of different files of c (`Copied`) and no marker |

`LeadsTo` lists the four situations in which the markers lead to a flash, and
`MarkersLead` proves that `ByMarkers` agrees. Each disjunct but one gives `Found`
after a loss of power (`CrashFinds`). Three facts carry the steps: markers and files
never share an inode (`WellFormed`, kept for the open file by `FileFits`), so that a
marker once written stays found (`MarkerFound`) and hides no file (`PutUnseen`); an
inode that is copied once is its own latest version (`CopiesLatest`), so that the copy
of the last file completes the view (`CopyComplete`); and the copy runs out of
neither inode pages nor data pages, because the copies are on different pages of the
source and the sealed page, or the page of the file still to be copied, is left over
(`CopyFindsPage`, `CopyFindsData`, by the pigeonhole principle): `CopyFile` and
`Complete` need no guard for a full flash.

`VfsProofs` proves `HandlesAreShared`, `Spec => []OneLiveHandle`, for all numbers of
threads, drives, files and all sets of commands and uses. The inductive invariant
`SharingInv` ties together the three places that know of an `OpenFile`: what a
thread holds exists (`HeldExists`) and is listed under its path (`HeldIsListed`), what
is listed under a path belongs to it (`ListedByName`), and what waits for its
destructor is neither held nor listed nor awaited by a second thread
(`DestroyedAlone`). This theorem follows from `HeldIsListed` alone: two live handles of
one file are listed under one path. Rename and delete are the difficult steps; the
lemmas say that no call but `open()` gives a base handle a name that can be typed.

The same module proves `OnlyTheRaceLoses`, `Spec => []UpdatesLostOnlyByRace`, from two
more conjuncts of `SharingInv`: a listed base handle has users (`ListedIsHeld`), and of
two connected base handles of one file each is `late` or has no users, as is one
that has been overtaken (`RivalsRace`). The step that matters is an `open()` that
cannot share: the new handle is late if the file has others, and a user of one of
those would have it listed under that path (`HeldIsListed`), where `open()` would
have found it. All other steps make no rivals and give nobody a handle without
users (`RacesKept`). `ListedIsHeld` needs every handle to be closed before its slot
is used again. `Open` states that as a guard, because a handle is a fresh local
variable of its command; the guard excludes no state of the run `VfsServer`
(268,878 with it and without it).

The bound on the length of files takes no part in these two: `Handle` and `Scripts`, the
types of their proof, are wider than those of `TypeOK`.

`HandlesStayTyped`, `Spec => []TypeOK`, is about that bound. Each thread checks it on its
own, with its own cursor, before it writes, and somebody else may have changed the
file that the handles share since; so it is not the check of one call that keeps it.
`FittingInv` adds to `SharingInv` that files, handles and cursors are within the bound
(`FilesFit`, `HandlesFit`, `CursorsFit`) and `CallsReady`: a command writes only what it
has read, and its own calls, not those of its neighbours, are what its script goes on
with. `CursorsAreKept`, `Spec => CursorsIndependent`, needs the same invariant: the handle
that cat and cp read is their first one, it still has its base handle, and its
cursor is inside the longest file, so that the step by one is a step inside the type.

`DataStructuresProofs` has five theorems about the parts that meet only their caller.
All but `PagesActAsSet` have the hypothesis `Careful`: the callers keep out of the cases
that `SoundWrite`, `SoundTruncate` and the like name, each of which is listed above
under "Deviations".

- `BufferActsAsFile`, `Careful => (Spec => []BufferIsFile)`, for every set of bytes, every
  length of file and every size of buffer. The invariant `BufferInv` says what the buffer
  means: laid over the file below at the place where it starts, it gives the file the
  caller has made (`Mirrors`); a buffer that is not modified is a part of that file; no
  buffer means that the position of the file below is the caller's. `BufferIsFile`
  alone does not say where an unmodified buffer lies, which the next write into it
  relies on. The lemmas are about `Over` and `Cut`: writing into a piece that lies over a
  sequence is writing into the sequence (`OverOver`), cutting from what lies over a
  sequence is cutting from the sequence (`CutOfOver`), and pieces of adjoining pieces
  make a piece of the whole (`CutCut`, `OverCut`). There is one lemma per way a call can
  go (`DiscardMirrors`, `BelowMirrors`, `NewBufferMirrors`, `FilledMirrors` and so on), and
  one step per call.
- `FilesKeepTheirBytes`, `Careful => (Spec => []BytesAreKept)`, for every page size, every
  length of file and every set of spaces that a name may leave in the inode. The
  invariant `BytesInv` says where each byte is (`Holds`): either in the inode, and then the
  file is shorter than its space and nothing but zeros follows it there (`InInodeOnly`),
  or in pages, and then it is not shorter and the pages suffice (`InPagesOnly`), never in
  both; and a position behind the end has nothing but zeros before it. `ByteOf` finds
  byte i of a paged file by `\div` and `%`; that each byte has one page and one place in it
  (`PlaceIs`) is what the loops of `write()` and `read()` rest on (`InPagesIs`, `MorePages`).
- `PagesActAsSet`, `Spec => []ActsAsSet`, for any number of pages. The invariant `SetInv`
  says what the two flags of the vector are worth: the pages in it are those of the set,
  each of them once (`Lists`), whatever the flags are; they ascend, holes apart, unless
  `unsorted` is set (`InOrder`); and there are no holes when neither flag is set. The
  search of `insert()`, `erase()` and `count()` passes holes, which are greater than every
  page, so it needs the order of the others only (`StopIs`, `FoundIs`); there are lemmas for
  a page that goes into a hole, between two pages or to the end, and for one that leaves
  a hole (`HoleLists`, `InsertedLists`, `AppendedLists`, `EmptiedLists`). What `sort()` returns
  is written as the page of each rank (`Ascending`), so that each rank is taken once
  (`RanksDiffer`) and all of them are (`SortedIs`) follow from counting, without an induction
  over the vector.
- `KeysReadAsWritten`, `Careful => (Spec => []FileIsMap)`, and `LinesStayWhole`,
  `Careful => (Spec => []LinesAreWhole)`, for every set of sections, keys and values, every
  size of the line buffer and every file that somebody else has written in whole lines.
  The invariant `IniInv` is the two properties together with `Closed`, the file ends with
  a newline, and `Roomy`, a section without keys has an empty line at its end.
  `FileIsMap` alone is not inductive: `write()` steps back over a newline before the next
  header, or before the end, to add the first key of a section, and without an empty
  line there it would write into the header (`GapPlace`). The proof sees a write as an `Edit`
  that replaces whole lines by whole lines (`EntryWritten`, `SectionWritten`): a line behind
  the edit is the same line at another offset (`PartLines`), its section is the same
  (`HeaderMoves`, `InsideMoves`), so that the first line of every other key stays the first
  one (`FoundMoves`, `ReadMoves`), and the key that is written is found where the new line is
  (`ValuesAfter`), with the value that the conversions give back (`TextIs`). A section may
  be there twice: `write()` looks into the first one only, and what it adds or changes
  there comes before every other line of the key (`GapPlace`, `KeyPlace`), which is the one
  `read()` takes. That the loop of `insert()` is an insertion (`InsertShifts`) needs no induction in the cases
  that `SoundInsert` keeps: its second pass writes all that was behind the place, and
  the others change nothing (`StepsEnd`).

The proof found a case that the run had missed: a file in the inode that is first cut and
then renamed to a longer name may end up exactly as long as the space the name leaves,
and `write()` and `read()` then look for it in pages (Base.h:2133, 1938). `SoundRename`
names this case, and the run has a space of 4 for it: without that condition TLC finds
`BytesAreKept` violated.

`TwoFaceProofs` rests on the assumptions in `FlashSwap` and `TwoFace`, `VfsProofs` on
those in `VfsServer`, `DataStructuresProofs` on those in `DataStructures`: markers are
distinct from what they mark (in `FlashSwap` also `Blank` and `NoFile`, with its
`MarkAssumption`), a flash has more than four inode pages, there are finitely many
threads, a page, a buffer and the longest file of `VfsServer` have at least one byte,
`Zero` is a byte, one of the names leaves the greatest space, and page numbers are
natural numbers. For `SimpleIni` (`IniAssumption`): a newline, a comment sign, the name
of a section and that of a key are told apart; no value has a newline in it, a number is
not the prefix `0x` and a char is not negative; and the files that somebody else has
written are `Whole` and `Roomy`. `FittingInv` was checked with TLC in the instance
`VfsServer`, `BufferInv`, `BytesInv`, `SetInv` and `IniInv` in that of `DataStructures`, the
first two also with pages of 1 to 4 bytes and spaces from 0 to 5. Without `SoundWrite` TLC
finds `FileIsMap` violated with a line buffer of 9.

Only checked by TLC:

- the page invariants, the refinement, reservations, unmodified handles and names
  outside `PlainUse`, in particular with failing writes, a growing file and the cleanup;
- what `FileBuffer`, `DataPath` and `SimpleIni` do without `Careful`, which is known to be
  wrong;
- what writes of several pages do that are refused after the first (`FlashFsIoErrors`,
  `NoDelJournal`);
- everything with fairness or ENABLED (`CallsReturn`, `CommandsReturn`), which is out
  of reach of the prover.

## Not modelled

- Threads inside one call of the base class: its locks protect the flash and the
  page sets one access at a time, and two calls on different files interleave
  there. The FRAM allocator uses the free pages without that lock
  (FramFsImplDetail.cc:50). This would take `FlashFs` with a `todo` per thread, whose
  state space is out of reach with the present detail.
- Failing reads and writes during a swap, but for the header of the first mount.
- The bytes that a file loses when it moves from its inode to pages and finds none
  (Base.h:1975-1980): `DataPath` assumes room.
- `size()` of a page set that is not const, and the insertion of a range; the
  `pad_with_spaces()` with which `SimpleIni` answers a failing write; a seek of a base handle
  that fails (Base.h:2286) below a handle of the vfs server.
- The tar tool, the simulators' files, the C wrapper and instance handler, the
  static configuration, the command parser and shell, and the CRC computation.
  They are I/O, glue, text, or a pure checksum.
