------------------------------ MODULE VfsServer ------------------------------
(***************************************************************************)
(* The VFS server (src/src_vfs/SimpleFlashFsVfsServer.cc) with threads     *)
(* that use it: through handles they keep (the library's callers) and      *)
(* through the commands of FilesystemCommands.cc.                          *)
(*                                                                         *)
(* All opens of one path share one OpenFile, that is one base handle of    *)
(* the drive, and each ThreadedFileHandle has a cursor of its own.  Every  *)
(* call on a handle holds the mutex of its OpenFile, every call of the     *)
(* server holds m_mutex, so that a call is one step.  One thing is done    *)
(* under neither: when the last ThreadedFileHandle of a file goes, the     *)
(* weak_ptr in the table expires at once, and the destructor of the base   *)
(* handle, which flushes it, runs after that.  It is a step of its own.    *)
(*                                                                         *)
(* A drive maps names to contents, a content is a sequence of bytes; what  *)
(* flush does to the flash is FlashFs.  A buffer of a command is one byte. *)
(***************************************************************************)
EXTENDS Integers, FiniteSets, Sequences

CONSTANTS
  Drives,          \* registered drives
  Names,           \* file names
  Roots,           \* how a path starts: with a drive, or None (it is relative)
  Bytes, Zero,     \* what is written, and what fills a gap
  Absent,          \* what a drive says of a file that is not there
  Threads,
  Keepers,         \* those that keep handles; the others run commands
  None,            \* no OpenFile, no handle, no drive
  Expired,         \* a weak_ptr whose object is gone
  Nothing,         \* no byte: the end of the file
  Commands,        \* the commands this instance runs
  Uses,            \* the calls it makes on a handle it keeps
  Modes,           \* the openmodes of that handle
  MaxLen           \* bound: the longest file, and the space of an inode for it

ASSUME VfsAssumption ==
  /\ None \notin Drives
  /\ Roots \subseteq Drives \cup {None}
  /\ Zero \in Bytes
  /\ Nothing \notin Bytes
  /\ MaxLen \in Nat \ {0}
  /\ IsFiniteSet(Threads)
ASSUME NamesAssumption ==
  /\ Names \cap ((Drives \cup {None}) \X Names) = {}
  /\ {None, Expired} \cap Nat = {}
  /\ Absent \notin UNION {[1 .. n -> Bytes] : n \in 0 .. MaxLen}

\* A path, relative to the current drive if it names none; Typed are those the
\* users type.  The string mv passes to rename_file() is a whole path, and
\* becomes the file's name on the drive of the source.
Paths     == (Drives \cup {None}) \X Names
Typed     == Roots \X Names
FileNames == Names \cup Paths

\* a thread's handles: cp has its source in 1 and its destination in 2, mv
\* its source in 3; every OpenFile is held by one of them, or dies in its thread
Slots   == 1 .. 3
Entries == 1 .. 3 * Cardinality(Threads)  \* bound: there are never more

VARIABLES
  disk,    \* the drives: name -> committed content
  entry,   \* the OpenFile objects and their base handles
  table,   \* m_open_files: a weak_ptr, or no entry, for each path
  user,    \* the ThreadedFileHandles
  script,  \* what is left of each thread's running command
  buf,     \* what each thread has read last
  current  \* m_current_drive

vars == <<disk, entry, table, user, script, buf, current>>

(***************************************************************************)
(* The base handle, as seen from here.                                     *)
(***************************************************************************)
Content == UNION {[1 .. n -> Bytes] : n \in 0 .. MaxLen}

\* late: another handle of this file was still to be destroyed when this one
\* was opened; stale: another one has been flushed since
HandleOf(contents, positions) ==
  [d : Drives, name : FileNames, data : contents, pos : positions,
   app : BOOLEAN, mod : BOOLEAN, fs : BOOLEAN, late : BOOLEAN, stale : BOOLEAN]
BaseHandle == HandleOf(Content, 0 .. MaxLen + 1)

\* a ThreadedFileHandle: its OpenFile and its cursor
UserHandle == [e : Entries, pos : Nat, app : BOOLEAN]

ASSUME NoneAssumption ==
  None \notin UserHandle \cup HandleOf(Seq(Bytes \cup {Nothing}), Nat)

\* what it holds cannot be seen any more
Disconnected(f) ==
  [f EXCEPT !.fs = FALSE, !.data = <<>>, !.pos = 0, !.app = FALSE,
            !.mod = FALSE, !.late = FALSE, !.stale = FALSE]

Padded(s, n) == [i \in 1 .. n |-> IF i <= Len(s) THEN s[i] ELSE Zero]

\* behind the end, the file is enlarged to one byte less than asked for
SeekTo(f, p) ==
  IF p <= Len(f.data) THEN [f EXCEPT !.pos = p]
  ELSE [f EXCEPT !.pos = p, !.data = Padded(@, p - 1), !.mod = TRUE]

\* the append flag is that of the first opener, and wins
PutByte(f, b) ==
  LET at == IF f.app THEN Len(f.data) ELSE f.pos
  IN [f EXCEPT !.data = [Padded(@, IF at < Len(@) THEN Len(@) ELSE at + 1)
                           EXCEPT ![at + 1] = b],
               !.pos = at + 1, !.mod = TRUE]

\* behind the end file_len - pos wraps around, and the rest of the space in
\* the inode is read
GetByte(f) ==
  IF f.pos = Len(f.data) \/ f.pos >= MaxLen THEN Nothing
  ELSE Padded(f.data, f.pos + 1)[f.pos + 1]

CutTo(f, n) ==
  IF n = Len(f.data) THEN f
  ELSE [f EXCEPT !.data = Padded(@, n), !.mod = TRUE,
                 !.pos = IF @ > n THEN n ELSE @]

(***************************************************************************)
(* Sharing.                                                                *)
(***************************************************************************)
Handles == {h \in Threads \X Slots : user[h[1]][h[2]] # None}
Refs(e)  == {h \in Handles : user[h[1]][h[2]].e = e}
Live(e)  == entry[e] # None /\ Refs(e) # {}
Dying(e) == entry[e] # None /\ Refs(e) = {}

Base(t, s) == entry[user[t][s].e]
uh_ok(t, s) == user[t][s] # None /\ Base(t, s).fs

\* the connected base handles of a file
Holders(d, n) ==
  {e \in Entries : entry[e] # None /\ entry[e].fs
                   /\ entry[e].d = d /\ entry[e].name = n}

\* the handles of the files ns on d, but e, do not know what is written now
Outdated(es, d, ns, e) ==
  [x \in Entries |->
     IF x # e /\ x \in UNION {Holders(d, n) : n \in ns}
     THEN [es[x] EXCEPT !.stale = TRUE] ELSE es[x]]

\* What a flush may leave on the drive.  A stale handle writes a version
\* number that is there already, or an inode of a name that is there already:
\* either may be the one that counts from then on.
Written(f, new) == IF f.stale THEN {disk, new} ELSE {new}

(***************************************************************************)
(* SimpleFlashFsVfsServer::open(), under m_mutex.  It gives the state after *)
(* it as [e, es, table]; e is None when there is no such file or drive.    *)
(***************************************************************************)
Resolve(p) == IF p[1] = None THEN <<current, p[2]>> ELSE p

\* an entry of the table that open() can share: not expired, not disconnected
Shareable(k) == table[k] \notin {None, Expired} /\ entry[table[k]].fs

Reuse(k, mode) ==
  LET e == table[k]
  IN [e |-> e, table |-> table,
      es |-> IF "trunc" \in mode
             THEN [entry EXCEPT ![e] = CutTo(@, 0)] ELSE entry]

\* the open() of the base file system
OpenBase(k, mode) ==
  LET old  == disk[k[1]][k[2]]
      data == IF old = Absent \/ "trunc" \in mode THEN <<>> ELSE old
  IN [d |-> k[1], name |-> k[2], data |-> data,
      pos   |-> IF "ate" \in mode /\ data # <<>> THEN Len(data) - 1 ELSE 0,
      app   |-> "app" \in mode /\ (old = Absent \/ "trunc" \notin mode),
      mod   |-> old = Absent,
      fs    |-> TRUE,
      late  |-> Holders(k[1], k[2]) # {},
      stale |-> FALSE]

Unused == CHOOSE e \in Entries : entry[e] = None

Enlist_Not(k, e) == [table EXCEPT ![k] = None]  \* mutant: nobody can share it

Enlist(k, e) == [table EXCEPT ![k] = e]

Fresh(k, mode) ==
  IF k[1] = None \/ (disk[k[1]][k[2]] = Absent /\ {"out", "app"} \cap mode = {})
  THEN [e |-> None, table |-> [table EXCEPT ![k] = None], es |-> entry]
  ELSE [e     |-> Unused,
        table |-> Enlist(k, Unused),
        es    |-> [entry EXCEPT ![Unused] = OpenBase(k, mode)]]

ServerOpen(k, mode) ==
  IF Shareable(k) THEN Reuse(k, mode) ELSE Fresh(k, mode)

(***************************************************************************)
(* The calls, each as the thread t, with rest left of its command.         *)
(***************************************************************************)
Proceed(t, rest) == script' = [script EXCEPT ![t] = rest]

Call(op, s)        == [op |-> op, s |-> s, p |-> None, mode |-> {}]
OpenAs(s, p, mode) == [op |-> "open", s |-> s, p |-> p, mode |-> mode]

\* return: the handles of the command go, the last one first
Closing(t, s) == IF user[t][s] # None THEN <<Call("close", s)>> ELSE <<>>
Unwind(t) == Closing(t, 2) \o Closing(t, 1) \o Closing(t, 3)

Open(t, s, p, mode, rest) ==
  LET r == ServerOpen(Resolve(p), mode)
      pos == IF r.e # None /\ "ate" \in mode THEN Len(r.es[r.e].data) ELSE 0
  IN
  /\ user[t][s] = None  \* a handle is a new local variable of its command
  /\ \E e \in Entries : entry[e] = None
  /\ entry' = r.es
  /\ table' = r.table
  /\ IF r.e = None
     THEN Proceed(t, Unwind(t)) /\ UNCHANGED user
     ELSE /\ user' = [user EXCEPT ![t][s] =
                        [e |-> r.e, pos |-> pos, app |-> "app" \in mode]]
          /\ Proceed(t, rest)
  /\ UNCHANGED <<disk, buf, current>>

At_NoSeek(f, p) == f  \* mutant: the shared position is taken as it is

\* the base handle, with its position brought to that of the caller
At(f, p) == IF f.pos = p THEN f ELSE SeekTo(f, p)

Left_OldCursor(t, s, g) ==  \* mutant: the caller's cursor stays
  /\ entry' = [entry EXCEPT ![user[t][s].e] = g]
  /\ UNCHANGED user

\* the state after a call that has left g in the base handle of t's s
Left(t, s, g) ==
  /\ entry' = [entry EXCEPT ![user[t][s].e] = g]
  /\ user' = [user EXCEPT ![t][s].pos = g.pos]

\* more is what to do with a byte, rest what to do without
Read(t, s, more, rest) ==
  LET f == At(Base(t, s), user[t][s].pos)
      b == IF uh_ok(t, s) THEN GetByte(f) ELSE Nothing
  IN
  /\ IF uh_ok(t, s)
     THEN Left(t, s, IF b = Nothing THEN f ELSE [f EXCEPT !.pos = @ + 1])
     ELSE UNCHANGED <<entry, user>>
  /\ buf' = [buf EXCEPT ![t] = b]
  /\ Proceed(t, IF b = Nothing THEN rest ELSE more)
  /\ UNCHANGED <<disk, table, current>>

\* a longer file than MaxLen does not fit
Write(t, s, b, rest) ==
  LET f  == Base(t, s)
      g  == At(f, IF user[t][s].app THEN Len(f.data) ELSE user[t][s].pos)
      ok == Len(PutByte(g, b).data) <= MaxLen
  IN
  /\ IF uh_ok(t, s) THEN Left(t, s, IF ok THEN PutByte(g, b) ELSE g)
     ELSE UNCHANGED <<entry, user>>
  /\ Proceed(t, IF uh_ok(t, s) /\ ok THEN rest ELSE Unwind(t))
  /\ UNCHANGED <<disk, table, buf, current>>

Seek(t, s, p, rest) ==
  /\ user' = [user EXCEPT ![t][s].pos = p]
  /\ Proceed(t, rest)
  /\ UNCHANGED <<disk, entry, table, buf, current>>

Truncate(t, s, n, rest) ==
  /\ uh_ok(t, s)
  /\ entry' = [entry EXCEPT ![user[t][s].e] = CutTo(@, n)]
  /\ user' = [user EXCEPT ![t][s].pos = IF @ > n THEN n ELSE @]
  /\ Proceed(t, rest)
  /\ UNCHANGED <<disk, table, buf, current>>

Flush(t, s, rest) ==
  LET f == Base(t, s) IN
  /\ IF uh_ok(t, s) /\ f.mod
     THEN /\ disk' \in Written(f, [disk EXCEPT ![f.d][f.name] = f.data])
          /\ entry' = [Outdated(entry, f.d, {f.name}, user[t][s].e)
                         EXCEPT ![user[t][s].e].mod = FALSE]
     ELSE UNCHANGED <<disk, entry>>
  /\ Proceed(t, IF uh_ok(t, s) THEN rest ELSE Unwind(t))
  /\ UNCHANGED <<table, user, buf, current>>

\* the base handle is disconnected: every opener of the file loses it
DeleteFile(t, s, rest) ==
  LET f == Base(t, s) IN
  /\ IF uh_ok(t, s)
     THEN /\ disk' \in Written(f, [disk EXCEPT ![f.d][f.name] = Absent])
          /\ entry' = [Outdated(entry, f.d, {f.name}, user[t][s].e)
                         EXCEPT ![user[t][s].e] = Disconnected(f)]
     ELSE UNCHANGED <<disk, entry>>
  /\ Proceed(t, rest)
  /\ UNCHANGED <<table, user, buf, current>>

\* A file of the new name is deleted first, through a handle of its own, even
\* if it is the same file; the table keeps the old name.
Rename(t, s, name, failed, rest) ==
  LET f == Base(t, s)
      g == [f EXCEPT !.stale = @ \/ (f.name = name /\ disk[f.d][name] # Absent)]
  IN
  /\ IF uh_ok(t, s)
     THEN LET gone == [disk EXCEPT ![f.d][name] = Absent]
              new  == [gone EXCEPT ![f.d][f.name] = Absent, ![f.d][name] = f.data]
          IN /\ disk' \in IF g.stale THEN {gone, new} ELSE {new}
             /\ entry' = [Outdated(entry, f.d, {f.name, name}, user[t][s].e)
                            EXCEPT ![user[t][s].e] =
                              [g EXCEPT !.name = name, !.mod = FALSE]]
             /\ Proceed(t, rest)
     ELSE Proceed(t, failed) /\ UNCHANGED <<disk, entry>>
  /\ UNCHANGED <<table, user, buf, current>>

(***************************************************************************)
(* ~ThreadedFileHandle(): with the last one of an OpenFile its weak_ptr    *)
(* expires; its destructor, and the flush in it, come after that.          *)
(***************************************************************************)
Close_Gone(t, s, rest) ==  \* mutant: any close empties the table
  LET e    == user[t][s].e
      last == Refs(e) = {<<t, s>>}
  IN
  /\ user' = [user EXCEPT ![t][s] = None]
  /\ table' = [k \in DOMAIN table |-> IF table[k] = e THEN Expired ELSE table[k]]
  /\ Proceed(t, IF last THEN <<Call("destroy", e)>> \o rest ELSE rest)
  /\ UNCHANGED <<disk, entry, buf, current>>

Close_First(t, s, rest) ==  \* mutant: the first close destroys the file
  LET e == user[t][s].e IN
  /\ user' = [user EXCEPT ![t][s] = None]
  /\ table' = [k \in DOMAIN table |-> IF table[k] = e THEN Expired ELSE table[k]]
  /\ Proceed(t, <<Call("destroy", e)>> \o rest)
  /\ UNCHANGED <<disk, entry, buf, current>>

Close(t, s, rest) ==
  LET e    == user[t][s].e
      last == Refs(e) = {<<t, s>>}
  IN
  /\ user' = [user EXCEPT ![t][s] = None]
  /\ table' = [k \in DOMAIN table |->
                 IF last /\ table[k] = e THEN Expired ELSE table[k]]
  /\ Proceed(t, IF last THEN <<Call("destroy", e)>> \o rest ELSE rest)
  /\ UNCHANGED <<disk, entry, buf, current>>

Destroy(t, e, rest) ==
  LET f == entry[e] IN
  /\ disk' \in IF f.fs /\ f.mod
               THEN Written(f, [disk EXCEPT ![f.d][f.name] = f.data]) ELSE {disk}
  /\ entry' = [IF f.fs /\ f.mod THEN Outdated(entry, f.d, {f.name}, e) ELSE entry
                 EXCEPT ![e] = None]
  /\ Proceed(t, rest)
  /\ UNCHANGED <<table, user, buf, current>>

(***************************************************************************)
(* The server's calls without a handle, each under m_mutex.                *)
(***************************************************************************)
\* create() of a drive, whatever is open on it
Create(t, d, rest) ==
  /\ disk' = [disk EXCEPT ![d] = [n \in FileNames |-> Absent]]
  /\ Proceed(t, rest)
  /\ UNCHANGED <<entry, table, user, buf, current>>

SetCurrentDrive(t, d, rest) ==
  /\ current' = d
  /\ Proceed(t, rest)
  /\ UNCHANGED <<disk, entry, table, user, buf>>

\* the drives erase their deleted inodes, and the table its expired entries
Cleanup(t, rest) ==
  /\ table' = [k \in DOMAIN table |-> IF table[k] = Expired THEN None ELSE table[k]]
  /\ Proceed(t, rest)
  /\ UNCHANGED <<disk, entry, user, buf, current>>

(***************************************************************************)
(* The commands of FilesystemCommands.cc.  ls, pwd and help change nothing. *)
(***************************************************************************)
Cat(src)   == <<OpenAs(1, src, {}), Call("drain", 1), Call("close", 1)>>
Remove(src) == <<OpenAs(1, src, {}), Call("delete", 1), Call("close", 1)>>
Touch(dst) == <<OpenAs(1, dst, {"out", "app"}), Call("flush", 1), Call("close", 1)>>
Copy(src, dst) ==
  <<OpenAs(1, src, {}), OpenAs(2, dst, {"out"}), Call("pump", 1),
    Call("flush", 2), Call("close", 2), Call("close", 1)>>
Move(src, dst) ==
  <<OpenAs(3, src, {}), [Call("rename", 3) EXCEPT !.p = <<src, dst>>],
    Call("close", 3)>>

\* rename_file() failed, the handle was disconnected
CopyAndRemove(src, dst) == Copy(src, dst) \o Remove(src)

Do(t, c, rest) ==
  \/ c.op = "open"    /\ Open(t, c.s, c.p, c.mode, rest)
  \/ c.op = "drain"   /\ Read(t, c.s, <<c>> \o rest, rest)
  \/ c.op = "pump"    /\ Read(t, c.s, <<Call("put", 2), c>> \o rest, rest)
  \/ c.op = "put"     /\ Write(t, c.s, buf[t], rest)
  \/ c.op = "flush"   /\ Flush(t, c.s, rest)
  \/ c.op = "delete"  /\ DeleteFile(t, c.s, rest)
  \/ c.op = "rename"  /\ Rename(t, c.s, Resolve(c.p[2]),
                                CopyAndRemove(c.p[1], c.p[2]) \o rest, rest)
  \/ c.op = "close"   /\ Close(t, c.s, rest)
  \/ c.op = "destroy" /\ Destroy(t, c.s, rest)

Work(t) == script[t] # <<>> /\ Do(t, Head(script[t]), Tail(script[t]))

Idle(t) == script[t] = <<>> /\ \A s \in Slots : user[t][s] = None

Begin(t) ==
  /\ Idle(t) /\ t \notin Keepers
  /\ \/ \E src \in Typed :
          \/ "cat"   \in Commands /\ Proceed(t, Cat(src))
          \/ "rm"    \in Commands /\ Proceed(t, Remove(src))
          \/ "touch" \in Commands /\ Proceed(t, Touch(src))
          \/ \E dst \in Typed :
               \/ "cp" \in Commands /\ Proceed(t, Copy(src, dst))
               \/ "mv" \in Commands /\ Proceed(t, Move(src, dst))
  /\ UNCHANGED <<disk, entry, table, user, buf, current>>

\* the commands that are one call of the server
Short(t) ==
  /\ Idle(t) /\ t \notin Keepers
  /\ \/ "cleanup" \in Commands /\ Cleanup(t, <<>>)
     \/ \E d \in Drives :
          \/ "format" \in Commands /\ Create(t, d, <<>>)
          \/ "cd" \in Commands /\ SetCurrentDrive(t, d, <<>>)

\* a caller of the library that keeps a handle; read(), flush() and
\* delete_file() come with the commands
Keep(t) ==
  /\ Idle(t) /\ t \in Keepers
  /\ \E p \in Typed, mode \in Modes : Open(t, 1, p, mode, <<>>)

Use(t) ==
  /\ t \in Keepers /\ script[t] = <<>> /\ user[t][1] # None
  /\ \/ "write" \in Uses /\ \E b \in Bytes : Write(t, 1, b, <<>>)
     \/ "seek"  \in Uses /\ \E p \in 0 .. MaxLen : Seek(t, 1, p, <<>>)
     \/ "truncate" \in Uses /\ \E n \in 0 .. MaxLen : Truncate(t, 1, n, <<>>)
     \/ Close(t, 1, <<>>)

Init ==
  /\ disk \in [Drives -> {[n \in FileNames |-> IF n \in Names THEN x ELSE Absent] :
                            x \in {Absent} \cup [1 .. 1 -> Bytes]}]
  /\ entry = [e \in Entries |-> None]
  /\ table = [k \in Paths |-> None]
  /\ user = [t \in Threads |-> [s \in Slots |-> None]]
  /\ script = [t \in Threads |-> <<>>]
  /\ buf = [t \in Threads |-> Nothing]
  /\ current = None

Next == \E t \in Threads : Work(t) \/ Begin(t) \/ Short(t) \/ Keep(t) \/ Use(t)

Spec == Init /\ [][Next]_vars

\* every thread that runs a command gets to its next call; a thread that keeps
\* a handle may do nothing with it for ever
FairSpec == Spec /\ \A t \in Threads \ Keepers : WF_vars(Work(t))

(***************************************************************************)
(* Properties.                                                             *)
(***************************************************************************)
TypeOK ==
  /\ disk \in [Drives -> [FileNames -> Content \cup {Absent}]]
  /\ entry \in [Entries -> BaseHandle \cup {None}]
  /\ table \in [Paths -> Entries \cup {None, Expired}]
  /\ \A t \in Threads, s \in Slots :
       user[t][s] # None => entry[user[t][s].e] # None
  /\ buf \in [Threads -> Bytes \cup {Nothing}]
  /\ current \in Drives \cup {None}

\* Whoever has a file open shares it: of the base handles of a file, all but
\* one wait for their destruction (VfsServer.cc open(), m_open_files).
OneLiveHandle ==
  \A d \in Drives, n \in Names :
    \A x, y \in Holders(d, n) : Live(x) /\ Live(y) => x = y

\* A modified base handle whose file another one has changed meanwhile, and
\* one of the two updates is lost, was opened while that other one was being
\* destroyed: there is no other way around the table.
UpdatesLostOnlyByRace ==
  \A e \in Entries :
    entry[e] # None /\ entry[e].fs /\ entry[e].stale /\ entry[e].mod
    /\ entry[e].name \in Names
      => entry[e].late \/ Dying(e)

\* cat and cp read a file byte after byte, whatever the other openers do with
\* the position of the handle they share (ThreadedFileHandle::read(), write()).
Reading(t) ==
  /\ script[t] # <<>> /\ Head(script[t]).op \in {"drain", "pump"}
  /\ user'[t] # user[t] \/ script'[t] # script[t]

CursorsIndependent ==
  [][\A t \in Threads :
       LET p == user[t][1].pos IN
       Reading(t) /\ uh_ok(t, 1) /\ p < Len(Base(t, 1).data)
         => /\ buf'[t] = Base(t, 1).data[p + 1]
            /\ user'[t][1].pos = p + 1]_vars

\* every command ends, whatever the others do with the file in between
\* (the loops of cat and cp)
CommandsReturn ==
  \A t \in Threads \ Keepers : script[t] # <<>> ~> script[t] = <<>>
=============================================================================
