------------------------------- MODULE TwoFace -------------------------------
(***************************************************************************)
(* H7TwoFace (src/src_2face/H7TwoFace.cc): the interface through which the *)
(* threads of a firmware reach the two flash file system of FlashSwap.     *)
(* Every call mounts it, and with that may swap the flashes, and every     *)
(* call but a successful open() unmounts it again; an open file keeps it   *)
(* mounted until the handle is destroyed.  The user's lock callback is     *)
(* taken to be a recursive mutex: only then can the test of fs_impl after  *)
(* it, which refuses a second instance, ever be true.                      *)
(*                                                                         *)
(* fs_impl.reset() is taken as in libstdc++: fs_impl counts as empty       *)
(* before the destructor runs.  The body of ~H7TwoFaceImpl() then gives    *)
(* the lock back, and only after it the members file and fs are destroyed: *)
(* until End() another thread may have the lock and find fs_impl empty.    *)
(* A second instance in the same storage is undefined behaviour, and the   *)
(* model stops there, with clash.                                          *)
(***************************************************************************)
EXTENDS FlashSwap

CONSTANTS
  Threads, NoThread,
  Ops,         \* the calls of this instance: "in", "out", "trunc" (open()),
               \* "look" (list_files() and get_stat()), "recreate", and
               \* "write", "flush", "delete", "rename" on the open file
  MaxIno,      \* bound: for each call, an inode number it starts below
  MaxLost      \* bound: constructors of H7TwoFaceImpl that throw

ASSUME ThreadAssumption == NoThread \notin Threads

VARIABLES
  lock,   \* the mutex behind lock_unlock_instance_cb
  inst,   \* the thread whose call engaged fs_impl
  dying,  \* the thread that still destroys the members of the last instance
  clash,  \* an instance was built over one that was still being destroyed
  lost,   \* history: holds on the lock that constructors left when they threw
  call    \* the running call of each thread

vars == <<valid, area, engaged, stat, maxIno, freeData, file, todo, files,
          lock, inst, dying, clash, lost, call>>

NoCall == [op |-> "none", n |-> NoName, in |-> FALSE]

Lock(t)   == lock' = [owner |-> t, depth |-> lock.depth + 1]
UnlockOnce == lock' = IF lock.depth = 1 THEN [owner |-> NoThread, depth |-> 0]
                      ELSE [lock EXCEPT !.depth = @ - 1]

\* the bounds: a call does not start once an inode number reaches its MaxIno,
\* nor on flashes in use once a constructor has thrown; with nothing left to
\* do the behaviour ends
WithinBounds(op) ==
  \A c \in Flashes : HighestIno(c) < IF lost = 0 THEN MaxIno[op] ELSE 1

Terminating ==
  /\ \/ clash
     \/ inst = NoThread /\ \A op \in DOMAIN MaxIno : ~WithinBounds(op)
  /\ UNCHANGED vars

\* lock_unlock_instance_cb( true ) at the start of every call
Enter(t, op, n) ==
  /\ call[t] = NoCall /\ dying # t
  /\ op \in Ops
  /\ todo = <<>>
  /\ inst = t => op = "look"   \* bound: it will be refused, whatever it is
  /\ lock.owner \in {t, NoThread}
  /\ WithinBounds(op)
  /\ Lock(t)
  /\ call' = [call EXCEPT ![t] = [op |-> op, n |-> n, in |-> FALSE]]
  /\ UNCHANGED <<swapVars, inst, dying, clash, lost>>

\* an other instance is already open
Refuse_Locked(t) ==  \* mutant: the lock is not given back
  /\ call[t] # NoCall /\ ~call[t].in
  /\ inst # NoThread
  /\ call' = [call EXCEPT ![t] = NoCall]
  /\ UNCHANGED <<swapVars, inst, lock, dying, clash, lost>>

Refuse(t) ==
  /\ call[t] # NoCall /\ ~call[t].in
  /\ inst # NoThread
  /\ UnlockOnce
  /\ call' = [call EXCEPT ![t] = NoCall]
  /\ UNCHANGED <<swapVars, inst, dying, clash, lost>>

\* fs_impl.emplace(): init(), or recreate() without it
Mount(t) ==
  /\ call[t] # NoCall /\ ~call[t].in
  /\ inst = NoThread /\ dying = NoThread
  /\ inst' = t
  /\ call' = [call EXCEPT ![t].in = TRUE]
  /\ todo' = IF call[t].op = "recreate" THEN CreateBoth ELSE <<Do("pick", 0)>>
  /\ files' = IF call[t].op = "recreate" THEN [n \in Names |-> Absent] ELSE files
  /\ UNCHANGED <<flash, mount, file, lock, dying, clash, lost>>

\* the same emplace() when the last instance is not gone yet
Clash(t) ==
  /\ call[t] # NoCall /\ ~call[t].in
  /\ inst = NoThread /\ dying # NoThread
  /\ clash' = TRUE
  /\ UNCHANGED <<swapVars, lock, inst, dying, lost, call>>

\* On the first mount of all init() fails when create() cannot write a
\* header: the constructor throws, fs_impl stays empty, and nobody gives the
\* lock back.
MountThrows(t) ==
  /\ inst = t /\ call[t].in /\ call[t].op # "recreate"
  /\ Doing("recreateHeader")
  /\ lost < MaxLost
  /\ Unmounted
  /\ todo' = <<>>
  /\ inst' = NoThread
  /\ call' = [call EXCEPT ![t] = NoCall]
  /\ lost' = lost + 1
  /\ UNCHANGED <<flash, files, lock, dying, clash>>

\* fs_impl.reset() up to the end of the body of ~H7TwoFaceImpl().  Nothing
\* reads what the members hold any more, so it is forgotten here.
Release ==
  /\ Unmounted
  /\ inst' = NoThread
  /\ UnlockOnce
  /\ dying' = inst

\* the members are destroyed
End(t) ==
  /\ dying = t
  /\ dying' = NoThread
  /\ UNCHANGED <<swapVars, lock, inst, clash, lost, call>>

\* a few inode pages are kept for deleting something and for the markers
RoomFor(mode) ==
  \/ mode = "trunc" /\ stat.free > 2
  \/ mode = "in"
  \/ stat.free > 3

ServeOpen(t) ==
  LET op == call[t].op
      f  == Opened(call[t].n, op)
  IN
  /\ inst = t /\ call[t].in /\ todo = <<>>
  /\ op \in {"in", "out", "trunc"}
  /\ IF RoomFor(op) /\ f # NoFile
     THEN file' = f /\ UNCHANGED <<mount, inst, lock, dying>>
     ELSE Release
  /\ call' = [call EXCEPT ![t] = NoCall]
  /\ UNCHANGED <<flash, todo, files, clash, lost>>

ServeOther(t) ==
  /\ inst = t /\ call[t].in /\ todo = <<>>
  /\ call[t].op \in {"look", "recreate"}
  /\ Release
  /\ call' = [call EXCEPT ![t] = NoCall]
  /\ UNCHANGED <<flash, todo, files, clash, lost>>

\* the handle is destroyed: file.reset() has flushed it, the instance goes
Closed ==
  /\ Doing("close")
  /\ Release
  /\ Then(<<>>)
  /\ UNCHANGED <<flash, files, clash, lost, call>>

\* the calls on the open file, by the thread that opened it
Use(t) ==
  /\ inst = t /\ call[t] = NoCall
  /\ \/ "write" \in Ops /\ \E v \in Vals : Write(v)
     \/ "flush" \in Ops /\ Flush
     \/ "delete" \in Ops /\ Delete
     \/ "rename" \in Ops /\ \E n \in Names : Rename(n)
     \/ Close
  /\ UNCHANGED <<lock, inst, dying, clash, lost, call>>

Work(t) ==
  /\ inst = t
  /\ SwapTask
  /\ UNCHANGED <<lock, inst, dying, clash, lost, call>>

\* with nothing mounted and nothing lost it would change nothing
Crash ==
  /\ engaged # {} \/ todo # <<>> \/ lost > 0
  /\ PowerLoss
  /\ lock' = [owner |-> NoThread, depth |-> 0]
  /\ inst' = NoThread
  /\ dying' = NoThread
  /\ lost' = 0
  /\ call' = [t \in Threads |-> NoCall]
  /\ UNCHANGED clash

Init ==
  /\ SwapInit
  /\ lock = [owner |-> NoThread, depth |-> 0]
  /\ inst = NoThread
  /\ dying = NoThread
  /\ clash = FALSE
  /\ lost = 0
  /\ call = [t \in Threads |-> NoCall]

Opens == {"in", "out", "trunc"}

Step(t) ==
  \/ Refuse(t) \/ Mount(t) \/ Clash(t) \/ MountThrows(t)
  \/ ServeOpen(t) \/ ServeOther(t) \/ Work(t) \/ End(t)
  \/ inst = t /\ Closed

Next ==
  \/ /\ ~clash
     /\ \/ \E t \in Threads :
             \/ \E op \in Opens, n \in Names : Enter(t, op, n)
             \/ \E op \in {"look", "recreate"} : Enter(t, op, NoName)
             \/ Use(t)
             \/ Step(t)
        \/ Crash
  \/ Terminating

Spec == Init /\ [][Next]_vars

(***************************************************************************)
(* Properties.                                                             *)
(***************************************************************************)
Idle == todo = <<>> /\ inst # NoThread /\ engaged # {}

\* Whatever was mounted shows the files as they were last committed: the
\* markers never lead a mount to the wrong flash, and a swap loses and
\* resurrects nothing (SimpleFlashFs2FlashPages.h init_fs(), cleanup()).
MountFindsFiles == Idle => View(Active) = files

\* The mutex is held exactly as often as fs_impl holds an instance, a call is
\* at the lock, and a constructor has thrown: no path of a call gives it back
\* twice, gives back another thread's, or forgets to, but for the exception
\* of a first mount that fails (H7TwoFace.cc open(), list_files(),
\* get_stat(), recreate(), AutoFreeFs, H7TwoFaceImpl, ~H7TwoFaceImpl()).
Entered(t) == call[t] # NoCall /\ ~call[t].in

LockBalanced ==
  /\ inst \in {NoThread, lock.owner}
  /\ \A t \in Threads : call[t] # NoCall => t = lock.owner
  /\ lock.depth = (IF inst = NoThread THEN 0 ELSE 1)
                  + (IF \E t \in Threads : Entered(t) THEN 1 ELSE 0)
                  + lost
=============================================================================
