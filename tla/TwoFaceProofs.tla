--------------------------- MODULE TwoFaceProofs ---------------------------
(***************************************************************************)
(* Two theorems, for every number of threads, flash size, set of names and *)
(* of calls.                                                               *)
(*                                                                         *)
(* No path of an H7TwoFace call gives the lock back twice, gives back      *)
(* another thread's, or forgets to, but for the exception of a first mount *)
(* that fails: LockBalanced.  What makes it inductive is where the calls   *)
(* and the tasks of the file system meet: a call that has mounted the file *)
(* system is the call of the thread that owns the instance, a call that    *)
(* waits at the lock finds no task under way, and the task that destroys   *)
(* the handle is there only when no call is.                               *)
(*                                                                         *)
(* Every mount finds the files that were last committed: MountFindsFiles.  *)
(* SwapInv says of each task what the flashes look like before it, so that *)
(* a power loss leaves markers that lead to a flash with the files; the    *)
(* rest of it is what the markers and the copies rest on: a marker never   *)
(* shares its inode with a file, files do not share data pages, and the    *)
(* target of a copy has a page left for every file of the source.          *)
(***************************************************************************)
EXTENDS TwoFace, WellFoundedInduction, FiniteSetTheorems, TLAPS

NoClose(s) == \A i \in 1 .. Len(s) : s[i].t # "close"
NoCalls    == \A t \in Threads : call[t] = NoCall

\* a task, whatever its operands
Kinds == {"pick", "seal", "erase", "header", "copy", "complete",
          "recreateErase", "recreateHeader", "unlink", "commit", "close"}
AnyTask == [t : Kinds, c : Int, n : Names \cup {NoName}]

Mutex == [owner : Threads \cup {NoThread}, depth : Nat]
Calls == [op : Ops \cup {"none"}, n : Names \cup {NoName}, in : BOOLEAN]

LockTypes ==
  /\ lock \in Mutex
  /\ inst \in Threads \cup {NoThread}
  /\ dying \in Threads \cup {NoThread}
  /\ lost \in Nat
  /\ call \in [Threads -> Calls]
  /\ todo \in Seq(AnyTask)

MountedByOwner == \A t \in Threads : call[t].in => inst = t
TasksAfterLock == todo # <<>> => \A t \in Threads : ~Entered(t)
ClosedAlone    == ~NoClose(todo) => NoCalls

LockInv ==
  /\ LockTypes
  /\ LockBalanced
  /\ MountedByOwner
  /\ TasksAfterLock
  /\ ClosedAlone

(***************************************************************************)
(* What the tasks may leave to do.                                         *)
(***************************************************************************)

\* What Then() puts before the rest of the list keeps it a list of tasks, and
\* adds a "close" only if the new tasks have one.
LEMMA ThenKeeps ==
  ASSUME NEW s \in Seq(AnyTask), NoClose(s), todo \in Seq(AnyTask), todo # <<>>, Then(s)
  PROVE  todo' \in Seq(AnyTask) /\ (NoClose(todo) => NoClose(todo'))
<1>1. todo' = s \o Tail(todo)
  BY DEF Then
<1>2. Tail(todo) \in Seq(AnyTask) /\ Len(Tail(todo)) = Len(todo) - 1
  OBVIOUS
<1>3. todo' \in Seq(AnyTask)
  BY <1>1, <1>2
<1>4. ASSUME NoClose(todo), NEW i \in 1 .. Len(todo')
      PROVE  todo'[i].t # "close"
  <2>1. Len(todo') = Len(s) + Len(todo) - 1
    BY <1>1, <1>2
  <2>2. CASE i <= Len(s)
    <3>1. todo'[i] = s[i] /\ i \in 1 .. Len(s)
      BY <1>1, <1>2, <2>2
    <3> QED BY <3>1 DEF NoClose
  <2>3. CASE i > Len(s)
    <3>1. todo'[i] = Tail(todo)[i - Len(s)]
      BY <1>1, <1>2, <2>3, <2>1
    <3>2. Tail(todo)[i - Len(s)] = todo[i - Len(s) + 1]
      BY <2>1, <2>3
    <3>3. i - Len(s) + 1 \in 1 .. Len(todo)
      BY <2>1, <2>3
    <3> QED BY <3>1, <3>2, <3>3, <1>4 DEF NoClose
  <2> QED BY <2>2, <2>3
<1> QED BY <1>3, <1>4 DEF NoClose

\* The lists of tasks that do not ask for that.
LEMMA ShortLists ==
  ASSUME NEW a \in AnyTask, NEW b \in AnyTask, NEW c \in AnyTask,
         NEW d \in AnyTask, NEW e \in AnyTask,
         a.t # "close", b.t # "close", c.t # "close", d.t # "close", e.t # "close"
  PROVE  /\ <<a>> \in Seq(AnyTask) /\ NoClose(<<a>>)
         /\ <<a, b, c, d>> \in Seq(AnyTask) /\ NoClose(<<a, b, c, d>>)
         /\ <<a, b, c, d, e>> \in Seq(AnyTask) /\ NoClose(<<a, b, c, d, e>>)
BY DEF NoClose

LEMMA CreateBothIsFine == CreateBoth \in Seq(AnyTask) /\ NoClose(CreateBoth)
<1> DEFINE a == Do("recreateErase", 1)
           b == Do("recreateHeader", 1)
           c == Do("recreateErase", 2)
           d == Do("recreateHeader", 2)
           e == Do("pick", 0)
<1>1. /\ {a, b, c, d, e} \subseteq AnyTask
      /\ a.t # "close" /\ b.t # "close" /\ c.t # "close"
      /\ d.t # "close" /\ e.t # "close"
  BY DEF Do, AnyTask, Kinds
<1>2. CreateBoth = <<a, b, c, d, e>>
  BY DEF CreateBoth
<1> HIDE DEF a, b, c, d, e
<1> QED BY <1>1, <1>2, ShortLists

\* No task of the file system asks for the handle to be destroyed.
LEMMA TasksKeepTodo ==
  ASSUME todo \in Seq(AnyTask), SwapTask
  PROVE  todo' \in Seq(AnyTask) /\ (NoClose(todo) => NoClose(todo')) /\ todo # <<>>
<1>0. todo # <<>>
  BY DEF SwapTask, Pick, Seal, Erase, Header, CopyFile, Complete, Unlink, Commit,
         Doing
<1>1. On \in Int
  <2>1. Head(todo) \in AnyTask
    BY <1>0
  <2> QED BY <2>1 DEF On, AnyTask
<1>2. <<>> \in Seq(AnyTask) /\ NoClose(<<>>)
  BY DEF NoClose
<1>3. ASSUME NEW a \in AnyTask, a.t # "close"
      PROVE  <<a>> \in Seq(AnyTask) /\ NoClose(<<a>>)
  BY <1>3, ShortLists
<1>4. CASE Pick
  <2>1. Choice \in Int \/ \A d \in Flashes : ~valid[d]
    BY DEF Choice, ByMarkers, Flashes
  <2>2. CreateBoth \in Seq(AnyTask) /\ NoClose(CreateBoth)
    BY CreateBothIsFine
  <2>3. Then(CreateBoth) \/ Then(<<>>)
        \/ (Choice \in Int /\ Then(<<Do("seal", Choice)>>))
    BY <1>4, <2>1 DEF Pick
  <2>4. CASE Then(CreateBoth)
    BY <2>2, <2>4, <1>0, ThenKeeps
  <2>5. CASE Then(<<>>)
    BY <2>5, <1>0, <1>2, ThenKeeps
  <2>6. CASE Choice \in Int /\ Then(<<Do("seal", Choice)>>)
    <3>1. <<Do("seal", Choice)>> \in Seq(AnyTask) /\ NoClose(<<Do("seal", Choice)>>)
      <4>1. Do("seal", Choice) \in AnyTask /\ Do("seal", Choice).t # "close"
        BY <2>6 DEF Do, AnyTask, Kinds
      <4> HIDE DEF Do
      <4> QED BY <4>1, <1>3
    <3> QED BY <3>1, <2>6, <1>0, ThenKeeps
  <2> QED BY <2>3, <2>4, <2>5, <2>6
<1>5. CASE Seal
  <2> DEFINE swap == <<Do("erase", Other(On)), Do("header", Other(On)),
                       Do("copy", Other(On)), Do("complete", Other(On))>>
  <2>1. Other(On) \in Int
    BY <1>1 DEF Other
  <2>2. swap \in Seq(AnyTask) /\ NoClose(swap)
    <3> DEFINE a == Do("erase", Other(On))
               b == Do("header", Other(On))
               c == Do("copy", Other(On))
               d == Do("complete", Other(On))
    <3>1. /\ {a, b, c, d} \subseteq AnyTask
          /\ a.t # "close" /\ b.t # "close" /\ c.t # "close" /\ d.t # "close"
      BY <2>1 DEF Do, AnyTask, Kinds
    <3>2. swap = <<a, b, c, d>>
      OBVIOUS
    <3> HIDE DEF a, b, c, d, swap
    <3> QED BY <3>1, <3>2, ShortLists
  <2>3. Then(swap) \/ Then(<<>>)
    BY <1>5 DEF Seal
  <2> HIDE DEF swap
  <2> QED BY <2>2, <2>3, <1>0, <1>2, ThenKeeps
<1>6. CASE Erase \/ Header \/ Complete
  <2>1. Then(<<>>)
    BY <1>6 DEF Erase, Header, Complete
  <2> QED BY <2>1, <1>0, <1>2, ThenKeeps
<1>7. CASE CopyFile
  <2>1. Then(<<>>) \/ todo' = todo
    BY <1>7 DEF CopyFile
  <2> QED BY <2>1, <1>0, <1>2, ThenKeeps
<1>8. CASE Unlink \/ Commit
  <2>1. Then(<<>>) \/ Then(<<Do("commit", 0)>>)
    BY <1>8 DEF Unlink, Commit
  <2>2. Do("commit", 0) \in AnyTask /\ Do("commit", 0).t # "close"
    BY DEF Do, AnyTask, Kinds
  <2>3. <<Do("commit", 0)>> \in Seq(AnyTask) /\ NoClose(<<Do("commit", 0)>>)
    BY <2>2, <1>3
  <2>4. CASE Then(<<Do("commit", 0)>>)
    BY <2>3, <2>4, <1>0, ThenKeeps
  <2>5. CASE Then(<<>>)
    BY <2>5, <1>0, <1>2, ThenKeeps
  <2> QED BY <2>1, <2>4, <2>5
<1> QED BY <1>0, <1>4, <1>5, <1>6, <1>7, <1>8 DEF SwapTask

(***************************************************************************)
(* The steps.                                                              *)
(***************************************************************************)

\* Nobody waits at the lock or has mounted when no thread has a call.
LEMMA LockInvHolds ==
  ASSUME Init
  PROVE  LockInv
<1>1. call = [t \in Threads |-> NoCall] /\ inst = NoThread /\ todo = <<>>
      /\ lock = [owner |-> NoThread, depth |-> 0]
      /\ dying = NoThread /\ lost = 0
  BY DEF Init, SwapInit
<1>2. LockTypes
  BY <1>1 DEF LockTypes, Mutex, Calls, NoCall
<1>3. LockBalanced
  BY <1>1 DEF LockBalanced, Entered
<1>4. MountedByOwner /\ TasksAfterLock /\ ClosedAlone
  BY <1>1 DEF MountedByOwner, TasksAfterLock, ClosedAlone, NoClose, NoCall
<1> QED BY <1>2, <1>3, <1>4 DEF LockInv

\* Only the owner of the lock has a call.
LEMMA OnlyOwnerCalls ==
  ASSUME LockInv, NEW t \in Threads, call[t] # NoCall \/ inst = t,
         NEW u \in Threads, u # t
  PROVE  call[u] = NoCall
BY ThreadAssumption DEF LockInv, LockBalanced, LockTypes

\* With no call under way all three conditions on the calls hold.
LEMMA NoCallsKeep ==
  ASSUME \A u \in Threads : call'[u] = NoCall
  PROVE  MountedByOwner' /\ TasksAfterLock' /\ ClosedAlone'
<1>1. NoCalls'
  BY DEF NoCalls
<1>2. ClosedAlone'
  BY <1>1 DEF ClosedAlone
<1>3. NoCall.in = FALSE
  BY DEF NoCall
<1>4. TasksAfterLock'
  BY DEF TasksAfterLock, Entered
<1>5. MountedByOwner'
  BY <1>3 DEF MountedByOwner
<1> QED BY <1>2, <1>4, <1>5

LEMMA EnterKeeps ==
  ASSUME LockInv, NEW t \in Threads, NEW op \in Opens \cup {"look", "recreate"},
         NEW n \in Names \cup {NoName}, Enter(t, op, n)
  PROVE  LockInv'
<1> DEFINE new == [op |-> op, n |-> n, in |-> FALSE]
<1>1. /\ call[t] = NoCall /\ todo = <<>> /\ todo' = todo /\ inst' = inst
      /\ lock.owner \in {t, NoThread}
      /\ lock' = [owner |-> t, depth |-> lock.depth + 1]
      /\ call' = [call EXCEPT ![t] = new]
      /\ op \in Ops /\ UNCHANGED <<dying, lost>>
  BY DEF Enter, Lock, swapVars
<1>2. new \in Calls /\ new # NoCall
  BY <1>1 DEF Calls, NoCall, Opens
<1>3. \A u \in Threads : call[u] = NoCall
  BY <1>1, ThreadAssumption DEF LockInv, LockBalanced
<1>4. \A u \in Threads : call'[u] = IF u = t THEN new ELSE NoCall
  BY <1>1, <1>3 DEF LockInv, LockTypes
<1>5. lock.depth = (IF inst = NoThread THEN 0 ELSE 1) + lost /\ inst \in {NoThread, t}
  BY <1>1, <1>3 DEF LockInv, LockTypes, LockBalanced, Entered
<1> HIDE DEF new
<1>6. LockTypes'
  BY <1>1, <1>2 DEF LockInv, LockTypes, Mutex
<1>7. Entered(t)'
  BY <1>2, <1>4 DEF Entered, new
<1>8. LockBalanced'
  BY <1>1, <1>2, <1>4, <1>5, <1>7 DEF LockInv, LockTypes, LockBalanced
<1>9. MountedByOwner' /\ TasksAfterLock' /\ ClosedAlone'
  BY <1>1, <1>4 DEF MountedByOwner, TasksAfterLock, ClosedAlone, NoClose, NoCall, new
<1> QED BY <1>6, <1>8, <1>9 DEF LockInv

\* A call that is refused at the lock gives its own hold on it back.
LEMMA RefuseKeeps ==
  ASSUME LockInv, NEW t \in Threads, Refuse(t)
  PROVE  LockInv'
<1>1. /\ call[t] # NoCall /\ ~call[t].in /\ inst # NoThread
      /\ todo' = todo /\ inst' = inst /\ UnlockOnce
      /\ call' = [call EXCEPT ![t] = NoCall] /\ UNCHANGED <<dying, lost>>
  BY DEF Refuse, swapVars
<1>2. Entered(t)
  BY <1>1 DEF Entered
<1>3. lock.owner = t /\ inst = t /\ lock.depth = 2 + lost /\ lost \in Nat
  BY <1>1, <1>2 DEF LockInv, LockTypes, LockBalanced
<1>4. lock' = [lock EXCEPT !.depth = @ - 1]
  BY <1>1, <1>3 DEF UnlockOnce
<1>5. lock'.owner = t /\ lock'.depth = 1 + lost /\ lock' \in Mutex
  BY <1>3, <1>4 DEF LockInv, LockTypes, Mutex
<1>6. \A u \in Threads : call'[u] = NoCall
  BY <1>1, OnlyOwnerCalls DEF LockInv, LockTypes
<1>7. LockTypes'
  BY <1>1, <1>5 DEF LockInv, LockTypes, Calls, NoCall
<1>8. LockBalanced'
  BY <1>1, <1>3, <1>5, <1>6 DEF LockBalanced, Entered
<1>9. MountedByOwner' /\ TasksAfterLock' /\ ClosedAlone'
  BY <1>6, NoCallsKeep
<1> QED BY <1>7, <1>8, <1>9 DEF LockInv

\* The hold of the instance goes with the body of its destructor.
LEMMA ReleaseKeeps ==
  ASSUME LockInv, NEW t \in Threads, inst = t, ~Entered(t), Release,
         \A u \in Threads : call'[u] = NoCall, call' \in [Threads -> Calls],
         todo' \in Seq(AnyTask), lost' = lost
  PROVE  LockInv'
<1>1. inst' = NoThread /\ UnlockOnce /\ dying' = t
  BY DEF Release
<1>2. \A u \in Threads : ~Entered(u)
  BY OnlyOwnerCalls DEF Entered
<1>3. lock.depth = 1 + lost /\ lost \in Nat /\ lock \in Mutex
  BY <1>2, ThreadAssumption DEF LockInv, LockTypes, LockBalanced
<1>4. lock'.depth = lost /\ lock' \in Mutex
  BY <1>1, <1>3 DEF UnlockOnce, Mutex
<1>5. LockTypes'
  BY <1>1, <1>3, <1>4 DEF LockInv, LockTypes
<1>6. LockBalanced'
  BY <1>1, <1>3, <1>4 DEF LockBalanced, Entered
<1>7. MountedByOwner' /\ TasksAfterLock' /\ ClosedAlone'
  BY NoCallsKeep
<1> QED BY <1>5, <1>6, <1>7 DEF LockInv

LEMMA MountKeeps ==
  ASSUME LockInv, NEW t \in Threads, Mount(t)
  PROVE  LockInv'
<1>1. /\ call[t] # NoCall /\ ~call[t].in /\ inst = NoThread /\ inst' = t
      /\ lock' = lock /\ call' = [call EXCEPT ![t].in = TRUE]
      /\ todo' = CreateBoth \/ todo' = <<Do("pick", 0)>>
      /\ UNCHANGED <<dying, lost>>
  BY DEF Mount
<1>2. Entered(t)
  BY <1>1 DEF Entered
<1>3. lock.owner = t /\ lock.depth = 1 + lost /\ lost \in Nat
  BY <1>1, <1>2 DEF LockInv, LockTypes, LockBalanced
<1>4. \A u \in Threads : u # t => call[u] = NoCall /\ call'[u] = NoCall
  BY <1>1, OnlyOwnerCalls DEF LockInv, LockTypes
<1>5. call'[t].in /\ call' \in [Threads -> Calls]
  BY <1>1 DEF LockInv, LockTypes, Calls
<1>6. \A u \in Threads : ~Entered(u)'
  BY <1>4, <1>5 DEF Entered
<1>7. todo' \in Seq(AnyTask) /\ NoClose(todo')
  <2>1. CASE todo' = CreateBoth
    BY <2>1, CreateBothIsFine
  <2>2. CASE todo' = <<Do("pick", 0)>>
    <3>1. Do("pick", 0) \in AnyTask /\ Do("pick", 0).t # "close"
      BY DEF Do, AnyTask, Kinds
    <3> QED BY <2>2, <3>1, ShortLists
  <2> QED BY <1>1, <2>1, <2>2
<1>8. LockTypes'
  BY <1>1, <1>5, <1>7 DEF LockInv, LockTypes
<1>9. LockBalanced'
  BY <1>1, <1>3, <1>4, <1>6, ThreadAssumption DEF LockBalanced
<1>10. MountedByOwner' /\ TasksAfterLock' /\ ClosedAlone'
  BY <1>1, <1>4, <1>6, <1>7 DEF MountedByOwner, TasksAfterLock, ClosedAlone, NoCall
<1> QED BY <1>8, <1>9, <1>10 DEF LockInv

\* The hold of an instance that was never built is the one that is lost.
LEMMA MountThrowsKeeps ==
  ASSUME LockInv, NEW t \in Threads, MountThrows(t)
  PROVE  LockInv'
<1>1. /\ inst = t /\ inst' = NoThread /\ call[t].in /\ todo' = <<>>
      /\ call' = [call EXCEPT ![t] = NoCall] /\ lost' = lost + 1
      /\ UNCHANGED <<lock, dying>>
  BY DEF MountThrows
<1>2. \A u \in Threads : call'[u] = NoCall
  BY <1>1, OnlyOwnerCalls DEF LockInv, LockTypes
<1>3. \A u \in Threads : ~Entered(u)
  BY <1>1, OnlyOwnerCalls DEF Entered
<1>4. lock.depth = 1 + lost /\ lost \in Nat
  BY <1>1, <1>3, ThreadAssumption DEF LockInv, LockTypes, LockBalanced
<1>5. LockTypes'
  BY <1>1, <1>4 DEF LockInv, LockTypes, Calls, NoCall
<1>6. LockBalanced'
  BY <1>1, <1>2, <1>4 DEF LockBalanced, Entered
<1>7. MountedByOwner' /\ TasksAfterLock' /\ ClosedAlone'
  BY <1>2, NoCallsKeep
<1> QED BY <1>5, <1>6, <1>7 DEF LockInv

\* The last instance ends, or a new one is built over it: the lock is where
\* it was.
LEMMA LockStays ==
  ASSUME LockInv, UNCHANGED <<lock, inst, lost, call, todo>>,
         dying' \in Threads \cup {NoThread}
  PROVE  LockInv'
<1>1. LockTypes'
  BY DEF LockInv, LockTypes
<1>2. LockBalanced'
  BY DEF LockInv, LockBalanced, Entered
<1>3. MountedByOwner' /\ TasksAfterLock' /\ ClosedAlone'
  BY DEF LockInv, MountedByOwner, TasksAfterLock, ClosedAlone, NoClose, NoCalls, Entered
<1> QED BY <1>1, <1>2, <1>3 DEF LockInv

\* open() keeps the instance, and with it the lock, when it succeeds.
LEMMA ServeKeeps ==
  ASSUME LockInv, NEW t \in Threads, ServeOpen(t) \/ ServeOther(t)
  PROVE  LockInv'
<1>1. /\ inst = t /\ call[t].in /\ todo = <<>> /\ todo' = todo
      /\ call' = [call EXCEPT ![t] = NoCall]
      /\ Release \/ UNCHANGED <<inst, lock, dying>>
      /\ lost' = lost
  BY DEF ServeOpen, ServeOther
<1>2. \A u \in Threads : call'[u] = NoCall
  BY <1>1, OnlyOwnerCalls DEF LockInv, LockTypes
<1>3. call' \in [Threads -> Calls]
  BY <1>1 DEF LockInv, LockTypes, Calls, NoCall
<1>4. todo' \in Seq(AnyTask)
  BY <1>1
<1>5. \A u \in Threads : ~Entered(u)
  BY <1>1, OnlyOwnerCalls DEF Entered
<1>6. CASE Release
  BY <1>1, <1>2, <1>3, <1>4, <1>5, <1>6, ReleaseKeeps
<1>7. CASE UNCHANGED <<inst, lock, dying>>
  <2>1. LockTypes'
    BY <1>1, <1>3, <1>4, <1>7 DEF LockInv, LockTypes
  <2>2. LockBalanced'
    BY <1>1, <1>2, <1>5, <1>7 DEF LockInv, LockBalanced, Entered
  <2>3. MountedByOwner' /\ TasksAfterLock' /\ ClosedAlone'
    BY <1>2, NoCallsKeep
  <2> QED BY <2>1, <2>2, <2>3 DEF LockInv
<1> QED BY <1>1, <1>6, <1>7

\* The handle is destroyed only when no call is under way.
LEMMA ClosedKeeps ==
  ASSUME LockInv, NEW t \in Threads, inst = t, Closed
  PROVE  LockInv'
<1>1. Head(todo).t = "close" /\ todo # <<>> /\ Release /\ call' = call /\ Then(<<>>)
      /\ lost' = lost
  BY DEF Closed, Doing
<1>2. ~NoClose(todo)
  <2>1. 1 \in 1 .. Len(todo) /\ Head(todo) = todo[1]
    BY <1>1 DEF LockInv, LockTypes
  <2> QED BY <1>1, <2>1 DEF NoClose
<1>3. \A u \in Threads : call[u] = NoCall
  BY <1>2 DEF LockInv, ClosedAlone, NoCalls
<1>4. todo' \in Seq(AnyTask)
  <2>1. <<>> \in Seq(AnyTask) /\ NoClose(<<>>)
    BY DEF NoClose
  <2> QED BY <2>1, <1>1, ThenKeeps DEF LockInv, LockTypes
<1>5. call' \in [Threads -> Calls]
  BY <1>1 DEF LockInv, LockTypes
<1> QED BY <1>1, <1>3, <1>4, <1>5, ReleaseKeeps DEF Entered

\* The calls on the open file are made by the thread that holds the lock.
LEMMA UseKeeps ==
  ASSUME LockInv, NEW t \in Threads, Use(t)
  PROVE  LockInv'
<1>1. inst = t /\ call[t] = NoCall /\ UNCHANGED <<lock, inst, dying, lost, call>>
  BY DEF Use
<1>2. \A u \in Threads : call[u] = NoCall
  BY <1>1, OnlyOwnerCalls
<1>3. todo' \in Seq(AnyTask)
  <2>1. {Do("commit", 0), Do("close", 0)} \subseteq AnyTask
    BY DEF Do, AnyTask, Kinds
  <2>2. \A n \in Names : [Do("unlink", 0) EXCEPT !.n = n] \in AnyTask
    BY DEF Do, AnyTask, Kinds
  <2>3. \/ todo' = todo
        \/ todo' = <<Do("commit", 0)>>
        \/ todo' = <<Do("commit", 0), Do("close", 0)>>
        \/ \E n \in Names : todo' = <<[Do("unlink", 0) EXCEPT !.n = n]>>
    BY DEF Use, Write, Flush, Delete, Rename, Close
  <2> DEFINE commit == Do("commit", 0)
             close  == Do("close", 0)
             unlink(n) == [Do("unlink", 0) EXCEPT !.n = n]
  <2>4. \A n \in Names : <<unlink(n)>> \in Seq(AnyTask)
    <3> HIDE DEF unlink
    <3> QED BY <2>2 DEF unlink
  <2>5. <<commit>> \in Seq(AnyTask) /\ <<commit, close>> \in Seq(AnyTask)
    <3> HIDE DEF commit, close
    <3> QED BY <2>1 DEF commit, close
  <2> QED BY <2>3, <2>4, <2>5 DEF LockInv, LockTypes
<1>4. LockTypes'
  BY <1>1, <1>3 DEF LockInv, LockTypes
<1>5. LockBalanced'
  BY <1>1 DEF LockInv, LockBalanced, Entered
<1>6. MountedByOwner' /\ TasksAfterLock' /\ ClosedAlone'
  BY <1>1, <1>2, NoCallsKeep
<1> QED BY <1>4, <1>5, <1>6 DEF LockInv

\* The tasks of the file system run under the lock and never touch it.
LEMMA WorkKeeps ==
  ASSUME LockInv, NEW t \in Threads, Work(t)
  PROVE  LockInv'
<1>1. inst = t /\ SwapTask /\ UNCHANGED <<lock, inst, dying, lost, call>>
  BY DEF Work
<1>2. todo' \in Seq(AnyTask) /\ (NoClose(todo) => NoClose(todo')) /\ todo # <<>>
  BY <1>1, TasksKeepTodo DEF LockInv, LockTypes
<1>3. LockTypes'
  BY <1>1, <1>2 DEF LockInv, LockTypes
<1>4. LockBalanced'
  BY <1>1 DEF LockInv, LockBalanced, Entered
<1>5. MountedByOwner' /\ TasksAfterLock' /\ ClosedAlone'
  BY <1>1, <1>2 DEF LockInv, MountedByOwner, TasksAfterLock, ClosedAlone, NoCalls,
                    Entered
<1> QED BY <1>3, <1>4, <1>5 DEF LockInv

LEMMA CrashKeeps ==
  ASSUME LockInv, Crash
  PROVE  LockInv'
<1>1. /\ call' = [t \in Threads |-> NoCall] /\ inst' = NoThread /\ todo' = <<>>
      /\ lock' = [owner |-> NoThread, depth |-> 0]
      /\ dying' = NoThread /\ lost' = 0
  BY DEF Crash, PowerLoss
<1>2. LockTypes'
  BY <1>1 DEF LockInv, LockTypes, Mutex, Calls, NoCall
<1>3. LockBalanced'
  BY <1>1 DEF LockBalanced, Entered
<1>4. MountedByOwner' /\ TasksAfterLock' /\ ClosedAlone'
  BY <1>1 DEF MountedByOwner, TasksAfterLock, ClosedAlone, NoClose, NoCall
<1> QED BY <1>2, <1>3, <1>4 DEF LockInv

LEMMA NextKeeps ==
  ASSUME LockInv, [Next]_vars
  PROVE  LockInv'
<1>1. CASE \E t \in Threads, op \in Opens, n \in Names : Enter(t, op, n)
  BY <1>1, EnterKeeps
<1>2. CASE \E t \in Threads, op \in {"look", "recreate"} : Enter(t, op, NoName)
  BY <1>2, EnterKeeps
<1>3. CASE \E t \in Threads : Use(t)
  BY <1>3, UseKeeps
<1>4. ASSUME NEW t \in Threads, Step(t) PROVE LockInv'
  <2>1. CASE Clash(t) \/ End(t)
    <3>1. /\ UNCHANGED <<lock, inst, lost, call, todo>>
          /\ dying' \in Threads \cup {NoThread}
      BY <2>1 DEF Clash, End, swapVars, LockInv, LockTypes
    <3> QED BY <3>1, LockStays
  <2> QED BY <1>4, <2>1, RefuseKeeps, MountKeeps, MountThrowsKeeps, ServeKeeps,
             WorkKeeps, ClosedKeeps DEF Step
<1>5. CASE Crash
  BY <1>5, CrashKeeps
<1>6. CASE UNCHANGED vars
  BY <1>6 DEF vars, LockInv, LockTypes, LockBalanced, MountedByOwner,
              TasksAfterLock, ClosedAlone, NoCalls, Entered
<1> QED BY <1>1, <1>2, <1>3, <1>4, <1>5, <1>6 DEF Next, Terminating

\* The lock is held exactly as often as fs_impl holds an instance, a call is
\* at the lock and a constructor has thrown, in every behaviour (H7TwoFace.cc,
\* all its public functions).
THEOREM LocksStayBalanced == Spec => []LockBalanced
<1>1. Init => LockInv
  BY LockInvHolds
<1>2. LockInv /\ [Next]_vars => LockInv'
  BY NextKeeps
<1>3. LockInv => LockBalanced
  BY DEF LockInv
<1> QED BY <1>1, <1>2, <1>3, PTL DEF Spec

(***************************************************************************)
(* Which flash is active.                                                  *)
(***************************************************************************)
Markers == {Sealed, Completed}

\* some version of this marker is on the flash
Marked(c, m) == \E p \in Used(c) : area[c][p].name = m

SwapTypes ==
  /\ valid \in [Flashes -> BOOLEAN]
  /\ area \in [Flashes -> [InodePages -> Version \cup {Blank}]]
  /\ engaged \in SUBSET Flashes
  /\ maxIno \in [Flashes -> Nat]
  /\ freeData \in [Flashes -> SUBSET DataPages]
  /\ file \in OpenFile \cup {NoFile}

\* Every inode on flash has a number, a marker is never a version of a file,
\* and no two files have a data page in common.
WellFormed(c) ==
  /\ \A p \in Used(c) : area[c][p].ino # 0 /\ p # MaxInodes - 1
  /\ \A p, q \in Used(c) :
       area[c][p].ino = area[c][q].ino /\ area[c][p].name \in Markers =>
         area[c][q].name = area[c][p].name
  /\ \A p, q \in Used(c) : area[c][p].data = area[c][q].data =>
       area[c][p].data = 0 \/ area[c][p].ino = area[c][q].ino

\* The markers, or the lack of a header, lead init() to flash c: the other
\* one has none, or was sealed and copied to c, or got no marker yet, or
\* both are as they were created.
LeadsTo(c) ==
  /\ valid[c]
  /\ \/ ~valid[Other(c)]
     \/ /\ Marked(Other(c), Sealed) /\ Marked(c, Completed)
        /\ c = 1 \/ ~Marked(c, Sealed)
     \/ /\ Marked(c, Sealed)
        /\ ~Marked(Other(c), Sealed) /\ ~Marked(Other(c), Completed)
     \/ c = 2 /\ area[1] = EmptyArea

NoFiles == [n \in Names |-> Absent]

\* the next mount finds the files
Found ==
  \/ (\A c \in Flashes : ~valid[c]) /\ files = NoFiles
  \/ \E c \in Flashes : LeadsTo(c) /\ View(c) = files

Off == engaged = {} /\ file = NoFile

\* What the open file will write belongs to no marker and to no other file.
FileFits(c) ==
  file # NoFile =>
    /\ file.page # MaxInodes - 1
    /\ file.ino <= maxIno[c]
    /\ file.ino = 0 => file.page \notin Used(c)
    /\ file.data \notin freeData[c]
    /\ \A p \in Used(c) :
         /\ area[c][p].ino = file.ino => area[c][p].name \notin Markers
         /\ area[c][p].data = file.data => file.data = 0 \/ area[c][p].ino = file.ino

\* the memory of a mounted file system fits what is on its flash
Counted(c) ==
  /\ \A p \in Used(c) : area[c][p].ino <= maxIno[c]
  /\ UsedData(c) \cap freeData[c] = {}

Mounted(c) ==
  /\ engaged = {c}
  /\ Counted(c)
  /\ FileFits(c)
  /\ View(c) = files

(***************************************************************************)
(* The tasks and what holds before each of them.                           *)
(***************************************************************************)
FileTasks ==
  {<<>>, <<Do("commit", 0)>>, <<Do("commit", 0), Do("close", 0)>>, <<Do("close", 0)>>}
  \cup {<<[Do("unlink", 0) EXCEPT !.n = n]>> : n \in Names}

Working ==
  \/ todo = <<>> /\ Off /\ Found
  \/ /\ todo \in FileTasks
     /\ todo # <<>> => file # NoFile
     /\ \E c \in Flashes : Mounted(c) /\ LeadsTo(c)

Mounting == todo = <<Do("pick", 0)>> /\ Off /\ Found

\* the first mount of all finds no header, recreate() may
NothingThere ==
  (\A t \in Threads : inst = t => call[t].op # "recreate") => ~valid[2]

\* recreate(), or the first mount of all
Creating ==
  /\ Off
  /\ files = NoFiles
  /\ \/ todo = CreateBoth /\ NothingThere
     \/ /\ todo = <<Do("recreateHeader", 1), Do("recreateErase", 2),
                    Do("recreateHeader", 2), Do("pick", 0)>>
        /\ area[1] = EmptyArea /\ ~valid[1] /\ NothingThere
     \/ todo = <<Do("recreateErase", 2), Do("recreateHeader", 2), Do("pick", 0)>>
        /\ area[1] = EmptyArea
     \/ todo = <<Do("recreateHeader", 2), Do("pick", 0)>>
        /\ area = [c \in Flashes |-> EmptyArea] /\ ~valid[2]

ToSeal == \E c \in Flashes :
  todo = <<Do("seal", c)>> /\ file = NoFile /\ Mounted(c) /\ LeadsTo(c)

\* Once fs2 is sealed, an fs1 that was completed by an earlier swap looks like
\* its successor: nothing is said of where the markers lead before that fs1
\* is erased.
ToErase == \E c \in Flashes :
  /\ todo = <<Do("erase", Other(c)), Do("header", Other(c)),
              Do("copy", Other(c)), Do("complete", Other(c))>>
  /\ file = NoFile /\ engaged = {c}
  /\ View(c) = files /\ Marked(c, Sealed)
  /\ valid[c] /\ (c = 1 => LeadsTo(c))

ToCreate == \E c \in Flashes :
  /\ todo = <<Do("header", Other(c)), Do("copy", Other(c)), Do("complete", Other(c))>>
  /\ file = NoFile /\ engaged = {c}
  /\ View(c) = files /\ Marked(c, Sealed)
  /\ valid[c] /\ ~valid[Other(c)] /\ area[Other(c)] = EmptyArea

\* Every inode of the target is the copy of the file of its name.
Copied(c, o) ==
  /\ \A p \in Used(o) :
       LET q == Find(c, area[o][p].name) IN
       /\ area[o][p].name \in Names
       /\ q # NoPage
       /\ area[o][p].val = area[c][q].val
       /\ area[c][q].data = 0 => area[o][p].data = 0
  /\ \A p, q \in Used(o) :
       area[o][p].ino = area[o][q].ino \/ area[o][p].name = area[o][q].name => p = q

Copying(c) ==
  LET o == Other(c) IN
  /\ file = NoFile /\ engaged = Flashes
  /\ View(c) = files /\ Marked(c, Sealed)
  /\ valid = [d \in Flashes |-> TRUE]
  /\ Copied(c, o)
  /\ Counted(o)
  /\ freeData[o] = DataPages \ UsedData(o)

ToCopyFiles == \E c \in Flashes :
  todo = <<Do("copy", Other(c)), Do("complete", Other(c))>> /\ Copying(c)

ToComplete == \E c \in Flashes :
  /\ todo = <<Do("complete", Other(c))>> /\ Copying(c)
  /\ \A p \in ToCopy(c) : Find(Other(c), area[c][p].name) # NoPage

\* a call that has mounted the file system waits for it
MountedBeforeUse ==
  /\ todo = <<>> /\ inst # NoThread => engaged # {}
  /\ file # NoFile \/ engaged # {} => inst # NoThread

SwapInv ==
  /\ SwapTypes
  /\ \A c \in Flashes : WellFormed(c)
  /\ MountedBeforeUse
  /\ \/ Working \/ Mounting \/ Creating \/ ToSeal
     \/ ToErase \/ ToCreate \/ ToCopyFiles \/ ToComplete

(***************************************************************************)
(* Least and greatest elements.                                            *)
(***************************************************************************)
\* find_file() and the allocators take the first page of those they want.
LEMMA LeastExists ==
  ASSUME NEW S \in SUBSET Nat, S # {}
  PROVE  /\ Least(S) \in S
         /\ \A y \in S : Least(S) <= y
<1> DEFINE R == OpToRel(<, Nat)
<1>1. \A x, y \in Nat : <<y, x>> \in R <=> y < x
  BY DEF OpToRel
<1>2. IsWellFoundedOn(R, Nat)
  BY NatLessThanWellFounded
<1> HIDE DEF R
<1>3. PICK x \in S : \A y \in S : ~ (<<y, x>> \in R)
  BY <1>2, WFMin
<1>4. \A y \in S : x <= y
  <2> TAKE y \in S
  <2>1. x \in Nat /\ y \in Nat /\ ~ (<<y, x>> \in R)
    BY <1>3
  <2>2. ~(y < x)
    BY <2>1, <1>1
  <2> QED BY <2>1, <2>2
<1> QED BY <1>4 DEF Least

\* The numbers and versions on the inode pages of a flash are bounded.
LEMMA BoundExists ==
  ASSUME NEW n \in Nat, NEW f, NEW D,
         \A p \in (0 .. n - 1) \cap D : f[p] \in Nat
  PROVE  \E m \in Nat : \A p \in (0 .. n - 1) \cap D : f[p] <= m
<1> DEFINE Below(k) == (0 .. k - 1) \cap D
           Bounded(k) == \E m \in Nat : \A p \in Below(k) : f[p] <= m
           Bad == {k \in 0 .. n : ~Bounded(k)}
<1>1. Bounded(0)
  <2>1. \A p \in Below(0) : f[p] <= 0
    OBVIOUS
  <2> QED BY <2>1
<1>2. ASSUME NEW j \in 0 .. n - 1, Bounded(j)
      PROVE  Bounded(j + 1)
  <2>1. PICK m \in Nat : \A p \in Below(j) : f[p] <= m
    BY <1>2
  <2>2. \A p \in Below(j + 1) : p = j \/ p \in Below(j)
    OBVIOUS
  <2>3. \A p \in Below(j + 1) : f[p] \in Nat
    OBVIOUS
  <2> HIDE DEF Below
  <2>4. CASE j \in Below(j + 1)
    <3>1. PICK w \in Nat : w = f[j]
      BY <2>3, <2>4
    <3>2. \A p \in Below(j + 1) : f[p] <= m + w
      <4> TAKE p \in Below(j + 1)
      <4>1. PICK u \in Nat : u = f[p]
        BY <2>3
      <4>2. u <= m \/ u = w
        BY <4>1, <3>1, <2>1, <2>2
      <4>3. u <= m + w
        BY <4>2
      <4> QED BY <4>1, <4>3
    <3>3. m + w \in Nat
      OBVIOUS
    <3> QED BY <3>2, <3>3
  <2>5. CASE j \notin Below(j + 1)
    BY <2>1, <2>2, <2>5
  <2> QED BY <2>4, <2>5
<1> HIDE DEF Bounded
<1>3. Bad \in SUBSET Nat
  OBVIOUS
<1>4. Bad = {}
  <2> SUFFICES ASSUME Bad # {} PROVE FALSE
    OBVIOUS
  <2>1. /\ Least(Bad) \in Bad
        /\ \A y \in Bad : Least(Bad) <= y
    <3> HIDE DEF Bad
    <3> QED BY <1>3, LeastExists
  <2>2. PICK k \in Nat : k = Least(Bad)
    BY <2>1
  <2>3. k \in 1 .. n /\ ~Bounded(k)
    BY <2>1, <2>2, <1>1
  <2>4. k - 1 \in 0 .. n - 1 /\ k - 1 \in 0 .. n /\ ~(k <= k - 1) /\ (k - 1) + 1 = k
    BY <2>3
  <2>5. k - 1 \notin Bad
    <3> HIDE DEF Bad
    <3> QED BY <2>1, <2>2, <2>4
  <2>6. Bounded(k - 1)
    BY <2>5, <2>4
  <2>7. Bounded((k - 1) + 1)
    BY <2>4, <2>6, <1>2
  <2> QED BY <2>3, <2>4, <2>7
<1>5. Bounded(n)
  BY <1>4
<1> QED BY <1>5 DEF Bounded

\* max_inode_number is looked for on flash: it exists.
LEMMA GreatestExists ==
  ASSUME NEW S \in SUBSET Nat, S # {}, NEW b \in Nat, \A y \in S : y <= b
  PROVE  /\ Greatest(S) \in S
         /\ \A y \in S : Greatest(S) >= y
<1> DEFINE U == {m \in Nat : \A y \in S : y <= m}
<1>1. U \in SUBSET Nat /\ U # {}
  OBVIOUS
<1>2. PICK m \in U : \A k \in U : m <= k
  <2> HIDE DEF U
  <2> QED BY <1>1, LeastExists
<1>3. m \in S
  <2> SUFFICES ASSUME m \notin S PROVE FALSE
    OBVIOUS
  <2>1. m \in Nat /\ \A y \in S : y \in Nat /\ y < m
    BY <1>2
  <2>2. PICK z \in S : TRUE
    OBVIOUS
  <2>3. z \in Nat /\ z < m
    BY <2>1, <2>2
  <2>4. m - 1 \in Nat
    BY <2>1, <2>3
  <2>5. \A y \in S : y <= m - 1
    BY <2>1
  <2>6. m - 1 \in U
    BY <2>4, <2>5
  <2> QED BY <2>6, <2>1, <1>2
<1>4. \E x \in S : \A y \in S : x >= y
  BY <1>3, <1>2
<1> QED BY <1>4 DEF Greatest


(***************************************************************************)
(* The pages of one flash.                                                 *)
(***************************************************************************)
LEMMA UsedTypes ==
  ASSUME SwapTypes, NEW c \in Flashes
  PROVE  /\ Used(c) \subseteq InodePages /\ InodePages \subseteq Nat /\ NoPage \notin InodePages
         /\ \A p \in Used(c) : area[c][p] \in Version
         /\ \A p \in InodePages : p \notin Used(c) => area[c][p] = Blank
<1>1. InodePages \subseteq Nat /\ NoPage \notin InodePages
  BY SwapAssumption DEF InodePages, NoPage
<1>2. \A p \in InodePages : area[c][p] \in Version \cup {Blank}
  BY DEF SwapTypes
<1>3. QED
  BY <1>1, <1>2 DEF Used

LEMMA VersionParts ==
  ASSUME NEW v \in Version
  PROVE  /\ v.ino \in Nat /\ v.ver \in Nat /\ v.val \in Vals \cup {Empty}
         /\ v.name \in Names \cup {NoName, Sealed, Completed}
         /\ v.data \in 0 .. MaxData
BY DEF Version

\* InodeVersionStore: every inode has a latest version.
LEMMA LatestExists ==
  ASSUME SwapTypes, NEW c \in Flashes, NEW p \in Used(c)
  PROVE  \E q \in LatestPages(c) : area[c][q].ino = area[c][p].ino
<1> DEFINE T == {q \in Used(c) : area[c][q].ino = area[c][p].ino}
           V == {area[c][q].ver : q \in T}
<1>1. /\ Used(c) \subseteq InodePages /\ InodePages \subseteq Nat
      /\ \A q \in Used(c) : area[c][q].ver \in Nat
  BY UsedTypes, VersionParts
<1>2. V \in SUBSET Nat /\ V # {} /\ T \subseteq Used(c) /\ p \in T
  BY <1>1
<1>3. PICK b \in Nat : \A q \in Used(c) : area[c][q].ver <= b
  <2>1. MaxInodes \in Nat /\ Used(c) = (0 .. MaxInodes - 1) \cap Used(c)
    BY <1>1, SwapAssumption DEF InodePages
  <2> DEFINE f == [q \in Used(c) |-> area[c][q].ver]
  <2>2. \A q \in (0 .. MaxInodes - 1) \cap Used(c) : f[q] \in Nat
    BY <1>1
  <2>3. \E m \in Nat : \A q \in (0 .. MaxInodes - 1) \cap Used(c) : f[q] <= m
    <3> HIDE DEF f
    <3> QED BY <2>1, <2>2, BoundExists
  <2>4. QED
    BY <2>1, <2>3
<1>4. \A v \in V : v <= b
  BY <1>3
<1>5. Greatest(V) \in V /\ \A v \in V : Greatest(V) >= v
  <2> HIDE DEF V
  <2> QED BY <1>2, <1>4, GreatestExists
<1> DEFINE W == {q \in T : area[c][q].ver = Greatest(V)}
<1>6. W \in SUBSET Nat /\ W # {}
  BY <1>1, <1>2, <1>5
<1>7. Least(W) \in W /\ \A q \in W : Least(W) <= q
  <2> HIDE DEF W
  <2> QED BY <1>6, LeastExists
<1>8. PICK q \in W : \A r \in W : q <= r
  BY <1>7
<1>9. \A r \in T : area[c][r].ver \in V /\ area[c][r].ver <= Greatest(V)
  BY <1>5, <1>1, <1>2
<1>10. \A r \in Used(c) : area[c][r].ino = area[c][q].ino =>
         \/ area[c][r].ver < area[c][q].ver
         \/ area[c][r].ver = area[c][q].ver /\ q <= r
  <2> TAKE r \in Used(c)
  <2> HAVE area[c][r].ino = area[c][q].ino
  <2>1. r \in T
    BY <1>8
  <2>2. area[c][q].ver = Greatest(V) /\ area[c][r].ver \in Nat /\ area[c][q].ver \in Nat
    BY <1>1, <1>2, <1>8
  <2>3. area[c][r].ver <= area[c][q].ver
    <3> HIDE DEF V, T
    <3> QED BY <1>9, <2>1, <2>2
  <2>4. area[c][r].ver = area[c][q].ver => r \in W
    BY <2>1, <2>2
  <2>5. QED
    <3> HIDE DEF W, V, T
    <3> QED BY <1>8, <2>2, <2>3, <2>4
<1>11. QED
  BY <1>2, <1>8, <1>10 DEF LatestPages, Latest

LEMMA FindParts ==
  ASSUME SwapTypes, NEW c \in Flashes, NEW n
  PROVE  /\ Find(c, n) # NoPage =>
              /\ Find(c, n) \in LatestPages(c) /\ Find(c, n) \in Used(c)
              /\ area[c][Find(c, n)].name = n
              /\ \A p \in LatestPages(c) : area[c][p].name = n => Find(c, n) <= p
         /\ Find(c, n) = NoPage => \A p \in LatestPages(c) : area[c][p].name # n
<1> DEFINE found == {p \in LatestPages(c) : area[c][p].name = n}
<1>1. Find(c, n) = IF found = {} THEN NoPage ELSE Least(found)
  BY DEF Find
<1>2. found \in SUBSET Nat /\ NoPage \notin found /\ LatestPages(c) \subseteq Used(c)
  BY UsedTypes DEF LatestPages
<1>3. found # {} => Least(found) \in found /\ \A p \in found : Least(found) <= p
  <2> HIDE DEF found
  <2> QED BY <1>2, LeastExists
<1>4. QED
  BY <1>1, <1>2, <1>3

\* A marker is found as soon as there is a version of it.
LEMMA MarkerFound ==
  ASSUME SwapTypes, NEW c \in Flashes, WellFormed(c), NEW m \in Markers
  PROVE  Has(c, m) <=> Marked(c, m)
<1>1. Has(c, m) => Marked(c, m)
  BY FindParts DEF Has, Marked
<1>2. ASSUME NEW p \in Used(c), area[c][p].name = m PROVE Has(c, m)
  <2>1. PICK q \in LatestPages(c) : area[c][q].ino = area[c][p].ino
    BY LatestExists
  <2>2. area[c][q].name = m
    BY <1>2, <2>1 DEF WellFormed, LatestPages
  <2>3. QED
    BY <2>1, <2>2, FindParts DEF Has
<1>3. QED
  BY <1>1, <1>2 DEF Marked

LEMMA NextPageParts ==
  ASSUME SwapTypes, NEW c \in Flashes, NEW taken
  PROVE  LET q == NextPage(c, taken) IN
         /\ q # NoPage => /\ q \in InodePages /\ q # MaxInodes - 1
                          /\ q \notin Used(c) /\ q \notin taken
         /\ q = NoPage => \A p \in InodePages \ {MaxInodes - 1} : p \in Used(c) \cup taken
<1> DEFINE free == (InodePages \ {MaxInodes - 1}) \ (Used(c) \cup taken)
<1>1. free \in SUBSET Nat /\ NoPage \notin free
  BY UsedTypes
<1>2. free # {} => Least(free) \in free
  <2> HIDE DEF free
  <2> QED BY <1>1, LeastExists
<1>3. NextPage(c, taken) = IF free = {} THEN NoPage ELSE Least(free)
  BY DEF NextPage
<1>4. QED
  BY <1>1, <1>2, <1>3

(***************************************************************************)
(* What a write of an inode page changes.                                  *)
(***************************************************************************)
Puts(c, q, v) ==
  /\ c \in Flashes /\ q \in InodePages /\ q \notin Used(c) /\ v \in Version
  /\ area' = [area EXCEPT ![c][q] = v]

LEMMA PutParts ==
  ASSUME SwapTypes, NEW c, NEW q, NEW v, Puts(c, q, v)
  PROVE  /\ area' \in [Flashes -> [InodePages -> Version \cup {Blank}]]
         /\ Used(c)' = Used(c) \cup {q}
         /\ area'[c][q] = v
         /\ \A p \in InodePages : p # q => area'[c][p] = area[c][p]
         /\ \A p \in Used(c) : p # q /\ area'[c][p] = area[c][p]
         /\ \A d \in Flashes : d # c => area'[d] = area[d]
<1>1. /\ area \in [Flashes -> [InodePages -> Version \cup {Blank}]]
      /\ c \in Flashes /\ q \in InodePages /\ q \notin Used(c) /\ v \in Version
      /\ area' = [area EXCEPT ![c][q] = v]
  BY DEF SwapTypes, Puts
<1>2. area' \in [Flashes -> [InodePages -> Version \cup {Blank}]]
  BY <1>1
<1>3. area'[c][q] = v /\ \A p \in InodePages : p # q => area'[c][p] = area[c][p]
  BY <1>1
<1>4. \A d \in Flashes : d # c => area'[d] = area[d]
  BY <1>1
<1>5. v # Blank
  BY <1>1, MarkAssumption
<1>6. Used(c)' = Used(c) \cup {q}
  BY <1>1, <1>3, <1>5 DEF Used
<1>7. QED
  BY <1>1, <1>2, <1>3, <1>4, <1>6 DEF Used

LEMMA SameArea ==
  ASSUME NEW d \in Flashes, area'[d] = area[d]
  PROVE  /\ Used(d)' = Used(d) /\ UsedData(d)' = UsedData(d)
         /\ LatestPages(d)' = LatestPages(d)
         /\ View(d)' = View(d)
         /\ WellFormed(d)' <=> WellFormed(d)
         /\ \A n : Find(d, n)' = Find(d, n)
         /\ \A m : Marked(d, m)' <=> Marked(d, m)
<1>1. Used(d)' = Used(d)
  BY DEF Used
<1>2. \A p : Latest(d, p)' <=> Latest(d, p)
  BY <1>1 DEF Latest
<1>3. LatestPages(d)' = LatestPages(d)
  BY <1>1, <1>2 DEF LatestPages
<1>4. \A n : Find(d, n)' = Find(d, n)
  BY <1>3 DEF Find
<1>5. View(d)' = View(d)
  BY <1>4 DEF View
<1>6. WellFormed(d)' <=> WellFormed(d)
  BY <1>1 DEF WellFormed
<1>7. \A m : Marked(d, m)' <=> Marked(d, m)
  BY <1>1 DEF Marked
<1>8. UsedData(d)' = UsedData(d)
  BY <1>1 DEF UsedData
<1>9. QED
  BY <1>1, <1>3, <1>4, <1>5, <1>6, <1>7, <1>8

LEMMA PutMarks ==
  ASSUME SwapTypes, NEW c, NEW q, NEW v, Puts(c, q, v), NEW m
  PROVE  Marked(c, m)' <=> Marked(c, m) \/ v.name = m
BY PutParts DEF Marked

LEMMA PutWellFormed ==
  ASSUME SwapTypes, NEW c, NEW q, NEW v, Puts(c, q, v), WellFormed(c),
         v.ino # 0, q # MaxInodes - 1,
         \A p \in Used(c) :
           /\ area[c][p].ino = v.ino /\ {area[c][p].name, v.name} \cap Markers # {} =>
                area[c][p].name = v.name
           /\ area[c][p].data = v.data => v.data = 0 \/ area[c][p].ino = v.ino
  PROVE  WellFormed(c)'
<1>1. /\ Used(c)' = Used(c) \cup {q} /\ area'[c][q] = v
      /\ \A p \in Used(c) : p # q /\ area'[c][p] = area[c][p]
  BY PutParts
<1>2. \A p \in Used(c)' : area'[c][p].ino # 0 /\ p # MaxInodes - 1
  BY <1>1 DEF WellFormed
<1>3. ASSUME NEW p \in Used(c)', NEW r \in Used(c)', area'[c][p].ino = area'[c][r].ino,
             area'[c][p].name \in Markers
      PROVE  area'[c][r].name = area'[c][p].name
  BY <1>1, <1>3 DEF WellFormed
<1>4. ASSUME NEW p \in Used(c)', NEW r \in Used(c)', area'[c][p].data = area'[c][r].data
      PROVE  area'[c][p].data = 0 \/ area'[c][p].ino = area'[c][r].ino
  BY <1>1, <1>4 DEF WellFormed
<1>5. QED
  BY <1>2, <1>3, <1>4 DEF WellFormed

\* Writing a version of something that is not a user's file changes no view.
LEMMA PutUnseen ==
  ASSUME SwapTypes, NEW c, NEW q, NEW v, Puts(c, q, v), v.name \notin Names,
         \A p \in Used(c) : area[c][p].ino = v.ino => area[c][p].name \notin Names
  PROVE  /\ View(c)' = View(c)
         /\ \A n \in Names : Find(c, n)' = Find(c, n)
<1>1. /\ Used(c)' = Used(c) \cup {q} /\ area'[c][q] = v /\ q \notin Used(c)
      /\ \A p \in Used(c) : p # q /\ area'[c][p] = area[c][p]
  BY PutParts DEF Puts
<1>2. ASSUME NEW p \in Used(c), area[c][p].name \in Names
      PROVE  Latest(c, p)' <=> Latest(c, p)
  <2>1. area[c][p].ino # v.ino /\ area'[c][p] = area[c][p]
    BY <1>1, <1>2
  <2>2. QED
    BY <1>1, <2>1 DEF Latest
<1>3. ASSUME NEW n \in Names
      PROVE  /\ {p \in LatestPages(c)' : area'[c][p].name = n}
                = {p \in LatestPages(c) : area[c][p].name = n}
             /\ Find(c, n)' = Find(c, n)
             /\ Find(c, n) # NoPage => Find(c, n) \in Used(c)
  <2>1. ASSUME NEW p PROVE p \in LatestPages(c)' /\ area'[c][p].name = n <=>
                           p \in LatestPages(c) /\ area[c][p].name = n
    BY <1>1, <1>2 DEF LatestPages
  <2>2. {p \in LatestPages(c)' : area'[c][p].name = n}
        = {p \in LatestPages(c) : area[c][p].name = n}
    BY <2>1
  <2>3. Find(c, n)' = Find(c, n)
    BY <2>2 DEF Find
  <2>4. QED
    BY <2>2, <2>3, FindParts DEF Puts
<1>4. QED
  BY <1>1, <1>3 DEF View

LEMMA HighestInoBounds ==
  ASSUME SwapTypes, NEW c \in Flashes
  PROVE  HighestIno(c) \in Nat /\ \A p \in Used(c) : area[c][p].ino <= HighestIno(c)
<1> DEFINE S == {area[c][p].ino : p \in Used(c)}
           f == [p \in Used(c) |-> area[c][p].ino]
<1>1. Used(c) \subseteq InodePages /\ \A p \in Used(c) : area[c][p].ino \in Nat
  BY UsedTypes, VersionParts
<1>2. PICK b \in Nat : \A p \in Used(c) : area[c][p].ino <= b
  <2>1. MaxInodes \in Nat /\ Used(c) = (0 .. MaxInodes - 1) \cap Used(c)
    BY <1>1, SwapAssumption DEF InodePages
  <2>2. \A p \in (0 .. MaxInodes - 1) \cap Used(c) : f[p] \in Nat
    BY <1>1
  <2>3. \E m \in Nat : \A p \in (0 .. MaxInodes - 1) \cap Used(c) : f[p] <= m
    <3> HIDE DEF f
    <3> QED BY <2>1, <2>2, BoundExists
  <2>4. QED
    BY <2>1, <2>3
<1>3. S # {} => Greatest(S) \in S /\ \A y \in S : Greatest(S) >= y
  <2>1. S \in SUBSET Nat /\ \A y \in S : y <= b
    BY <1>1, <1>2
  <2> HIDE DEF S
  <2>2. QED BY <2>1, GreatestExists
<1>4. HighestIno(c) = IF Used(c) = {} THEN 0 ELSE Greatest(S)
  BY DEF HighestIno
<1>5. \A p \in Used(c) : area[c][p].ino \in S
  OBVIOUS
<1>6. Used(c) # {} => S # {}
  OBVIOUS
<1>7. S \in SUBSET Nat
  BY <1>1
<1> HIDE DEF S
<1>8. CASE Used(c) = {}
  BY <1>4, <1>8
<1>9. CASE Used(c) # {}
  <2>1. HighestIno(c) \in Nat /\ \A y \in S : HighestIno(c) >= y
    BY <1>3, <1>4, <1>6, <1>7, <1>9
  <2>2. \A p \in Used(c) : area[c][p].ino \in Nat /\ HighestIno(c) >= area[c][p].ino
    BY <1>1, <1>5, <2>1
  <2>3. QED BY <2>1, <2>2
<1>10. QED BY <1>8, <1>9

LEMMA EmptyIs ==
  ASSUME NEW c \in Flashes, area[c] = EmptyArea
  PROVE  /\ Used(c) = {} /\ UsedData(c) = {} /\ LatestPages(c) = {}
         /\ View(c) = NoFiles /\ HighestIno(c) = 0
         /\ WellFormed(c)
         /\ \A n : Find(c, n) = NoPage
         /\ \A m : ~Marked(c, m)
<1>1. Used(c) = {}
  BY DEF Used, EmptyArea
<1>2. LatestPages(c) = {} /\ UsedData(c) = {}
  BY <1>1 DEF LatestPages, UsedData
<1>3. \A n : Find(c, n) = NoPage
  BY <1>2 DEF Find
<1>4. View(c) = NoFiles
  BY <1>3 DEF View, NoFiles
<1>5. QED
  BY <1>1, <1>2, <1>3, <1>4 DEF HighestIno, WellFormed, Marked

\* init_fs() reads off the markers where they lead.
LEMMA MarkersLead ==
  ASSUME SwapTypes, \A d \in Flashes : WellFormed(d), NEW c \in Flashes, LeadsTo(c)
  PROVE  Choice = c /\ \E d \in Flashes : valid[d]
<1>1. /\ 1 \in Flashes /\ 2 \in Flashes /\ c \in {1, 2} /\ Other(1) = 2 /\ Other(2) = 1
      /\ \A d \in Flashes : valid[d] \in BOOLEAN
  BY DEF Flashes, Other, SwapTypes
<1>2. \A d \in Flashes, m \in Markers : Has(d, m) <=> Marked(d, m)
  BY MarkerFound
<1>3. Sealed \in Markers /\ Completed \in Markers
  BY DEF Markers
<1>4. HighestIno(1) \in Nat /\ HighestIno(2) \in Nat
  BY HighestInoBounds, <1>1
<1>5. area[1] = EmptyArea => HighestIno(1) = 0 /\ ~Marked(1, Sealed) /\ ~Marked(1, Completed)
  BY EmptyIs, <1>1
<1>6. /\ Has(1, Sealed) <=> Marked(1, Sealed)
      /\ Has(1, Completed) <=> Marked(1, Completed)
      /\ Has(2, Sealed) <=> Marked(2, Sealed)
      /\ Has(2, Completed) <=> Marked(2, Completed)
  BY <1>1, <1>2, <1>3
<1>7. CASE ~valid[Other(c)]
  <2>1. \A d \in Flashes : valid[d] <=> d = c
    BY <1>1, <1>7 DEF LeadsTo, Flashes
  <2>2. ~(valid[1] /\ valid[2])
    BY <1>1, <2>1
  <2>3. QED
    BY <2>1, <2>2 DEF Choice
<1>8. CASE valid[Other(c)]
  <2>1. valid[1] /\ valid[2]
    BY <1>1, <1>8 DEF LeadsTo
  <2>2. Choice = ByMarkers
    BY <2>1 DEF Choice
  <2>3. CASE c = 1
    <3>1. ByMarkers = 1
      BY <1>1, <1>6, <1>8, <2>3 DEF LeadsTo, ByMarkers
    <3>2. QED BY <2>1, <2>2, <2>3, <3>1, <1>1
  <2>4. CASE c = 2
    <3>1. ByMarkers = 2
      BY <1>1, <1>4, <1>5, <1>6, <1>8, <2>4 DEF LeadsTo, ByMarkers
    <3>2. QED BY <2>1, <2>2, <2>4, <3>1, <1>1
  <2>5. QED BY <1>1, <2>3, <2>4
<1>9. QED
  BY <1>7, <1>8

(***************************************************************************)
(* The phases can be told apart by the first task.                         *)
(***************************************************************************)
LEMMA OneTask ==
  ASSUME NEW a
  PROVE  <<a>> # <<>> /\ Head(<<a>>) = a /\ Tail(<<a>>) = <<>>
OBVIOUS

LEMMA TwoTasks ==
  ASSUME NEW a, NEW b
  PROVE  <<a, b>> # <<>> /\ Head(<<a, b>>) = a /\ Tail(<<a, b>>) = <<b>>
OBVIOUS

LEMMA ThreeTasks ==
  ASSUME NEW a, NEW b, NEW c
  PROVE  <<a, b, c>> # <<>> /\ Head(<<a, b, c>>) = a /\ Tail(<<a, b, c>>) = <<b, c>>
OBVIOUS

LEMMA FourTasks ==
  ASSUME NEW a, NEW b, NEW c, NEW d
  PROVE  /\ <<a, b, c, d>> # <<>> /\ Head(<<a, b, c, d>>) = a
         /\ Tail(<<a, b, c, d>>) = <<b, c, d>>
OBVIOUS

LEMMA FiveTasks ==
  ASSUME NEW a, NEW b, NEW c, NEW d, NEW e
  PROVE  /\ <<a, b, c, d, e>> # <<>> /\ Head(<<a, b, c, d, e>>) = a
         /\ Tail(<<a, b, c, d, e>>) = <<b, c, d, e>>
OBVIOUS

LEMMA DoParts ==
  ASSUME NEW t, NEW c
  PROVE  Do(t, c).t = t /\ Do(t, c).c = c
BY DEF Do

\* A task that puts nothing before the rest leaves the rest.
LEMMA ThenNothing ==
  ASSUME NEW x, NEW r, todo = x, Tail(x) = r, r \in Seq(AnyTask), Then(<<>>)
  PROVE  todo' = r
BY DEF Then

\* The last task leaves what it puts.
LEMMA ThenLast ==
  ASSUME NEW x, todo = <<x>>, NEW s \in Seq(AnyTask), Then(s)
  PROVE  todo' = s
<1>1. Tail(todo) = <<>>
  BY OneTask
<1>2. s \o <<>> = s
  OBVIOUS
<1> QED BY <1>1, <1>2 DEF Then

LEMMA FirstTasks ==
  /\ Working => \/ todo = <<>>
                \/ todo # <<>> /\ Head(todo).t \in {"commit", "close", "unlink"}
  /\ Mounting => todo # <<>> /\ Head(todo).t = "pick"
  /\ Creating => todo # <<>> /\ Head(todo).t \in {"recreateErase", "recreateHeader"}
  /\ ToSeal => todo # <<>> /\ Head(todo).t = "seal"
  /\ ToErase => todo # <<>> /\ Head(todo).t = "erase"
  /\ ToCreate => todo # <<>> /\ Head(todo).t = "header"
  /\ ToCopyFiles => todo # <<>> /\ Head(todo).t = "copy"
  /\ ToComplete => todo # <<>> /\ Head(todo).t = "complete"
<1>1. Working => \/ todo = <<>>
                 \/ todo # <<>> /\ Head(todo).t \in {"commit", "close", "unlink"}
  <2>1. ASSUME todo \in FileTasks, todo # <<>>
        PROVE  Head(todo).t \in {"commit", "close", "unlink"}
    <3>1. CASE todo = <<Do("commit", 0)>> \/ todo = <<Do("close", 0)>>
      BY <3>1, OneTask, DoParts
    <3>4. CASE todo = <<Do("commit", 0), Do("close", 0)>>
      BY <3>4, TwoTasks, DoParts
    <3>2. CASE \E n \in Names : todo = <<[Do("unlink", 0) EXCEPT !.n = n]>>
      <4>1. \A n : [Do("unlink", 0) EXCEPT !.n = n].t = "unlink"
        BY DEF Do
      <4>2. QED BY <3>2, <4>1, OneTask
    <3>3. QED BY <2>1, <3>1, <3>2, <3>4 DEF FileTasks
  <2>2. QED BY <2>1 DEF Working
<1>2. Mounting => todo # <<>> /\ Head(todo).t = "pick"
  BY OneTask, DoParts DEF Mounting
<1>3. Creating => todo # <<>> /\ Head(todo).t \in {"recreateErase", "recreateHeader"}
  BY FiveTasks, FourTasks, ThreeTasks, TwoTasks, DoParts DEF Creating, CreateBoth
<1>4. ToSeal => todo # <<>> /\ Head(todo).t = "seal"
  BY OneTask, DoParts DEF ToSeal
<1>5. ToErase => todo # <<>> /\ Head(todo).t = "erase"
  BY FourTasks, DoParts DEF ToErase
<1>6. ToCreate => todo # <<>> /\ Head(todo).t = "header"
  BY ThreeTasks, DoParts DEF ToCreate
<1>7. ToCopyFiles => todo # <<>> /\ Head(todo).t = "copy"
  BY TwoTasks, DoParts DEF ToCopyFiles
<1>8. ToComplete => todo # <<>> /\ Head(todo).t = "complete"
  BY OneTask, DoParts DEF ToComplete
<1> QED BY <1>1, <1>2, <1>3, <1>4, <1>5, <1>6, <1>7, <1>8

\* The phase that a task belongs to.
LEMMA Phases ==
  ASSUME SwapInv
  PROVE  /\ todo = <<>> => Working
         /\ Doing("commit") \/ Doing("close") \/ Doing("unlink") => Working
         /\ Doing("pick") => Mounting
         /\ Doing("recreateErase") \/ Doing("recreateHeader") => Creating
         /\ Doing("seal") => ToSeal
         /\ Doing("erase") => ToErase
         /\ Doing("header") => ToCreate
         /\ Doing("copy") => ToCopyFiles
         /\ Doing("complete") => ToComplete
BY FirstTasks DEF SwapInv, Doing

(***************************************************************************)
(* The calls on the open file.                                             *)
(***************************************************************************)
LEMMA Others ==
  ASSUME NEW c \in Flashes
  PROVE  /\ Other(c) \in Flashes /\ Other(c) # c /\ Other(Other(c)) = c
         /\ \A d \in Flashes : d = c \/ d = Other(c)
BY DEF Other, Flashes

LEMMA LeadsStays ==
  ASSUME NEW c \in Flashes, LeadsTo(c), valid' = valid, area'[Other(c)] = area[Other(c)],
         \A m \in Markers : Marked(c, m)' <=> Marked(c, m)
  PROVE  LeadsTo(c)'
<1>1. \A m : Marked(Other(c), m)' <=> Marked(Other(c), m)
  BY SameArea, Others
<1>2. Sealed \in Markers /\ Completed \in Markers
  BY DEF Markers
<1>3. c = 2 => area'[1] = area[1]
  BY DEF Other
<1> QED BY <1>1, <1>2, <1>3 DEF LeadsTo

LEMMA ActiveIs ==
  ASSUME NEW c \in Flashes, engaged = {c}
  PROVE  Active = c
BY DEF Active, Flashes

\* The parts of an open file.
LEMMA FileParts ==
  ASSUME SwapTypes, file # NoFile
  PROVE  /\ file \in OpenFile /\ file.ino \in Nat /\ file.ver \in Nat
         /\ file.name \in Names \cup {NoName} /\ file.val \in Vals \cup {Empty}
         /\ file.data \in 0 .. MaxData /\ file.page \in InodePages
BY DEF SwapTypes, OpenFile

\* A step that leaves the flash alone.
LEMMA FlashStays ==
  ASSUME NEW c \in Flashes, LeadsTo(c), View(c) = files, UNCHANGED <<flash, files>>
  PROVE  /\ LeadsTo(c)' /\ View(c)' = files'
         /\ \A d \in Flashes : WellFormed(d)' <=> WellFormed(d)
<1>1. \A d \in Flashes : area'[d] = area[d]
  BY DEF flash
<1>2. LeadsTo(c)'
  BY <1>1, LeadsStays, SameArea, Others DEF flash
<1> QED BY <1>1, <1>2, SameArea

LEMMA MountedStays ==
  ASSUME NEW c \in Flashes, Mounted(c), LeadsTo(c),
         UNCHANGED <<flash, files, maxIno, engaged>>,
         freeData'[c] \subseteq freeData[c], FileFits(c)'
  PROVE  Mounted(c)' /\ LeadsTo(c)'
<1>1. area'[c] = area[c] /\ Used(c)' = Used(c) /\ UsedData(c)' = UsedData(c)
  BY SameArea DEF flash
<1>2. LeadsTo(c)' /\ View(c)' = files'
  BY FlashStays DEF Mounted
<1>3. Counted(c)'
  BY <1>1 DEF Mounted, Counted
<1> QED BY <1>2, <1>3 DEF Mounted

\* The list of tasks that a call on the open file leaves.
LEMMA FileTaskLists ==
  /\ <<>> \in FileTasks /\ <<Do("commit", 0)>> \in FileTasks
  /\ <<Do("commit", 0), Do("close", 0)>> \in FileTasks /\ <<Do("close", 0)>> \in FileTasks
  /\ \A n \in Names : <<[Do("unlink", 0) EXCEPT !.n = n]>> \in FileTasks
BY DEF FileTasks

LEMMA UseWorks ==
  ASSUME SwapInv, NEW t \in Threads, Use(t)
  PROVE  SwapInv'
<1>1. /\ inst = t /\ inst' = inst /\ todo = <<>> /\ file # NoFile
      /\ UNCHANGED <<flash, files, engaged, maxIno>> /\ t # NoThread
  BY ThreadAssumption DEF Use, Write, Flush, Close, Delete, Rename, Connected, mount, flash
<1>2. SwapTypes /\ Working /\ \A d \in Flashes : WellFormed(d)
  BY <1>1, Phases DEF SwapInv
<1>3. PICK c \in Flashes : Mounted(c) /\ LeadsTo(c)
  BY <1>1, <1>2 DEF Working, Off
<1>4. engaged = {c} /\ Active = c /\ FileFits(c) /\ Counted(c)
  BY <1>3, ActiveIs DEF Mounted
<1>5. Used(c)' = Used(c) /\ area'[c] = area[c]
  BY <1>1, SameArea DEF flash
<1>6. /\ file' \in OpenFile /\ freeData' \in [Flashes -> SUBSET DataPages]
      /\ freeData'[c] \subseteq freeData[c] /\ FileFits(c)' /\ todo' \in FileTasks
  <2>1. CASE \E v \in Vals : Write(v)
    <3>1. PICK v \in Vals : Write(v)
      BY <2>1
    <3> DEFINE d == Least(freeData[c])
    <3>2. /\ freeData[c] # {} /\ todo' = todo
          /\ file' = [file EXCEPT !.val = v, !.data = d, !.mod = TRUE]
          /\ freeData' = [freeData EXCEPT ![c] = @ \ {d}]
      BY <3>1, <1>4 DEF Write
    <3>3. freeData[c] \subseteq DataPages /\ DataPages \subseteq Nat /\ freeData[c] \in SUBSET Nat
      BY <1>2 DEF SwapTypes, DataPages
    <3>4. d \in freeData[c]
      BY <3>2, <3>3, LeastExists
    <3> HIDE DEF d
    <3>5. d \in 1 .. MaxData /\ d \in 0 .. MaxData /\ d # 0
      BY <3>3, <3>4, SwapAssumption DEF DataPages
    <3>6. /\ file' \in OpenFile /\ file'.page = file.page /\ file'.ino = file.ino
          /\ file'.data = d
      BY <1>1, <1>2, <3>2, <3>5 DEF SwapTypes, OpenFile
    <3>7. freeData' \in [Flashes -> SUBSET DataPages] /\ freeData'[c] = freeData[c] \ {d}
      BY <1>2, <3>2 DEF SwapTypes
    <3>8. \A p \in Used(c) : area[c][p].data # d
      BY <1>4, <3>4, <3>5 DEF Counted, UsedData
    <3>9. FileFits(c)'
      BY <1>1, <1>4, <1>5, <3>6, <3>7, <3>8 DEF FileFits
    <3>10. todo' \in FileTasks
      BY <1>1, <3>2, FileTaskLists
    <3> QED BY <3>6, <3>7, <3>9, <3>10
  <2>2. CASE Delete
    <3>1. /\ file' = [file EXCEPT !.name = NoName, !.val = Empty, !.data = 0, !.mod = TRUE]
          /\ todo' = <<Do("commit", 0)>> /\ freeData' = freeData
      BY <2>2 DEF Delete, mount
    <3>5. file \in OpenFile /\ 0 \in 0 .. MaxData
      BY <1>1, <1>2, FileParts, SwapAssumption
    <3>2. /\ file' \in OpenFile /\ file'.page = file.page /\ file'.ino = file.ino
          /\ file'.data = 0
      BY <3>1, <3>5 DEF OpenFile
    <3>3. freeData \in [Flashes -> SUBSET DataPages] /\ 0 \notin freeData[c]
      BY <1>2 DEF SwapTypes, DataPages
    <3>4. FileFits(c)'
      BY <1>1, <1>4, <1>5, <3>1, <3>2, <3>3 DEF FileFits
    <3> QED BY <3>1, <3>2, <3>3, <3>4, FileTaskLists
  <2>3. CASE Flush \/ Close \/ \E n \in Names : Rename(n)
    <3>1. file' = file /\ freeData' = freeData
      BY <2>3 DEF Flush, Close, Rename, mount
    <3>2. todo' \in FileTasks
      BY <2>3, FileTaskLists DEF Flush, Close, Rename
    <3>3. FileFits(c)'
      BY <1>1, <1>4, <1>5, <3>1 DEF FileFits
    <3> QED BY <1>1, <1>2, <3>1, <3>2, <3>3 DEF SwapTypes
  <2> QED BY <2>1, <2>2, <2>3 DEF Use
<1>7. file' # NoFile
  BY <1>6, MarkAssumption
<1>8. Mounted(c)' /\ LeadsTo(c)'
  BY <1>1, <1>3, <1>6, MountedStays
<1>9. Working'
  BY <1>6, <1>7, <1>8 DEF Working
<1>10. SwapTypes'
  BY <1>1, <1>2, <1>6 DEF SwapTypes, flash
<1>11. \A d \in Flashes : WellFormed(d)'
  BY <1>1, <1>2, <1>3, FlashStays DEF Mounted
<1>12. MountedBeforeUse'
  BY <1>1, <1>4 DEF MountedBeforeUse
<1> QED BY <1>9, <1>10, <1>11, <1>12 DEF SwapInv

LEMMA NamesApart == NoName \notin Markers /\ NoName \notin Names /\ Names \cap Markers = {}
BY NamesAssumption DEF Markers

\* A version of a user's file is written: no marker comes or goes.
LEMMA PutFile ==
  ASSUME SwapTypes, \A d \in Flashes : WellFormed(d), NEW c, LeadsTo(c), NEW q, NEW v,
         Puts(c, q, v), valid' = valid, q # MaxInodes - 1, v.ino # 0, v.name \notin Markers,
         \A p \in Used(c) :
           /\ area[c][p].ino = v.ino => area[c][p].name \notin Markers
           /\ area[c][p].data = v.data => v.data = 0 \/ area[c][p].ino = v.ino
  PROVE  /\ LeadsTo(c)'
         /\ \A d \in Flashes : WellFormed(d)'
         /\ area' \in [Flashes -> [InodePages -> Version \cup {Blank}]]
<1>1. c \in Flashes
  BY DEF Puts
<1>2. \A p \in Used(c) :
        area[c][p].ino = v.ino /\ {area[c][p].name, v.name} \cap Markers # {} =>
          area[c][p].name = v.name
  OBVIOUS
<1>3. WellFormed(c)'
  BY <1>1, <1>2, PutWellFormed
<1>4. \A d \in Flashes : d # c => area'[d] = area[d] /\ WellFormed(d)'
  BY PutParts, SameArea
<1>5. \A m \in Markers : Marked(c, m)' <=> Marked(c, m)
  BY PutMarks
<1>6. LeadsTo(c)'
  BY <1>1, <1>4, <1>5, LeadsStays, Others
<1> QED BY <1>3, <1>4, <1>6, PutParts

LEMMA CommitTask == Do("commit", 0) \in AnyTask /\ Do("close", 0) \in AnyTask
BY DEF Do, AnyTask, Kinds

\* rename_file() deletes the other file of that name.
LEMMA UnlinkWorks ==
  ASSUME SwapInv, Unlink, inst' # NoThread
  PROVE  SwapInv'
<1>1. /\ todo # <<>> /\ Head(todo).t = "unlink"
      /\ UNCHANGED <<valid, engaged, stat, maxIno, freeData>> /\ Then(<<Do("commit", 0)>>)
  BY DEF Unlink, Doing, mount
<1>2. SwapTypes /\ Working /\ MountedBeforeUse /\ \A d \in Flashes : WellFormed(d)
  BY <1>1, Phases DEF SwapInv, Doing
<1>3. PICK c \in Flashes : Mounted(c) /\ LeadsTo(c)
  BY <1>1, <1>2 DEF Working
<1>4. /\ engaged = {c} /\ Active = c /\ Active' = c /\ FileFits(c) /\ Counted(c)
      /\ file # NoFile /\ todo \in FileTasks
  BY <1>1, <1>2, <1>3, ActiveIs DEF Mounted, Working, Active
<1>5. PICK n \in Names : todo = <<[Do("unlink", 0) EXCEPT !.n = n]>>
  <2>1. todo # <<Do("commit", 0)>> /\ todo # <<Do("close", 0)>>
    BY <1>1, OneTask, DoParts
  <2>2. todo # <<Do("commit", 0), Do("close", 0)>>
    BY <1>1, TwoTasks, DoParts
  <2> QED BY <1>1, <1>4, <2>1, <2>2 DEF FileTasks
<1>6. Head(todo).n = n /\ todo' = <<Do("commit", 0)>>
  <2>1. [Do("unlink", 0) EXCEPT !.n = n].n = n
    BY DEF Do
  <2>2. Head(todo).n = n
    BY <1>5, <2>1, OneTask
  <2>3. <<Do("commit", 0)>> \in Seq(AnyTask)
    <3> DEFINE x == Do("commit", 0)
    <3>1. x \in AnyTask
      BY CommitTask
    <3> HIDE DEF x
    <3> QED BY <3>1 DEF x
  <2> QED BY <1>1, <1>5, <2>2, <2>3, ThenLast
<1> DEFINE p == Find(c, n)
           q == NextPage(c, {file.page, file.held})
           v == [ino |-> area[c][p].ino, ver |-> area[c][p].ver + 1,
                 name |-> NoName, val |-> Empty, data |-> 0]
<1>7. /\ file' = [file EXCEPT !.name = n, !.mod = TRUE]
      /\ files' = View(c)'
      /\ area' = IF p = NoPage \/ q = NoPage THEN area ELSE [area EXCEPT ![c][q] = v]
  <2>1. files' = View(Active)'
    BY DEF Unlink
  <2>2. View(Active)' = View(c)'
    BY <1>4
  <2> QED BY <1>4, <1>6, <2>1, <2>2 DEF Unlink
<1>8. /\ p # NoPage => /\ p \in Used(c) /\ area[c][p].name = n /\ area[c][p] \in Version
      /\ q # NoPage => /\ q \in InodePages /\ q # MaxInodes - 1 /\ q \notin Used(c)
                       /\ q # file.page
  BY <1>2, FindParts, NextPageParts, UsedTypes
<1>9. /\ file' \in OpenFile /\ file'.page = file.page /\ file'.ino = file.ino
      /\ file'.data = file.data
  <2>1. file \in OpenFile
    BY <1>2, <1>4, FileParts
  <2> QED BY <1>7, <2>1 DEF OpenFile
<1> HIDE DEF p, q
<1>10. /\ LeadsTo(c)' /\ (\A d \in Flashes : WellFormed(d)') /\ Counted(c)' /\ FileFits(c)'
       /\ area' \in [Flashes -> [InodePages -> Version \cup {Blank}]]
  <2>1. CASE p = NoPage \/ q = NoPage
    <3>1. area' = area
      BY <1>7, <2>1
    <3>2. Used(c)' = Used(c) /\ UsedData(c)' = UsedData(c)
          /\ (\A d \in Flashes : WellFormed(d)') /\ LeadsTo(c)'
      BY <1>1, <1>2, <1>3, <3>1, SameArea, LeadsStays, Others
    <3>3. Counted(c)'
      BY <1>1, <1>4, <3>1, <3>2 DEF Counted
    <3>4. FileFits(c)'
      BY <1>1, <1>4, <1>9, <3>1, <3>2 DEF FileFits
    <3> QED BY <1>2, <3>1, <3>2, <3>3, <3>4 DEF SwapTypes
  <2>2. CASE p # NoPage /\ q # NoPage
    <3>1. area[c][p].ino \in Nat /\ area[c][p].ver \in Nat
      BY <1>8, <2>2, VersionParts
    <3>2. v \in Version
      BY <3>1, SwapAssumption DEF Version
    <3>3. v.ino = area[c][p].ino /\ v.name = NoName /\ v.data = 0
      OBVIOUS
    <3> HIDE DEF v
    <3>4. Puts(c, q, v)
      BY <1>7, <1>8, <2>2, <3>2 DEF Puts
    <3>5. v.ino # 0 /\ v.ino <= maxIno[c]
      BY <1>2, <1>4, <1>8, <2>2, <3>3 DEF WellFormed, Counted
    <3>6. \A r \in Used(c) : area[c][r].ino = v.ino => area[c][r].name \notin Markers
      BY <1>2, <1>8, <2>2, <3>3, NamesApart DEF WellFormed
    <3>7. /\ LeadsTo(c)' /\ (\A d \in Flashes : WellFormed(d)')
          /\ area' \in [Flashes -> [InodePages -> Version \cup {Blank}]]
      BY <1>1, <1>2, <1>3, <1>8, <2>2, <3>3, <3>4, <3>5, <3>6, NamesApart, PutFile
    <3>8. /\ Used(c)' = Used(c) \cup {q} /\ area'[c][q] = v
          /\ \A r \in Used(c) : area'[c][r] = area[c][r]
      BY <1>2, <3>4, PutParts
    <3>9. UsedData(c)' = UsedData(c)
      BY <3>3, <3>8 DEF UsedData
    <3>10. Counted(c)'
      BY <1>1, <1>4, <3>5, <3>8, <3>9 DEF Counted
    <3>11. FileFits(c)'
      BY <1>1, <1>4, <1>8, <2>2, <1>9, <3>3, <3>8, NamesApart DEF FileFits
    <3> QED BY <3>7, <3>10, <3>11
  <2> QED BY <2>1, <2>2
<1>11. file' # NoFile
  BY <1>9, MarkAssumption
<1>12. Mounted(c)'
  BY <1>1, <1>4, <1>7, <1>10 DEF Mounted
<1>13. Working'
  BY <1>6, <1>10, <1>11, <1>12, FileTaskLists DEF Working
<1>14. SwapTypes'
  BY <1>1, <1>2, <1>9, <1>10 DEF SwapTypes
<1>15. MountedBeforeUse'
  BY <1>1, <1>4 DEF MountedBeforeUse
<1> QED BY <1>13, <1>14, <1>15, <1>10 DEF SwapInv

\* The flush of the open file.
LEMMA CommitWorks ==
  ASSUME SwapInv, Commit, inst' # NoThread
  PROVE  SwapInv'
<1>1. /\ todo # <<>> /\ Head(todo).t = "commit"
      /\ UNCHANGED <<valid, engaged, stat, freeData>> /\ Then(<<>>)
  BY DEF Commit, Doing
<1>2. SwapTypes /\ Working /\ MountedBeforeUse /\ \A d \in Flashes : WellFormed(d)
  BY <1>1, Phases DEF SwapInv, Doing
<1>3. PICK c \in Flashes : Mounted(c) /\ LeadsTo(c)
  BY <1>1, <1>2 DEF Working
<1>4. /\ engaged = {c} /\ Active = c /\ Active' = c /\ FileFits(c) /\ Counted(c)
      /\ file # NoFile /\ todo \in FileTasks
  BY <1>1, <1>2, <1>3, ActiveIs DEF Mounted, Working, Active
<1>5. todo' \in FileTasks
  <2>1. todo = <<Do("commit", 0)>> \/ todo = <<Do("commit", 0), Do("close", 0)>>
    <3>1. todo # <<Do("close", 0)>>
      BY <1>1, OneTask, DoParts
    <3>2. ASSUME NEW n PROVE todo # <<[Do("unlink", 0) EXCEPT !.n = n]>>
      <4> DEFINE x == [Do("unlink", 0) EXCEPT !.n = n]
      <4>1. x.t = "unlink"
        BY DEF Do
      <4> HIDE DEF x
      <4>2. Head(<<x>>) = x
        BY OneTask
      <4>3. todo # <<x>>
        BY <1>1, <4>1, <4>2
      <4> QED BY <4>3 DEF x
    <3> QED BY <1>1, <1>4, <3>1, <3>2 DEF FileTasks
  <2> DEFINE x == Do("commit", 0)
             y == Do("close", 0)
  <2>2. <<>> \in Seq(AnyTask) /\ <<y>> \in Seq(AnyTask)
    <3>1. y \in AnyTask
      BY CommitTask
    <3> HIDE DEF y
    <3> QED BY <3>1
  <2> HIDE DEF x, y
  <2>3. todo = <<x>> => todo' = <<>>
    BY <1>1, <2>2, OneTask, ThenNothing
  <2>4. todo = <<x, y>> => todo' = <<y>>
    BY <1>1, <2>2, TwoTasks, ThenNothing
  <2> QED BY <2>1, <2>3, <2>4, FileTaskLists DEF x, y
<1> DEFINE q == NextPage(c, {file.page, file.held})
           n == maxIno[c] + 1
           first == Stored(file, n, 0)
           later == Stored(file, file.ino, file.ver + 1)
<1>6. files' = View(c)'
  <2>1. files' = View(Active)'
    BY DEF Commit
  <2>2. View(Active)' = View(c)'
    BY <1>4
  <2> QED BY <2>1, <2>2
<1>7. /\ q # NoPage => /\ q \in InodePages /\ q # MaxInodes - 1 /\ q \notin Used(c)
                       /\ q # file.page
      /\ file \in OpenFile /\ file.ino \in Nat /\ file.ver \in Nat /\ file.page \in InodePages
      /\ file.name \notin Markers /\ file.data \in 0 .. MaxData
  BY <1>2, <1>4, NextPageParts, FileParts, NamesApart
<1>8. maxIno[c] \in Nat /\ n \in Nat /\ n # 0 /\ n > maxIno[c]
      /\ \A p \in Used(c) : area[c][p].ino \in Nat /\ area[c][p].ino # n
  <2>1. maxIno[c] \in Nat /\ \A p \in Used(c) : area[c][p].ino \in Nat
    BY <1>2, UsedTypes, VersionParts DEF SwapTypes
  <2> QED BY <1>4, <2>1 DEF Counted
<1>9. /\ first \in Version /\ first.ino = n /\ first.name = file.name
      /\ first.data = file.data
      /\ later \in Version /\ later.ino = file.ino /\ later.name = file.name
      /\ later.data = file.data
  BY <1>7, <1>8 DEF Stored, OpenFile, Version
<1>10. \/ UNCHANGED <<area, maxIno, file>>
       \/ /\ file.ino = 0
          /\ area' = [area EXCEPT ![c][file.page] = first]
          /\ maxIno' = [maxIno EXCEPT ![c] = n]
          /\ file' = [file EXCEPT !.ino = n, !.mod = FALSE]
       \/ /\ file.ino # 0 /\ q # NoPage
          /\ area' = [area EXCEPT ![c][q] = later]
          /\ file' = [file EXCEPT !.ver = @ + 1, !.page = q, !.mod = FALSE]
          /\ UNCHANGED maxIno
  BY <1>4 DEF Commit
<1> HIDE DEF q, n, first, later
<1>11. /\ LeadsTo(c)' /\ (\A d \in Flashes : WellFormed(d)') /\ Counted(c)' /\ FileFits(c)'
       /\ area' \in [Flashes -> [InodePages -> Version \cup {Blank}]]
       /\ file' \in OpenFile /\ maxIno' \in [Flashes -> Nat]
  <2>1. CASE UNCHANGED <<area, maxIno, file>>
    <3>1. Used(c)' = Used(c) /\ UsedData(c)' = UsedData(c)
          /\ (\A d \in Flashes : WellFormed(d)') /\ LeadsTo(c)'
      BY <1>1, <1>2, <1>3, <2>1, SameArea, LeadsStays, Others
    <3>2. Counted(c)'
      BY <1>1, <1>4, <2>1, <3>1 DEF Counted
    <3>3. FileFits(c)'
      BY <1>1, <1>4, <2>1, <3>1 DEF FileFits
    <3> QED BY <1>2, <1>7, <2>1, <3>1, <3>2, <3>3 DEF SwapTypes
  <2>2. ASSUME NEW p \in InodePages, p # MaxInodes - 1, p \notin Used(c),
               NEW v \in Version, area' = [area EXCEPT ![c][p] = v],
               v.ino # 0, v.name \notin Markers, v.data = file.data,
               \A r \in Used(c) :
                 /\ area[c][r].ino = v.ino => area[c][r].name \notin Markers
                 /\ area[c][r].data = v.data => v.data = 0 \/ area[c][r].ino = v.ino,
               maxIno' \in [Flashes -> Nat], maxIno[c] <= maxIno'[c], v.ino <= maxIno'[c],
               file' \in OpenFile, file'.page # MaxInodes - 1, file'.ino = v.ino,
               file'.data = file.data
        PROVE  /\ LeadsTo(c)' /\ (\A d \in Flashes : WellFormed(d)') /\ Counted(c)' /\ FileFits(c)'
               /\ area' \in [Flashes -> [InodePages -> Version \cup {Blank}]]
    <3>1. Puts(c, p, v)
      BY <2>2 DEF Puts
    <3>2. /\ LeadsTo(c)' /\ (\A d \in Flashes : WellFormed(d)')
          /\ area' \in [Flashes -> [InodePages -> Version \cup {Blank}]]
      BY <1>1, <1>2, <1>3, <2>2, <3>1, PutFile
    <3>3. /\ Used(c)' = Used(c) \cup {p} /\ area'[c][p] = v
          /\ \A r \in Used(c) : area'[c][r] = area[c][r]
      BY <1>2, <3>1, PutParts
    <3>4. UsedData(c)' \subseteq UsedData(c) \cup ({file.data} \ {0})
      BY <2>2, <3>3 DEF UsedData
    <3>5. \A r \in Used(c)' : area'[c][r].ino <= maxIno'[c]
      BY <1>4, <1>8, <2>2, <3>3 DEF Counted
    <3>6. Counted(c)'
      BY <1>1, <1>4, <3>4, <3>5 DEF Counted, FileFits
    <3>7. FileFits(c)'
      BY <1>1, <1>4, <2>2, <3>3 DEF FileFits
    <3> QED BY <3>2, <3>6, <3>7
  <2>3. CASE /\ file.ino = 0
             /\ area' = [area EXCEPT ![c][file.page] = first]
             /\ maxIno' = [maxIno EXCEPT ![c] = n]
             /\ file' = [file EXCEPT !.ino = n, !.mod = FALSE]
    <3>1. /\ file' \in OpenFile /\ file'.page = file.page /\ file'.ino = n
          /\ file'.data = file.data
      BY <1>7, <1>8, <2>3 DEF OpenFile
    <3>2. maxIno' \in [Flashes -> Nat] /\ maxIno'[c] = n
      BY <1>2, <1>8, <2>3 DEF SwapTypes
    <3>3. file.page # MaxInodes - 1 /\ file.page \notin Used(c)
      BY <1>4, <2>3 DEF FileFits
    <3>4. \A r \in Used(c) : area[c][r].data = file.data => file.data = 0
      BY <1>2, <1>4, <2>3 DEF FileFits, WellFormed
    <3>5. maxIno[c] <= maxIno'[c] /\ first.ino <= maxIno'[c]
      BY <1>8, <1>9, <3>2
    <3>6. \A r \in Used(c) :
            /\ area[c][r].ino = first.ino => area[c][r].name \notin Markers
            /\ area[c][r].data = first.data =>
                 first.data = 0 \/ area[c][r].ino = first.ino
      BY <1>8, <1>9, <3>4
    <3>7. /\ first.ino # 0 /\ first.name \notin Markers /\ first.data = file.data
          /\ file'.ino = first.ino /\ first \in Version /\ file.page \in InodePages
          /\ file'.page # MaxInodes - 1
      BY <1>7, <1>8, <1>9, <3>1, <3>3
    <3>8. area' = [area EXCEPT ![c][file.page] = first]
      BY <2>3
    <3> QED BY <2>2, <3>1, <3>2, <3>3, <3>5, <3>6, <3>7, <3>8
  <2>4. CASE /\ file.ino # 0 /\ q # NoPage
             /\ area' = [area EXCEPT ![c][q] = later]
             /\ file' = [file EXCEPT !.ver = @ + 1, !.page = q, !.mod = FALSE]
             /\ UNCHANGED maxIno
    <3>1. /\ file' \in OpenFile /\ file'.page = q /\ file'.ino = file.ino
          /\ file'.data = file.data
      <4>1. /\ file' = [file EXCEPT !.ver = file.ver + 1, !.page = q, !.mod = FALSE]
            /\ q \in InodePages /\ file.ver + 1 \in Nat /\ file \in OpenFile
        BY <1>7, <2>4
      <4> QED BY <4>1 DEF OpenFile
    <3>2. \A r \in Used(c) :
            /\ area[c][r].ino = file.ino => area[c][r].name \notin Markers
            /\ area[c][r].data = file.data => file.data = 0 \/ area[c][r].ino = file.ino
      BY <1>4 DEF FileFits
    <3>3. maxIno' \in [Flashes -> Nat] /\ maxIno[c] <= maxIno'[c] /\ file.ino <= maxIno'[c]
      BY <1>2, <1>4, <1>8, <2>4 DEF SwapTypes, FileFits
    <3>4. \A r \in Used(c) :
            /\ area[c][r].ino = later.ino => area[c][r].name \notin Markers
            /\ area[c][r].data = later.data =>
                 later.data = 0 \/ area[c][r].ino = later.ino
      BY <1>9, <3>2
    <3>5. /\ later.ino # 0 /\ later.name \notin Markers /\ later.data = file.data
          /\ file'.ino = later.ino /\ later \in Version /\ later.ino <= maxIno'[c]
          /\ q \in InodePages /\ q # MaxInodes - 1 /\ q \notin Used(c)
          /\ file'.page # MaxInodes - 1
      BY <1>7, <1>9, <2>4, <3>1, <3>3
    <3>6. area' = [area EXCEPT ![c][q] = later]
      BY <2>4
    <3> QED BY <2>2, <3>1, <3>3, <3>4, <3>5, <3>6
  <2> QED BY <1>10, <2>1, <2>3, <2>4
<1>12. file' # NoFile
  BY <1>11, MarkAssumption
<1>13. Mounted(c)'
  BY <1>1, <1>4, <1>6, <1>11 DEF Mounted
<1>14. Working'
  BY <1>5, <1>11, <1>12, <1>13 DEF Working
<1>15. SwapTypes'
  BY <1>1, <1>2, <1>11 DEF SwapTypes
<1>16. MountedBeforeUse'
  BY <1>1, <1>4 DEF MountedBeforeUse
<1> QED BY <1>11, <1>14, <1>15, <1>16 DEF SwapInv

(***************************************************************************)
(* Calls that are waiting, and the ends of calls.                          *)
(***************************************************************************)
LEMMA SameFlash ==
  ASSUME UNCHANGED flash
  PROVE  \A d \in Flashes :
           /\ Used(d)' = Used(d) /\ UsedData(d)' = UsedData(d)
           /\ LatestPages(d)' = LatestPages(d) /\ View(d)' = View(d)
           /\ WellFormed(d)' <=> WellFormed(d)
           /\ LeadsTo(d)' <=> LeadsTo(d)
           /\ \A n : Find(d, n)' = Find(d, n)
           /\ \A m : Marked(d, m)' <=> Marked(d, m)
<1>1. area' = area /\ valid' = valid
  BY DEF flash
<1>2. ASSUME NEW d \in Flashes
      PROVE  LeadsTo(d)' <=> LeadsTo(d)
  <2>1. \A e \in Flashes : \A m : Marked(e, m)' <=> Marked(e, m)
    BY <1>1, SameArea
  <2> QED BY <1>1, <2>1, Others DEF LeadsTo
<1> QED BY <1>1, <1>2, SameArea

LEMMA FoundStays ==
  ASSUME Found, UNCHANGED <<flash, files>>
  PROVE  Found'
<1>1. \A d \in Flashes : View(d)' = View(d) /\ (LeadsTo(d)' <=> LeadsTo(d)) /\ valid' = valid
  BY SameFlash DEF flash
<1> QED BY <1>1 DEF Found, NoFiles

LEMMA SwapStays ==
  ASSUME SwapInv, UNCHANGED swapVars, inst' = inst, call' = call \/ todo = <<>>
  PROVE  SwapInv'
<1>1. /\ UNCHANGED flash /\ UNCHANGED <<engaged, maxIno, freeData, file, todo, files>>
  BY DEF swapVars, flash
<1>2. \A d \in Flashes :
        /\ Used(d)' = Used(d) /\ UsedData(d)' = UsedData(d)
        /\ LatestPages(d)' = LatestPages(d) /\ View(d)' = View(d)
        /\ WellFormed(d)' <=> WellFormed(d)
        /\ LeadsTo(d)' <=> LeadsTo(d)
        /\ \A n : Find(d, n)' = Find(d, n)
        /\ \A m : Marked(d, m)' <=> Marked(d, m)
  BY <1>1, SameFlash
<1>3. area' = area /\ valid' = valid
  BY <1>1 DEF flash
<1>4. Found => Found'
  BY <1>1, FoundStays
<1>5. Off => Off'
  BY <1>1 DEF Off
<1>6. \A c \in Flashes : Counted(c) => Counted(c)'
  BY <1>1, <1>2, <1>3 DEF Counted
<1>7. \A c \in Flashes : FileFits(c) => FileFits(c)'
  BY <1>1, <1>2, <1>3 DEF FileFits
<1>8. \A c \in Flashes : Mounted(c) => Mounted(c)'
  BY <1>1, <1>2, <1>6, <1>7 DEF Mounted
<1>9. Working => Working'
  BY <1>1, <1>2, <1>4, <1>5, <1>8 DEF Working
<1>10. Mounting => Mounting'
  BY <1>1, <1>4, <1>5 DEF Mounting
<1>11. Creating => Creating'
  <2> HAVE Creating
  <2>1. todo # <<>>
    BY FirstTasks
  <2>2. NothingThere => NothingThere'
    BY <1>3, <2>1 DEF NothingThere
  <2> QED BY <1>1, <1>3, <1>5, <2>2 DEF Creating, NoFiles, EmptyArea
<1>12. ToSeal => ToSeal'
  BY <1>1, <1>2, <1>8 DEF ToSeal
<1>13. ToErase => ToErase'
  BY <1>1, <1>2, <1>3 DEF ToErase
<1>14. ToCreate => ToCreate'
  BY <1>1, <1>2, <1>3 DEF ToCreate, EmptyArea
<1>15. \A c \in Flashes : Copying(c) => Copying(c)'
  <2> TAKE c \in Flashes
  <2> HAVE Copying(c)
  <2> DEFINE o == Other(c)
  <2>1. o \in Flashes
    BY Others
  <2> HIDE DEF o
  <2>2. Copied(c, o) => Copied(c, o)'
    BY <1>2, <1>3, <2>1 DEF Copied
  <2>3. Counted(o) => Counted(o)'
    BY <1>6, <2>1
  <2> QED BY <1>1, <1>2, <1>3, <2>1, <2>2, <2>3 DEF Copying, o
<1>16. ToCopyFiles => ToCopyFiles'
  BY <1>1, <1>15 DEF ToCopyFiles
<1>17. \A c \in Flashes : ToCopy(c)' = ToCopy(c)
  BY <1>2, <1>3 DEF ToCopy
<1>18. ToComplete => ToComplete'
  BY <1>1, <1>2, <1>3, <1>15, <1>17, Others DEF ToComplete
<1>19. SwapTypes' /\ MountedBeforeUse'
  BY <1>1, <1>3 DEF SwapInv, SwapTypes, MountedBeforeUse
<1> QED BY <1>2, <1>9, <1>10, <1>11, <1>12, <1>13, <1>14, <1>16, <1>18, <1>19 DEF SwapInv

\* fs_impl.reset(), or a power loss: the next mount finds the files.
LEMMA UnmountedFinds ==
  ASSUME SwapTypes, \A d \in Flashes : WellFormed(d), Found, Unmounted,
         UNCHANGED <<flash, files>>, todo' = <<>>, inst' = NoThread
  PROVE  SwapInv'
<1>1. Off' /\ file' = NoFile /\ engaged' = {}
  BY DEF Unmounted, Off
<1>2. SwapTypes'
  BY DEF SwapTypes, Unmounted, flash
<1>3. Found'
  BY FoundStays
<1>4. \A d \in Flashes : WellFormed(d)'
  BY SameFlash
<1>5. Working'
  BY <1>1, <1>3 DEF Working
<1> QED BY <1>1, <1>2, <1>4, <1>5 DEF SwapInv, MountedBeforeUse

LEMMA ClosedWorks ==
  ASSUME SwapInv, Closed
  PROVE  SwapInv'
<1>1. /\ todo # <<>> /\ Head(todo).t = "close" /\ Unmounted /\ inst' = NoThread
      /\ Then(<<>>) /\ UNCHANGED <<flash, files>>
  BY DEF Closed, Doing, Release
<1>2. SwapTypes /\ Working /\ \A d \in Flashes : WellFormed(d)
  BY <1>1, Phases DEF SwapInv, Doing
<1>3. todo \in FileTasks /\ Found
  BY <1>1, <1>2 DEF Working, Found, Mounted
<1>4. todo' = <<>>
  <2>1. todo # <<Do("commit", 0)>>
    BY <1>1, OneTask, DoParts
  <2>2. todo # <<Do("commit", 0), Do("close", 0)>>
    BY <1>1, TwoTasks, DoParts
  <2>3. ASSUME NEW n PROVE todo # <<[Do("unlink", 0) EXCEPT !.n = n]>>
    <3> DEFINE x == [Do("unlink", 0) EXCEPT !.n = n]
    <3>1. x.t = "unlink"
      BY DEF Do
    <3> HIDE DEF x
    <3>2. todo # <<x>>
      BY <1>1, <3>1, OneTask
    <3> QED BY <3>2 DEF x
  <2>4. todo = <<Do("close", 0)>>
    BY <1>1, <1>3, <2>1, <2>2, <2>3 DEF FileTasks
  <2>5. <<>> \in Seq(AnyTask)
    OBVIOUS
  <2> QED BY <1>1, <2>4, <2>5, OneTask, ThenNothing
<1> QED BY <1>1, <1>2, <1>3, <1>4, UnmountedFinds

\* What open() hands out belongs to no marker and to no other file.
LEMMA OpenedFits ==
  ASSUME SwapTypes, NEW c \in Flashes, WellFormed(c), engaged = {c}, Counted(c),
         NEW n \in Names \cup {NoName}, NEW mode,
         file' = Opened(n, mode), file' # NoFile, UNCHANGED <<flash, maxIno, freeData>>
  PROVE  file' \in OpenFile /\ FileFits(c)'
<1> DEFINE p == Find(c, n)
           q == NextPage(c, {})
           i == area[c][p]
<1>1. Active = c
  BY ActiveIs
<1>2. /\ \/ /\ p = NoPage /\ q # NoPage
            /\ file' = [ino |-> 0, ver |-> 0, name |-> n, val |-> Empty, data |-> 0,
                        page |-> q, held |-> q, mod |-> TRUE]
         \/ /\ p # NoPage /\ q # NoPage
            /\ file' = [ino |-> i.ino, ver |-> i.ver, name |-> n, val |-> Empty,
                        data |-> 0, page |-> q, held |-> q, mod |-> FALSE]
         \/ /\ p # NoPage
            /\ file' = [ino |-> i.ino, ver |-> i.ver, name |-> n, val |-> i.val,
                        data |-> i.data, page |-> p, held |-> p, mod |-> FALSE]
  BY <1>1 DEF Opened
<1>3. /\ p # NoPage => /\ p \in Used(c) /\ i.name = n /\ i \in Version
                       /\ i.ino \in Nat /\ i.ver \in Nat /\ i.data \in 0 .. MaxData
                       /\ i.val \in Vals \cup {Empty}
      /\ q # NoPage => q \in InodePages /\ q # MaxInodes - 1 /\ q \notin Used(c)
  BY FindParts, NextPageParts, UsedTypes, VersionParts
<1>4. /\ Used(c) \subseteq InodePages /\ 0 \in 0 .. MaxData /\ n \notin Markers
      /\ 0 \notin freeData[c] /\ maxIno[c] \in Nat
  BY UsedTypes, SwapAssumption, NamesApart, NamesAssumption DEF SwapTypes, DataPages, Markers
<1>5. /\ Used(c)' = Used(c) /\ area' = area /\ maxIno' = maxIno /\ freeData' = freeData
  BY SameFlash DEF flash
<1>6. \A r \in Used(c) : /\ area[c][r].ino # 0 /\ r # MaxInodes - 1
                         /\ area[c][r].ino <= maxIno[c]
                         /\ area[c][r].data = 0 \/ area[c][r].data \notin freeData[c]
  BY DEF WellFormed, Counted, UsedData
<1>7. p # NoPage =>
        /\ \A r \in Used(c) : area[c][r].ino = i.ino => area[c][r].name \notin Markers
        /\ \A r \in Used(c) : area[c][r].data = i.data =>
             i.data = 0 \/ area[c][r].ino = i.ino
  BY <1>3, <1>4 DEF WellFormed
<1> HIDE DEF p, q, i
<1>8. CASE /\ p = NoPage /\ q # NoPage
           /\ file' = [ino |-> 0, ver |-> 0, name |-> n, val |-> Empty, data |-> 0,
                       page |-> q, held |-> q, mod |-> TRUE]
  BY <1>3, <1>4, <1>5, <1>6, <1>8 DEF FileFits, OpenFile
<1>9. CASE /\ p # NoPage /\ q # NoPage
           /\ file' = [ino |-> i.ino, ver |-> i.ver, name |-> n, val |-> Empty,
                       data |-> 0, page |-> q, held |-> q, mod |-> FALSE]
  <2>1. file' \in OpenFile
    BY <1>3, <1>4, <1>9 DEF OpenFile
  <2>2. i.ino <= maxIno[c] /\ i.ino # 0
    BY <1>3, <1>6, <1>9 DEF i
  <2> QED BY <2>1, <2>2, <1>3, <1>4, <1>5, <1>7, <1>9 DEF FileFits
<1>10. CASE /\ p # NoPage
            /\ file' = [ino |-> i.ino, ver |-> i.ver, name |-> n, val |-> i.val,
                        data |-> i.data, page |-> p, held |-> p, mod |-> FALSE]
  <2>1. file' \in OpenFile
    BY <1>3, <1>4, <1>10 DEF OpenFile
  <2>2. i.ino <= maxIno[c] /\ i.ino # 0 /\ p # MaxInodes - 1 /\ i.data \notin freeData[c]
    BY <1>3, <1>4, <1>6, <1>10 DEF i
  <2> QED BY <2>1, <2>2, <1>5, <1>7, <1>10 DEF FileFits
<1> QED BY <1>2, <1>8, <1>9, <1>10

\* A call is served when the file system is mounted.
LEMMA ServedMounted ==
  ASSUME SwapInv, todo = <<>>, inst # NoThread
  PROVE  \E c \in Flashes : Mounted(c) /\ LeadsTo(c)
<1>1. Working /\ engaged # {}
  BY Phases DEF SwapInv, MountedBeforeUse
<1> QED BY <1>1 DEF Working, Off

LEMMA ServeOpenWorks ==
  ASSUME SwapInv, LockTypes, NEW t \in Threads, ServeOpen(t)
  PROVE  SwapInv'
<1>1. /\ inst = t /\ t # NoThread /\ todo = <<>> /\ todo' = <<>>
      /\ UNCHANGED <<flash, files>> /\ call[t].n \in Names \cup {NoName}
  BY ThreadAssumption DEF ServeOpen, LockTypes, Calls
<1>2. SwapTypes /\ \A d \in Flashes : WellFormed(d)
  BY DEF SwapInv
<1>3. PICK c \in Flashes : Mounted(c) /\ LeadsTo(c)
  BY <1>1, ServedMounted
<1>4. CASE Release
  <2>1. Found /\ Unmounted /\ inst' = NoThread
    BY <1>3, <1>4 DEF Found, Mounted, Release
  <2> QED BY <1>1, <1>2, <2>1, UnmountedFinds
<1>5. CASE file' = Opened(call[t].n, call[t].op) /\ file' # NoFile /\ UNCHANGED <<mount, inst>>
  <2>1. engaged = {c} /\ Counted(c) /\ UNCHANGED <<maxIno, freeData, engaged>>
    BY <1>3, <1>5 DEF Mounted, mount
  <2>2. file' \in OpenFile /\ FileFits(c)'
    BY <1>1, <1>2, <1>5, <2>1, OpenedFits
  <2>3. Mounted(c)' /\ LeadsTo(c)'
    BY <1>1, <1>3, <2>1, <2>2, MountedStays
  <2>4. Working'
    BY <1>1, <2>3, FileTaskLists DEF Working
  <2>5. SwapTypes' /\ MountedBeforeUse'
    BY <1>1, <1>2, <1>5, <2>1, <2>2 DEF SwapTypes, MountedBeforeUse, flash
  <2>6. \A d \in Flashes : WellFormed(d)'
    BY <1>1, <1>2, SameFlash
  <2> QED BY <2>4, <2>5, <2>6 DEF SwapInv
<1> QED BY <1>4, <1>5 DEF ServeOpen

LEMMA ServeOtherWorks ==
  ASSUME SwapInv, NEW t \in Threads, ServeOther(t)
  PROVE  SwapInv'
<1>1. /\ inst = t /\ t # NoThread /\ todo = <<>> /\ todo' = <<>> /\ UNCHANGED <<flash, files>>
      /\ Unmounted /\ inst' = NoThread
  BY ThreadAssumption DEF ServeOther, Release
<1>2. SwapTypes /\ Found /\ \A d \in Flashes : WellFormed(d)
  BY <1>1, ServedMounted DEF SwapInv, Found, Mounted
<1> QED BY <1>1, <1>2, UnmountedFinds

\* fs_impl.emplace(): nothing is engaged and no file is open before it.
LEMMA MountWorks ==
  ASSUME SwapInv, LockInv, NEW t \in Threads, Mount(t)
  PROVE  SwapInv'
<1>1. /\ Entered(t) /\ inst = NoThread /\ inst' = t /\ t # NoThread
      /\ UNCHANGED <<flash, mount, file>>
      /\ \/ todo' = CreateBoth /\ files' = NoFiles /\ call[t].op = "recreate"
         \/ todo' = <<Do("pick", 0)>> /\ files' = files
      /\ call' = [call EXCEPT ![t].in = TRUE]
  BY ThreadAssumption DEF Mount, Entered, NoFiles
<1>2. todo = <<>>
  BY <1>1 DEF LockInv, TasksAfterLock
<1>3. Off /\ Found /\ SwapTypes /\ \A d \in Flashes : WellFormed(d)
  BY <1>1, <1>2, Phases DEF SwapInv, MountedBeforeUse, Working, Off, Mounted
<1>4. Off' /\ SwapTypes' /\ \A d \in Flashes : WellFormed(d)'
  BY <1>1, <1>3, SameFlash DEF Off, SwapTypes, mount, flash
<1>5. CASE todo' = CreateBoth /\ files' = NoFiles /\ call[t].op = "recreate"
  <2>3. NothingThere'
    BY <1>1, <1>5 DEF NothingThere, LockInv, LockTypes, Calls
  <2>1. Creating'
    BY <1>4, <1>5, <2>3 DEF Creating, NoFiles, CreateBoth, Do
  <2>2. MountedBeforeUse'
    BY <1>1, <1>4, <1>5, FiveTasks DEF MountedBeforeUse, CreateBoth
  <2> QED BY <1>4, <2>1, <2>2 DEF SwapInv
<1>6. CASE todo' = <<Do("pick", 0)>> /\ files' = files
  <2>1. Found'
    BY <1>1, <1>3, <1>6, FoundStays
  <2>2. Mounting'
    BY <1>4, <1>6, <2>1 DEF Mounting, Do
  <2>3. MountedBeforeUse'
    BY <1>1, <1>4, <1>6, OneTask DEF MountedBeforeUse
  <2> QED BY <1>4, <2>2, <2>3 DEF SwapInv
<1> QED BY <1>1, <1>5, <1>6

\* A header that cannot be written on the first mount of all: there was
\* nothing to find, and there still is not.
LEMMA MountThrowsWorks ==
  ASSUME SwapInv, NEW t \in Threads, MountThrows(t)
  PROVE  SwapInv'
<1>1. /\ inst = t /\ call[t].op # "recreate" /\ Doing("recreateHeader")
      /\ Unmounted /\ todo' = <<>> /\ inst' = NoThread /\ UNCHANGED <<flash, files>>
  BY DEF MountThrows
<1>2. SwapTypes /\ Creating /\ \A d \in Flashes : WellFormed(d)
  BY <1>1, Phases DEF SwapInv
<1>3. files = NoFiles
  BY <1>2 DEF Creating
<1>4. NothingThere => ~valid[2]
  BY <1>1 DEF NothingThere
<1>5. todo # CreateBoth
      /\ todo # <<Do("recreateErase", 2), Do("recreateHeader", 2), Do("pick", 0)>>
  BY <1>1, FiveTasks, ThreeTasks, DoParts DEF Doing, CreateBoth
<1>6. ~valid[2] /\ (~valid[1] \/ area[1] = EmptyArea)
  <2>1. 1 \in Flashes
    BY DEF Flashes
  <2> QED BY <1>2, <1>4, <1>5, <2>1 DEF Creating
<1>7. Found
  <2>1. CASE ~valid[1]
    BY <1>3, <1>6, <2>1 DEF Found, Flashes
  <2>2. CASE valid[1] /\ area[1] = EmptyArea
    <3>1. 1 \in Flashes /\ Other(1) = 2
      BY DEF Flashes, Other
    <3>2. View(1) = NoFiles
      BY <2>2, <3>1, EmptyIs
    <3> QED BY <1>3, <1>6, <2>2, <3>1, <3>2 DEF Found, LeadsTo
  <2> QED BY <1>6, <2>1, <2>2
<1> QED BY <1>1, <1>2, <1>7, UnmountedFinds

(***************************************************************************)
(* init(), and the seal.                                                   *)
(***************************************************************************)
LEMMA PickWorks ==
  ASSUME SwapInv, Pick, inst' # NoThread, UNCHANGED <<inst, call>>
  PROVE  SwapInv'
<1>1. /\ Doing("pick") /\ UNCHANGED <<flash, file, files>>
  BY DEF Pick
<1>2. /\ SwapTypes /\ Mounting /\ \A d \in Flashes : WellFormed(d)
  BY <1>1, Phases DEF SwapInv
<1>3. todo = <<Do("pick", 0)>> /\ Off /\ Found
  BY <1>2 DEF Mounting
<1>4. \A d \in Flashes : WellFormed(d)'
  BY <1>1, <1>2, SameFlash
<1>5. CASE \A d \in Flashes : ~valid[d]
  <2>1. Then(CreateBoth) /\ UNCHANGED mount
    BY <1>5 DEF Pick
  <2>2. todo' = CreateBoth
    BY <1>3, <2>1, CreateBothIsFine, ThenLast
  <2>3. files = NoFiles
    BY <1>3, <1>5 DEF Found, LeadsTo
  <2>6. NothingThere'
    BY <1>1, <1>5 DEF NothingThere, Flashes, flash
  <2>4. Creating'
    BY <1>1, <1>3, <2>1, <2>2, <2>3, <2>6 DEF Creating, Off, NoFiles, CreateBoth, Do, mount
  <2>5. SwapTypes' /\ MountedBeforeUse'
    <3>1. todo' # <<>>
      BY <2>2, FiveTasks DEF CreateBoth
    <3> QED BY <1>1, <1>2, <1>3, <2>1, <3>1
            DEF SwapTypes, MountedBeforeUse, Off, mount, flash
  <2> QED BY <1>4, <2>4, <2>5 DEF SwapInv
<1>6. CASE \E d \in Flashes : valid[d]
  <2>1. PICK c \in Flashes : LeadsTo(c) /\ View(c) = files
    BY <1>3, <1>6 DEF Found
  <2>2. Choice = c
    BY <1>2, <2>1, MarkersLead
  <2>3. /\ engaged' = {c}
        /\ maxIno' = [maxIno EXCEPT ![c] = HighestIno(c)]
        /\ freeData' = [freeData EXCEPT ![c] = DataPages \ UsedData(c)]
        /\ Then(<<Do("seal", c)>>) \/ Then(<<>>)
    BY <1>6, <2>2 DEF Pick
  <2>4. /\ HighestIno(c) \in Nat /\ \A p \in Used(c) : area[c][p].ino <= HighestIno(c)
    BY <1>2, HighestInoBounds
  <2>5. SwapTypes' /\ maxIno'[c] = HighestIno(c) /\ freeData'[c] = DataPages \ UsedData(c)
    BY <1>1, <1>2, <1>3, <2>3, <2>4 DEF SwapTypes, Off, flash
  <2>6. /\ Used(c)' = Used(c) /\ UsedData(c)' = UsedData(c) /\ View(c)' = View(c)
        /\ LeadsTo(c)' /\ area' = area
    BY <1>1, <2>1, SameFlash DEF flash
  <2>7. Counted(c)'
    BY <2>4, <2>5, <2>6 DEF Counted
  <2>8. FileFits(c)'
    BY <1>1, <1>3 DEF FileFits, Off
  <2>9. Mounted(c)' /\ file' = NoFile
    BY <1>1, <1>3, <2>1, <2>3, <2>6, <2>7, <2>8 DEF Mounted, Off
  <2>10. todo' = <<Do("seal", c)>> \/ todo' = <<>>
    <3> DEFINE x == Do("seal", c)
    <3>1. x \in AnyTask
      BY DEF Do, AnyTask, Kinds, Flashes
    <3> HIDE DEF x
    <3>2. <<x>> \in Seq(AnyTask) /\ <<>> \in Seq(AnyTask)
      BY <3>1
    <3> QED BY <1>3, <2>3, <3>2, ThenLast DEF x
  <2>11. Working' \/ ToSeal'
    BY <2>6, <2>9, <2>10, FileTaskLists DEF Working, ToSeal, Do
  <2>12. MountedBeforeUse'
    BY <2>3 DEF MountedBeforeUse
  <2> QED BY <1>4, <2>5, <2>11, <2>12 DEF SwapInv
<1> QED BY <1>5, <1>6

\* A seal on the active flash does not change which one is active when that
\* is fs1, and hides no file.
LEMMA SealMarks ==
  ASSUME SwapTypes, NEW c, NEW q, NEW v, Puts(c, q, v), WellFormed(c), q # MaxInodes - 1,
         v.ino # 0, v.name = Sealed, valid' = valid,
         \A p \in Used(c) :
           /\ area[c][p].ino = v.ino => area[c][p].name = Sealed
           /\ area[c][p].data = v.data => v.data = 0 \/ area[c][p].ino = v.ino
  PROVE  /\ View(c)' = View(c) /\ WellFormed(c)' /\ Marked(c, Sealed)'
         /\ c = 1 /\ LeadsTo(1) => LeadsTo(1)'
<1>1. Sealed \notin Names /\ Sealed # Completed
  BY NamesAssumption
<1>2. View(c)' = View(c)
  BY <1>1, PutUnseen
<1>3. WellFormed(c)'
  BY PutWellFormed
<1>4. /\ Marked(c, Sealed)'
      /\ Marked(c, Completed)' <=> Marked(c, Completed)
  BY <1>1, PutMarks
<1>5. ASSUME c = 1, LeadsTo(1) PROVE LeadsTo(1)'
  <2>1. Other(1) \in Flashes /\ Other(1) # c /\ 1 # 2
    BY <1>5 DEF Other, Flashes
  <2>2. \A m : Marked(Other(1), m)' <=> Marked(Other(1), m)
    BY <2>1, PutParts, SameArea
  <2> QED BY <1>4, <1>5, <2>1, <2>2 DEF LeadsTo
<1> QED BY <1>2, <1>3, <1>4, <1>5

SwapTasks(c) == <<Do("erase", Other(c)), Do("header", Other(c)),
                  Do("copy", Other(c)), Do("complete", Other(c))>>

LEMMA SwapTaskTypes ==
  ASSUME NEW c \in Flashes
  PROVE  /\ SwapTasks(c) \in Seq(AnyTask)
         /\ <<Do("header", Other(c)), Do("copy", Other(c)), Do("complete", Other(c))>>
              \in Seq(AnyTask)
         /\ <<Do("copy", Other(c)), Do("complete", Other(c))>> \in Seq(AnyTask)
         /\ <<Do("complete", Other(c))>> \in Seq(AnyTask)
<1> DEFINE x == Do("erase", Other(c))
           y == Do("header", Other(c))
           z == Do("copy", Other(c))
           w == Do("complete", Other(c))
<1>1. x \in AnyTask /\ y \in AnyTask /\ z \in AnyTask /\ w \in AnyTask
  BY Others DEF Do, AnyTask, Kinds, Flashes
<1> HIDE DEF x, y, z, w
<1>2. /\ <<x, y, z, w>> \in Seq(AnyTask) /\ <<y, z, w>> \in Seq(AnyTask)
      /\ <<z, w>> \in Seq(AnyTask) /\ <<w>> \in Seq(AnyTask)
  BY <1>1
<1> QED BY <1>2 DEF SwapTasks, x, y, z, w

LEMMA SealWorks ==
  ASSUME SwapInv, Seal, inst' # NoThread
  PROVE  SwapInv'
<1>1. Doing("seal") /\ UNCHANGED <<valid, engaged, freeData, file, files>>
  BY DEF Seal
<1>2. SwapTypes /\ ToSeal /\ \A d \in Flashes : WellFormed(d)
  BY <1>1, Phases DEF SwapInv
<1>3. PICK c \in Flashes :
        todo = <<Do("seal", c)>> /\ file = NoFile /\ Mounted(c) /\ LeadsTo(c)
  BY <1>2 DEF ToSeal
<1>4. On = c
  BY <1>3, OneTask, DoParts DEF On
<1> DEFINE p == NextPage(c, {})
           q == NextPage(c, {p})
           there == Find(c, Sealed)
           new == Marker(c, Sealed)
           again == [area[c][there] EXCEPT !.ver = @ + 1]
<1>5. \/ Then(<<>>) /\ UNCHANGED <<area, maxIno>>
      \/ /\ Then(SwapTasks(c)) /\ p # NoPage
         /\ \/ /\ there = NoPage
               /\ area' = [area EXCEPT ![c][p] = new]
               /\ maxIno' = [maxIno EXCEPT ![c] = @ + 1]
            \/ /\ there # NoPage
               /\ area' = IF q = NoPage THEN area ELSE [area EXCEPT ![c][q] = again]
               /\ UNCHANGED maxIno
  BY <1>4 DEF Seal, SwapTasks
<1>6. engaged = {c} /\ Counted(c) /\ View(c) = files
  BY <1>3 DEF Mounted
<1>7. MountedBeforeUse'
  BY <1>1, <1>6 DEF MountedBeforeUse
<1>8. /\ p # NoPage => p \in InodePages /\ p # MaxInodes - 1 /\ p \notin Used(c)
      /\ q # NoPage => q \in InodePages /\ q # MaxInodes - 1 /\ q \notin Used(c)
      /\ there # NoPage => there \in Used(c) /\ area[c][there].name = Sealed
      /\ there # NoPage => area[c][there] \in Version
  BY <1>2, NextPageParts, FindParts, UsedTypes
<1>9. maxIno[c] \in Nat /\ \A r \in Used(c) : area[c][r].ino \in Nat
  BY <1>2, UsedTypes, VersionParts DEF SwapTypes
<1> HIDE DEF p, q, there
<1>10. CASE Then(<<>>) /\ UNCHANGED <<area, maxIno>>
  <2>1. todo' = <<>>
    <3>1. <<>> \in Seq(AnyTask)
      OBVIOUS
    <3> QED BY <1>3, <1>10, <3>1, ThenLast
  <2>2. UNCHANGED <<flash, files, maxIno, engaged>> /\ freeData' = freeData
    BY <1>1, <1>10 DEF flash
  <2>3. FileFits(c)'
    BY <1>1, <1>3 DEF FileFits
  <2>4. Mounted(c)' /\ LeadsTo(c)'
    BY <1>3, <2>2, <2>3, MountedStays
  <2>5. Working'
    BY <2>1, <2>4, FileTaskLists DEF Working
  <2>6. SwapTypes' /\ \A d \in Flashes : WellFormed(d)'
    BY <1>1, <1>2, <1>10, <2>2, SameFlash DEF SwapTypes
  <2> QED BY <1>7, <2>5, <2>6 DEF SwapInv
<1>11. ASSUME Then(SwapTasks(c)), View(c)' = View(c), WellFormed(c)', Marked(c, Sealed)',
              c = 1 /\ LeadsTo(1) => LeadsTo(1)',
              \A d \in Flashes : d # c => area'[d] = area[d],
              area' \in [Flashes -> [InodePages -> Version \cup {Blank}]],
              maxIno' \in [Flashes -> Nat]
       PROVE  SwapInv'
  <2>1. todo' = SwapTasks(c)
    BY <1>3, <1>11, SwapTaskTypes, ThenLast
  <2>2. ToErase'
    BY <1>1, <1>3, <1>6, <1>11, <2>1 DEF ToErase, SwapTasks, Other, Do, LeadsTo
  <2>3. \A d \in Flashes : WellFormed(d)'
    BY <1>2, <1>11, SameArea
  <2>4. SwapTypes'
    BY <1>1, <1>2, <1>11 DEF SwapTypes
  <2> QED BY <1>7, <2>2, <2>3, <2>4 DEF SwapInv
<1>12. CASE /\ Then(SwapTasks(c)) /\ there = NoPage /\ p # NoPage
            /\ area' = [area EXCEPT ![c][p] = new]
            /\ maxIno' = [maxIno EXCEPT ![c] = @ + 1]
  <2>1. /\ new \in Version /\ new.ino = maxIno[c] + 1 /\ new.name = Sealed /\ new.data = 0
    BY <1>9, SwapAssumption DEF Marker, Version
  <2> HIDE DEF new
  <2>2. Puts(c, p, new)
    BY <1>8, <1>12, <2>1 DEF Puts
  <2>3. \A r \in Used(c) : area[c][r].ino # new.ino
    BY <1>6, <1>9, <2>1 DEF Counted
  <2>4. new.ino # 0
    BY <1>9, <2>1
  <2>5. /\ View(c)' = View(c) /\ WellFormed(c)' /\ Marked(c, Sealed)'
        /\ c = 1 /\ LeadsTo(1) => LeadsTo(1)'
    BY <1>1, <1>2, <1>8, <1>12, <2>1, <2>2, <2>3, <2>4, SealMarks
  <2>6. maxIno' \in [Flashes -> Nat]
    BY <1>2, <1>9, <1>12 DEF SwapTypes
  <2> QED BY <1>2, <1>11, <1>12, <2>2, <2>5, <2>6, PutParts
<1>13. CASE /\ Then(SwapTasks(c)) /\ there # NoPage /\ q = NoPage
            /\ area' = area /\ maxIno' = maxIno
  <2>1. View(c)' = View(c) /\ WellFormed(c)' /\ (LeadsTo(c)' <=> LeadsTo(c))
        /\ (Marked(c, Sealed)' <=> Marked(c, Sealed))
    BY <1>1, <1>2, <1>13, SameFlash DEF flash
  <2>2. Marked(c, Sealed)
    BY <1>8, <1>13 DEF Marked
  <2> QED BY <1>2, <1>3, <1>11, <1>13, <2>1, <2>2 DEF SwapTypes
<1>14. CASE /\ Then(SwapTasks(c)) /\ there # NoPage /\ q # NoPage
            /\ area' = [area EXCEPT ![c][q] = again] /\ maxIno' = maxIno
  <2>1. /\ again \in Version /\ again.ino = area[c][there].ino /\ again.name = Sealed
        /\ again.data = area[c][there].data
    BY <1>8, <1>14 DEF Version
  <2> HIDE DEF again
  <2>2. Puts(c, q, again)
    BY <1>8, <1>14, <2>1 DEF Puts
  <2>3. again.ino # 0
    BY <1>2, <1>8, <1>14, <2>1 DEF WellFormed
  <2>4. \A r \in Used(c) :
          /\ area[c][r].ino = again.ino => area[c][r].name = Sealed
          /\ area[c][r].data = again.data => again.data = 0 \/ area[c][r].ino = again.ino
    <3>1. Sealed \in Markers
      BY DEF Markers
    <3> QED BY <1>2, <1>8, <1>14, <2>1, <3>1 DEF WellFormed
  <2>5. /\ View(c)' = View(c) /\ WellFormed(c)' /\ Marked(c, Sealed)'
        /\ c = 1 /\ LeadsTo(1) => LeadsTo(1)'
    BY <1>1, <1>2, <1>8, <1>14, <2>1, <2>2, <2>3, <2>4, SealMarks
  <2> QED BY <1>2, <1>11, <1>14, <2>2, <2>5, PutParts DEF SwapTypes
<1> QED BY <1>5, <1>10, <1>12, <1>13, <1>14

(***************************************************************************)
(* A flash is erased and gets a new header.                                *)
(***************************************************************************)
LEMMA ErasedIs ==
  ASSUME NEW c \in Flashes, area'[c] = EmptyArea
  PROVE  /\ Used(c)' = {} /\ UsedData(c)' = {} /\ WellFormed(c)'
         /\ View(c)' = NoFiles
<1>1. Used(c)' = {}
  BY DEF Used, EmptyArea
<1>2. LatestPages(c)' = {} /\ UsedData(c)' = {}
  BY <1>1 DEF LatestPages, UsedData
<1>3. \A n : Find(c, n)' = NoPage
  BY <1>2 DEF Find
<1>4. View(c)' = NoFiles
  BY <1>3 DEF View, NoFiles
<1> QED BY <1>1, <1>2, <1>4 DEF WellFormed

LEMMA RecreateTypes ==
  /\ <<Do("recreateHeader", 1), Do("recreateErase", 2), Do("recreateHeader", 2),
       Do("pick", 0)>> \in Seq(AnyTask)
  /\ <<Do("recreateErase", 2), Do("recreateHeader", 2), Do("pick", 0)>> \in Seq(AnyTask)
  /\ <<Do("recreateHeader", 2), Do("pick", 0)>> \in Seq(AnyTask)
  /\ <<Do("pick", 0)>> \in Seq(AnyTask)
<1> DEFINE x == Do("recreateHeader", 1)
           y == Do("recreateErase", 2)
           z == Do("recreateHeader", 2)
           w == Do("pick", 0)
<1>1. x \in AnyTask /\ y \in AnyTask /\ z \in AnyTask /\ w \in AnyTask
  BY DEF Do, AnyTask, Kinds
<1> HIDE DEF x, y, z, w
<1>2. /\ <<x, y, z, w>> \in Seq(AnyTask) /\ <<y, z, w>> \in Seq(AnyTask)
      /\ <<z, w>> \in Seq(AnyTask) /\ <<w>> \in Seq(AnyTask)
  BY <1>1
<1> QED BY <1>2 DEF x, y, z, w

LEMMA EraseWorks ==
  ASSUME SwapInv, Erase, inst' # NoThread, UNCHANGED <<inst, call>>
  PROVE  SwapInv'
<1>1. /\ valid' = [valid EXCEPT ![On] = FALSE] /\ area' = [area EXCEPT ![On] = EmptyArea]
      /\ Then(<<>>) /\ UNCHANGED <<mount, file, files>>
      /\ UNCHANGED <<engaged, maxIno, freeData>>
      /\ Doing("erase") \/ Doing("recreateErase")
  BY DEF Erase, mount
<1>2. SwapTypes /\ \A d \in Flashes : WellFormed(d)
  BY DEF SwapInv
<1>3. EmptyArea \in [InodePages -> Version \cup {Blank}]
  BY DEF EmptyArea
<1>4. SwapTypes'
  BY <1>1, <1>2, <1>3 DEF SwapTypes
<1>5. ASSUME NEW o \in Flashes, On = o
      PROVE  /\ area'[o] = EmptyArea /\ ~valid'[o]
             /\ \A d \in Flashes : d # o => area'[d] = area[d] /\ valid'[d] = valid[d]
             /\ \A d \in Flashes : WellFormed(d)'
  <2>1. /\ area'[o] = EmptyArea /\ ~valid'[o]
        /\ \A d \in Flashes : d # o => area'[d] = area[d] /\ valid'[d] = valid[d]
    BY <1>1, <1>2, <1>5 DEF SwapTypes
  <2> QED BY <1>2, <2>1, ErasedIs, SameArea
<1>6. CASE Doing("erase")
  <2>1. PICK c \in Flashes :
          /\ todo = SwapTasks(c) /\ file = NoFile /\ engaged = {c}
          /\ View(c) = files /\ Marked(c, Sealed) /\ valid[c]
    BY <1>6, Phases DEF ToErase, SwapTasks
  <2> DEFINE o == Other(c)
             left == <<Do("header", o), Do("copy", o), Do("complete", o)>>
  <2>2. On = o /\ o \in Flashes /\ o # c
    BY <2>1, FourTasks, DoParts, Others DEF On, SwapTasks
  <2>3. todo' = left
    <3>1. Tail(SwapTasks(c)) = left
      BY FourTasks DEF SwapTasks
    <3>2. left \in Seq(AnyTask)
      BY SwapTaskTypes
    <3> HIDE DEF left
    <3> QED BY <1>1, <2>1, <3>1, <3>2, ThenNothing
  <2> HIDE DEF o
  <2>4. /\ area'[o] = EmptyArea /\ ~valid'[o] /\ area'[c] = area[c] /\ valid'[c] = valid[c]
        /\ \A d \in Flashes : WellFormed(d)'
    BY <1>5, <2>2
  <2>5. View(c)' = View(c) /\ (Marked(c, Sealed)' <=> Marked(c, Sealed))
    BY <2>4, SameArea
  <2>6. ToCreate'
    BY <1>1, <2>1, <2>3, <2>4, <2>5 DEF ToCreate, Do, EmptyArea, o, Other
  <2>7. MountedBeforeUse'
    BY <1>1, <2>1, <2>3, ThreeTasks DEF MountedBeforeUse
  <2> QED BY <1>4, <2>4, <2>6, <2>7 DEF SwapInv
<1>7. CASE Doing("recreateErase")
  <2>1. Creating
    BY <1>7, Phases
  <2>2. Off' /\ files' = NoFiles'
    BY <1>1, <2>1 DEF Creating, Off, NoFiles
  <2>3. todo' # <<>> => MountedBeforeUse'
    BY <2>2 DEF MountedBeforeUse, Off
  <2>4. todo # <<Do("recreateHeader", 1), Do("recreateErase", 2),
                 Do("recreateHeader", 2), Do("pick", 0)>>
        /\ todo # <<Do("recreateHeader", 2), Do("pick", 0)>>
    BY <1>7, FourTasks, TwoTasks, DoParts DEF Doing
  <2>5. CASE todo = CreateBoth /\ NothingThere
    <3>1. On = 1 /\ 1 \in Flashes
      BY <2>5, FiveTasks, DoParts DEF On, CreateBoth, Flashes
    <3>2. todo' = <<Do("recreateHeader", 1), Do("recreateErase", 2),
                    Do("recreateHeader", 2), Do("pick", 0)>>
      <4>1. Tail(todo) = <<Do("recreateHeader", 1), Do("recreateErase", 2),
                          Do("recreateHeader", 2), Do("pick", 0)>>
        BY <2>5, FiveTasks DEF CreateBoth
      <4> QED BY <1>1, <4>1, RecreateTypes, ThenNothing
    <3>8. todo' # <<>> /\ MountedBeforeUse'
      BY <2>3, <3>2, FourTasks
    <3>3. area'[1] = EmptyArea /\ ~valid'[1] /\ valid'[2] = valid[2]
          /\ \A d \in Flashes : WellFormed(d)'
      BY <1>5, <3>1 DEF Flashes
    <3>5. NothingThere'
      BY <2>5, <3>3 DEF NothingThere
    <3>4. Creating'
      BY <2>2, <3>2, <3>3, <3>5 DEF Creating, Do, EmptyArea
    <3> QED BY <1>4, <3>8, <3>3, <3>4 DEF SwapInv
  <2>6. CASE todo = <<Do("recreateErase", 2), Do("recreateHeader", 2), Do("pick", 0)>>
             /\ area[1] = EmptyArea
    <3>1. On = 2 /\ 2 \in Flashes /\ 1 \in Flashes
      BY <2>6, ThreeTasks, DoParts DEF On, Flashes
    <3>2. todo' = <<Do("recreateHeader", 2), Do("pick", 0)>>
      <4>1. Tail(todo) = <<Do("recreateHeader", 2), Do("pick", 0)>>
        BY <2>6, ThreeTasks
      <4> QED BY <1>1, <4>1, RecreateTypes, ThenNothing
    <3>8. todo' # <<>> /\ MountedBeforeUse'
      BY <2>3, <3>2, TwoTasks
    <3>3. area'[2] = EmptyArea /\ area'[1] = EmptyArea /\ ~valid'[2]
          /\ \A d \in Flashes : WellFormed(d)'
      BY <1>5, <2>6, <3>1
    <3>4. area' = [c \in Flashes |-> EmptyArea]
      BY <1>4, <3>3 DEF SwapTypes, Flashes
    <3>5. Creating'
      BY <2>2, <3>2, <3>3, <3>4 DEF Creating, Do, EmptyArea
    <3> QED BY <1>4, <3>8, <3>3, <3>5 DEF SwapInv
  <2> QED BY <2>1, <2>4, <2>5, <2>6 DEF Creating
<1> QED BY <1>1, <1>6, <1>7

LEMMA HeaderWorks ==
  ASSUME SwapInv, Header, inst' # NoThread
  PROVE  SwapInv'
<1>1. /\ valid' = [valid EXCEPT ![On] = TRUE]
      /\ maxIno' = [maxIno EXCEPT ![On] =
                      IF Doing("header") THEN maxIno[Other(On)] + 1 ELSE 0]
      /\ freeData' = [freeData EXCEPT ![On] = DataPages]
      /\ engaged' = IF Doing("header") THEN engaged \cup {On} ELSE engaged
      /\ Then(<<>>) /\ UNCHANGED <<area, file, files>>
      /\ Doing("header") \/ Doing("recreateHeader")
  BY DEF Header
<1>2. SwapTypes /\ \A d \in Flashes : WellFormed(d)
  BY DEF SwapInv
<1>3. \A d \in Flashes : /\ Used(d)' = Used(d) /\ View(d)' = View(d) /\ area'[d] = area[d]
                         /\ UsedData(d)' = UsedData(d) /\ WellFormed(d)'
                         /\ Marked(d, Sealed)' <=> Marked(d, Sealed)
  BY <1>1, <1>2, SameArea
<1>4. ASSUME NEW o \in Flashes, On = o
      PROVE  /\ SwapTypes' /\ valid'[o] /\ freeData'[o] = DataPages
             /\ \A d \in Flashes : d # o => valid'[d] = valid[d]
  <2>1. Other(o) \in Flashes /\ maxIno[Other(o)] \in Nat
    BY <1>2, Others DEF SwapTypes
  <2> QED BY <1>1, <1>2, <1>4, <2>1 DEF SwapTypes
<1>5. CASE Doing("header")
  <2>1. PICK c \in Flashes :
          /\ todo = <<Do("header", Other(c)), Do("copy", Other(c)), Do("complete", Other(c))>>
          /\ file = NoFile /\ engaged = {c}
          /\ View(c) = files /\ Marked(c, Sealed)
          /\ valid[c] /\ area[Other(c)] = EmptyArea
    BY <1>5, Phases DEF ToCreate
  <2> DEFINE o == Other(c)
             left == <<Do("copy", o), Do("complete", o)>>
  <2>2. On = o /\ o \in Flashes /\ o # c /\ \A d \in Flashes : d = c \/ d = o
    BY <2>1, ThreeTasks, DoParts, Others DEF On
  <2>3. todo' = left
    <3>1. Tail(todo) = left
      BY <2>1, ThreeTasks
    <3>2. left \in Seq(AnyTask)
      BY SwapTaskTypes
    <3> HIDE DEF left
    <3> QED BY <1>1, <3>1, <3>2, ThenNothing
  <2>4. SwapTypes' /\ valid'[o] /\ valid'[c] /\ freeData'[o] = DataPages
    BY <1>4, <2>1, <2>2
  <2>5. engaged' = Flashes
    BY <1>1, <1>5, <2>1, <2>2
  <2>6. valid' = [d \in Flashes |-> TRUE]
    BY <2>2, <2>4 DEF SwapTypes
  <2>7. Used(o)' = {} /\ UsedData(o)' = {}
    BY <1>3, <2>1, <2>2, EmptyIs
  <2>8. Copied(c, o)' /\ Counted(o)'
    BY <2>7 DEF Copied, Counted
  <2>9. Copying(c)'
    BY <1>1, <1>3, <2>1, <2>4, <2>5, <2>6, <2>7, <2>8 DEF Copying
  <2>10. ToCopyFiles'
    BY <2>3, <2>9 DEF ToCopyFiles, Do, Other
  <2>11. MountedBeforeUse'
    BY <2>3, TwoTasks DEF MountedBeforeUse
  <2> QED BY <1>3, <2>4, <2>10, <2>11 DEF SwapInv
<1>6. CASE Doing("recreateHeader")
  <2>1. Creating /\ ~Doing("header")
    BY <1>6, Phases DEF Doing
  <2>2. Off' /\ files' = NoFiles'
    BY <1>1, <2>1 DEF Creating, Off, NoFiles
  <2>3. todo' # <<>> => MountedBeforeUse'
    BY <2>2 DEF MountedBeforeUse, Off
  <2>4. todo # CreateBoth
        /\ todo # <<Do("recreateErase", 2), Do("recreateHeader", 2), Do("pick", 0)>>
    BY <1>6, FiveTasks, ThreeTasks, DoParts DEF Doing, CreateBoth
  <2>5. CASE todo = <<Do("recreateHeader", 1), Do("recreateErase", 2),
                      Do("recreateHeader", 2), Do("pick", 0)>> /\ area[1] = EmptyArea
    <3>1. On = 1 /\ 1 \in Flashes
      BY <2>5, FourTasks, DoParts DEF On, Flashes
    <3>2. todo' = <<Do("recreateErase", 2), Do("recreateHeader", 2), Do("pick", 0)>>
      <4>1. Tail(todo) = <<Do("recreateErase", 2), Do("recreateHeader", 2), Do("pick", 0)>>
        BY <2>5, FourTasks
      <4> QED BY <1>1, <4>1, RecreateTypes, ThenNothing
    <3>8. todo' # <<>> /\ MountedBeforeUse'
      BY <2>3, <3>2, ThreeTasks
    <3>3. Creating'
      BY <1>1, <2>2, <2>5, <3>2 DEF Creating, Do, EmptyArea
    <3> QED BY <1>3, <1>4, <3>8, <3>1, <3>3 DEF SwapInv
  <2>6. CASE todo = <<Do("recreateHeader", 2), Do("pick", 0)>>
             /\ area = [c \in Flashes |-> EmptyArea]
    <3>1. On = 2 /\ 2 \in Flashes /\ 1 \in Flashes
      BY <2>6, TwoTasks, DoParts DEF On, Flashes
    <3>2. todo' = <<Do("pick", 0)>>
      <4>1. Tail(todo) = <<Do("pick", 0)>>
        BY <2>6, TwoTasks
      <4> QED BY <1>1, <4>1, RecreateTypes, ThenNothing
    <3>8. todo' # <<>> /\ MountedBeforeUse'
      BY <2>3, <3>2, OneTask
    <3>3. area'[1] = EmptyArea /\ area'[2] = EmptyArea
      BY <1>1, <2>6, <3>1
    <3>4. View(2)' = NoFiles
      BY <3>1, <3>3, ErasedIs
    <3>5. LeadsTo(2)'
      BY <1>4, <3>1, <3>3 DEF LeadsTo, EmptyArea
    <3>6. Found'
      BY <2>2, <3>1, <3>4, <3>5 DEF Found, NoFiles
    <3>7. Mounting'
      BY <2>2, <3>2, <3>6 DEF Mounting, Do
    <3> QED BY <1>3, <1>4, <3>8, <3>1, <3>7 DEF SwapInv
  <2> QED BY <2>1, <2>4, <2>5, <2>6 DEF Creating
<1> QED BY <1>1, <1>5, <1>6

(***************************************************************************)
(* The copy never runs out of pages: the source has its files on different *)
(* pages of a flash of the same size, and one more page holds its seal.    *)
(***************************************************************************)
LEMMA OneTooFew ==
  ASSUME NEW m \in Int, NEW n \in Int, NEW T \in SUBSET (m .. n), NEW x \in (m .. n) \ T,
         NEW f \in [m .. n -> T]
  PROVE  \E i, j \in m .. n : i # j /\ f[i] = f[j]
<1> DEFINE S == m .. n
<1>1. IsFiniteSet(S)
  BY FS_Interval
<1> HIDE DEF S
<1>2. IsFiniteSet(S \ {x}) /\ Cardinality(S) \in Nat
      /\ Cardinality(S \ {x}) = Cardinality(S) - 1
  BY <1>1, FS_RemoveElement, FS_CardinalityType DEF S
<1>3. T \in SUBSET (S \ {x})
  BY DEF S
<1>4. IsFiniteSet(T) /\ Cardinality(T) <= Cardinality(S \ {x})
  BY <1>2, <1>3, FS_Subset
<1>5. Cardinality(T) \in Nat
  BY <1>4, FS_CardinalityType
<1>6. Cardinality(T) < Cardinality(S)
  BY <1>2, <1>4, <1>5
<1>7. f \in [S -> T]
  BY DEF S
<1>8. \E i, j \in S : i # j /\ f[i] = f[j]
  BY <1>1, <1>4, <1>6, <1>7, FS_PigeonHole
<1> QED BY <1>8 DEF S

LEMMA LatestUnique ==
  ASSUME SwapTypes, NEW c \in Flashes, NEW p \in LatestPages(c), NEW q \in LatestPages(c),
         area[c][p].ino = area[c][q].ino
  PROVE  p = q
<1>1. /\ p \in Used(c) /\ q \in Used(c) /\ p \in Nat /\ q \in Nat
      /\ area[c][p].ver \in Nat /\ area[c][q].ver \in Nat
  BY UsedTypes, VersionParts DEF LatestPages
<1>2. Latest(c, p) /\ Latest(c, q)
  BY DEF LatestPages
<1>3. /\ \/ area[c][q].ver < area[c][p].ver
         \/ area[c][q].ver = area[c][p].ver /\ p <= q
      /\ \/ area[c][p].ver < area[c][q].ver
         \/ area[c][p].ver = area[c][q].ver /\ q <= p
  BY <1>1, <1>2 DEF Latest
<1> QED BY <1>1, <1>3

\* A file is copied once, so that its copy is its latest version.
LEMMA CopiesLatest ==
  ASSUME SwapTypes, NEW c \in Flashes, NEW o \in Flashes, Copied(c, o)
  PROVE  LatestPages(o) = Used(o)
<1>1. ASSUME NEW p \in Used(o) PROVE p \in LatestPages(o)
  <2>1. PICK q \in LatestPages(o) : area[o][q].ino = area[o][p].ino
    BY LatestExists
  <2>2. q \in Used(o)
    BY <2>1 DEF LatestPages
  <2>3. q = p
    BY <2>1, <2>2 DEF Copied
  <2> QED BY <2>1, <2>3
<1> QED BY <1>1 DEF LatestPages

LEMMA CopyParts ==
  ASSUME SwapTypes, NEW c \in Flashes, NEW o \in Flashes, Copied(c, o), NEW p \in Used(o)
  PROVE  LET q == Find(c, area[o][p].name) IN
         /\ q \in LatestPages(c) /\ q \in Used(c)
         /\ area[c][q].name = area[o][p].name /\ area[o][p].name \in Names
         /\ area[c][q].data = 0 => area[o][p].data = 0
         /\ area[o][p].val = area[c][q].val
BY FindParts DEF Copied

LEMMA CopyFindsPage ==
  ASSUME SwapTypes, NEW c \in Flashes, NEW o \in Flashes, WellFormed(c),
         Marked(c, Sealed), Copied(c, o)
  PROVE  NextPage(o, {}) # NoPage
<1> SUFFICES ASSUME NextPage(o, {}) = NoPage PROVE FALSE
  OBVIOUS
<1>1. PICK s \in Used(c) : area[c][s].name = Sealed
  BY DEF Marked
<1> DEFINE n == MaxInodes - 2
           T == Used(c) \ {s}
           f == [p \in 0 .. n |-> Find(c, area[o][p].name)]
<1>2. n \in Int /\ InodePages \ {MaxInodes - 1} = 0 .. n
  BY SwapAssumption DEF InodePages
<1>3. 0 .. n \subseteq Used(o)
  BY <1>2, NextPageParts
<1>4. Used(c) \subseteq 0 .. n
  BY <1>2, UsedTypes DEF WellFormed
<1>5. f \in [0 .. n -> T]
  <2> SUFFICES ASSUME NEW p \in 0 .. n PROVE Find(c, area[o][p].name) \in T
    OBVIOUS
  <2>1. p \in Used(o)
    BY <1>3
  <2>2. /\ Find(c, area[o][p].name) \in Used(c) /\ area[o][p].name \in Names
        /\ area[c][Find(c, area[o][p].name)].name = area[o][p].name
    BY <2>1, CopyParts
  <2> QED BY <1>1, <2>2, NamesAssumption
<1>6. T \in SUBSET (0 .. n) /\ s \in (0 .. n) \ T
  BY <1>4
<1>7. PICK i, j \in 0 .. n : i # j /\ f[i] = f[j]
  <2> HIDE DEF f, T, n
  <2> QED BY <1>2, <1>5, <1>6, OneTooFew
<1>8. i \in Used(o) /\ j \in Used(o) /\ Find(c, area[o][i].name) = Find(c, area[o][j].name)
  BY <1>3, <1>7
<1>9. area[o][i].name = area[o][j].name
  BY <1>8, CopyParts
<1> QED BY <1>7, <1>8, <1>9 DEF Copied

LEMMA CopyFindsData ==
  ASSUME SwapTypes, NEW c \in Flashes, NEW o \in Flashes, WellFormed(c), WellFormed(o),
         Copied(c, o), NEW p0 \in LatestPages(c), area[c][p0].name \in Names,
         Find(o, area[c][p0].name) = NoPage, area[c][p0].data # 0
  PROVE  DataPages \ UsedData(o) # {}
<1> SUFFICES ASSUME DataPages \subseteq UsedData(o) PROVE FALSE
  OBVIOUS
<1> DEFINE At(d) == CHOOSE p \in Used(o) : area[o][p].data = d
           Of(d) == Find(c, area[o][At(d)].name)
           x == area[c][p0].data
           T == UsedData(c) \ {x}
           f == [d \in 1 .. MaxData |-> area[c][Of(d)].data]
<1>1. /\ UsedData(c) \subseteq 1 .. MaxData /\ MaxData \in Int
      /\ DataPages = 1 .. MaxData /\ p0 \in Used(c) /\ x \in UsedData(c)
  <2>1. \A p \in Used(c) : area[c][p].data \in 0 .. MaxData
    BY UsedTypes, VersionParts
  <2> QED BY <2>1, SwapAssumption DEF UsedData, DataPages, LatestPages
<1>2. ASSUME NEW d \in 1 .. MaxData
      PROVE  /\ At(d) \in Used(o) /\ area[o][At(d)].data = d
             /\ Of(d) \in LatestPages(c) /\ Of(d) \in Used(c)
             /\ area[c][Of(d)].name = area[o][At(d)].name
             /\ area[c][Of(d)].data # 0 /\ area[c][Of(d)].data # x
  <2>1. d \in UsedData(o) /\ d # 0
    BY <1>1
  <2>2. \E p \in Used(o) : area[o][p].data = d
    BY <2>1 DEF UsedData
  <2>3. At(d) \in Used(o) /\ area[o][At(d)].data = d
    BY <2>2
  <2> HIDE DEF At
  <2>4. /\ Of(d) \in LatestPages(c) /\ Of(d) \in Used(c)
        /\ area[c][Of(d)].name = area[o][At(d)].name
        /\ area[c][Of(d)].data # 0
    BY <2>1, <2>3, CopyParts
  <2> HIDE DEF Of
  <2>5. ASSUME area[c][Of(d)].data = x PROVE FALSE
    <3>1. area[c][Of(d)].ino = area[c][p0].ino
      BY <1>1, <2>4, <2>5 DEF WellFormed
    <3>2. Of(d) = p0
      BY <2>4, <3>1, LatestUnique
    <3>3. At(d) \in LatestPages(o) /\ area[o][At(d)].name = area[c][p0].name
      BY <2>3, <2>4, <3>2, CopiesLatest
    <3> QED BY <3>3, FindParts
  <2> QED BY <2>3, <2>4, <2>5
<1> HIDE DEF At
<1>3. f \in [1 .. MaxData -> T]
  <2> SUFFICES ASSUME NEW d \in 1 .. MaxData PROVE area[c][Of(d)].data \in T
    OBVIOUS
  <2> HIDE DEF Of
  <2> QED BY <1>2 DEF UsedData
<1>4. T \in SUBSET (1 .. MaxData) /\ x \in (1 .. MaxData) \ T
  BY <1>1
<1>5. PICK i, j \in 1 .. MaxData : i # j /\ f[i] = f[j]
  <2> HIDE DEF f, T, x
  <2> QED BY <1>1, <1>3, <1>4, OneTooFew
<1>6. area[c][Of(i)].data = area[c][Of(j)].data
  <2> HIDE DEF Of
  <2> QED BY <1>5
<1>7. area[c][Of(i)].ino = area[c][Of(j)].ino
  <2> HIDE DEF Of
  <2> QED BY <1>2, <1>6 DEF WellFormed
<1>8. Of(i) = Of(j)
  <2> HIDE DEF Of
  <2> QED BY <1>2, <1>7, LatestUnique
<1>9. area[o][At(i)].name = area[o][At(j)].name
  <2> HIDE DEF Of
  <2> QED BY <1>2, <1>8
<1>10. At(i) = At(j)
  BY <1>2, <1>9 DEF Copied
<1> HIDE DEF Of
<1> QED BY <1>2, <1>5, <1>10

\* What a copy of one more file leaves to be said of the target.
LEMMA CopyAdds ==
  ASSUME SwapTypes, NEW c \in Flashes, NEW o \in Flashes, o # c,
         WellFormed(c), WellFormed(o), Copied(c, o), Counted(o),
         freeData[o] = DataPages \ UsedData(o),
         NEW p0 \in LatestPages(c), area[c][p0].name \in Names, p0 = Find(c, area[c][p0].name),
         Find(o, area[c][p0].name) = NoPage,
         NEW q, NEW v, Puts(o, q, v), q # MaxInodes - 1, v.ino = maxIno[o] + 1,
         v.name = area[c][p0].name, v.val = area[c][p0].val,
         area[c][p0].data = 0 => v.data = 0,
         v.data # 0 => v.data \in freeData[o],
         maxIno' = [maxIno EXCEPT ![o] = @ + 1],
         freeData' = [freeData EXCEPT ![o] = @ \ {v.data}]
  PROVE  /\ Copied(c, o)' /\ WellFormed(o)' /\ Counted(o)'
         /\ freeData'[o] = DataPages \ UsedData(o)'
         /\ maxIno' \in [Flashes -> Nat] /\ freeData' \in [Flashes -> SUBSET DataPages]
<1>1. /\ Used(o)' = Used(o) \cup {q} /\ area'[o][q] = v /\ q \notin Used(o)
      /\ \A p \in Used(o) : p # q /\ area'[o][p] = area[o][p]
      /\ area'[c] = area[c]
  BY PutParts, ZenonT(40) DEF Puts
<1>2. \A n : Find(c, n)' = Find(c, n)
  BY <1>1, SameArea
<1>3. /\ maxIno[o] \in Nat /\ v.ino # 0
      /\ \A p \in Used(o) : area[o][p].ino \in Nat /\ area[o][p].ino # v.ino
  <2>1. maxIno[o] \in Nat /\ \A p \in Used(o) : area[o][p].ino \in Nat
    BY UsedTypes, VersionParts DEF SwapTypes
  <2> QED BY <2>1 DEF Counted
<1>4. \A p \in Used(o) : area[o][p].name # v.name
  BY CopiesLatest, FindParts
<1>5. \A p \in Used(o) : area[o][p].data = v.data => v.data = 0
  BY DEF UsedData
<1>6. Copied(c, o)'
  <2>1. ASSUME NEW p \in Used(o)'
        PROVE  (LET r == Find(c, area[o][p].name) IN
                /\ area[o][p].name \in Names
                /\ r # NoPage
                /\ area[o][p].val = area[c][r].val
                /\ area[c][r].data = 0 => area[o][p].data = 0)'
    <3>1. Find(c, area[o][p].name)' = IF p = q THEN p0 ELSE Find(c, area[o][p].name)
      BY <1>1, <1>2
    <3>2. p0 # NoPage
      BY UsedTypes DEF LatestPages
    <3>3. CASE p = q
      BY <1>1, <3>1, <3>2, <3>3
    <3>4. CASE p \in Used(o)
      <4>1. /\ Find(c, area[o][p].name)' = Find(c, area[o][p].name)
            /\ area'[o][p] = area[o][p]
        BY <1>1, <3>1, <3>4
      <4> QED BY <1>1, <3>4, <4>1 DEF Copied
    <3> QED BY <1>1, <2>1, <3>3, <3>4
  <2>2. ASSUME NEW p \in Used(o)', NEW r \in Used(o)',
               area'[o][p].ino = area'[o][r].ino \/ area'[o][p].name = area'[o][r].name
        PROVE  p = r
    BY <1>1, <1>3, <1>4, <2>2 DEF Copied
  <2> QED BY <2>1, <2>2 DEF Copied
<1>7. WellFormed(o)'
  BY <1>3, <1>5, PutWellFormed
<1>8. freeData'[o] = freeData[o] \ {v.data} /\ maxIno'[o] = maxIno[o] + 1
      /\ maxIno' \in [Flashes -> Nat] /\ freeData' \in [Flashes -> SUBSET DataPages]
  BY <1>3 DEF SwapTypes
<1>9. UsedData(o)' = UsedData(o) \cup ({v.data} \ {0}) /\ 0 \notin DataPages
  BY <1>1 DEF UsedData, DataPages
<1>10. freeData'[o] = DataPages \ UsedData(o)'
  BY <1>8, <1>9
<1>11. Counted(o)'
  <2>1. \A p \in Used(o)' : area'[o][p].ino <= maxIno'[o]
    BY <1>1, <1>3, <1>8 DEF Counted
  <2> QED BY <1>10, <2>1 DEF Counted
<1> QED BY <1>6, <1>7, <1>8, <1>10, <1>11

LEMMA CopyFileWorks ==
  ASSUME SwapInv, CopyFile, inst' # NoThread
  PROVE  SwapInv'
<1>1. Doing("copy") /\ UNCHANGED <<valid, engaged, file, files>>
  BY DEF CopyFile
<1>2. SwapTypes /\ ToCopyFiles /\ todo # <<>> /\ \A d \in Flashes : WellFormed(d)
  BY <1>1, Phases DEF SwapInv, Doing
<1>3. PICK c \in Flashes :
        todo = <<Do("copy", Other(c)), Do("complete", Other(c))>> /\ Copying(c)
  BY <1>2 DEF ToCopyFiles
<1>4. PICK o \in Flashes : o = Other(c) /\ o # c /\ Other(o) = c /\ On = o
  BY <1>3, TwoTasks, DoParts, Others DEF On
<1> DEFINE rest == {p \in ToCopy(c) : Find(o, area[c][p].name) = NoPage}
           p0 == Least(rest)
           q == NextPage(o, {})
           v == CopyTarget(o, p0)
<1>5. \/ rest = {} /\ Then(<<>>) /\ UNCHANGED <<area, maxIno, freeData>>
      \/ /\ rest # {} /\ area' = [area EXCEPT ![o][q] = v]
         /\ maxIno' = [maxIno EXCEPT ![o] = @ + 1]
         /\ freeData' = [freeData EXCEPT ![o] = @ \ {v.data}]
         /\ UNCHANGED todo
  BY <1>4 DEF CopyFile
<1>6. /\ file = NoFile /\ engaged = Flashes /\ View(c) = files /\ Marked(c, Sealed)
      /\ valid = [d \in Flashes |-> TRUE] /\ Copied(c, o) /\ Counted(o)
      /\ freeData[o] = DataPages \ UsedData(o)
  BY <1>3, <1>4 DEF Copying
<1>7. MountedBeforeUse'
  BY <1>1, <1>6 DEF MountedBeforeUse, Flashes
<1>8. CASE rest = {} /\ Then(<<>>) /\ UNCHANGED <<area, maxIno, freeData>>
  <2>1. todo' = <<Do("complete", o)>>
    <3>1. Tail(todo) = <<Do("complete", o)>>
      BY <1>3, <1>4, TwoTasks
    <3>2. <<Do("complete", o)>> \in Seq(AnyTask)
      BY <1>4, SwapTaskTypes
    <3> QED BY <1>8, <3>1, <3>2, ThenNothing
  <2>2. UNCHANGED flash
    BY <1>1, <1>8 DEF flash
  <2>3. /\ \A d \in Flashes : /\ Used(d)' = Used(d) /\ UsedData(d)' = UsedData(d)
                              /\ LatestPages(d)' = LatestPages(d) /\ View(d)' = View(d)
                              /\ \A n : Find(d, n)' = Find(d, n)
                              /\ Marked(d, Sealed)' <=> Marked(d, Sealed)
                              /\ WellFormed(d)'
        /\ area' = area /\ valid' = valid
    BY <1>2, <2>2, SameFlash DEF flash
  <2>4. Copied(c, o)' /\ Counted(o)' /\ freeData'[o] = DataPages \ UsedData(o)'
    <3>1. Copied(c, o)'
      BY <1>6, <2>3 DEF Copied
    <3>2. Counted(o)' /\ freeData'[o] = DataPages \ UsedData(o)'
      BY <1>6, <1>8, <2>3 DEF Counted
    <3> QED BY <3>1, <3>2
  <2>5. Copying(c)'
    BY <1>1, <1>4, <1>6, <2>3, <2>4 DEF Copying
  <2>6. (\A p \in ToCopy(c) : Find(o, area[c][p].name) # NoPage)'
    BY <1>8, <2>3 DEF ToCopy
  <2>7. ToComplete'
    BY <1>4, <2>1, <2>5, <2>6 DEF ToComplete, Do, Other
  <2>8. SwapTypes'
    BY <1>1, <1>2, <1>8, <2>3 DEF SwapTypes
  <2> QED BY <1>7, <2>3, <2>7, <2>8 DEF SwapInv
<1>9. CASE /\ rest # {} /\ area' = [area EXCEPT ![o][q] = v]
           /\ maxIno' = [maxIno EXCEPT ![o] = @ + 1]
           /\ freeData' = [freeData EXCEPT ![o] = @ \ {v.data}]
           /\ UNCHANGED todo
  <2>1. rest \in SUBSET Nat
    BY UsedTypes, <1>2 DEF ToCopy, LatestPages
  <2>2. p0 \in rest /\ \A p \in rest : p0 <= p
    <3> HIDE DEF rest
    <3> QED BY <1>9, <2>1, LeastExists
  <2>3. /\ p0 \in LatestPages(c) /\ area[c][p0].name \in Names
        /\ Find(o, area[c][p0].name) = NoPage /\ p0 \in Used(c) /\ p0 \in Nat
    BY <2>1, <2>2 DEF ToCopy, LatestPages
  <2>4. p0 = Find(c, area[c][p0].name)
    <3> DEFINE r == Find(c, area[c][p0].name)
    <3>1. r # NoPage
      BY <1>2, <2>3, FindParts
    <3>2. r \in LatestPages(c) /\ area[c][r].name = area[c][p0].name /\ r <= p0
      BY <1>2, <2>3, <3>1, FindParts
    <3>3. r \in rest
      BY <2>3, <3>2 DEF ToCopy
    <3> HIDE DEF r, rest
    <3>4. r = p0
      BY <2>1, <2>2, <2>3, <3>2, <3>3
    <3> QED BY <3>4 DEF r
  <2>5. area[c][p0] \in Version
    BY <1>2, <2>3, UsedTypes
  <2> DEFINE d == IF area[c][p0].data = 0 THEN 0 ELSE Least(freeData[o])
  <2>6. v = [ino |-> maxIno[o] + 1, ver |-> 0, name |-> area[c][p0].name,
             val |-> area[c][p0].val, data |-> d]
    BY <1>4 DEF CopyTarget
  <2>7. /\ area[c][p0].data = 0 => d = 0
        /\ area[c][p0].data # 0 => d \in freeData[o]
        /\ d \in 0 .. MaxData
    <3>1. freeData[o] \in SUBSET Nat /\ freeData[o] \subseteq 1 .. MaxData
      BY <1>2 DEF SwapTypes, DataPages
    <3>2. area[c][p0].data # 0 => freeData[o] # {}
      BY <1>2, <1>6, <2>3, CopyFindsData
    <3>3. area[c][p0].data # 0 => Least(freeData[o]) \in freeData[o]
      BY <3>1, <3>2, LeastExists
    <3> QED BY <3>1, <3>3, SwapAssumption, SMTT(30)
  <2>8. q \in InodePages /\ q # MaxInodes - 1 /\ q \notin Used(o)
    <3>1. q # NoPage
      BY <1>2, <1>6, CopyFindsPage
    <3> QED BY <1>2, <3>1, NextPageParts
  <2>9. maxIno[o] \in Nat
    BY <1>2 DEF SwapTypes
  <2> HIDE DEF d, p0, q, rest
  <2>10. v \in Version
    BY <2>5, <2>6, <2>7, <2>9 DEF Version
  <2>11. /\ v.ino = maxIno[o] + 1 /\ v.name = area[c][p0].name
         /\ v.val = area[c][p0].val /\ v.data = d
    BY <2>6
  <2> HIDE DEF v
  <2>12. Puts(o, q, v)
    BY <1>9, <2>8, <2>10 DEF Puts
  <2>13. /\ Copied(c, o)' /\ WellFormed(o)' /\ Counted(o)'
         /\ freeData'[o] = DataPages \ UsedData(o)'
         /\ maxIno' \in [Flashes -> Nat] /\ freeData' \in [Flashes -> SUBSET DataPages]
    BY <1>2, <1>4, <1>6, <1>9, <2>3, <2>4, <2>7, <2>8, <2>11, <2>12, CopyAdds, ZenonT(40)
  <2>14. area'[c] = area[c] /\ area' \in [Flashes -> [InodePages -> Version \cup {Blank}]]
    BY <1>2, <1>4, <2>12, PutParts
  <2>15. View(c)' = View(c) /\ WellFormed(c)' /\ (Marked(c, Sealed)' <=> Marked(c, Sealed))
    BY <1>2, <2>14, SameArea
  <2>16. Copying(c)'
    BY <1>1, <1>4, <1>6, <2>13, <2>15 DEF Copying
  <2>17. ToCopyFiles'
    BY <1>3, <1>9, <2>16 DEF ToCopyFiles
  <2>18. SwapTypes'
    BY <1>1, <1>2, <2>13, <2>14 DEF SwapTypes
  <2>19. \A e \in Flashes : WellFormed(e)'
    BY <1>4, <2>13, <2>15, Others
  <2> QED BY <1>7, <2>17, <2>18, <2>19 DEF SwapInv
<1> QED BY <1>5, <1>8, <1>9

\* The target has a copy of every file, and no other.
LEMMA CopyComplete ==
  ASSUME SwapTypes, NEW c \in Flashes, NEW o \in Flashes, Copied(c, o),
         \A p \in ToCopy(c) : Find(o, area[c][p].name) # NoPage
  PROVE  View(o) = View(c)
<1>1. ASSUME NEW n \in Names
      PROVE  (IF Find(o, n) = NoPage THEN Absent ELSE area[o][Find(o, n)].val)
             = (IF Find(c, n) = NoPage THEN Absent ELSE area[c][Find(c, n)].val)
  <2>1. CASE Find(o, n) # NoPage
    <3>1. Find(o, n) \in Used(o) /\ area[o][Find(o, n)].name = n
      BY <2>1, FindParts
    <3>2. Find(c, n) # NoPage /\ area[o][Find(o, n)].val = area[c][Find(c, n)].val
      BY <3>1 DEF Copied
    <3> QED BY <2>1, <3>2
  <2>2. CASE Find(o, n) = NoPage /\ Find(c, n) # NoPage
    <3>1. Find(c, n) \in ToCopy(c) /\ area[c][Find(c, n)].name = n
      BY <2>2, FindParts DEF ToCopy
    <3> QED BY <2>2, <3>1
  <2> QED BY <2>1, <2>2
<1> QED BY <1>1 DEF View

LEMMA CompleteWorks ==
  ASSUME SwapInv, Complete, inst' # NoThread
  PROVE  SwapInv'
<1>1. Doing("complete") /\ UNCHANGED <<valid, freeData, file, files>> /\ Then(<<>>)
  BY DEF Complete
<1>2. SwapTypes /\ ToComplete /\ \A d \in Flashes : WellFormed(d)
  BY <1>1, Phases DEF SwapInv, Doing
<1>3. PICK c \in Flashes :
        /\ todo = <<Do("complete", Other(c))>> /\ Copying(c)
        /\ \A p \in ToCopy(c) : Find(Other(c), area[c][p].name) # NoPage
  BY <1>2 DEF ToComplete
<1>4. PICK o \in Flashes : o = Other(c) /\ o # c /\ Other(o) = c /\ On = o
  BY <1>3, OneTask, DoParts, Others DEF On
<1> DEFINE q == NextPage(o, {})
           v == Marker(o, Completed)
<1>5. /\ area' = [area EXCEPT ![o][q] = v] /\ maxIno' = [maxIno EXCEPT ![o] = @ + 1]
      /\ engaged' = {o}
  BY <1>4 DEF Complete
<1>6. /\ file = NoFile /\ View(c) = files /\ Marked(c, Sealed)
      /\ valid = [d \in Flashes |-> TRUE] /\ Copied(c, o) /\ Counted(o)
  BY <1>3, <1>4 DEF Copying
<1>7. q \in InodePages /\ q # MaxInodes - 1 /\ q \notin Used(o)
  <2>1. q # NoPage
    BY <1>2, <1>6, CopyFindsPage
  <2> QED BY <1>2, <2>1, NextPageParts
<1>8. /\ maxIno[o] \in Nat
      /\ \A r \in Used(o) : area[o][r].ino \in Nat
  BY <1>2, UsedTypes, VersionParts DEF SwapTypes
<1>9. v \in Version /\ v.ino = maxIno[o] + 1 /\ v.name = Completed /\ v.data = 0
  BY <1>8, SwapAssumption DEF Marker, Version
<1> HIDE DEF q, v
<1>10. Puts(o, q, v)
  BY <1>5, <1>7, <1>9 DEF Puts
<1>11. v.ino # 0 /\ \A r \in Used(o) : area[o][r].ino # v.ino
  BY <1>6, <1>8, <1>9 DEF Counted
<1>12. View(o)' = View(o)
  BY <1>2, <1>9, <1>10, <1>11, NamesAssumption, PutUnseen
<1>13. View(o) = files
  BY <1>2, <1>3, <1>4, <1>6, CopyComplete
<1>14. WellFormed(o)'
  BY <1>2, <1>7, <1>9, <1>10, <1>11, PutWellFormed
<1>15. /\ Used(o)' = Used(o) \cup {q} /\ area'[o][q] = v
       /\ \A r \in Used(o) : area'[o][r] = area[o][r]
       /\ area'[c] = area[c] /\ area' \in [Flashes -> [InodePages -> Version \cup {Blank}]]
  BY <1>2, <1>4, <1>10, PutParts
<1>16. WellFormed(c)' /\ (Marked(c, Sealed)' <=> Marked(c, Sealed))
  BY <1>2, <1>15, SameArea
<1>17. Marked(o, Completed)' /\ ~Marked(o, Sealed)'
  <2>1. \A m : Marked(o, m)' <=> Marked(o, m) \/ v.name = m
    BY <1>2, <1>10, PutMarks
  <2>2. ~Marked(o, Sealed)
    BY <1>6, NamesAssumption DEF Copied, Marked
  <2> QED BY <1>9, <2>1, <2>2, NamesAssumption
<1>18. LeadsTo(o)'
  BY <1>1, <1>4, <1>6, <1>16, <1>17 DEF LeadsTo, Other
<1>19. maxIno' \in [Flashes -> Nat] /\ maxIno'[o] = maxIno[o] + 1
  BY <1>2, <1>5, <1>8 DEF SwapTypes
<1>20. Counted(o)'
  <2>1. UsedData(o)' = UsedData(o)
    BY <1>9, <1>15 DEF UsedData
  <2>2. \A r \in Used(o)' : area'[o][r].ino <= maxIno'[o]
    BY <1>6, <1>8, <1>9, <1>15, <1>19 DEF Counted
  <2> QED BY <1>1, <1>6, <2>1, <2>2 DEF Counted
<1>21. FileFits(o)'
  BY <1>1, <1>6 DEF FileFits
<1>22. Mounted(o)'
  BY <1>1, <1>5, <1>12, <1>13, <1>20, <1>21 DEF Mounted
<1>23. todo' = <<>>
  <2>1. <<>> \in Seq(AnyTask)
    OBVIOUS
  <2> QED BY <1>1, <1>3, <2>1, ThenLast
<1>24. Working'
  BY <1>18, <1>22, <1>23, FileTaskLists DEF Working
<1>25. SwapTypes' /\ MountedBeforeUse'
  BY <1>1, <1>2, <1>5, <1>6, <1>15, <1>19 DEF SwapTypes, MountedBeforeUse
<1>26. \A d \in Flashes : WellFormed(d)'
  BY <1>4, <1>14, <1>16, Others
<1> QED BY <1>24, <1>25, <1>26 DEF SwapInv

(***************************************************************************)
(* Every step, and the theorem.                                            *)
(***************************************************************************)
\* recreate() has nothing to lose but the order of the headers, and a sealed
\* fs2 next to the old fs1 is taken for the inactive one: neither is cut off.
NoCutOff == {"eraseFs1", "recreateErase", "recreateHeader"} \cap CrashPoints = {}

\* A power loss at any other point leaves markers that lead to the files.
LEMMA CrashFinds ==
  ASSUME SwapInv, NoCutOff, CrashPoint \in CrashPoints
  PROVE  Found
<1>1. SwapTypes
  BY DEF SwapInv
<1>2. \A c \in Flashes : Mounted(c) /\ LeadsTo(c) => Found
  BY DEF Mounted, Found
<1>3. CASE Working
  BY <1>2, <1>3 DEF Working
<1>4. CASE Mounting
  BY <1>4 DEF Mounting
<1>5. CASE Creating
  <2>1. todo # <<>> /\ Head(todo).t \in {"recreateErase", "recreateHeader"}
    BY <1>5, FirstTasks
  <2>2. CrashPoint = Head(todo).t
    BY <2>1 DEF CrashPoint, Doing
  <2> QED BY <2>1, <2>2 DEF NoCutOff
<1>6. CASE ToSeal
  BY <1>2, <1>6 DEF ToSeal
<1>7. CASE ToErase
  <2>1. PICK c \in Flashes :
          /\ todo = SwapTasks(c) /\ View(c) = files
          /\ c = 1 => LeadsTo(c)
    BY <1>7 DEF ToErase, SwapTasks
  <2>2. CASE c = 1
    BY <2>1, <2>2 DEF Found
  <2>3. CASE c = 2
    <3>1. todo # <<>> /\ Head(todo) = Do("erase", 1)
      BY <2>1, <2>3, FourTasks DEF SwapTasks, Other
    <3>2. CrashPoint = "eraseFs1"
      BY <3>1, DoParts DEF CrashPoint, Doing, On
    <3> QED BY <3>2 DEF NoCutOff
  <2> QED BY <2>1, <2>2, <2>3 DEF Flashes
<1>8. CASE ToCreate
  BY <1>8 DEF ToCreate, LeadsTo, Found
<1>9. ASSUME NEW c \in Flashes, Copying(c) PROVE Found
  <2>1. PICK o \in Flashes : o = Other(c)
    BY Others
  <2>2. /\ View(c) = files /\ Marked(c, Sealed) /\ Copied(c, o) /\ valid[c]
    BY <1>9, <2>1 DEF Copying
  <2>3. ~Marked(o, Sealed) /\ ~Marked(o, Completed)
    BY <2>2, NamesAssumption DEF Marked, Copied
  <2> QED BY <2>1, <2>2, <2>3 DEF LeadsTo, Found
<1> QED BY <1>3, <1>4, <1>5, <1>6, <1>7, <1>8, <1>9 DEF SwapInv, ToCopyFiles, ToComplete

LEMMA CrashWorks ==
  ASSUME SwapInv, NoCutOff, Crash
  PROVE  SwapInv'
<1>1. /\ CrashPoint \in CrashPoints /\ Unmounted /\ todo' = <<>>
      /\ UNCHANGED <<flash, files>> /\ inst' = NoThread
  BY DEF Crash, PowerLoss
<1>2. SwapTypes /\ \A d \in Flashes : WellFormed(d)
  BY DEF SwapInv
<1> QED BY <1>1, <1>2, CrashFinds, UnmountedFinds

\* Two flashes as the factory left them: there is nothing to find.
LEMMA SwapInvHolds ==
  ASSUME Init
  PROVE  SwapInv
<1>1. /\ valid = [c \in Flashes |-> FALSE] /\ area = [c \in Flashes |-> EmptyArea]
      /\ engaged = {} /\ maxIno = [c \in Flashes |-> 0]
      /\ freeData = [c \in Flashes |-> {}] /\ file = NoFile /\ todo = <<>>
      /\ files = NoFiles /\ inst = NoThread
  BY DEF Init, SwapInit, NoFiles
<1>2. EmptyArea \in [InodePages -> Version \cup {Blank}]
  BY DEF EmptyArea
<1>3. SwapTypes
  BY <1>1, <1>2 DEF SwapTypes
<1>4. \A c \in Flashes : WellFormed(c)
  BY <1>1, EmptyIs
<1>5. Working
  BY <1>1 DEF Working, Off, Found
<1>6. MountedBeforeUse
  BY <1>1 DEF MountedBeforeUse
<1> QED BY <1>3, <1>4, <1>5, <1>6 DEF SwapInv

LEMMA WorkWorks ==
  ASSUME SwapInv, NEW t \in Threads, Work(t)
  PROVE  SwapInv'
<1>1. SwapTask /\ inst' # NoThread /\ UNCHANGED <<inst, call>>
  BY ThreadAssumption DEF Work
<1> QED BY <1>1, PickWorks, SealWorks, EraseWorks, HeaderWorks, CopyFileWorks,
           CompleteWorks, UnlinkWorks, CommitWorks DEF SwapTask

LEMMA NextWorks ==
  ASSUME LockInv, SwapInv, NoCutOff, [Next]_vars
  PROVE  SwapInv'
<1>1. CASE \E t \in Threads : \/ \E op \in Opens, n \in Names : Enter(t, op, n)
                              \/ \E op \in {"look", "recreate"} : Enter(t, op, NoName)
  <2>1. UNCHANGED swapVars /\ inst' = inst /\ todo = <<>>
    BY <1>1 DEF Enter
  <2> QED BY <2>1, SwapStays
<1>2. CASE \E t \in Threads : Use(t)
  BY <1>2, UseWorks
<1>3. ASSUME NEW t \in Threads, Step(t) PROVE SwapInv'
  <2>1. CASE Refuse(t)
    <3>1. UNCHANGED swapVars /\ inst' = inst /\ todo = <<>>
      BY <2>1 DEF Refuse, LockInv, TasksAfterLock, Entered
    <3> QED BY <3>1, SwapStays
  <2>2. CASE Mount(t)
    BY <2>2, MountWorks
  <2>3. CASE ServeOpen(t)
    BY <2>3, ServeOpenWorks DEF LockInv
  <2>4. CASE ServeOther(t)
    BY <2>4, ServeOtherWorks
  <2>5. CASE Work(t)
    BY <2>5, WorkWorks
  <2>6. CASE Closed
    BY <2>6, ClosedWorks
  <2>7. CASE MountThrows(t)
    BY <2>7, MountThrowsWorks
  <2>8. CASE Clash(t) \/ End(t)
    <3>1. UNCHANGED swapVars /\ inst' = inst /\ call' = call
      BY <2>8 DEF Clash, End
    <3> QED BY <3>1, SwapStays
  <2> QED BY <1>3, <2>1, <2>2, <2>3, <2>4, <2>5, <2>6, <2>7, <2>8 DEF Step
<1>4. CASE Crash
  BY <1>4, CrashWorks
<1>5. CASE UNCHANGED vars
  <2>1. UNCHANGED swapVars /\ inst' = inst /\ call' = call
    BY <1>5 DEF vars, swapVars
  <2> QED BY <2>1, SwapStays
<1> QED BY <1>1, <1>2, <1>3, <1>4, <1>5 DEF Next, Terminating

LEMMA MountedFinds ==
  ASSUME SwapInv
  PROVE  MountFindsFiles
<1> SUFFICES ASSUME Idle PROVE View(Active) = files
  BY DEF MountFindsFiles
<1>1. PICK c \in Flashes : Mounted(c)
  BY ServedMounted DEF Idle
<1>2. Active = c
  BY <1>1, ActiveIs DEF Mounted
<1> QED BY <1>1, <1>2 DEF Mounted

\* What is mounted shows the files as they were last committed, whatever was
\* swapped, cut off by a power loss and mounted again before, as long as the
\* power holds while recreate() runs and while cleanup() is about to erase
\* fs1 (SimpleFlashFs2FlashPages.h init_fs(), cleanup(), recreate()).
THEOREM MountsFindTheFiles ==
  ASSUME {"eraseFs1", "recreateErase", "recreateHeader"} \cap CrashPoints = {}
  PROVE  Spec => []MountFindsFiles
<1>0. NoCutOff
  BY DEF NoCutOff
<1>1. Init => LockInv /\ SwapInv
  BY LockInvHolds, SwapInvHolds
<1>2. LockInv /\ SwapInv /\ [Next]_vars => (LockInv /\ SwapInv)'
  BY <1>0, NextKeeps, NextWorks
<1>3. SwapInv => MountFindsFiles
  BY MountedFinds
<1> QED BY <1>1, <1>2, <1>3, PTL DEF Spec
=============================================================================
