--------------------------- MODULE FlashFsHandles ---------------------------
(***************************************************************************)
(* What an open file can count on: the inode page that is held back for it *)
(* (allocated_unwritten_pages), that it shows what is on flash as long as  *)
(* it is not marked as modified, and that nobody else has its name.        *)
(***************************************************************************)
EXTENDS FlashFsRefinement

(***************************************************************************)
(* What a step has to do to the pages that are held back.                  *)
(***************************************************************************)
LEMMA HeldKept ==
  ASSUME TypeOK, TypeOK', ReservedIsHeld,
         \A p \in reserved' :
           p \in reserved \/ \E a \in Actors : hs'[a].open /\ hs'[a].page = p,
         \A p \in InodePages : Valid(p) => Valid(p)',
         doomed \subseteq doomed',
         \A a \in Actors : hs[a].open =>
           \E b \in Actors : hs'[b].open /\ hs'[b].page = hs[a].page,
         \A a \in Actors : Replacing(a) => Replacing(a)' /\ old' = old
  PROVE  ReservedIsHeld'
<1>1. SUFFICES ASSUME NEW p \in reserved', p \in reserved
               PROVE  Held(p)'
  BY DEF ReservedIsHeld, Held
<1>2. p \in InodePages /\ Held(p)
  BY <1>1 DEF TypeOK, ReservedIsHeld
<1>3. CASE Valid(p)
  BY <1>2, <1>3 DEF Held
<1>4. CASE p \in doomed
  BY <1>4 DEF Held
<1>5. ASSUME NEW a \in Actors, hs[a].open, hs[a].page = p
      PROVE  Held(p)'
  BY <1>5 DEF Held
<1>6. ASSUME NEW a \in Actors, Replacing(a), p = old.page
      PROVE  Held(p)'
  BY <1>6 DEF Held
<1>7. QED
  BY <1>2, <1>3, <1>4, <1>5, <1>6 DEF Held

\* The head of the list of tasks has to do with no file that was written.
LEMMA NothingWritten ==
  ASSUME \/ todo' = <<>>
         \/ Head(todo').t \notin {"flush", "deleted", "erase"}
         \/ Head(todo').t = "flush" /\ (Len(todo') > 1 => todo'[2].t # "deleted")
  PROVE  DeletedIsWritten'
BY DEF DeletedIsWritten

(***************************************************************************)
(* Calls.                                                                  *)
(***************************************************************************)
\* A call may take the name of a file, and leaves what else says where it is.
SamePlace(f, g) == /\ f.open = g.open /\ f.page = g.page
                   /\ f.ino = g.ino /\ f.name \in {g.name, NoName}

LEMMA CallPlaces ==
  ASSUME TypeOK, Call
  PROVE  \A g \in Actors : SamePlace(hs'[g], hs[g])
<1>1. hs \in [Actors -> Handle] /\ Handles \subseteq Actors
  BY DEF TypeOK, Actors
<1>2. \A f : SamePlace(f, f)
  BY DEF SamePlace
<1>3. ASSUME NEW h \in Handles, NEW f, hs' = [hs EXCEPT ![h] = f], SamePlace(f, hs[h])
      PROVE  \A g \in Actors : SamePlace(hs'[g], hs[g])
  BY <1>1, <1>2, <1>3
<1>5. ASSUME NEW h \in Handles, NEW k \in 1 .. MaxLen, NEW v \in Vals, Write(h, k, v)
      PROVE  \A g \in Actors : SamePlace(hs'[g], hs[g])
  <2>1. PICK g : Relisted(hs[h], g) /\ hs' = [hs EXCEPT ![h] = g]
    BY <1>5, WriteCall
  <2>2. SamePlace(g, hs[h])
    BY <2>1 DEF Relisted, SamePlace
  <2>3. QED
    BY <1>3, <2>1, <2>2
<1>6. ASSUME NEW h \in Handles, Delete(h)
      PROVE  \A g \in Actors : SamePlace(hs'[g], hs[g])
  <2>1. hs[h] \in Handle
    BY <1>1
  <2>2. SamePlace(Emptied(hs[h]), hs[h])
    BY <2>1 DEF Emptied, Handle, SamePlace
  <2>3. QED
    BY <1>3, <1>6, <2>2 DEF Delete
<1>7. ASSUME NEW h \in Handles, NEW n \in 0 .. MaxLen, Truncate(h, n)
      PROVE  \A g \in Actors : SamePlace(hs'[g], hs[g])
  BY <1>1, <1>7 DEF Truncate, Handle, SamePlace
<1>8. hs' = hs \/ \A g \in Actors : SamePlace(hs'[g], hs[g])
  BY <1>5, <1>6, <1>7
     DEF Call, Open, Rename, Flush, Close, Enlarge, Cleanup, ListFiles
<1>9. QED
  BY <1>2, <1>8

\* delete_file() marks the handle as modified before it flushes it.
LEMMA CallWrites ==
  ASSUME TypeOK, Control, Call
  PROVE  DeletedIsWritten'
<1>1. ASSUME NEW h \in Handles, Delete(h)
      PROVE  DeletedIsWritten'
  <2>1. hs'[h].mod
    BY <1>1 DEF Delete, TypeOK, Emptied, Actors, Handle
  <2>2. todo' = <<On("flush", h), On("deleted", h)>>
    BY <1>1 DEF Delete, Start
  <2>3. todo' # <<>> /\ Head(todo') = On("flush", h)
    BY <2>2, Tuple2
  <2>4. Head(todo').t = "flush" /\ Head(todo').h = h
    BY <2>3, TaskParts
  <2>5. QED
    BY <2>1, <2>4 DEF DeletedIsWritten
<1>2. ASSUME todo' = <<>> PROVE DeletedIsWritten'
  BY <1>2, NothingWritten
<1>3. ASSUME NEW h, NEW n, NEW how, todo' = <<OnName("find", Tmp, n), OnName(how, h, n)>>
      PROVE  DeletedIsWritten'
  BY <1>3, CallHeads, NothingWritten
<1>4. ASSUME NEW h, todo' = <<On("flush", h)>>
      PROVE  DeletedIsWritten'
  <2>1. Len(<<On("flush", h)>>) = 1
    OBVIOUS
  <2>2. Head(todo').t = "flush" /\ Len(todo') = 1
    BY <1>4, <2>1, Tuple1, TaskParts
  <2>3. QED
    BY <2>2, NothingWritten
<1>5. ASSUME NEW h, todo' = <<On("flush", h), On("drop", h)>>
      PROVE  DeletedIsWritten'
  <2>1. <<On("flush", h), On("drop", h)>>[2] = On("drop", h)
    OBVIOUS
  <2>2. todo'[2].t = "drop" /\ Head(todo').t = "flush"
    BY <1>5, <2>1, Tuple2, TaskParts
  <2>3. QED
    BY <2>2, NothingWritten
<1>6. ASSUME NEW h, NEW n, NEW how \in {"write", "grow", "seek"},
             todo' = <<OnSize(how, h, n)>>
      PROVE  DeletedIsWritten'
  BY <1>6, CallHeads, NothingWritten
<1>7. ASSUME Cleanup \/ ListFiles
      PROVE  DeletedIsWritten'
  BY <1>7, CallHeads, NothingWritten DEF Cleanup, ListFiles, Start
<1>8. todo = <<>>
  BY CallIdle
<1>9. ASSUME NEW h \in Handles, NEW n \in Names, NEW mode, Open(h, n, mode)
      PROVE  DeletedIsWritten'
  BY <1>3, <1>9 DEF Open, Start
<1>10. ASSUME NEW h \in Handles, NEW n \in Names, Rename(h, n)
       PROVE  DeletedIsWritten'
  BY <1>3, <1>10 DEF Rename, Start
<1>11. ASSUME NEW h \in Handles, Flush(h) \/ Close(h)
       PROVE  DeletedIsWritten'
  BY <1>4, <1>5, <1>11 DEF Flush, Close, Start
<1>12. ASSUME NEW h \in Handles, NEW k \in 1 .. MaxLen, NEW v \in Vals, Write(h, k, v)
       PROVE  DeletedIsWritten'
  <2>1. todo' = <<>> \/ todo' = <<OnSize("write", h, k + 1)>>
    BY <1>12, WriteCall
  <2>2. QED
    BY <1>2, <1>6, <2>1
<1>13. ASSUME NEW h \in Handles, NEW n, Truncate(h, n)
       PROVE  DeletedIsWritten'
  BY <1>2, <1>8, <1>13 DEF Truncate
<1>14. ASSUME NEW h \in Handles, NEW n, NEW how \in {"grow", "seek"}, Enlarge(h, n, how)
       PROVE  DeletedIsWritten'
  BY <1>6, <1>14 DEF Enlarge, Start
<1>15. QED
  BY <1>1, <1>7, <1>9, <1>10, <1>11, <1>12, <1>13, <1>14 DEF Call

LEMMA CallReserves ==
  ASSUME TypeOK, TypeOK', Control, ReservationInv, Call
  PROVE  ReservationInv'
<1>1. todo = <<>> /\ UNCHANGED <<inodeArea, reserved, doomed, old>>
  <2> DEFINE Same == UNCHANGED <<reserved, doomed, old>>
  <2>1. ASSUME NEW h \in Handles, NEW n, NEW mode,
               Open(h, n, mode) \/ Rename(h, n) \/ Enlarge(h, n, mode) \/ Truncate(h, n)
        PROVE  Same
    BY <2>1 DEF Open, Rename, Enlarge, Truncate, alloc, locals
  <2>2. ASSUME NEW h \in Handles, Flush(h) \/ Close(h) \/ Delete(h)
        PROVE  Same
    BY <2>2 DEF Flush, Close, Delete, alloc, locals
  <2>3. ASSUME NEW h \in Handles, NEW k \in 1 .. MaxLen, NEW v \in Vals, Write(h, k, v)
        PROVE  Same
    BY <2>3, WriteCall
  <2>4. ASSUME Cleanup \/ ListFiles
        PROVE  Same
    BY <2>4 DEF Cleanup, ListFiles, alloc
  <2> HIDE DEF Same
  <2>5. Same
    BY <2>1, <2>2, <2>3, <2>4 DEF Call
  <2>6. QED
    BY <2>5, CallIdle, CallFrame DEF Same
<1>2. \A a \in Actors : hs'[a].open = hs[a].open /\ hs'[a].page = hs[a].page
  BY CallPlaces DEF SamePlace
<1>3. \A a : ~Replacing(a)
  BY <1>1, NothingToCommit
<1>4. \A p \in InodePages : Valid(p) => Valid(p)'
  BY <1>1 DEF Valid
<1>5. ReservedIsHeld'
  BY <1>1, <1>2, <1>3, <1>4, HeldKept DEF ReservationInv
<1>6. QED
  BY <1>5, CallWrites DEF ReservationInv

(***************************************************************************)
(* flush().                                                                *)
(***************************************************************************)
\* After its flush delete_file() gives the handle up if flush() has written it.
LEMMA FlushedWrites ==
  ASSUME TypeOK, Control, todo # <<>>, Head(todo).t \in FlushKinds, todo' = Tail(todo),
         NEW a, a = Head(todo).h,
         todo' # <<>> /\ Head(todo').t = "deleted" => hs'[a].mod \/ Valid(hs[a].page)'
  PROVE  DeletedIsWritten'
<1> DEFINE r == Tail(todo)
<1>1. \/ r = <<>>
      \/ Head(r).t \in {"drop", "mount", "meta", "metaNew"}
      \/ Head(r).t = "deleted" /\ Head(r).h = a
      \/ r = <<On("flush", Tmp), On("drop", Tmp)>>
  BY AfterTask
<1>2. CASE r = <<>> \/ Head(r).t \in {"drop", "mount", "meta", "metaNew"}
  BY <1>2, NothingWritten
<1>3. CASE r # <<>> /\ Head(r).t = "deleted" /\ Head(r).h = a
  BY <1>3 DEF DeletedIsWritten, Valid
<1>4. CASE r = <<On("flush", Tmp), On("drop", Tmp)>>
  <2>1. <<On("flush", Tmp), On("drop", Tmp)>>[2] = On("drop", Tmp)
    OBVIOUS
  <2>2. todo' = <<On("flush", Tmp), On("drop", Tmp)>>
    BY <1>4
  <2>3. todo'[2] = On("drop", Tmp) /\ Head(todo') = On("flush", Tmp)
    BY <2>1, <2>2, Tuple2
  <2>4. todo'[2].t = "drop" /\ Head(todo').t = "flush"
    BY <2>3, TaskParts
  <2>5. QED
    BY <2>4, NothingWritten
<1>5. QED
  BY <1>1, <1>2, <1>3, <1>4

\* The file that gets its number keeps its page; a flush that finds no page
\* leaves the handle modified.
LEMMA NumberReserves ==
  ASSUME TypeOK, TypeOK', Control, ReservationInv, FlushNumber
  PROVE  ReservationInv'
<1>1. PICK a \in Actors : a = Actor
  BY HeadType DEF FlushNumber, Doing, TypeOK
<1>2. /\ todo # <<>> /\ Head(todo).t = "flush" /\ Head(todo).h = a /\ todo \in Seq(Task)
      /\ UNCHANGED <<inodeArea, reserved, doomed, old>>
      /\ \A b \in Actors : hs'[b].open = hs[b].open /\ hs'[b].page = hs[b].page
  <2>1. \A b \in Actors : hs'[b].open = hs[b].open /\ hs'[b].page = hs[b].page
    <3>1. hs' = hs \/ hs' = [hs EXCEPT ![a].ino = maxIno + 1]
      BY <1>1 DEF FlushNumber
    <3>2. hs[a] \in Handle /\ hs \in [Actors -> Handle]
      BY DEF TypeOK
    <3>3. CASE hs' = [hs EXCEPT ![a].ino = maxIno + 1]
      BY <3>2, <3>3 DEF Handle
    <3>4. QED
      BY <3>1, <3>3
  <2>2. QED
    BY <1>1, <2>1 DEF FlushNumber, Doing, Actor, TypeOK, flash, locals
<1>3. ReservedIsHeld'
  <2>1. \A b : ~Replacing(b)
    BY <1>2, NothingToCommit
  <2>2. \A p \in InodePages : Valid(p) => Valid(p)'
    BY <1>2 DEF Valid
  <2>3. QED
    BY <1>2, <2>1, <2>2, HeldKept DEF ReservationInv
<1>4. CASE ~hs[a].mod
  <2>1. todo' = Tail(todo)
    BY <1>1, <1>2, <1>4, Popped DEF FlushNumber
  <2>2. todo' = <<>> \/ Head(todo').t # "deleted"
    <3>1. SUFFICES ASSUME Tail(todo) # <<>>, Head(Tail(todo)).t = "deleted" PROVE FALSE
      BY <2>1
    <3>2. Len(todo) > 1 /\ todo[2].t = "deleted"
      BY <1>2, <3>1, Second
    <3>3. QED
      BY <1>2, <1>4, <3>2 DEF ReservationInv, DeletedIsWritten
  <2>3. DeletedIsWritten'
    BY <1>2, <2>1, <2>2, FlushedWrites DEF FlushKinds
  <2>4. QED
    BY <1>3, <2>3 DEF ReservationInv
<1>5. CASE hs[a].mod
  <2>1. todo' = <<On("zero", a), On("metaNew", a)>> \o Tail(todo)
    BY <1>1, <1>5 DEF FlushNumber, Then
  <2>2. On("zero", a) \in Task /\ On("metaNew", a) \in Task /\ Tail(todo) \in Seq(Task)
    BY <1>2, TaskTypes, HeadType DEF TaskKinds, FileNames
  <2>3. Head(todo') = On("zero", a)
    BY <2>1, <2>2, Stacks
  <2>4. DeletedIsWritten'
    BY <2>3, TaskParts, NothingWritten
  <2>5. QED
    BY <1>3, <2>4 DEF ReservationInv
<1>6. QED
  BY <1>4, <1>5

LEMMA VersionReserves ==
  ASSUME TypeOK, TypeOK', Control, PagesInv, ReservationInv, FlushVersion
  PROVE  ReservationInv'
<1>1. PICK a \in Actors : a = Actor
  BY HeadType DEF FlushVersion, Doing, TypeOK
<1>2. /\ todo # <<>> /\ Head(todo).t = "flush" /\ Head(todo).h = a /\ todo \in Seq(Task)
      /\ hs[a].mod /\ hs[a] \in Handle /\ hs \in [Actors -> Handle]
      /\ UNCHANGED <<inodeArea, doomed>>
  BY <1>1 DEF FlushVersion, Doing, Actor, TypeOK, flash
<1>3. /\ \A b : ~Replacing(b)
      /\ doomed = {}
      /\ \A p \in InodePages : Valid(p)' <=> Valid(p)
  BY <1>2, NothingToCommit, NothingDoomed DEF Valid
<1>4. CASE Then(<<>>) /\ UNCHANGED <<hs, reserved, old>>
  <2>1. ReservedIsHeld'
    BY <1>2, <1>3, <1>4, HeldKept DEF ReservationInv
  <2>2. todo' = Tail(todo)
    BY <1>2, <1>4, Popped
  <2>3. DeletedIsWritten'
    BY <1>2, <1>4, <2>2, FlushedWrites DEF FlushKinds
  <2>4. QED
    BY <2>1, <2>3 DEF ReservationInv
<1>5. ASSUME NEW page,
             reserved' = reserved \cup {page},
             old' = [page |-> hs[a].page, ids |-> HandlePages(hs[a])],
             hs' = [hs EXCEPT ![a].page = page, ![a].ver = NextVersion(@), ![a].del = {}],
             Then(<<On("zero", a), On("meta", a)>>)
      PROVE  ReservationInv'
  <2>1. /\ hs'[a].page = page /\ hs'[a].open = hs[a].open
        /\ \A b \in Actors \ {a} : hs'[b] = hs[b]
    BY <1>2, <1>5 DEF Handle
  <2>2. On("zero", a) \in Task /\ On("meta", a) \in Task /\ Tail(todo) \in Seq(Task)
    BY <1>2, TaskTypes, HeadType DEF TaskKinds, FileNames
  <2>3. /\ todo' # <<>> /\ Head(todo') = On("zero", a) /\ todo'[2] = On("meta", a)
    BY <1>5, <2>2, Stacks DEF Then
  <2>4. Head(todo').t = "zero" /\ Head(todo').h = a /\ todo'[2].t = "meta"
    BY <2>3, TaskParts
  <2>5. DeletedIsWritten'
    BY <2>4, NothingWritten
  <2>6. Replacing(a)' /\ old'.page = hs[a].page
    BY <1>5, <2>3, <2>4 DEF Replacing
  <2>7. hs[a].open
    BY <1>2, NoHandleParts DEF PagesInv, HandleLists
  <2>8. ReservedIsHeld'
    <3>1. SUFFICES ASSUME NEW p \in reserved' PROVE Held(p)'
      BY DEF ReservedIsHeld
    <3>2. CASE p = page
      BY <2>1, <2>7, <3>2 DEF Held
    <3>3. CASE p # page
      <4>1. p \in reserved /\ Held(p)
        BY <1>5, <3>1, <3>3 DEF ReservationInv, ReservedIsHeld
      <4>2. Valid(p) => Valid(p)'
        BY <1>3, <4>1 DEF TypeOK
      <4>3. Valid(p) \/ \E b \in Actors : hs[b].open /\ hs[b].page = p
        BY <1>3, <4>1 DEF Held
      <4>4. ASSUME NEW b \in Actors, hs[b].open, hs[b].page = p
            PROVE  Held(p)'
        <5>1. CASE b = a
          BY <2>6, <4>4, <5>1 DEF Held
        <5>2. CASE b # a
          BY <2>1, <4>4, <5>2 DEF Held
        <5>3. QED
          BY <5>1, <5>2
      <4>5. QED
        BY <4>2, <4>3, <4>4 DEF Held
    <3>4. QED
      BY <3>2, <3>3
  <2>9. QED
    BY <2>5, <2>8 DEF ReservationInv
<1>6. PICK page \in InodePageChoices :
        IF page = NoPage
        THEN Then(<<>>) /\ UNCHANGED <<hs, reserved, old>>
        ELSE /\ reserved' = reserved \cup {page}
             /\ old' = [page |-> hs[Actor].page, ids |-> HandlePages(hs[Actor])]
             /\ hs' = [hs EXCEPT ![Actor].page = page,
                                 ![Actor].ver = NextVersion(@),
                                 ![Actor].del = {}]
             /\ Then(<<On("zero", Actor), On("meta", Actor)>>)
  BY DEF FlushVersion
<1>7. CASE page = NoPage
  BY <1>4, <1>6, <1>7
<1>8. CASE page # NoPage
  BY <1>1, <1>5, <1>6, <1>8
<1>9. QED
  BY <1>7, <1>8

LEMMA ZeroReserves ==
  ASSUME TypeOK, TypeOK', Control, ReservationInv, WriteZeroPage
  PROVE  ReservationInv'
<1>1. PICK a \in Actors : a = Actor
  BY HeadType DEF WriteZeroPage, Doing, TypeOK
<1>2. /\ todo # <<>> /\ Head(todo).t = "zero" /\ Head(todo).h = a /\ todo \in Seq(Task)
      /\ UNCHANGED <<inodeArea, reserved, doomed, old>>
      /\ todo' = todo \/ Then(<<>>)
  BY <1>1 DEF WriteZeroPage, Doing, Actor, TypeOK, alloc, locals
<1>3. \A b \in Actors : hs'[b].open = hs[b].open /\ hs'[b].page = hs[b].page
  <2>1. hs' = hs \/ \E k : hs' = [hs EXCEPT ![a].dp[k].new = FALSE]
    BY <1>1 DEF WriteZeroPage
  <2>2. hs[a] \in Handle /\ hs \in [Actors -> Handle]
    BY DEF TypeOK
  <2>3. ASSUME NEW k, hs' = [hs EXCEPT ![a].dp[k].new = FALSE]
        PROVE  \A b \in Actors : hs'[b].open = hs[b].open /\ hs'[b].page = hs[b].page
    <3>1. /\ hs'[a] = [hs[a] EXCEPT !.dp[k].new = FALSE]
          /\ \A b \in Actors \ {a} : hs'[b] = hs[b]
      BY <2>2, <2>3
    <3>2. hs'[a].open = hs[a].open /\ hs'[a].page = hs[a].page
      BY <2>2, <3>1 DEF Handle
    <3>3. QED
      BY <3>1, <3>2
  <2>4. QED
    BY <2>1, <2>3
<1>4. /\ todo' # <<>> /\ Head(todo').h = a
      /\ \/ todo' = todo
         \/ todo' = Tail(todo) /\ Head(todo').t \in {"meta", "metaNew"}
            /\ todo[2] = Head(todo')
  <2>1. CASE todo' = todo
    BY <1>2, <2>1
  <2>2. CASE Then(<<>>)
    <3>1. todo' = Tail(todo)
      BY <1>2, <2>2, Popped
    <3>2. Tail(todo) # <<>> /\ Head(Tail(todo)).h = a /\ Head(Tail(todo)).t \in {"meta", "metaNew"}
      BY <1>2, AfterTask
    <3>3. QED
      BY <1>2, <3>1, <3>2, Second
  <2>3. QED
    BY <1>2, <2>1, <2>2
<1>5. \A b : Replacing(b) => Replacing(b)'
  BY <1>2, <1>4 DEF Replacing
<1>6. \A p \in InodePages : Valid(p) => Valid(p)'
  BY <1>2 DEF Valid
<1>7. ReservedIsHeld'
  BY <1>2, <1>3, <1>5, <1>6, HeldKept DEF ReservationInv
<1>8. DeletedIsWritten'
  BY <1>2, <1>4, NothingWritten
<1>9. QED
  BY <1>7, <1>8 DEF ReservationInv

\* The page that is replaced goes on to be erased, or stays for ever when old
\* versions are kept.
LEMMA MetaReserves ==
  ASSUME Erasing, TypeOK, TypeOK', Control, Numbered, PagesInv, ReservationInv, WriteMeta
  PROVE  ReservationInv'
<1>1. PICK a \in Actors : a = Actor
  BY HeadType DEF WriteMeta, Doing, TypeOK
<1>2. PICK f : f = hs[a]
  OBVIOUS
<1>3. /\ todo # <<>> /\ Head(todo).t \in {"meta", "metaNew"} /\ Head(todo).h = a
      /\ todo \in Seq(Task)
      /\ inodeArea' = [inodeArea EXCEPT ![f.page] = Serialised(f)]
      /\ hs' = [hs EXCEPT ![a].mod = FALSE]
      /\ UNCHANGED <<reserved, old>>
      /\ Head(todo).t = "meta" => /\ doomed' = UnusedPages(old.page, old.ids, HandlePages(f))
                                  /\ Then(<<On("erase", a)>>)
      /\ Head(todo).t = "metaNew" => Then(<<>>) /\ UNCHANGED doomed
  BY <1>1, <1>2 DEF WriteMeta, Doing, Actor, TypeOK, alloc
<1>4. /\ f \in Handle /\ f.open /\ f.page \in InodePages /\ doomed = {}
      /\ Replacing(a) <=> Head(todo).t = "meta"
      /\ \A b \in Actors : Replacing(b) => b = a
  BY <1>2, <1>3, BeforeCommit
<1>5. \A b \in Actors : hs'[b].open = hs[b].open /\ hs'[b].page = hs[b].page
  <2>1. hs[a] \in Handle /\ hs \in [Actors -> Handle]
    BY DEF TypeOK
  <2>2. QED
    BY <1>3, <2>1 DEF Handle
<1>6. Valid(f.page)' /\ \A p \in InodePages : Valid(p) => Valid(p)'
  <2>1. Serialised(f) \notin {Blank, Torn}
    BY <1>4, SerialisedParts
  <2>2. inodeArea'[f.page] = Serialised(f)
        /\ \A p \in InodePages \ {f.page} : inodeArea'[p] = inodeArea[p]
    BY <1>3, <1>4 DEF TypeOK
  <2>3. QED
    BY <2>1, <2>2 DEF Valid
<1>7. hs'[a].open /\ Valid(hs[a].page)'
  <2>1. hs'[a].open /\ hs'[a].page = f.page
    BY <1>2, <1>4, <1>5
  <2>2. QED
    BY <1>6, <2>1 DEF Valid
<1>8. CASE Head(todo).t = "metaNew"
  <2>1. todo' = Tail(todo)
    BY <1>3, <1>8, Popped
  <2>2. DeletedIsWritten'
    BY <1>3, <1>7, <2>1, FlushedWrites DEF FlushKinds
  <2>3. \A b \in Actors : ~Replacing(b)
    BY <1>4, <1>8
  <2>4. ReservedIsHeld'
    BY <1>3, <1>5, <1>6, <1>8, <2>3, HeldKept DEF ReservationInv
  <2>5. QED
    BY <2>2, <2>4 DEF ReservationInv
<1>9. CASE Head(todo).t = "meta"
  <2>1. On("erase", a) \in Task /\ Tail(todo) \in Seq(Task)
    BY <1>3, TaskTypes, HeadType DEF TaskKinds, FileNames
  <2>2. todo' # <<>> /\ Head(todo') = On("erase", a)
    BY <1>3, <1>9, <2>1, Stacks DEF Then
  <2>3. Head(todo').t = "erase" /\ Head(todo').h = a
    BY <2>2, TaskParts
  <2>4. DeletedIsWritten'
    BY <1>7, <2>3 DEF DeletedIsWritten, Valid
  <2>5. old.page \in doomed'
    BY <1>3, <1>9 DEF UnusedPages
  <2>6. ReservedIsHeld'
    <3>1. SUFFICES ASSUME NEW p \in reserved, p \in InodePages, Held(p)
                   PROVE  Held(p)'
      BY <1>3 DEF ReservationInv, ReservedIsHeld, TypeOK
    <3>2. Valid(p) => Valid(p)'
      BY <1>6, <3>1
    <3>3. \A b \in Actors : hs[b].open /\ hs[b].page = p => hs'[b].open /\ hs'[b].page = p
      BY <1>5
    <3>4. QED
      BY <1>4, <2>5, <3>1, <3>2, <3>3 DEF Held
  <2>7. QED
    BY <2>4, <2>6 DEF ReservationInv
<1>10. QED
  BY <1>3, <1>8, <1>9

\* An inode page that was erased can be had again.
LEMMA EraseReserves ==
  ASSUME TypeOK, TypeOK', Control, PagesInv, ReservationInv, ErasePage
  PROVE  ReservationInv'
<1>1. /\ todo # <<>> /\ Head(todo).t = "erase" /\ todo \in Seq(Task)
      /\ UNCHANGED <<up, hs, old>>
  BY DEF ErasePage, Doing, TypeOK
<1>2. PICK a \in Actors : a = Head(todo).h
  BY <1>1, HeadType
<1>3. \A b : ~Replacing(b)
  BY <1>1, NothingToCommit
<1>4. up = "up" \/ Tail(todo) = <<On("mount", Tmp)>>
  <2>1. up = "mounting" => todo = <<On("mount", Tmp)>> \/ todo = <<On("erase", Tmp), On("mount", Tmp)>>
    BY <1>1 DEF Control, MountStack
  <2>2. todo # <<On("mount", Tmp)>>
    BY <1>1, CallHeads
  <2>3. QED
    BY <1>1, <2>1, <2>2, Tuple2 DEF Control
<1>5. up = "up" => hs[a].open /\ Valid(hs[a].page)
  BY <1>1, <1>2 DEF ReservationInv, DeletedIsWritten
<1>6. CASE doomed = {}
  <2>1. todo' = Tail(todo) /\ UNCHANGED <<inodeArea, reserved, doomed>>
    BY <1>1, <1>6, Popped DEF ErasePage, flash
  <2>2. todo' # <<>> /\ Head(todo').t = "deleted" => Valid(hs[a].page)'
    <3>1. CASE up = "up"
      BY <1>1, <1>5, <2>1, <3>1 DEF Valid
    <3>2. CASE Tail(todo) = <<On("mount", Tmp)>>
      BY <2>1, <3>2, CallHeads
    <3>3. QED
      BY <1>4, <3>1, <3>2
  <2>3. DeletedIsWritten'
    BY <1>1, <1>2, <2>1, <2>2, FlushedWrites DEF FlushKinds
  <2>4. \A p \in InodePages : Valid(p) => Valid(p)'
    BY <2>1 DEF Valid
  <2>5. ReservedIsHeld'
    BY <1>1, <1>3, <2>1, <2>4, HeldKept DEF ReservationInv
  <2>6. QED
    BY <2>3, <2>5 DEF ReservationInv
<1>7. CASE doomed # {}
  <2>1. doomed \subseteq Nat /\ doomed \subseteq AllPages
    BY PageRanges DEF TypeOK, AllPages
  <2>2. PICK page \in doomed : page = Least(doomed)
    BY <1>7, <2>1, LeastExists
  <2>3. /\ doomed' = doomed \ {page} /\ todo' = todo
        /\ IF page \in InodePages
           THEN inodeArea' = [inodeArea EXCEPT ![page] = Blank]
           ELSE UNCHANGED inodeArea
        /\ IF ReturnsToFree(page)
           THEN UNCHANGED reserved
           ELSE reserved' = FreeUnwritten(page)
    BY <1>7, <2>2 DEF ErasePage
  <2>4. \A p \in InodePages \ {page} : Valid(p)' <=> Valid(p)
    BY <2>3 DEF Valid, TypeOK
  <2>5. \A p \in reserved' : p \in reserved /\ p \in InodePages /\ p # page
    <3>1. page \in InodePages => ~ReturnsToFree(page)
      BY LayoutAssumption DEF InodePages, ReturnsToFree
    <3>2. reserved \subseteq InodePages
      BY DEF TypeOK
    <3>3. QED
      BY <2>3, <3>1, <3>2 DEF FreeUnwritten
  <2>6. ReservedIsHeld'
    <3>1. SUFFICES ASSUME NEW p \in reserved' PROVE Held(p)'
      BY DEF ReservedIsHeld
    <3>2. p \in reserved /\ p \in InodePages /\ p # page
      BY <2>5
    <3>3. Held(p) /\ (Valid(p) => Valid(p)')
      BY <2>4, <3>2 DEF ReservationInv, ReservedIsHeld
    <3>4. QED
      BY <1>1, <1>3, <2>3, <3>2, <3>3 DEF Held
  <2>7. DeletedIsWritten'
    <3>1. SUFFICES ASSUME up = "up" PROVE hs[a].open /\ Valid(hs[a].page)'
      BY <1>1, <1>2, <2>3 DEF DeletedIsWritten, Valid
    <3>2. hs[a].open /\ Valid(hs[a].page) /\ hs[a].page # page
      BY <1>5, <2>2, <3>1 DEF PagesInv, DoomedIsOld
    <3>3. hs[a].page \in InodePages
      BY DEF TypeOK, Handle
    <3>4. inodeArea'[hs[a].page] = inodeArea[hs[a].page]
      BY <2>3, <3>2, <3>3 DEF TypeOK
    <3>5. QED
      BY <1>1, <3>2, <3>4 DEF Valid
  <2>8. QED
    BY <2>6, <2>7 DEF ReservationInv
<1>8. QED
  BY <1>6, <1>7

(***************************************************************************)
(* The other steps.                                                        *)
(***************************************************************************)
LEMMA PoppedWrites ==
  ASSUME Control, todo # <<>>, Head(todo).t \notin FlushKinds, todo' = Tail(todo)
  PROVE  DeletedIsWritten' /\ \A b : ~Replacing(b)
<1>1. todo' = <<>> \/ Head(todo').t \in OpenModes \cup {"removeOther", "visit", "correct", "renameSelf"}
  BY AfterTask
<1>2. \A b : ~Replacing(b)
  BY NothingToCommit DEF FlushKinds
<1>3. QED
  BY <1>1, <1>2, NothingWritten DEF OpenModes

LEMMA DropReserves ==
  ASSUME TypeOK, TypeOK', Control, PagesInv, ReservationInv, Drop \/ Deleted
  PROVE  ReservationInv'
<1>1. PICK a \in Actors : a = Actor
  BY HeadType DEF Drop, Deleted, Doing, TypeOK
<1>2. /\ todo # <<>> /\ Head(todo).t \in {"drop", "deleted"} /\ Head(todo).h = a
      /\ todo \in Seq(Task) /\ Then(<<>>)
      /\ UNCHANGED <<inodeArea, doomed, old>>
      /\ \/ hs' = hs /\ reserved' = reserved
         \/ hs' = [hs EXCEPT ![a] = NoHandle]
      /\ \/ reserved' = reserved /\ (~hs[a].open \/ Valid(hs[a].page) \/ hs' = hs)
         \/ reserved' = reserved \ {hs[a].page}
  <2>1. CASE Drop
    BY <1>1, <2>1 DEF Drop, Doing, Actor, TypeOK, FreeUnwritten, flash, locals
  <2>2. CASE Deleted
    <3>1. hs[a].mod \/ Valid(hs[a].page)
      BY <1>1, <2>2 DEF Deleted, Doing, Actor, ReservationInv, DeletedIsWritten
    <3>2. QED
      BY <1>1, <2>2, <3>1 DEF Deleted, Doing, Actor, TypeOK, flash, alloc, locals
  <2>3. QED
    BY <2>1, <2>2
<1>3. todo' = Tail(todo)
  BY <1>2, Popped
<1>4. DeletedIsWritten' /\ \A b : ~Replacing(b)
  BY <1>2, <1>3, PoppedWrites DEF FlushKinds
<1>5. \A p \in InodePages : Valid(p) => Valid(p)'
  BY <1>2 DEF Valid
<1>6. ReservedIsHeld'
  <2>1. SUFFICES ASSUME NEW p \in reserved' PROVE Held(p)'
    BY DEF ReservedIsHeld
  <2>2. p \in reserved /\ p \in InodePages /\ Held(p)
    BY <1>2, <2>1 DEF ReservationInv, ReservedIsHeld, TypeOK
  <2>3. CASE Valid(p) \/ p \in doomed
    BY <1>2, <1>5, <2>2, <2>3 DEF Held
  <2>4. ASSUME NEW b \in Actors, hs[b].open, hs[b].page = p, ~Valid(p)
        PROVE  Held(p)'
    <3>1. hs'[b] = hs[b]
      <4>1. CASE b = a
        BY <1>2, <2>1, <2>4, <4>1
      <4>2. CASE b # a
        BY <1>2, <4>2 DEF TypeOK
      <4>3. QED
        BY <4>1, <4>2
    <3>2. QED
      BY <2>4, <3>1 DEF Held
  <2>5. QED
    BY <1>4, <2>2, <2>3, <2>4 DEF Held
<1>7. QED
  BY <1>4, <1>6 DEF ReservationInv

\* find_file() and list_files() hold nothing back.
LEMMA SearchReserves ==
  ASSUME TypeOK, TypeOK', Control, PagesInv, ReservationInv, FindScan \/ Visit \/ Correct
  PROVE  ReservationInv'
<1>1. /\ todo # <<>> /\ Head(todo).t \in {"find", "visit", "correct"}
      /\ todo \in Seq(Task)
      /\ reserved' \subseteq reserved
      /\ UNCHANGED <<inodeArea, doomed, old>>
  BY DEF FindScan, Visit, Correct, Doing, TypeOK, flash, alloc
<1>2. \A b : ~Replacing(b)
  BY <1>1, NothingToCommit
<1>3. DeletedIsWritten'
  <2>1. CASE FindScan
    <3>1. \E h \in Handles, n \in Names, how \in OpenModes \cup {"removeOther"} :
            todo = <<OnName("find", Tmp, n), OnName(how, h, n)>>
      BY <1>1, <2>1, TaskPlaces DEF FindScan, Doing
    <3>2. OnName("visit", Tmp, Head(todo).n) \in Task /\ Tail(todo) \in Seq(Task)
      BY <1>1, TaskTypes, HeadType DEF TaskKinds, Actors
    <3>3. Head(todo') = OnName("visit", Tmp, Head(todo).n)
      BY <2>1, <3>2, Stacks DEF FindScan, Then
    <3>4. QED
      BY <3>3, TaskParts, NothingWritten
  <2>2. CASE Visit \/ Correct
    <3>1. Then(<<>>)
      BY <2>2, PlainVisit, PlainCorrect DEF PagesInv
    <3>2. todo' = Tail(todo)
      BY <1>1, <3>1, Popped
    <3>3. QED
      BY <1>1, <3>2, PoppedWrites DEF FlushKinds
  <2>3. QED
    BY <2>1, <2>2
<1>4. \A a \in Actors : hs[a].open => hs'[a] = hs[a]
  <2>1. hs' = hs \/ (~hs[Tmp].open /\ \E p : hs' = [hs EXCEPT ![Tmp] = Loaded(p)])
    <3>1. CASE Visit
      <4>1. hs' = hs \/ \E p : hs' = [hs EXCEPT ![Tmp] = Loaded(p)]
        BY <3>1, PlainVisit DEF PagesInv
      <4>2. ~hs[Tmp].open
        BY <1>1, <3>1, TaskPlaces DEF Visit, Doing
      <4>3. QED
        BY <4>1, <4>2
    <3>2. CASE FindScan
      BY <3>2 DEF FindScan
    <3>3. CASE Correct
      BY <3>3, PlainCorrect DEF PagesInv
    <3>4. QED
      BY <3>1, <3>2, <3>3
  <2>2. QED
    BY <2>1 DEF TypeOK
<1>5. \A p \in InodePages : Valid(p) => Valid(p)'
  BY <1>1 DEF Valid
<1>6. ReservedIsHeld'
  <2>1. \A p \in reserved' : p \in reserved
    BY <1>1
  <2>2. QED
    BY <1>1, <1>2, <1>4, <1>5, <2>1, HeldKept DEF ReservationInv
<1>7. QED
  BY <1>3, <1>6 DEF ReservationInv

\* open() holds back the page of a new handle.
LEMMA OpenReserves ==
  ASSUME TypeOK, TypeOK', Control, ReservationInv, OpenMissing \/ OpenTrunc
  PROVE  ReservationInv'
<1> DEFINE t == Head(todo).t
<1>1. /\ todo # <<>> /\ t \in OpenModes /\ todo \in Seq(Task)
      /\ UNCHANGED <<inodeArea, doomed, old>>
  BY DEF OpenMissing, OpenTrunc, Doing, OpenModes, TypeOK, flash, locals
<1>2. PICK h \in Handles, n \in Names : ~hs[h].open /\ todo = <<OnName(t, h, n)>>
  <2>1. \E h \in Handles, n \in Names : ~hs[h].open /\ todo = <<OnName(t, h, n)>>
    BY <1>1, TaskPlaces DEF OpenModes
  <2>2. QED
    BY <2>1
<1>3. h \in Actors /\ Head(todo).h = h /\ Tail(todo) = <<>>
  <2>1. Head(todo) = OnName(t, h, n) /\ Tail(todo) = <<>>
    BY <1>2, Tuple1
  <2>2. QED
    BY <2>1, TaskParts DEF Actors
<1>4. \/ UNCHANGED <<hs, reserved>>
      \/ \E g, page : g.open /\ g.page = page /\ hs' = [hs EXCEPT ![h] = g]
                      /\ reserved' = reserved \cup {page}
  <2>1. \/ UNCHANGED <<hs, reserved>>
        \/ \E f \in Handle : \E page : NewHandle(h, f, page)
    <3>1. CASE OpenMissing
      <4>1. \A m \in FileNames : [NoHandle EXCEPT !.name = m, !.mod = TRUE] \in Handle
        BY NoHandleType DEF Handle
      <4>2. Head(todo).n \in FileNames
        BY <1>1, HeadType
      <4>3. QED
        BY <1>3, <3>1, <4>1, <4>2 DEF OpenMissing
    <3>2. CASE OpenTrunc
      <4>1. hs[Tmp] \in Handle
        BY DEF TypeOK, Actors
      <4>2. [NoHandle EXCEPT !.ino = hs[Tmp].ino, !.ver = hs[Tmp].ver, !.name = hs[Tmp].name] \in Handle
        BY <4>1, NoHandleType DEF Handle
      <4>3. QED
        BY <1>3, <3>2, <4>2 DEF OpenTrunc, Actor
    <3>3. QED
      BY <3>1, <3>2
  <2>2. ASSUME NEW f \in Handle, NEW page, NewHandle(h, f, page)
        PROVE  \E g : g.open /\ g.page = page /\ hs' = [hs EXCEPT ![h] = g]
                      /\ reserved' = reserved \cup {page}
    <3>1. [f EXCEPT !.open = TRUE, !.page = page].open
          /\ [f EXCEPT !.open = TRUE, !.page = page].page = page
      BY DEF Handle
    <3>2. QED
      BY <2>2, <3>1 DEF NewHandle
  <2>3. QED
    BY <2>1, <2>2
<1>5. \A b : ~Replacing(b)
  BY <1>1, NothingToCommit DEF OpenModes
<1>6. \A a \in Actors : hs[a].open => hs'[a] = hs[a]
  BY <1>2, <1>4 DEF TypeOK
<1>7. \A p \in reserved' :
        p \in reserved \/ \E a \in Actors : hs'[a].open /\ hs'[a].page = p
  BY <1>3, <1>4 DEF TypeOK
<1>8. \A p \in InodePages : Valid(p) => Valid(p)'
  BY <1>1 DEF Valid
<1>9. ReservedIsHeld'
  BY <1>1, <1>5, <1>6, <1>7, <1>8, HeldKept DEF ReservationInv
<1>10. DeletedIsWritten'
  <2>1. CASE OpenMissing
    <3>1. todo' = Tail(todo)
      BY <1>1, <2>1, Popped DEF OpenMissing
    <3>2. QED
      BY <1>3, <3>1, NothingWritten
  <2>2. CASE OpenTrunc
    <3>1. todo' = <<On("flush", Tmp), On("drop", Tmp)>> \o <<>>
      BY <1>3, <2>2 DEF OpenTrunc, Then
    <3>2. /\ <<On("flush", Tmp), On("drop", Tmp)>> \o <<>> = <<On("flush", Tmp), On("drop", Tmp)>>
          /\ <<On("flush", Tmp), On("drop", Tmp)>>[2] = On("drop", Tmp)
      OBVIOUS
    <3>3. todo'[2] = On("drop", Tmp) /\ Head(todo') = On("flush", Tmp)
      BY <3>1, <3>2, Tuple2
    <3>4. todo'[2].t = "drop" /\ Head(todo').t = "flush"
      BY <3>3, TaskParts
    <3>5. QED
      BY <3>4, NothingWritten
  <2>3. QED
    BY <2>1, <2>2
<1>11. QED
  BY <1>9, <1>10 DEF ReservationInv

\* Handing out the handle of find_file().
LEMMA FoundReserves ==
  ASSUME TypeOK, TypeOK', Control, ReservationInv, OpenFound
  PROVE  ReservationInv'
<1> DEFINE t == Head(todo).t
<1>1. /\ todo # <<>> /\ t \in {"openIn", "openOut"} /\ todo \in Seq(Task)
      /\ hs' = [hs EXCEPT ![Actor] = hs[Tmp], ![Tmp] = NoHandle]
      /\ Then(<<>>)
      /\ UNCHANGED <<inodeArea, reserved, doomed, old>>
  BY DEF OpenFound, Doing, TypeOK, flash, alloc, locals
<1>2. PICK h \in Handles, n \in Names : ~hs[h].open /\ todo = <<OnName(t, h, n)>>
  <2>1. \E h \in Handles, n \in Names : ~hs[h].open /\ todo = <<OnName(t, h, n)>>
    BY <1>1, TaskPlaces DEF OpenModes
  <2>2. QED
    BY <2>1
<1>3. h \in Actors /\ Tmp \in Actors /\ h # Tmp /\ Actor = h
  <2>1. Head(todo) = OnName(t, h, n)
    BY <1>2, Tuple1
  <2>2. Actor = h
    BY <2>1, TaskParts DEF Actor
  <2>3. QED
    BY <2>2, HandleAssumption DEF Actors
<1>4. \A b : ~Replacing(b)
  BY <1>1, NothingToCommit
<1>5. /\ hs'[h] = hs[Tmp]
      /\ \A a \in Actors \ {h, Tmp} : hs'[a] = hs[a]
  BY <1>1, <1>3 DEF TypeOK
<1>6. \A a \in Actors : hs[a].open =>
        \E b \in Actors : hs'[b].open /\ hs'[b].page = hs[a].page
  <2>1. TAKE a \in Actors
  <2>2. CASE a = Tmp
    BY <1>3, <1>5, <2>2
  <2>3. CASE a = h
    BY <1>2, <2>3
  <2>4. CASE a \notin {h, Tmp}
    BY <1>5, <2>4
  <2>5. QED
    BY <2>2, <2>3, <2>4
<1>7. \A p \in InodePages : Valid(p) => Valid(p)'
  BY <1>1 DEF Valid
<1>8. ReservedIsHeld'
  BY <1>1, <1>4, <1>6, <1>7, HeldKept DEF ReservationInv
<1>9. DeletedIsWritten'
  BY <1>1, Popped, PoppedWrites DEF FlushKinds
<1>10. QED
  BY <1>8, <1>9 DEF ReservationInv

\* rename_file() marks the handle of the other file as modified, and its own.
LEMMA RenameReserves ==
  ASSUME TypeOK, TypeOK', Control, ReservationInv, RemoveOther \/ RenameSelf
  PROVE  ReservationInv'
<1>1. /\ todo # <<>> /\ Head(todo).t \in {"removeOther", "renameSelf"}
      /\ todo \in Seq(Task) /\ hs \in [Actors -> Handle]
      /\ Head(todo).h \in Actors /\ Tmp \in Actors /\ Tail(todo) \in Seq(Task)
      /\ Head(todo).n \in FileNames
      /\ UNCHANGED <<inodeArea, reserved, doomed, old>>
  BY HeadType DEF RemoveOther, RenameSelf, Doing, TypeOK, Actors, flash, alloc, locals
<1>2. \A b : ~Replacing(b)
  BY <1>1, NothingToCommit
<1>3. \A p \in InodePages : Valid(p) => Valid(p)'
  BY <1>1 DEF Valid
<1>4. \A a \in Actors : hs'[a].open = hs[a].open /\ hs'[a].page = hs[a].page
  <2>1. CASE RemoveOther /\ hs[Tmp].open
    <3>1. Emptied(hs[Tmp]).open = hs[Tmp].open /\ Emptied(hs[Tmp]).page = hs[Tmp].page
      BY <1>1 DEF Emptied, Handle
    <3>2. hs' = [hs EXCEPT ![Tmp] = Emptied(hs[Tmp])]
      BY <2>1 DEF RemoveOther
    <3>3. QED
      BY <1>1, <3>1, <3>2
  <2>2. CASE RemoveOther /\ ~hs[Tmp].open
    BY <2>2 DEF RemoveOther
  <2>3. CASE RenameSelf
    <3>1. hs' = [hs EXCEPT ![Head(todo).h].name = Head(todo).n, ![Head(todo).h].mod = TRUE]
      BY <2>3 DEF RenameSelf
    <3>2. QED
      BY <1>1, <3>1 DEF Handle
  <2>4. QED
    BY <2>1, <2>2, <2>3
<1>5. ReservedIsHeld'
  BY <1>1, <1>2, <1>3, <1>4, HeldKept DEF ReservationInv
<1>6. DeletedIsWritten'
  <2> DEFINE x == OnName("renameSelf", Head(todo).h, Head(todo).n)
  <2>1. x \in Task /\ On("flush", Tmp) \in Task /\ On("deleted", Tmp) \in Task
        /\ On("flush", Head(todo).h) \in Task
    BY <1>1, TaskTypes DEF TaskKinds, FileNames
  <2>2. CASE RemoveOther /\ hs[Tmp].open
    <3>1. hs'[Tmp].mod
      BY <1>1, <2>2 DEF RemoveOther, Emptied, Handle
    <3>2. todo' = (<<On("flush", Tmp), On("deleted", Tmp)>> \o <<x>>) \o Tail(todo)
      BY <2>2 DEF RemoveOther, Then
    <3>3. <<On("flush", Tmp), On("deleted", Tmp)>> \o <<x>> = <<On("flush", Tmp), On("deleted", Tmp), x>>
      BY Join21
    <3>4. todo' # <<>> /\ Head(todo') = On("flush", Tmp)
      <4>1. <<On("flush", Tmp), On("deleted", Tmp), x>> \in Seq(Task)
        BY <2>1
      <4> HIDE DEF x
      <4>2. QED
        BY <1>1, <2>1, <3>2, <3>3, <4>1, Tuple3, ThenHead DEF Then
    <3>5. Head(todo').t = "flush" /\ Head(todo').h = Tmp
      BY <3>4, TaskParts
    <3>6. QED
      BY <3>1, <3>5 DEF DeletedIsWritten
  <2>3. CASE RemoveOther /\ ~hs[Tmp].open
    <3>1. todo' = <<x>> \o Tail(todo)
      BY <2>3 DEF RemoveOther, Then
    <3>2. Head(todo') = x
      BY <1>1, <2>1, <3>1, Stacks
    <3>3. QED
      BY <3>2, TaskParts, NothingWritten
  <2>4. CASE RenameSelf
    <3>1. \E k \in Handles, n \in Names : todo = <<OnName("renameSelf", k, n)>>
      BY <1>1, <2>4, TaskPlaces DEF RenameSelf, Doing
    <3>2. Tail(todo) = <<>>
      BY <3>1, Tuple1
    <3>3. todo' = <<On("flush", Head(todo).h), On("flush", Tmp), On("drop", Tmp)>> \o <<>>
      BY <2>4, <3>2 DEF RenameSelf, Then
    <3> DEFINE y == On("flush", Head(todo).h)
               ts == <<y, On("flush", Tmp), On("drop", Tmp)>>
    <3>4. ts \o <<>> = ts /\ ts[2] = On("flush", Tmp)
      OBVIOUS
    <3>5. todo'[2] = On("flush", Tmp) /\ Head(todo') = y
      BY <3>3, <3>4, Tuple3
    <3> HIDE DEF ts
    <3>6. todo'[2].t = "flush" /\ Head(todo').t = "flush"
      BY <3>5, TaskParts
    <3>7. QED
      BY <3>6, NothingWritten
  <2>5. QED
    BY <2>2, <2>3, <2>4
<1>7. QED
  BY <1>5, <1>6 DEF ReservationInv

\* Mount and power loss.
LEMMA MountReserves ==
  ASSUME TypeOK, TypeOK', Control, PagesInv, ReservationInv,
         EraseOutdated \/ MountDone \/ MountScan
  PROVE  ReservationInv'
<1>1. /\ UNCHANGED <<inodeArea, reserved, hs, old>>
      /\ todo = <<>> \/ Head(todo).t = "mount"
  <2>1. CASE EraseOutdated \/ MountDone
    BY <2>1 DEF EraseOutdated, MountDone, Doing, flash, alloc, locals
  <2>2. CASE MountScan
    BY <2>2 DEF MountScan, Control, flash, locals
  <2>3. QED
    BY <2>1, <2>2
<1>2. doomed = {} /\ \A b : ~Replacing(b)
  BY <1>1, NothingDoomed, NothingToCommit
<1>3. \A p \in InodePages : Valid(p) => Valid(p)'
  BY <1>1 DEF Valid
<1>4. ReservedIsHeld'
  BY <1>1, <1>2, <1>3, HeldKept DEF ReservationInv
<1>5. DeletedIsWritten'
  <2>1. CASE EraseOutdated
    <3>1. up' # "up" /\ todo = <<On("mount", Tmp)>>
      BY <1>1, <2>1, TaskPlaces DEF EraseOutdated, Doing
    <3>2. todo' = <<On("erase", Tmp), On("mount", Tmp)>>
      BY <2>1, <3>1, MountTasks, Join11 DEF EraseOutdated
    <3>3. Head(todo').t = "erase"
      BY <3>2, Tuple2, TaskParts
    <3>4. QED
      BY <3>1, <3>3 DEF DeletedIsWritten
  <2>2. CASE MountDone
    <3>1. todo # <<>> /\ Head(todo).t = "mount" /\ todo' = Tail(todo)
      BY <2>2, Popped DEF MountDone, Doing, TypeOK
    <3>2. QED
      BY <3>1, PoppedWrites DEF FlushKinds
  <2>3. CASE MountScan
    BY <2>3, CallHeads, NothingWritten DEF MountScan
  <2>4. QED
    BY <2>1, <2>2, <2>3
<1>6. QED
  BY <1>4, <1>5 DEF ReservationInv

LEMMA ReservationNext ==
  ASSUME Erasing, PlainUse, BaseInv, BaseInv', PagesInv, ReservationInv, [Next]_vars
  PROVE  ReservationInv'
<1>1. TypeOK /\ TypeOK' /\ Control /\ Numbered
  BY DEF BaseInv, NumbersInv
<1>2. CASE Call
  BY <1>1, <1>2, CallReserves
<1>3. CASE Work
  <2>1. ASSUME NEW t \in {"write", "grow", "seek", "clean"}
        PROVE  ~(todo # <<>> /\ Head(todo).t = t)
    <3>1. SUFFICES ASSUME todo # <<>>, Head(todo).t = t PROVE FALSE
      OBVIOUS
    <3>2. todo[1] = Head(todo) /\ 1 \in 1 .. Len(todo)
      BY <1>1, <3>1 DEF TypeOK
    <3>3. QED
      BY <3>1, <3>2 DEF PagesInv, PlainTasks
  <2>2. CASE WriteWork \/ EnlargeStep \/ Clean
    BY <2>1, <2>2 DEF WriteWork, WriteOn, WriteRefused, EnlargeStep, Clean, Doing
  <2>3. CASE FlushNumber \/ FlushVersion \/ WriteZeroPage
    BY <1>1, <2>3, NumberReserves, VersionReserves, ZeroReserves
  <2>4. CASE WriteMeta \/ ErasePage
    BY <1>1, <2>4, MetaReserves, EraseReserves
  <2>5. CASE WriteMetaFails
    BY <2>5 DEF WriteMetaFails, PlainUse, Refusals
  <2>6. CASE Drop \/ Deleted
    BY <1>1, <2>6, DropReserves
  <2>7. CASE FindScan \/ Visit \/ Correct
    BY <1>1, <2>7, SearchReserves
  <2>8. CASE OpenMissing \/ OpenTrunc
    BY <1>1, <2>8, OpenReserves
  <2>9. CASE OpenFound
    BY <1>1, <2>9, FoundReserves
  <2>10. CASE RemoveOther \/ RenameSelf
    BY <1>1, <2>10, RenameReserves
  <2>11. CASE EraseOutdated \/ MountDone
    BY <1>1, <2>11, MountReserves
  <2>12. QED
    BY <1>3, <2>2, <2>3, <2>4, <2>5, <2>6, <2>7, <2>8, <2>9, <2>10, <2>11
       DEF Work, WriteWork
<1>4. CASE PowerLoss
  BY <1>4 DEF PowerLoss, ReservationInv, ReservedIsHeld, DeletedIsWritten
<1>5. CASE MountScan
  BY <1>1, <1>5, MountReserves
<1>6. CASE UNCHANGED vars
  BY <1>6 DEF vars, ReservationInv, ReservedIsHeld, DeletedIsWritten, Held, Valid, Replacing
<1>7. QED
  BY <1>2, <1>3, <1>4, <1>5, <1>6 DEF Next

LEMMA NothingLeaks ==
  ASSUME BaseInv, PagesInv, ReservationInv
  PROVE  NoReservationLeaks
<1>1. SUFFICES ASSUME todo = <<>>, NEW p \in reserved, ~Valid(p)
               PROVE  \E h \in Handles : hs[h].open /\ hs[h].page = p
  BY DEF NoReservationLeaks
<1>2. doomed = {} /\ \A b : ~Replacing(b)
  BY <1>1, NothingDoomed, NothingToCommit
<1>3. PICK a \in Actors : hs[a].open /\ hs[a].page = p
  BY <1>1, <1>2 DEF ReservationInv, ReservedIsHeld, Held
<1>4. ~hs[Tmp].open
  <2>1. up = "off" \/ (up = "up" /\ ~hs[Tmp].open)
    BY <1>1, IdleStack DEF BaseInv
  <2>2. QED
    BY <2>1, HandleAssumption DEF PagesInv, HandleLists, Actors
<1>5. QED
  BY <1>3, <1>4 DEF Actors

\* Between calls an inode page is held back in allocated_unwritten_pages for an
\* open handle only, or it is in use anyway: however long the file system runs,
\* create, write, rename, delete, power loss, no inode page is lost to it.
THEOREM ReservationsAreReturned ==
  ASSUME Erasing, PlainUse
  PROVE  Spec => []NoReservationLeaks
<1>1. Init => ReservationInv
  BY DEF Init, ReservationInv, ReservedIsHeld, DeletedIsWritten
<1>2. /\ BaseInv /\ PagesInv /\ (BaseInv /\ PagesInv)' /\ ReservationInv /\ [Next]_vars
         => ReservationInv'
      /\ BaseInv /\ PagesInv /\ ReservationInv => NoReservationLeaks
  BY ReservationNext, NothingLeaks
<1>3. QED
  BY <1>1, <1>2, PagesAlways, PTL DEF Spec

(***************************************************************************)
(* The tasks that name a file.  They are put on the list by open() and     *)
(* rename_file() and by nothing else.                                      *)
(***************************************************************************)
\* x names no file, or was on the list, or a step of these calls puts it there
Named(x) ==
  x.t \in NameKinds =>
    \/ \E k \in 1 .. Len(todo) : todo[k] = x
    \/ \E h \in Handles, n \in Names :
         \/ \E mode \in OpenModes : Open(h, n, mode) /\ x = OnName(mode, h, n)
         \/ Rename(h, n) /\ x = OnName("removeOther", h, n)
    \/ RemoveOther /\ x = OnName("renameSelf", Actor, Head(todo).n)

AllNamed == \A k \in 1 .. Len(todo') : Named(todo'[k])

LEMMA NamedTasks ==
  ASSUME TypeOK, TypeOK', [Next]_vars
  PROVE  AllNamed
<1>1. ASSUME NEW x, NEW y, NEW z, NEW r \in Seq(Task),
             Named(x), Named(y), Named(z),
             \A k \in 1 .. Len(r) : Named(r[k]),
             todo' \in {r, <<x>> \o r, <<x, y>> \o r, <<x, y, z>> \o r}
      PROVE  AllNamed
  <2>1. Len(r) \in Nat
    OBVIOUS
  <2>2. CASE todo' = r
    BY <1>1, <2>2 DEF AllNamed
  <2>3. CASE todo' = <<x>> \o r
    <3>1. /\ Len(todo') = Len(r) + 1 /\ todo'[1] = x
          /\ \A k \in 2 .. Len(todo') : k - 1 \in 1 .. Len(r) /\ todo'[k] = r[k - 1]
      BY <2>1, <2>3
    <3>2. \A k \in 1 .. Len(todo') : k = 1 \/ k \in 2 .. Len(todo')
      BY <2>1, <3>1
    <3>3. QED
      BY <1>1, <3>1, <3>2 DEF AllNamed
  <2>4. CASE todo' = <<x, y>> \o r
    <3>1. /\ Len(todo') = Len(r) + 2 /\ todo'[1] = x /\ todo'[2] = y
          /\ \A k \in 3 .. Len(todo') : k - 2 \in 1 .. Len(r) /\ todo'[k] = r[k - 2]
      BY <2>1, <2>4
    <3>2. \A k \in 1 .. Len(todo') : k = 1 \/ k = 2 \/ k \in 3 .. Len(todo')
      BY <2>1, <3>1
    <3>3. QED
      BY <1>1, <3>1, <3>2 DEF AllNamed
  <2>5. CASE todo' = <<x, y, z>> \o r
    <3>1. /\ Len(todo') = Len(r) + 3 /\ todo'[1] = x /\ todo'[2] = y /\ todo'[3] = z
          /\ \A k \in 4 .. Len(todo') : k - 3 \in 1 .. Len(r) /\ todo'[k] = r[k - 3]
      BY <2>1, <2>5
    <3>2. \A k \in 1 .. Len(todo') : k = 1 \/ k = 2 \/ k = 3 \/ k \in 4 .. Len(todo')
      BY <2>1, <3>1
    <3>3. QED
      BY <1>1, <3>1, <3>2 DEF AllNamed
  <2>6. QED
    BY <1>1, <2>2, <2>3, <2>4, <2>5
<1>2. /\ todo \in Seq(Task) /\ <<>> \in Seq(Task)
      /\ \A k \in 1 .. Len(todo) : Named(todo[k])
      /\ todo # <<>> => /\ Tail(todo) \in Seq(Task)
                        /\ \A k \in 1 .. Len(Tail(todo)) : Named(Tail(todo)[k])
  <2>1. todo \in Seq(Task)
    BY DEF TypeOK
  <2>2. todo # <<>> => /\ Tail(todo) \in Seq(Task) /\ Len(Tail(todo)) = Len(todo) - 1
                       /\ Len(todo) \in Nat
                       /\ \A k \in 1 .. Len(Tail(todo)) : /\ Tail(todo)[k] = todo[k + 1]
                                                          /\ k + 1 \in 1 .. Len(todo)
    BY <2>1
  <2>3. \A k \in 1 .. Len(todo) : Named(todo[k])
    BY DEF Named
  <2>4. QED
    BY <2>1, <2>2, <2>3
<1>3. \A t \in {"flush", "zero", "metaNew", "meta", "erase", "drop", "deleted", "find",
                "visit", "write", "grow", "seek", "clean", "correct", "mount"} :
        /\ \A h : Named(On(t, h))
        /\ \A h, n : Named(OnName(t, h, n))
        /\ \A h, k : Named(OnSize(t, h, k))
  BY DEF On, OnName, OnSize, Named, NameKinds, OpenModes
<1>4. ASSUME NEW x, NEW y, Named(x), Named(y), todo' \in {<<x>>, <<x, y>>}
      PROVE  AllNamed
  <2> DEFINE r == <<>>
  <2>1. todo' \in {<<x>> \o r, <<x, y>> \o r}
    BY <1>4, JoinNone
  <2>2. r \in Seq(Task) /\ \A k \in 1 .. Len(r) : Named(r[k])
    BY <1>2
  <2> HIDE DEF r
  <2>3. QED
    BY <1>1, <1>4, <2>1, <2>2
<1>5. CASE todo' = todo
  BY <1>2, <1>5 DEF AllNamed
<1>6. CASE todo # <<>> /\ Then(<<>>)
  BY <1>2, <1>6, Popped DEF AllNamed
<1>7. CASE Call
  <2>1. ASSUME NEW h \in Handles, NEW n \in Names, NEW mode \in OpenModes, Open(h, n, mode)
        PROVE  AllNamed
    <3>1. todo' = <<OnName("find", Tmp, n), OnName(mode, h, n)>>
      BY <2>1 DEF Open, Start
    <3>2. Named(OnName(mode, h, n)) /\ Named(OnName("find", Tmp, n))
      BY <1>3, <2>1 DEF Named
    <3>3. QED
      BY <1>4, <3>1, <3>2
  <2>2. ASSUME NEW h \in Handles, NEW n \in Names, Rename(h, n) PROVE AllNamed
    <3>1. todo' = <<OnName("find", Tmp, n), OnName("removeOther", h, n)>>
      BY <2>2 DEF Rename, Start
    <3>2. Named(OnName("removeOther", h, n)) /\ Named(OnName("find", Tmp, n))
      BY <1>3, <2>2 DEF Named
    <3>3. QED
      BY <1>4, <3>1, <3>2
  <2>3. ASSUME NEW h, Flush(h) \/ Close(h) \/ Delete(h) PROVE AllNamed
    <3>1. todo' \in {<<On("flush", h)>>, <<On("flush", h), On("drop", h)>>,
                     <<On("flush", h), On("deleted", h)>>}
      BY <2>3 DEF Flush, Close, Delete, Start
    <3>2. QED
      BY <1>3, <1>4, <3>1
  <2>4. ASSUME NEW h, NEW n, NEW how \in {"grow", "seek"}, Enlarge(h, n, how) PROVE AllNamed
    <3>1. todo' = <<OnSize(how, h, n)>>
      BY <2>4 DEF Enlarge, Start
    <3>2. QED
      BY <1>3, <1>4, <3>1
  <2>5. ASSUME Cleanup \/ ListFiles PROVE AllNamed
    <3>1. todo' \in {<<On("clean", Tmp), On("correct", Tmp)>>, <<On("correct", Tmp)>>}
      BY <2>5 DEF Cleanup, ListFiles, Start
    <3>2. QED
      BY <1>3, <1>4, <3>1
  <2>6. ASSUME NEW h \in Handles, NEW k \in 1 .. MaxLen, NEW v \in Vals, Write(h, k, v)
        PROVE  AllNamed
    <3>1. todo' = todo \/ todo' = <<OnSize("write", h, k + 1)>>
      BY <2>6, WriteCall
    <3>2. QED
      BY <1>3, <1>4, <1>5, <3>1
  <2>7. ASSUME NEW h, NEW n, Truncate(h, n) PROVE AllNamed
    BY <1>5, <2>7 DEF Truncate
  <2>8. QED
    BY <1>7, <2>1, <2>2, <2>3, <2>4, <2>5, <2>6, <2>7 DEF Call, OpenModes
<1>8. CASE Work
  <2>1. ASSUME NEW x, NEW y, NEW z, NEW r \in {todo, Tail(todo)}, todo # <<>>,
               Named(x), Named(y), Named(z),
               todo' \in {<<x>> \o r, <<x, y>> \o r, <<x, y, z>> \o r}
        PROVE  AllNamed
    <3>1. r \in Seq(Task) /\ \A k \in 1 .. Len(r) : Named(r[k])
      BY <1>2, <2>1 DEF AllNamed
    <3>2. QED
      BY <1>1, <2>1, <3>1
  <2>2. todo # <<>>
    BY <1>8, WorkByTask
  <2>3. ASSUME NEW x, NEW y, Named(x), Named(y), Then(<<x>>) \/ Then(<<x, y>>) PROVE AllNamed
    BY <2>1, <2>2, <2>3 DEF Then
  <2>4. CASE FlushNumber \/ FlushVersion
    <3>1. \/ Then(<<>>)
          \/ Then(<<On("zero", Actor), On("metaNew", Actor)>>)
          \/ Then(<<On("zero", Actor), On("meta", Actor)>>)
      BY <2>4 DEF FlushNumber, FlushVersion
    <3>2. QED
      BY <1>3, <1>6, <2>2, <2>3, <3>1
  <2>5. CASE WriteMeta
    <3>1. Then(<<>>) \/ Then(<<On("erase", Actor)>>)
      BY <2>5 DEF WriteMeta
    <3>2. QED
      BY <1>3, <1>6, <2>2, <2>3, <3>1
  <2>6. CASE FindScan
    BY <1>3, <2>3, <2>6 DEF FindScan
  <2>7. CASE Visit \/ Correct \/ EraseOutdated
    <3>1. \/ Then(<<>>)
          \/ todo' = <<On("flush", Tmp), On("drop", Tmp)>> \o todo
          \/ todo' = <<On("erase", Tmp)>> \o todo
      BY <2>7 DEF Visit, Correct, EraseOutdated
    <3>2. QED
      BY <1>3, <1>6, <2>1, <2>2, <3>1, ZenonT(40)
  <2>8. CASE OpenTrunc
    <3>1. Then(<<On("flush", Tmp), On("drop", Tmp)>>)
      BY <2>8 DEF OpenTrunc
    <3>2. QED
      BY <1>3, <2>3, <3>1
  <2>9. CASE RemoveOther
    <3> DEFINE self == OnName("renameSelf", Head(todo).h, Head(todo).n)
    <3>1. \/ Then(<<self>>)
          \/ Then(<<On("flush", Tmp), On("deleted", Tmp)>> \o <<self>>)
      BY <2>9 DEF RemoveOther
    <3>2. Named(self)
      BY <2>9 DEF Named, Actor
    <3> HIDE DEF self
    <3>3. CASE Then(<<On("flush", Tmp), On("deleted", Tmp)>> \o <<self>>)
      <4>1. todo' = <<On("flush", Tmp), On("deleted", Tmp), self>> \o Tail(todo)
        BY <3>3, Join21 DEF Then
      <4>2. QED
        BY <1>3, <2>1, <2>2, <3>2, <4>1, ZenonT(40)
    <3>4. QED
      BY <2>3, <3>1, <3>2, <3>3
  <2>10. CASE RenameSelf
    <3> DEFINE a == Head(todo).h
    <3>1. todo' = <<On("flush", a), On("flush", Tmp), On("drop", Tmp)>> \o Tail(todo)
      BY <2>10 DEF RenameSelf, Then
    <3> HIDE DEF a
    <3> DEFINE x == On("flush", a)
               y == On("flush", Tmp)
               z == On("drop", Tmp)
    <3>2. Named(x) /\ Named(y) /\ Named(z)
      BY <1>3
    <3>3. todo' = <<x, y, z>> \o Tail(todo)
      BY <3>1
    <3> HIDE DEF x, y, z
    <3>4. QED
      BY <2>1, <2>2, <3>2, <3>3
  <2>11. CASE EnlargeStep
    <3>1. todo' = todo \/ todo' = Tail(todo)
      BY <2>11 DEF EnlargeStep
    <3>2. QED
      BY <1>1, <1>2, <1>5, <2>2, <3>1 DEF AllNamed
  <2>12. CASE \/ WriteZeroPage \/ WriteMetaFails \/ ErasePage \/ Drop \/ Deleted
              \/ OpenMissing \/ OpenFound \/ Clean \/ MountDone
    <3>1. todo' = todo \/ Then(<<>>)
      BY <2>12 DEF WriteZeroPage, WriteMetaFails, ErasePage, Drop, Deleted, OpenMissing,
         OpenFound, Clean, MountDone
    <3>2. QED
      BY <1>5, <1>6, <2>2, <3>1
  <2>13. CASE WriteWork
    <3>1. todo' = <<>> \/ \E h, k : todo' = <<OnSize("write", h, k)>>
      BY <2>13, WriteSteps
    <3>2. CASE todo' = <<>>
      BY <3>2 DEF AllNamed
    <3>3. QED
      BY <1>3, <1>4, <3>1, <3>2
  <2>14. QED
    BY <1>8, <2>4, <2>5, <2>6, <2>7, <2>8, <2>9, <2>10, <2>11, <2>12, <2>13
       DEF Work, WriteWork
<1>9. CASE PowerLoss
  <2>1. todo' = <<>> /\ Len(<<>>) = 0
    BY <1>9 DEF PowerLoss
  <2>2. QED
    BY <2>1 DEF AllNamed
<1>10. CASE MountScan
  BY <1>3, <1>4, <1>10 DEF MountScan
<1>11. QED
  BY <1>5, <1>7, <1>8, <1>9, <1>10 DEF Next, vars

(***************************************************************************)
(* A file that is not marked as modified.                                  *)
(***************************************************************************)
\* d is a draft with changes, or what st stores under its number.
Matches(d, st) ==
  d.open /\ ~d.dirty =>
    d.ino \in 1 .. MaxIno /\ st[d.ino] = [name |-> d.name, content |-> d.content]

UnmodifiedInv == \A a \in Actors : Matches(Drafts[a], Store)

LEMMA MatchesKept ==
  ASSUME UnmodifiedInv, NEW h \in Actors, NEW x, OneDraft(h, x), Matches(x, Store)
  PROVE  UnmodifiedInv'
<1>1. Store' = Store /\ Drafts' = [Drafts EXCEPT ![h] = x]
  BY DEF OneDraft
<1>2. Drafts'[h] = x /\ \A a \in Actors \ {h} : Drafts'[a] = Drafts[a]
  BY <1>1 DEF Drafts
<1>3. \A a \in Actors : Matches(Drafts'[a], Store)
  BY <1>2 DEF UnmodifiedInv
<1>4. QED
  BY <1>1, <1>3 DEF UnmodifiedInv, Matches

\* What an edit leaves is marked, or it has just been loaded.
LEMMA EditMarks ==
  ASSUME NEW h \in Actors
  PROVE  /\ \A n \in Names : Abstract!Create(h, n) \/ Abstract!Retitle(h, n) =>
              \E x : OneDraft(h, x) /\ (x.dirty = TRUE \/ x.open = FALSE)
         /\ \A vs : Abstract!Overwrite(h, vs) =>
              \E x : OneDraft(h, x) /\ (x.dirty = TRUE \/ x.open = FALSE)
         /\ \A n \in 0 .. MaxLen : Abstract!Resize(h, n) =>
              \E x : OneDraft(h, x) /\ (x.dirty = TRUE \/ x.open = FALSE)
         /\ Abstract!Discard(h) \/ Abstract!Close(h) =>
              \E x : OneDraft(h, x) /\ (x.dirty = TRUE \/ x.open = FALSE)
<1> DEFINE d == Drafts[h]
           Marks == \E x : OneDraft(h, x) /\ (x.dirty = TRUE \/ x.open = FALSE)
<1>1. d = Draft(d.open, d.ino, d.name, d.content, d.dirty)
  BY DEF Drafts, DraftOf, Draft
<1>2. \A x : Abstract!Becomes(h, x) <=> OneDraft(h, x)
  BY DEF Abstract!Becomes, OneDraft, Drafts, Store
<1>3. ASSUME NEW n \in Names, Abstract!Create(h, n) PROVE Marks
  <2> DEFINE x == [Abstract!Closed EXCEPT !.open = TRUE, !.name = n, !.dirty = TRUE]
  <2>1. x.dirty = TRUE
    BY DEF Abstract!Closed
  <2>2. OneDraft(h, x)
    BY <1>2, <1>3 DEF Abstract!Create
  <2>3. QED
    BY <2>1, <2>2
<1>4. Abstract!Close(h) => Marks
  <2>1. Abstract!Closed.open = FALSE
    BY DEF Abstract!Closed
  <2>2. QED
    BY <1>2, <2>1 DEF Abstract!Close
<1>5. ASSUME NEW y, NEW z
      PROVE  /\ [d EXCEPT !.content = y, !.dirty = TRUE].dirty = TRUE
             /\ [d EXCEPT !.name = z, !.dirty = TRUE].dirty = TRUE
             /\ [d EXCEPT !.name = z, !.content = y, !.dirty = TRUE].dirty = TRUE
  <2> DEFINE o == d.open
             i == d.ino
             n == d.name
             c == d.content
             b == d.dirty
  <2>1. d = Draft(o, i, n, c, b)
    BY <1>1
  <2> HIDE DEF d, o, i, n, c, b
  <2>2. /\ [d EXCEPT !.content = y, !.dirty = TRUE] = Draft(o, i, n, y, TRUE)
        /\ [d EXCEPT !.name = z, !.dirty = TRUE] = Draft(o, i, z, c, TRUE)
        /\ [d EXCEPT !.name = z, !.content = y, !.dirty = TRUE] = Draft(o, i, z, y, TRUE)
    <3>1. IsDraft(d)
      BY <2>1 DEF IsDraft, Draft
    <3>2. d.open = o /\ d.ino = i /\ d.name = n /\ d.content = c
      BY <2>1 DEF Draft
    <3>3. /\ Filled(d, y, TRUE) = Draft(d.open, d.ino, d.name, y, TRUE)
          /\ Titled(d, z, TRUE) = Draft(d.open, d.ino, z, d.content, TRUE)
      BY <3>1, DraftEdit
    <3>4. Swapped(d, z, y, TRUE) = Draft(d.open, d.ino, z, y, TRUE)
      BY <3>1, DraftSwap
    <3>5. QED
      BY <3>2, <3>3, <3>4 DEF Filled, Titled, Swapped
  <2>3. QED
    BY <2>2 DEF Draft
<1>6. ASSUME NEW n \in Names, Abstract!Retitle(h, n) PROVE Marks
  BY <1>2, <1>5, <1>6 DEF Abstract!Retitle, Drafts
<1>7. ASSUME NEW vs, Abstract!Overwrite(h, vs) PROVE Marks
  BY <1>2, <1>5, <1>7 DEF Abstract!Overwrite, Drafts
<1>8. ASSUME NEW n \in 0 .. MaxLen, Abstract!Resize(h, n) PROVE Marks
  BY <1>2, <1>5, <1>8 DEF Abstract!Resize, Drafts
<1>9. Abstract!Discard(h) => Marks
  BY <1>2, <1>5 DEF Abstract!Discard, Drafts
<1>10. QED
  BY <1>3, <1>4, <1>6, <1>7, <1>8, <1>9

LEMMA EditKeeps ==
  ASSUME UnmodifiedInv, Edit
  PROVE  UnmodifiedInv'
<1>1. ASSUME NEW h \in Actors, \E x : OneDraft(h, x) /\ (x.dirty = TRUE \/ x.open = FALSE)
      PROVE  UnmodifiedInv'
  <2>1. PICK x : OneDraft(h, x) /\ (x.dirty = TRUE \/ x.open = FALSE)
    BY <1>1
  <2>2. Matches(x, Store)
    BY <2>1 DEF Matches
  <2>3. QED
    BY <2>1, <2>2, MatchesKept
<1>2. ASSUME NEW h \in Actors, NEW i \in 1 .. MaxIno, Abstract!Load(h, i)
      PROVE  UnmodifiedInv'
  <2>1. PICK dirty \in BOOLEAN :
          OneDraft(h, [open |-> TRUE, ino |-> i, name |-> Store[i].name,
                       content |-> Store[i].content, dirty |-> dirty])
    BY <1>2 DEF Abstract!Load, Abstract!Becomes, OneDraft, Drafts, Store
  <2> DEFINE x == [open |-> TRUE, ino |-> i, name |-> Store[i].name,
                   content |-> Store[i].content, dirty |-> dirty]
  <2>2. Matches(x, Store)
    <3>1. Store[i] = [name |-> Store[i].name, content |-> Store[i].content]
      <4>1. CurrentFile(i) = [name |-> CurrentFile(i).name, content |-> CurrentFile(i).content]
        BY CurrentIs DEF FileOf
      <4>2. QED
        BY <4>1 DEF Store
    <3>2. QED
      BY <3>1 DEF Matches
  <2>3. QED
    BY <2>1, <2>2, MatchesKept
<1>3. ASSUME NEW h \in Actors, NEW i \in 1 .. MaxIno, Abstract!Number(h, i)
      PROVE  UnmodifiedInv'
  <2> DEFINE d == Drafts[h]
             x == [d EXCEPT !.ino = i]
  <2>1. d.dirty /\ OneDraft(h, x)
    BY <1>3 DEF Abstract!Number, Abstract!Becomes, OneDraft, Drafts, Store
  <2>2. x.dirty = d.dirty
    BY DEF Drafts, DraftOf
  <2>3. Matches(x, Store)
    BY <2>1, <2>2 DEF Matches
  <2>4. QED
    BY <2>1, <2>3, MatchesKept
<1>4. ASSUME NEW h \in Actors, NEW g \in Actors, Abstract!HandOver(g, h)
      PROVE  UnmodifiedInv'
  <2>1. /\ Drafts' = [Drafts EXCEPT ![h] = Drafts[g], ![g] = Abstract!Closed]
        /\ Store' = Store
    BY <1>4 DEF Abstract!HandOver, Drafts, Store
  <2>2. \A a \in Actors :
          Drafts'[a] = Drafts[a] \/ Drafts'[a] = Drafts[g] \/ Drafts'[a] = Abstract!Closed
    BY <2>1 DEF Drafts
  <2>3. Matches(Abstract!Closed, Store)
    BY DEF Matches, Abstract!Closed
  <2>4. \A a \in Actors : Matches(Drafts'[a], Store)
    BY <2>2, <2>3 DEF UnmodifiedInv
  <2>5. QED
    BY <2>1, <2>4 DEF UnmodifiedInv, Matches
<1>5. ASSUME Abstract!PowerLoss PROVE UnmodifiedInv'
  <2>1. Store' = Store /\ \A a \in Actors : Drafts'[a] = Abstract!Closed
    BY <1>5 DEF Abstract!PowerLoss, Drafts, Store
  <2>2. \A a \in Actors : ~Drafts'[a].open
    BY <2>1 DEF Abstract!Closed
  <2>3. QED
    BY <2>2 DEF UnmodifiedInv, Matches
<1>6. QED
  BY <1>1, <1>2, <1>3, <1>4, <1>5, EditMarks DEF Edit

\* A commit makes the two the same, and touches the file of no other handle.
LEMMA CommitKeeps ==
  ASSUME UnmodifiedInv, NEW a \in Actors, Abstract!Commit(a), Drafts[a].ino \in 1 .. MaxIno,
         \A b \in Actors \ {a} : Drafts[b].open => Drafts[b].ino # Drafts[a].ino
  PROVE  UnmodifiedInv'
<1> DEFINE d == Drafts[a]
<1>1. /\ Store' = [Store EXCEPT ![d.ino] = [name |-> d.name, content |-> d.content]]
      /\ Drafts' = [Drafts EXCEPT ![a].dirty = FALSE]
  BY DEF Abstract!Commit, Drafts, Store
<1>2. /\ Store'[d.ino] = [name |-> d.name, content |-> d.content]
      /\ \A i \in 1 .. MaxIno : i # d.ino => Store'[i] = Store[i]
  BY <1>1 DEF Store
<1>3. /\ Drafts'[a].ino = d.ino /\ Drafts'[a].name = d.name /\ Drafts'[a].content = d.content
      /\ \A b \in Actors \ {a} : Drafts'[b] = Drafts[b]
  <2>1. Drafts'[a] = [d EXCEPT !.dirty = FALSE] /\ \A b \in Actors \ {a} : Drafts'[b] = Drafts[b]
    BY <1>1 DEF Drafts
  <2>2. QED
    BY <2>1 DEF Drafts, DraftOf
<1>4. Matches(Drafts'[a], Store')
  BY <1>2, <1>3 DEF Matches
<1>5. ASSUME NEW b \in Actors \ {a} PROVE Matches(Drafts'[b], Store')
  <2>1. Drafts'[b] = Drafts[b] /\ Matches(Drafts[b], Store)
    BY <1>3 DEF UnmodifiedInv
  <2>2. QED
    BY <1>2, <2>1 DEF Matches
<1>6. QED
  BY <1>4, <1>5 DEF UnmodifiedInv, Matches

\* Where nobody opens a file with trunc, no call is about to do it.
NoTrunc == \A k \in 1 .. Len(todo) : todo[k].t # "openTrunc"

LEMMA TruncKept ==
  ASSUME TypeOK, TypeOK', NoTrunc, "openTrunc" \notin Calls, [Next]_vars
  PROVE  NoTrunc'
<1>1. SUFFICES ASSUME NEW k \in 1 .. Len(todo'), todo'[k].t = "openTrunc" PROVE FALSE
  BY DEF NoTrunc
<1> DEFINE x == todo'[k]
<1>2. Named(x) /\ x.t = "openTrunc" /\ x.t \in NameKinds
  BY <1>1, NamedTasks DEF AllNamed, NameKinds, OpenModes
<1>3. ~\E j \in 1 .. Len(todo) : todo[j] = x
  BY <1>1 DEF NoTrunc
<1> HIDE DEF x
<1>4. ASSUME NEW h, NEW n, NEW mode, Open(h, n, mode), x = OnName(mode, h, n)
      PROVE  FALSE
  BY <1>2, <1>4, TaskParts DEF Open
<1>5. \A h, n : x # OnName("removeOther", h, n) /\ x # OnName("renameSelf", h, n)
  BY <1>2, TaskParts
<1>6. QED
  BY <1>2, <1>3, <1>4, <1>5 DEF Named

\* flush() writes nothing for a handle that is not marked as modified
\* (m_modified): then it has to show what is on flash, or the user's data were
\* lost.  What makes it false is left out: open() with trunc, and a write() of
\* several pages that is refused after the first of them (not in plain use).
THEOREM UnmodifiedFilesAreCommitted ==
  ASSUME PlainUse, "openTrunc" \notin Calls
  PROVE  Spec => []UnmodifiedIsCommitted
<1> DEFINE I == RefinementInv /\ NoTrunc /\ UnmodifiedInv
<1>1. Init => I
  <2>1. SUFFICES ASSUME Init PROVE NoTrunc /\ UnmodifiedInv
    BY RefinementInit
  <2>2. todo = <<>> /\ Len(<<>>) = 0 /\ \A a \in Actors : ~hs[a].open
    BY <2>1, NoHandleParts DEF Init
  <2>3. NoTrunc
    BY <2>2 DEF NoTrunc
  <2>4. UnmodifiedInv
    <3>1. \A a \in Actors : ~Drafts[a].open
      BY <2>2 DEF Drafts, DraftOf
    <3>2. QED
      BY <3>1 DEF UnmodifiedInv, Matches
  <2>5. QED
    BY <2>3, <2>4
<1>2. I /\ [Next]_vars => I'
  <2>1. SUFFICES ASSUME RefinementInv, NoTrunc, UnmodifiedInv, [Next]_vars
                 PROVE  RefinementInv' /\ NoTrunc' /\ UnmodifiedInv'
    OBVIOUS
  <2>2. RefinementInv'
    BY <2>1, RefinementNext
  <2>3. TypeOK /\ TypeOK'
    BY <2>1, <2>2 DEF RefinementInv, BaseInv, NumbersInv
  <2>4. NoTrunc'
    BY <2>1, <2>3, TruncKept
  <2>5. ~OpenTrunc
    <3>1. todo # <<>> => Head(todo) = todo[1] /\ 1 \in 1 .. Len(todo)
      BY <2>3 DEF TypeOK
    <3>2. QED
      BY <2>1, <3>1 DEF NoTrunc, OpenTrunc, Doing
  <2>6. UnmodifiedInv'
    <3>1. CASE Stays
      BY <2>1, <3>1 DEF Stays, UnmodifiedInv, Matches
    <3>2. CASE Edit
      BY <2>1, <3>2, EditKeeps
    <3>3. CASE /\ Abstract!Commit(Actor)
               /\ Actor \in Actors /\ Drafts[Actor].ino \in 1 .. MaxIno
               /\ \A b \in Actors \ {Actor} :
                    Drafts[b].open => Drafts[b].ino # Drafts[Actor].ino
      BY <2>1, <3>3, CommitKeeps
    <3>4. QED
      BY <2>1, <2>2, <2>5, <3>1, <3>2, <3>3, StepKinds
  <2>7. QED
    BY <2>2, <2>4, <2>6
<1>3. I => UnmodifiedIsCommitted
  <2>1. SUFFICES ASSUME UnmodifiedInv, NEW h \in Handles, hs[h].open, ~hs[h].mod
                 PROVE  CurrentFile(hs[h].ino) = [name |-> hs[h].name, content |-> ReadBack(hs[h])]
    BY DEF UnmodifiedIsCommitted
  <2>2. /\ h \in Actors /\ Drafts[h].open /\ ~Drafts[h].dirty /\ Drafts[h].ino = hs[h].ino
        /\ Drafts[h].name = hs[h].name /\ Drafts[h].content = ReadBack(hs[h])
    BY <2>1 DEF Drafts, DraftOf, Actors
  <2>3. hs[h].ino \in 1 .. MaxIno /\ Store[hs[h].ino] = [name |-> hs[h].name, content |-> ReadBack(hs[h])]
    BY <2>1, <2>2 DEF UnmodifiedInv, Matches
  <2>4. QED
    BY <2>3 DEF Store
<1>4. QED
  BY <1>1, <1>2, <1>3, PTL DEF Spec

(***************************************************************************)
(* Names.                                                                  *)
(***************************************************************************)
\* The name of a file on flash is the name in its latest inode page.
LEMMA StoredNames ==
  ASSUME TypeOK, Numbered, NumbersSuffice
  PROVE  /\ \A p \in LatestPages : /\ inodeArea[p].ino \in 1 .. MaxIno
                                   /\ StoredName(inodeArea[p].ino) = inodeArea[p].name
         /\ \A i : StoredName(i) # NoName =>
              \E p \in LatestPages : inodeArea[p].ino = i /\ inodeArea[p].name = StoredName(i)
<1>1. ASSUME NEW p \in LatestPages
      PROVE  /\ inodeArea[p].ino \in 1 .. MaxIno
             /\ StoredName(inodeArea[p].ino) = inodeArea[p].name
  <2> DEFINE i == inodeArea[p].ino
  <2>1. p \in InodePages /\ Latest(p) /\ p \in ValidPages /\ inodeArea[p] \in Inode
    BY LoadedType DEF LatestPages, Latest, ValidPages, TypeOK
  <2>2. i \in Nat /\ i # 0 /\ i <= MaxIno
    BY <2>1 DEF Numbered, NumbersSuffice, Inode
  <2>3. At(i) = {p}
    BY <2>1, OneLatest DEF At
  <2>4. (CHOOSE q \in {p} : TRUE) = p
    OBVIOUS
  <2>5. CurrentFile(i) = FileOf(inodeArea[p], dataArea)
    BY <2>3, <2>4, CurrentIs
  <2>6. QED
    BY <2>2, <2>5, BoundAssumption DEF StoredName, FileOf
<1>2. ASSUME NEW i, StoredName(i) # NoName
      PROVE  \E p \in LatestPages : inodeArea[p].ino = i /\ inodeArea[p].name = StoredName(i)
  <2> DEFINE p == CHOOSE p \in At(i) : TRUE
  <2>1. At(i) # {}
    BY <1>2, CurrentIs DEF StoredName
  <2>2. p \in At(i)
    BY <2>1
  <2>3. CurrentFile(i) = FileOf(inodeArea[p], dataArea)
    BY <2>1, CurrentIs
  <2> HIDE DEF p
  <2>4. QED
    BY <2>2, <2>3 DEF StoredName, FileOf, At, LatestPages
<1>3. QED
  BY <1>1, <1>2

\* write_meta_page() gives the file on flash the name of the handle.
LEMMA MetaNames ==
  ASSUME RefinementInv, RefinementInv', WriteMeta
  PROVE  /\ Actor \in Actors /\ hs[Actor].ino \in 1 .. MaxIno
         /\ \A i \in 1 .. MaxIno :
              StoredName(i)' = IF i = hs[Actor].ino THEN hs[Actor].name ELSE StoredName(i)
<1> DEFINE a == Actor
           d == Drafts[a]
<1>1. Abstract!Commit(a) /\ a \in Actors /\ d.ino \in 1 .. MaxIno
  BY CommitRefines DEF RefinementInv, BaseInv, NumbersInv
<1>2. d.ino = hs[a].ino /\ d.name = hs[a].name
  BY <1>1 DEF Drafts, DraftOf
<1>3. Store' = [Store EXCEPT ![d.ino] = [name |-> d.name, content |-> d.content]]
  BY <1>1 DEF Abstract!Commit, Drafts, Store
<1> HIDE DEF d
<1>4. \A i \in 1 .. MaxIno :
        Store'[i] = IF i = d.ino THEN [name |-> d.name, content |-> d.content] ELSE Store[i]
  BY <1>3 DEF Store
<1>5. \A i \in 1 .. MaxIno : Store[i].name = StoredName(i) /\ Store'[i].name = StoredName(i)'
  BY DEF Store, StoredName
<1>6. QED
  BY <1>1, <1>2, <1>4, <1>5 DEF d

\* Only the commit of a file changes its name on flash.
LEMMA StoredNameSteps ==
  ASSUME PlainUse, RefinementInv, RefinementInv', [Next]_vars
  PROVE  \/ \A i \in 1 .. MaxIno : StoredName(i)' = StoredName(i)
         \/ /\ WriteMeta /\ Actor \in Actors /\ hs[Actor].ino \in 1 .. MaxIno
            /\ \A i \in 1 .. MaxIno :
                 StoredName(i)' = IF i = hs[Actor].ino THEN hs[Actor].name ELSE StoredName(i)
<1>1. TypeOK /\ StoredLists
  BY DEF RefinementInv, BaseInv, NumbersInv, PagesInv
<1>2. \A i \in 1 .. MaxIno : Store[i].name = StoredName(i) /\ Store'[i].name = StoredName(i)'
  BY DEF Store, StoredName
<1>3. CASE Store' = Store
  BY <1>2, <1>3
<1>4. CASE Stays \/ Edit
  <2>1. Store' = Store
    BY <1>4 DEF Stays, Edit, Store, Abstract!Create, Abstract!Retitle, Abstract!Load,
       Abstract!Number, Abstract!HandOver, Abstract!Overwrite, Abstract!Resize,
       Abstract!Discard, Abstract!Close, Abstract!PowerLoss, Abstract!Becomes
  <2>2. QED
    BY <1>3, <2>1
<1>5. CASE OpenTrunc
  <2>1. inodeArea' = inodeArea /\ dataArea' = dataArea
    BY <1>5 DEF OpenTrunc, flash
  <2>2. LatestPages' = LatestPages
    BY <2>1, SameNames DEF LatestPages
  <2>3. Store' = Store
    BY <1>1, <2>1, <2>2, StoreKept
  <2>4. QED
    BY <1>3, <2>3
<1>6. CASE WriteMeta
  BY <1>6, MetaNames
<1>7. QED
  BY <1>4, <1>5, <1>6, StepKinds

\* A handle keeps its name or loses it; a first flush may give it a number.
\* The temporary handle is marked as modified only when it loses its name.
SameLabel(a, f, g) == /\ f.open => g.open
                      /\ f.open => f.name \in {g.name, NoName}
                      /\ f.ino = g.ino \/ g.ino = 0 \/ ~f.open
                      /\ a = Tmp /\ f.open /\ f.mod => g.mod \/ f.name = NoName

LEMMA OneLabel ==
  ASSUME TypeOK, NEW b \in Actors, NEW f, hs' = [hs EXCEPT ![b] = f], SameLabel(b, f, hs[b])
  PROVE  \A a \in Actors : SameLabel(a, hs'[a], hs[a])
BY DEF TypeOK, SameLabel

\* The steps that give a handle a file, or a file a name.
LEMMA LabelSteps ==
  ASSUME PlainUse, TypeOK, Control, PagesInv, [Next]_vars
  PROVE  \/ \A a \in Actors : SameLabel(a, hs'[a], hs[a])
         \/ Visit \/ OpenMissing \/ OpenFound \/ OpenTrunc \/ RenameSelf
<1>1. CASE hs' = hs
  BY <1>1 DEF SameLabel
<1>2. CASE Call
  <2>1. ~hs[Tmp].open
    BY <1>2, CallIdle, IdleStack DEF PagesInv, HandleLists, Actors
  <2>2. QED
    BY <1>2, <2>1, CallPlaces DEF SamePlace, SameLabel
<1>3. CASE FlushNumber \/ FlushVersion \/ WriteZeroPage \/ WriteMeta \/ Drop \/ Deleted
  <2>1. Actor \in Actors /\ todo # <<>>
    BY <1>3, HeadType DEF FlushNumber, FlushVersion, WriteZeroPage, WriteMeta, Drop,
       Deleted, Doing, TypeOK
  <2> DEFINE a == Actor
             f == hs[a]
  <2>2. a \in Actors /\ f \in Handle
    BY <2>1 DEF TypeOK
  <2>3. CASE FlushNumber
    <3> DEFINE g == [f EXCEPT !.ino = maxIno + 1]
    <3>1. hs' = hs \/ (hs' = [hs EXCEPT ![a] = g] /\ f.ino = 0)
      BY <2>3 DEF FlushNumber
    <3>2. f.ino = 0 => SameLabel(a, g, f)
      BY <2>2 DEF SameLabel, Handle
    <3> HIDE DEF g
    <3>3. QED
      BY <1>1, <2>2, <3>1, <3>2, OneLabel
  <2>4. CASE FlushVersion
    <3> DEFINE g(page) == [f EXCEPT !.page = page, !.ver = NextVersion(f.ver), !.del = {}]
    <3>1. hs' = hs \/ \E page : hs' = [hs EXCEPT ![a].page = page,
                          ![a].ver = NextVersion(@), ![a].del = {}]
      BY <2>4 DEF FlushVersion
    <3>2. \A page : [hs EXCEPT ![a].page = page, ![a].ver = NextVersion(@), ![a].del = {}]
                      = [hs EXCEPT ![a] = g(page)]
      BY <2>2, Zenon DEF TypeOK
    <3>3. \A page : SameLabel(a, g(page), f)
      BY <2>2 DEF SameLabel, Handle
    <3> HIDE DEF g
    <3>4. QED
      BY <1>1, <2>2, <3>1, <3>2, <3>3, OneLabel
  <2>5. CASE WriteZeroPage
    <3> DEFINE g(k) == [f EXCEPT !.dp[k].new = FALSE]
    <3>1. hs' = hs \/ \E k : hs' = [hs EXCEPT ![a] = g(k)]
      BY <2>5 DEF WriteZeroPage
    <3>2. \A k : SameLabel(a, g(k), f)
      BY <2>2 DEF SameLabel, Handle
    <3> HIDE DEF g
    <3>3. QED
      BY <1>1, <2>2, <3>1, <3>2, OneLabel
  <2>6. CASE WriteMeta
    <3> DEFINE g == [f EXCEPT !.mod = FALSE]
    <3>1. hs' = [hs EXCEPT ![a] = g]
      BY <2>6 DEF WriteMeta
    <3>2. SameLabel(a, g, f)
      BY <2>2 DEF SameLabel, Handle
    <3> HIDE DEF g
    <3>3. QED
      BY <2>2, <3>1, <3>2, OneLabel
  <2>7. CASE Drop \/ Deleted
    <3>1. hs' = hs \/ hs' = [hs EXCEPT ![a] = NoHandle]
      BY <2>7 DEF Drop, Deleted
    <3>2. SameLabel(a, NoHandle, f)
      BY DEF SameLabel, NoHandle
    <3>3. QED
      BY <1>1, <2>2, <3>1, <3>2, OneLabel
  <2>8. QED
    BY <1>3, <2>3, <2>4, <2>5, <2>6, <2>7
<1>4. CASE RemoveOther
  <2>1. Tmp \in Actors /\ hs[Tmp] \in Handle
    BY DEF Actors, TypeOK
  <2>2. SameLabel(Tmp, Emptied(hs[Tmp]), hs[Tmp])
    BY <2>1 DEF SameLabel, Emptied, Handle
  <2>3. hs' = hs \/ hs' = [hs EXCEPT ![Tmp] = Emptied(hs[Tmp])]
    BY <1>4 DEF RemoveOther
  <2>4. QED
    BY <1>1, <2>1, <2>2, <2>3, OneLabel
<1>5. CASE ErasePage \/ FindScan \/ EraseOutdated \/ MountDone \/ Correct
  <2>1. Correct => hs' = hs
    BY PlainCorrect DEF PagesInv
  <2>2. QED
    BY <1>1, <1>5, <2>1 DEF ErasePage, FindScan, EraseOutdated, MountDone
<1>6. CASE Work
  <2>1. ~WriteWork /\ ~EnlargeStep /\ ~Clean
    <3>1. todo # <<>> /\ todo \in Seq(Task)
      BY <1>6, WorkByTask DEF TypeOK
    <3>2. Head(todo).t \notin Corrections
      BY <3>1, PlainTail DEF PagesInv
    <3>3. QED
      BY <3>2 DEF WriteWork, WriteOn, WriteRefused, EnlargeStep, Clean, Doing, Corrections
  <2>2. ~WriteMetaFails
    BY DEF WriteMetaFails, PlainUse, Refusals
  <2>3. QED
    BY <1>3, <1>4, <1>5, <1>6, <2>1, <2>2 DEF Work, WriteWork
<1>7. CASE PowerLoss
  BY <1>7 DEF PowerLoss, SameLabel, NoHandle
<1>8. CASE MountScan \/ UNCHANGED vars
  BY <1>1, <1>8 DEF MountScan, vars
<1>9. QED
  BY <1>2, <1>6, <1>7, <1>8 DEF Next

\* The steps after which a handle of the user has a name it did not have.
Naming(h) ==
  /\ todo # <<>> /\ todo = <<Head(todo)>> /\ Actor = h
  /\ Head(todo).t \in OpenModes \cup {"renameSelf"}
  /\ inodeArea' = inodeArea
  /\ hs'[h].name = Head(todo).n
  /\ \/ ~hs[Tmp].open /\ hs'[h].ino = 0 /\ Head(todo).t \in OpenModes
     \/ hs[Tmp].open /\ hs'[h].ino = hs[Tmp].ino /\ Head(todo).t \in OpenModes
     \/ Head(todo).t = "renameSelf" /\ hs'[h].ino = hs[h].ino

LEMMA NamingSteps ==
  ASSUME PlainUse, TypeOK, Control, PagesInv, NamesFound, [Next]_vars
  PROVE  \A h \in Handles : SameLabel(h, hs'[h], hs[h]) \/ Naming(h)
<1>1. \A h \in Handles : h \in Actors /\ h # Tmp /\ hs[h] \in Handle
  BY HandleAssumption DEF Actors, TypeOK
<1>2. \A h : SameLabel(h, hs[h], hs[h])
  BY DEF SameLabel
<1>3. Tmp \in Actors /\ hs \in [Actors -> Handle]
  BY DEF Actors, TypeOK
<1>4. CASE Visit
  <2>1. hs' = hs \/ \E f : hs' = [hs EXCEPT ![Tmp] = f]
    BY <1>4, PlainVisit DEF PagesInv
  <2>2. \A h \in Handles : hs'[h] = hs[h]
    BY <1>1, <1>3, <2>1
  <2>3. QED
    BY <1>2, <2>2
<1>5. CASE OpenMissing \/ OpenFound \/ OpenTrunc
  <2> DEFINE a == Actor
             n == Head(todo).n
  <2>1. todo # <<>> /\ Head(todo).t \in OpenModes
    BY <1>5 DEF OpenMissing, OpenFound, OpenTrunc, Doing, OpenModes
  <2>2. /\ a \in Handles /\ a \in Actors /\ a # Tmp /\ Head(todo).h = a
        /\ todo = <<Head(todo)>>
    <3>1. PICK h \in Handles, m \in Names : todo = <<OnName(Head(todo).t, h, m)>>
      BY <2>1, TaskPlaces
    <3>2. todo = <<Head(todo)>> /\ Head(todo).h = h
      BY <3>1, Tuple1, TaskParts
    <3>3. QED
      BY <1>1, <3>2 DEF Actor
  <2>3. inodeArea' = inodeArea /\ (hs[Tmp].open => hs[Tmp].name = n)
    BY <1>5, <2>1 DEF OpenMissing, OpenFound, OpenTrunc, flash, NamesFound
  <2>4. ASSUME NEW f, NEW page, NewHandle(a, f, page)
        PROVE  /\ hs'[a] = [f EXCEPT !.open = TRUE, !.page = page]
               /\ \A h \in Handles \ {a} : hs'[h] = hs[h]
    BY <1>1, <1>3, <2>2, <2>4, Zenon DEF NewHandle
  <2> HIDE DEF a, n
  <2>5. CASE hs' = hs
    BY <1>2, <2>5
  <2>6. CASE OpenFound
    <3>1. hs[Tmp].open /\ hs' = [hs EXCEPT ![a] = hs[Tmp], ![Tmp] = NoHandle]
      BY <2>6 DEF OpenFound, a
    <3>2. hs'[a] = hs[Tmp] /\ \A h \in Handles \ {a} : hs'[h] = hs[h]
      BY <1>1, <1>3, <2>2, <3>1
    <3>3. Naming(a)
      BY <2>1, <2>2, <2>3, <3>1, <3>2 DEF Naming, a, n
    <3>4. QED
      BY <1>2, <3>2, <3>3
  <2>7. CASE OpenMissing /\ hs' # hs
    <3> DEFINE f == [NoHandle EXCEPT !.name = n, !.mod = TRUE]
    <3>1. ~hs[Tmp].open /\ \E page : NewHandle(a, f, page)
      BY <2>2, <2>7 DEF OpenMissing, a, n
    <3>2. PICK page : /\ hs'[a] = [f EXCEPT !.open = TRUE, !.page = page]
                      /\ \A h \in Handles \ {a} : hs'[h] = hs[h]
      BY <2>4, <3>1
    <3>3. hs'[a].ino = 0 /\ hs'[a].name = n
      BY <3>2 DEF NoHandle
    <3>4. Naming(a)
      BY <2>1, <2>2, <2>3, <3>1, <3>3 DEF Naming, a, n
    <3>5. QED
      BY <1>2, <3>2, <3>4
  <2>8. CASE OpenTrunc /\ hs' # hs
    <3> DEFINE f == [NoHandle EXCEPT !.ino = hs[Tmp].ino, !.ver = hs[Tmp].ver,
                                     !.name = hs[Tmp].name]
    <3>1. hs[Tmp].open /\ \E page : NewHandle(a, f, page)
      BY <2>8 DEF OpenTrunc, a
    <3>2. PICK page : /\ hs'[a] = [f EXCEPT !.open = TRUE, !.page = page]
                      /\ \A h \in Handles \ {a} : hs'[h] = hs[h]
      BY <2>4, <3>1
    <3>3. hs'[a].ino = hs[Tmp].ino /\ hs'[a].name = hs[Tmp].name
      BY <3>2 DEF NoHandle
    <3>4. Naming(a)
      BY <2>1, <2>2, <2>3, <3>1, <3>3 DEF Naming, a, n
    <3>5. QED
      BY <1>2, <3>2, <3>4
  <2>9. QED
    BY <1>5, <2>5, <2>6, <2>7, <2>8
<1>6. CASE RenameSelf
  <2> DEFINE a == Actor
             n == Head(todo).n
  <2>1. todo # <<>> /\ Head(todo).t = "renameSelf"
    BY <1>6 DEF RenameSelf, Doing
  <2>2. a \in Handles /\ todo = <<Head(todo)>>
    <3>1. PICK h \in Handles, m \in Names : todo = <<OnName("renameSelf", h, m)>>
      BY <2>1, TaskPlaces
    <3>2. todo = <<Head(todo)>> /\ Head(todo).h = h
      BY <3>1, Tuple1, TaskParts
    <3>3. QED
      BY <3>2 DEF Actor
  <2>3. hs' = [hs EXCEPT ![a].name = n, ![a].mod = TRUE] /\ inodeArea' = inodeArea
    BY <1>6 DEF RenameSelf, flash, Actor
  <2>4. /\ hs'[a].name = n /\ hs'[a].ino = hs[a].ino
        /\ \A h \in Handles \ {a} : hs'[h] = hs[h]
    <3> HIDE DEF a, n
    <3>1. hs'[a] = [hs[a] EXCEPT !.name = n, !.mod = TRUE]
      BY <1>1, <1>3, <2>2, <2>3, Zenon
    <3>2. \A h \in Handles \ {a} : hs'[h] = hs[h]
      BY <1>1, <1>3, <2>2, <2>3
    <3>3. QED
      BY <1>1, <2>2, <3>1, <3>2 DEF Handle
  <2>5. Naming(a)
    BY <2>1, <2>2, <2>3, <2>4 DEF Naming
  <2>6. QED
    BY <1>2, <2>4, <2>5
<1>7. QED
  BY <1>1, <1>4, <1>5, <1>6, LabelSteps

\* While rename_file() waits, the file whose name it takes is being deleted.
LEMMA RenamePending ==
  ASSUME TypeOK, Control, NEW j \in 1 .. Len(todo), todo[j].t = "renameSelf"
  PROVE  /\ up = "up" /\ todo # <<>>
         /\ \/ Head(todo).t = "renameSelf"
            \/ Head(todo).t \in FlushKinds \cup {"deleted"} /\ Head(todo).h = Tmp
<1> DEFINE Waits(s) == \E k \in 1 .. Len(s) : s[k].t = "renameSelf"
<1>1. Waits(todo) /\ ~Waits(<<>>)
  OBVIOUS
<1>2. /\ \A x : Waits(<<x>>) => x.t = "renameSelf"
      /\ \A x, y : Waits(<<x, y>>) => "renameSelf" \in {x.t, y.t}
      /\ \A x, y, z : Waits(<<x, y, z>>) => "renameSelf" \in {x.t, y.t, z.t}
  <2>1. ASSUME NEW x, NEW y, NEW z, Waits(<<x, y, z>>)
        PROVE  "renameSelf" \in {x.t, y.t, z.t}
    <3>1. PICK k \in 1 .. 3 : <<x, y, z>>[k].t = "renameSelf"
      BY <2>1
    <3>2. k = 1 \/ k = 2 \/ k = 3
      BY <3>1
    <3>3. QED
      BY <3>1, <3>2
  <2>2. ASSUME NEW x, NEW y, Waits(<<x, y>>)
        PROVE  "renameSelf" \in {x.t, y.t}
    <3>1. PICK k \in 1 .. 2 : <<x, y>>[k].t = "renameSelf"
      BY <2>2
    <3>2. k = 1 \/ k = 2
      BY <3>1
    <3>3. QED
      BY <3>1, <3>2
  <2>3. ASSUME NEW x, Waits(<<x>>)
        PROVE  x.t = "renameSelf"
    BY <2>3
  <2>4. QED
    BY <2>1, <2>2, <2>3
<1>3. ASSUME NEW x \in Task, NEW y \in Task, NEW r \in Seq(Task), x.t # "renameSelf",
             y.t # "renameSelf", \/ Waits(<<x>> \o r)
                                 \/ Waits(<<x, y>> \o r)
      PROVE  Waits(r)
  <2>1. Len(r) \in Nat
    OBVIOUS
  <2>2. CASE Waits(<<x>> \o r)
    <3> DEFINE s == <<x>> \o r
    <3>1. Len(s) = Len(r) + 1 /\ s[1] = x /\ \A k \in 2 .. Len(s) : s[k] = r[k - 1]
      BY <2>1
    <3> HIDE DEF s
    <3>2. PICK k \in 1 .. Len(s) : s[k].t = "renameSelf"
      BY <2>2 DEF s
    <3>3. k \in 2 .. Len(s) /\ k - 1 \in 1 .. Len(r)
      BY <1>3, <2>1, <3>1, <3>2
    <3>4. QED
      BY <3>1, <3>2, <3>3
  <2>3. CASE Waits(<<x, y>> \o r)
    <3> DEFINE s == <<x, y>> \o r
    <3>1. /\ Len(s) = Len(r) + 2 /\ s[1] = x /\ s[2] = y
          /\ \A k \in 3 .. Len(s) : s[k] = r[k - 2]
      BY <2>1
    <3> HIDE DEF s
    <3>2. PICK k \in 1 .. Len(s) : s[k].t = "renameSelf"
      BY <2>3 DEF s
    <3>3. k \in 3 .. Len(s) /\ k - 2 \in 1 .. Len(r)
      <4>1. k # 1 /\ k # 2
        BY <1>3, <3>1, <3>2
      <4>2. QED
        BY <2>1, <3>1, <3>2, <4>1
    <3>4. QED
      BY <3>1, <3>2, <3>3
  <2>4. QED
    BY <1>3, <2>2, <2>3
<1> HIDE DEF Waits
<1>4. ASSUME NEW a \in Actors, NEW r \in Seq(Task), todo \in Flushing(a, r)
      PROVE  Waits(r)
  <2>1. \A t \in FlushKinds : On(t, a) \in Task /\ On(t, a).t = t
    BY OnTypes, TaskParts DEF FlushKinds, TaskKinds
  <2>2. CASE todo = r
    BY <1>1, <2>2
  <2>3. ASSUME NEW t \in FlushKinds, todo = <<On(t, a)>> \o r PROVE Waits(r)
    BY <1>1, <1>3, <2>1, <2>3 DEF FlushKinds
  <2>4. ASSUME NEW t \in FlushKinds, todo = <<On("zero", a), On(t, a)>> \o r PROVE Waits(r)
    BY <1>1, <1>3, <2>1, <2>4 DEF FlushKinds
  <2>5. QED
    BY <1>4, <2>2, <2>3, <2>4 DEF Flushing, FlushKinds
<1>5. Tmp \in Actors /\ Handles \subseteq Actors
  BY DEF Actors
<1>6. /\ \A t, h : On(t, h).t = t
      /\ \A t, h, n : OnName(t, h, n).t = t
      /\ \A t, h, n : OnSize(t, h, n).t = t
  BY DEF On, OnName, OnSize
<1>7. ~OwnStack
  <2>1. ASSUME NEW h \in Handles, NEW r \in AfterFlush(h), todo \in Flushing(h, r)
        PROVE  FALSE
    <3>1. r \in Seq(Task)
      BY <1>5, RestTypes
    <3>2. Waits(r)
      BY <1>4, <1>5, <2>1, <3>1
    <3>3. QED
      BY <1>1, <1>2, <1>6, <3>2 DEF AfterFlush
  <2>2. ASSUME todo \in {<<>>, <<On("clean", Tmp), On("correct", Tmp)>>, <<On("correct", Tmp)>>}
        PROVE  FALSE
    BY <1>1, <1>2, <1>6, <2>2
  <2>3. ASSUME NEW h, NEW how \in {"write", "grow", "seek"}, NEW k,
               todo = <<OnSize(how, h, k)>>
        PROVE  FALSE
    BY <1>1, <1>2, <1>6, <2>3
  <2>4. QED
    BY <2>1, <2>2, <2>3 DEF OwnStack
<1>8. ~SearchStack
  <2>1. SUFFICES ASSUME NEW h \in Handles, NEW n \in Names, NEW how \in OpenModes \cup {"removeOther"},
                        \/ todo = <<OnName("find", Tmp, n), OnName(how, h, n)>>
                        \/ todo = <<OnName("visit", Tmp, n), OnName(how, h, n)>>
                        \/ todo = <<OnName(how, h, n)>>
                        \/ todo \in Flushing(Tmp, <<On("drop", Tmp), OnName("visit", Tmp, n),
                                                    OnName(how, h, n)>>)
                 PROVE  FALSE
    BY DEF SearchStack
  <2>2. how # "renameSelf"
    BY DEF OpenModes
  <2>3. <<On("drop", Tmp), OnName("visit", Tmp, n), OnName(how, h, n)>> \in Seq(Task)
    BY RestTypes, CallTasks
  <2>4. Waits(<<On("drop", Tmp), OnName("visit", Tmp, n), OnName(how, h, n)>>) => FALSE
    BY <1>2, <1>6, <2>2
  <2>5. /\ Waits(<<OnName("find", Tmp, n), OnName(how, h, n)>>) => FALSE
        /\ Waits(<<OnName("visit", Tmp, n), OnName(how, h, n)>>) => FALSE
        /\ Waits(<<OnName(how, h, n)>>) => FALSE
    BY <1>2, <1>6, <2>2
  <2>6. QED
    BY <1>1, <1>4, <1>5, <2>1, <2>3, <2>4, <2>5
<1>9. ~LastStack
  <2>1. /\ <<On("flush", Tmp), On("drop", Tmp)>> \in Seq(Task)
        /\ <<On("drop", Tmp)>> \in Seq(Task)
        /\ <<On("drop", Tmp), On("correct", Tmp)>> \in Seq(Task)
    BY RestTypes, MountTasks
  <2>2. /\ ~Waits(<<On("flush", Tmp), On("drop", Tmp)>>)
        /\ ~Waits(<<On("drop", Tmp)>>)
        /\ ~Waits(<<On("drop", Tmp), On("correct", Tmp)>>)
    BY <1>2, <1>6
  <2>3. QED
    BY <1>4, <1>5, <2>1, <2>2 DEF LastStack
<1>10. ~MountStack
  BY <1>1, <1>2, <1>6 DEF MountStack
<1>11. RenameStack /\ up = "up"
  BY <1>1, <1>7, <1>8, <1>9, <1>10 DEF Control
<1>12. PICK h \in Handles, n \in Names :
         \/ todo \in Flushing(Tmp, <<On("deleted", Tmp), OnName("renameSelf", h, n)>>)
         \/ todo = <<OnName("renameSelf", h, n)>>
  BY <1>11 DEF RenameStack
<1>13. CASE todo = <<OnName("renameSelf", h, n)>>
  BY <1>6, <1>11, <1>13, Tuple1
<1>14. CASE todo = <<On("deleted", Tmp), OnName("renameSelf", h, n)>>
  BY <1>11, <1>14, Tuple2, TaskParts
<1>15. CASE /\ todo \in Flushing(Tmp, <<On("deleted", Tmp), OnName("renameSelf", h, n)>>)
            /\ todo # <<On("deleted", Tmp), OnName("renameSelf", h, n)>>
  <2>1. <<On("deleted", Tmp), OnName("renameSelf", h, n)>> \in Seq(Task)
    BY RestTypes, CallTasks
  <2>2. QED
    BY <1>5, <1>11, <1>15, <2>1, FlushingShape DEF FlushKinds
<1>16. QED
  BY <1>12, <1>13, <1>14, <1>15

\* A name stays with one file.
LEMMA NamesStayApart ==
  ASSUME PlainUse, RefinementInv, RefinementInv', NamesInv, [Next]_vars
  PROVE  NamesStored' /\ NamesOpen' /\ NamesAgree'
<1>1. TypeOK /\ Control /\ PagesInv /\ CommitsChanges /\ NamesFound /\ NoName \notin Names
  BY NameAssumption DEF RefinementInv, BaseInv, NumbersInv, NamesInv
<1>2. \A h \in Handles : SameLabel(h, hs'[h], hs[h]) \/ Naming(h)
  BY <1>1, NamingSteps
<1>3. \A g, h \in Handles : Naming(g) /\ Naming(h) => g = h
  BY DEF Naming
<1>4. ASSUME NEW g \in Handles, NEW h \in Handles, Naming(g), hs[h].open,
             hs[h].name = hs'[g].name
      PROVE  g = h /\ hs[h].name \in Names
  <2>1. todo # <<>> /\ Head(todo).h = g /\ Head(todo).n = hs[h].name
        /\ Head(todo).t \in NameKinds
    BY <1>4 DEF Naming, Actor, NameKinds
  <2>2. todo[1] = Head(todo) /\ 1 \in 1 .. Len(todo)
    BY <1>1, <2>1 DEF TypeOK
  <2> DEFINE x == Head(todo)
  <2>3. /\ x.n \in Names
        /\ \A f \in Handles \ {x.h} : hs[f].open => hs[f].name # x.n
    BY <2>1, <2>2 DEF NamesInv, NameTasks
  <2> HIDE DEF x
  <2>4. x.h = g /\ x.n = hs[h].name
    BY <2>1 DEF x
  <2>5. QED
    BY <1>4, <2>3, <2>4
<1>5. NamesOpen'
  <2>1. SUFFICES ASSUME NEW g \in Handles, NEW h \in Handles, hs'[g].open, hs'[h].open,
                        hs'[g].name \in Names, hs'[g].name = hs'[h].name
                 PROVE  g = h
    BY DEF NamesOpen
  <2>2. \A x \in {g, h} : SameLabel(x, hs'[x], hs[x]) => hs[x].open /\ hs[x].name = hs'[x].name
    BY <1>1, <2>1 DEF SameLabel
  <2>3. QED
    BY <1>2, <1>3, <1>4, <2>1, <2>2 DEF NamesInv, NamesOpen
<1>6. ASSUME NEW i \in 1 .. MaxIno, NEW h \in Handles, hs'[h].open, hs'[h].name \in Names,
             StoredName(i) = hs'[h].name
      PROVE  i = hs'[h].ino
  <2>1. i # 0
    BY BoundAssumption
  <2>2. CASE SameLabel(h, hs'[h], hs[h])
    <3>1. hs[h].open /\ hs[h].name = hs'[h].name
      BY <1>1, <1>6, <2>2 DEF SameLabel
    <3>2. i = hs[h].ino
      BY <1>6, <3>1 DEF NamesInv, NamesAgree
    <3>3. QED
      BY <1>6, <2>1, <2>2, <3>2 DEF SameLabel
  <2>3. CASE Naming(h)
    <3>1. /\ todo # <<>> /\ StoredName(i) = Head(todo).n
          /\ Head(todo).t \in OpenModes \cup {"renameSelf"}
      BY <1>6, <2>3 DEF Naming
    <3>2. CASE Head(todo).t \in OpenModes
      <4>1. hs[Tmp].open /\ i = hs[Tmp].ino
        BY <3>1, <3>2 DEF NamesInv, NamesFound
      <4>2. "renameSelf" \notin OpenModes
        BY DEF OpenModes
      <4>3. QED
        BY <2>3, <3>2, <4>1, <4>2 DEF Naming
    <3>3. CASE Head(todo).t = "renameSelf"
      <4>1. todo[1] = Head(todo) /\ 1 \in 1 .. Len(todo)
        BY <1>1, <3>1 DEF TypeOK
      <4>2. hs[Tmp].mod /\ ~hs[Tmp].mod
        BY <3>1, <3>3, <4>1 DEF NamesInv, NamesTaken
      <4>3. QED
        BY <4>2
    <3>4. QED
      BY <3>1, <3>2, <3>3
  <2>4. QED
    BY <1>2, <2>2, <2>3
<1>7. CASE \A i \in 1 .. MaxIno : StoredName(i)' = StoredName(i)
  <2>1. NamesStored'
    BY <1>7 DEF NamesInv, NamesStored
  <2>2. NamesAgree'
    BY <1>6, <1>7 DEF NamesAgree
  <2>3. QED
    BY <1>5, <2>1, <2>2
<1>8. CASE /\ WriteMeta /\ Actor \in Actors /\ hs[Actor].ino \in 1 .. MaxIno
           /\ \A i \in 1 .. MaxIno :
                StoredName(i)' = IF i = hs[Actor].ino THEN hs[Actor].name ELSE StoredName(i)
  <2> DEFINE a == Actor
             n == hs[a].name
  <2>1. todo # <<>> /\ Head(todo).t \in {"meta", "metaNew"} /\ Committing(a)
    BY <1>8 DEF WriteMeta, Doing, Committing, Actor
  <2>2. hs[a].open /\ hs[a].mod
    BY <1>1, <1>8, <2>1 DEF PagesInv, CommitsToFresh, CommitsChanges
  <2>3. n \in Names => a \in Handles
    BY <1>1, <1>8, <2>2 DEF NamesInv, NamelessTmp, Actors
  <2>4. \A h \in Handles : SameLabel(h, hs'[h], hs[h])
    BY <1>2, <2>1 DEF Naming, OpenModes
  <2>5. \A i \in 1 .. MaxIno : n \in Names /\ StoredName(i) = n => i = hs[a].ino
    BY <2>2, <2>3 DEF NamesInv, NamesAgree
  <2> HIDE DEF a
  <2>6. \A i \in 1 .. MaxIno : StoredName(i)' = IF i = hs[a].ino THEN n ELSE StoredName(i)
    BY <1>8 DEF a
  <2> HIDE DEF n
  <2>7. NamesStored'
    BY <2>5, <2>6 DEF NamesInv, NamesStored
  <2>8. ASSUME NEW i \in 1 .. MaxIno, NEW h \in Handles, hs'[h].open, hs'[h].name \in Names,
               StoredName(i)' = hs'[h].name
        PROVE  i = hs'[h].ino
    <3>1. CASE i # hs[a].ino
      BY <1>6, <2>6, <2>8, <3>1
    <3>2. CASE i = hs[a].ino
      <4>1. n = hs'[h].name /\ n \in Names
        BY <2>6, <2>8, <3>2
      <4>2. hs[h].open /\ hs[h].name = n
        BY <1>1, <2>4, <2>8, <4>1 DEF SameLabel
      <4>3. h = a
        BY <2>2, <2>3, <4>1, <4>2 DEF NamesInv, NamesOpen, n
      <4>4. i = hs'[h].ino \/ i = 0
        BY <2>4, <2>8, <3>2, <4>3 DEF SameLabel
      <4>5. QED
        BY <4>4, BoundAssumption
    <3>3. QED
      BY <3>1, <3>2
  <2>9. NamesAgree'
    BY <2>8 DEF NamesAgree
  <2>10. QED
    BY <1>5, <2>7, <2>9
<1>9. QED
  BY <1>7, <1>8, StoredNameSteps

LEMMA NamelessStays ==
  ASSUME PlainUse, RefinementInv, NamesInv, [Next]_vars
  PROVE  NamelessTmp'
<1>1. TypeOK /\ Control /\ PagesInv /\ StoredLists /\ SearchesStored /\ NamelessTmp
  BY DEF RefinementInv, BaseInv, NumbersInv, PagesInv, NamesInv
<1>2. Tmp \in Actors /\ hs \in [Actors -> Handle]
  BY <1>1 DEF Actors, TypeOK
<1>3. CASE SameLabel(Tmp, hs'[Tmp], hs[Tmp])
  BY <1>1, <1>3 DEF SameLabel, NamelessTmp
<1>4. CASE Visit
  <2>1. CASE hs' = hs
    BY <1>1, <2>1 DEF NamelessTmp
  <2>2. ASSUME NEW p \in InodePages, Latest(p), hs' = [hs EXCEPT ![Tmp] = Loaded(p)]
        PROVE  NamelessTmp'
    <3>1. hs'[Tmp] = Loaded(p) /\ ~Loaded(p).mod
      BY <1>1, <1>2, <2>2, LoadedParts DEF Latest
    <3>2. QED
      BY <3>1 DEF NamelessTmp
  <2>3. QED
    BY <1>1, <1>4, <2>1, <2>2, PlainVisit
<1>5. CASE OpenMissing \/ OpenFound \/ OpenTrunc
  <2>1. todo # <<>> /\ Head(todo).t \in OpenModes
    BY <1>5 DEF OpenMissing, OpenFound, OpenTrunc, Doing, OpenModes
  <2>2. Actor # Tmp /\ Actor \in Actors /\ Head(todo).h = Actor
    BY <1>1, <2>1, OpeningTask DEF Actor
  <2> DEFINE a == Actor
  <2>3. hs'[Tmp] = hs[Tmp] \/ hs'[Tmp] = NoHandle
    <3>1. \/ hs' = hs
          \/ \E f : hs' = [hs EXCEPT ![a] = f]
          \/ hs' = [hs EXCEPT ![a] = hs[Tmp], ![Tmp] = NoHandle]
      BY <1>5, <2>2 DEF OpenMissing, OpenFound, OpenTrunc, NewHandle
    <3> HIDE DEF a
    <3>2. QED
      BY <1>2, <2>2, <3>1 DEF a
  <2>4. QED
    BY <1>1, <2>3 DEF NamelessTmp, NoHandle
<1>6. CASE RenameSelf
  <2>1. todo # <<>> /\ Head(todo).t = "renameSelf"
    BY <1>6 DEF RenameSelf, Doing
  <2>2. PICK h \in Handles, m \in Names : todo = <<OnName("renameSelf", h, m)>>
    BY <1>1, <2>1, TaskPlaces
  <2>3. Head(todo).h = h /\ h # Tmp
    BY <2>2, Tuple1, TaskParts, HandleAssumption
  <2>4. hs' = [hs EXCEPT ![h].name = Head(todo).n, ![h].mod = TRUE]
    BY <1>6, <2>3 DEF RenameSelf
  <2>5. hs'[Tmp] = hs[Tmp]
    BY <1>2, <2>3, <2>4
  <2>6. QED
    BY <1>1, <2>5 DEF NamelessTmp
<1>7. QED
  BY <1>1, <1>2, <1>3, <1>4, <1>5, <1>6, LabelSteps

LEMMA NameTasksStay ==
  ASSUME PlainUse, RefinementInv, RefinementInv', NamesInv, [Next]_vars
  PROVE  NameTasks'
<1>1. /\ TypeOK /\ TypeOK' /\ Control /\ PagesInv /\ NamesFound /\ NameTasks
      /\ NoName \notin Names /\ Exclusive
  BY NameAssumption DEF RefinementInv, BaseInv, NumbersInv, NamesInv, PlainUse
<1>2. \A h \in Handles : SameLabel(h, hs'[h], hs[h]) \/ Naming(h)
  BY <1>1, NamingSteps
<1>3. SUFFICES ASSUME NEW k \in 1 .. Len(todo'), todo'[k].t \in NameKinds
               PROVE  /\ todo'[k].n \in Names
                      /\ \A g \in Handles \ {todo'[k].h} : hs'[g].open => hs'[g].name # todo'[k].n
  BY DEF NameTasks
<1> DEFINE x == todo'[k]
<1>4. Named(x)
  BY <1>1, NamedTasks DEF AllNamed
<1> HIDE DEF x
<1>5. ASSUME NEW h \in Handles, NEW n \in Names, UNCHANGED hs, Unshared(h, n),
             x.h = h, x.n = n
      PROVE  x.n \in Names /\ \A g \in Handles \ {x.h} : hs'[g].open => hs'[g].name # x.n
  BY <1>5 DEF Unshared
<1>6. ASSUME NEW h \in Handles, NEW n \in Names, NEW mode, Open(h, n, mode),
             x = OnName(mode, h, n)
      PROVE  x.n \in Names /\ \A g \in Handles \ {x.h} : hs'[g].open => hs'[g].name # x.n
  BY <1>1, <1>5, <1>6, TaskParts DEF Open
<1>7. ASSUME NEW h \in Handles, NEW n \in Names, Rename(h, n),
             x = OnName("removeOther", h, n)
      PROVE  x.n \in Names /\ \A g \in Handles \ {x.h} : hs'[g].open => hs'[g].name # x.n
  BY <1>1, <1>5, <1>7, TaskParts DEF Rename
<1>8. ASSUME NEW j \in 1 .. Len(todo), todo[j].h = x.h, todo[j].n = x.n,
             todo[j].t \in NameKinds
      PROVE  x.n \in Names /\ \A g \in Handles \ {x.h} : hs'[g].open => hs'[g].name # x.n
  <2>1. x.n \in Names /\ \A g \in Handles \ {x.h} : hs[g].open => hs[g].name # x.n
    BY <1>1, <1>8 DEF NameTasks
  <2>2. ASSUME NEW g \in Handles \ {x.h}, hs'[g].open PROVE hs'[g].name # x.n
    <3>1. CASE SameLabel(g, hs'[g], hs[g])
      BY <1>1, <2>1, <2>2, <3>1 DEF SameLabel
    <3>2. CASE Naming(g)
      <4>1. todo = <<Head(todo)>> /\ Head(todo).h = g
        BY <3>2 DEF Naming, Actor
      <4>2. Len(todo) = 1 /\ todo[1] = Head(todo)
        BY <4>1
      <4>3. j = 1
        BY <1>8, <4>2
      <4>4. QED
        BY <1>8, <2>2, <4>1, <4>2, <4>3
    <3>3. QED
      BY <1>2, <3>1, <3>2
  <2>3. QED
    BY <2>1, <2>2
<1>9. ASSUME RemoveOther, x = OnName("renameSelf", Actor, Head(todo).n)
      PROVE  x.n \in Names /\ \A g \in Handles \ {x.h} : hs'[g].open => hs'[g].name # x.n
  <2>1. todo # <<>> /\ Head(todo).t = "removeOther"
    BY <1>9 DEF RemoveOther, Doing
  <2>2. todo[1] = Head(todo) /\ 1 \in 1 .. Len(todo)
    BY <1>1, <2>1 DEF TypeOK
  <2>3. x.h = Head(todo).h /\ x.n = Head(todo).n
    BY <1>9, TaskParts DEF Actor
  <2>4. QED
    BY <1>8, <2>1, <2>2, <2>3 DEF NameKinds
<1>10. x.n \in Names /\ \A g \in Handles \ {x.h} : hs'[g].open => hs'[g].name # x.n
  BY <1>3, <1>4, <1>6, <1>7, <1>8, <1>9 DEF Named, x
<1>11. QED
  BY <1>10 DEF x

\* A call starts with the first task of find_file(), a flush, a write, an
\* enlargement or a survey of the inodes.
LEMMA CallBegins ==
  ASSUME TypeOK, Call, todo' # <<>>
  PROVE  Head(todo').t \in {"find", "flush", "write", "grow", "seek", "clean", "correct"}
<1>1. todo = <<>>
  BY CallIdle
<1>2. ASSUME NEW h, NEW n, NEW how, todo' = <<OnName("find", Tmp, n), OnName(how, h, n)>>
      PROVE  Head(todo').t = "find"
  BY <1>2, CallHeads
<1>3. ASSUME NEW h, todo' \in {<<On("flush", h)>>, <<On("flush", h), On("drop", h)>>,
                               <<On("flush", h), On("deleted", h)>>}
      PROVE  Head(todo').t = "flush"
  BY <1>3, Tuple1, Tuple2, TaskParts
<1>4. ASSUME NEW h, NEW n, NEW how, todo' = <<OnSize(how, h, n)>>
      PROVE  Head(todo').t = how
  BY <1>4, CallHeads
<1>5. ASSUME NEW h \in Handles, NEW n \in Names, NEW mode, Open(h, n, mode) \/ Rename(h, n)
      PROVE  Head(todo').t = "find"
  BY <1>2, <1>5 DEF Open, Rename, Start
<1>6. ASSUME NEW h \in Handles, Flush(h) \/ Close(h) \/ Delete(h)
      PROVE  Head(todo').t = "flush"
  BY <1>3, <1>6 DEF Flush, Close, Delete, Start
<1>7. ASSUME NEW h \in Handles, NEW k \in 1 .. MaxLen, NEW v \in Vals, Write(h, k, v)
      PROVE  Head(todo').t = "write"
  BY <1>4, <1>7, WriteCall
<1>8. ASSUME NEW h \in Handles, NEW n, Truncate(h, n)
      PROVE  FALSE
  BY <1>1, <1>8 DEF Truncate
<1>9. ASSUME NEW h \in Handles, NEW n, NEW how \in {"grow", "seek"}, Enlarge(h, n, how)
      PROVE  Head(todo').t \in {"grow", "seek"}
  BY <1>4, <1>9 DEF Enlarge, Start
<1>10. ASSUME Cleanup \/ ListFiles
       PROVE  Head(todo').t \in {"clean", "correct"}
  BY <1>10, CallHeads DEF Cleanup, ListFiles, Start
<1>11. QED
  BY <1>5, <1>6, <1>7, <1>8, <1>9, <1>10 DEF Call

LEMMA SameVersions ==
  ASSUME inodeArea' = inodeArea
  PROVE  VersionStore' = VersionStore
<1>1. \A p : (Latest(p)' <=> Latest(p)) /\ (Valid(p)' <=> Valid(p))
  BY SameNames
<1>2. ValidPages' = ValidPages
  BY <1>1 DEF ValidPages
<1>3. \A p : FirstPage(p)' = FirstPage(p)
  BY <1>2 DEF FirstPage
<1>4. {q \in InodePages : Latest(q)}' = {q \in InodePages : Latest(q)}
  BY <1>1
<1>5. QED
  BY <1>3, <1>4 DEF VersionStore

\* find_file() finds the file of a name if there is one.
LEMMA VisitFinds ==
  ASSUME PlainUse, RefinementInv, NamesInv, Visit
  PROVE  /\ inodeArea' = inodeArea
         /\ hs'[Tmp].open => hs'[Tmp].name = Head(todo).n
         /\ \A i \in 1 .. MaxIno :
              StoredName(i) = Head(todo).n => hs'[Tmp].open /\ i = hs'[Tmp].ino
<1>1. /\ TypeOK /\ Control /\ Numbered /\ NumbersSuffice /\ PagesInv /\ StoredLists
      /\ SearchesStored /\ NamesFound /\ NamesStored /\ NoName \notin Names
  BY NameAssumption DEF RefinementInv, BaseInv, NumbersInv, PagesInv, NamesInv
<1>2. todo # <<>> /\ Head(todo).t = "visit" /\ inodeArea' = inodeArea
  BY <1>1, PlainVisit DEF Doing
<1>3. Tmp \in Actors /\ hs \in [Actors -> Handle]
  BY <1>1 DEF Actors, TypeOK
<1> DEFINE n == Head(todo).n
<1>4. ~hs[Tmp].open /\ n \in Names /\ scan = VersionStore
  <2>1. ~hs[Tmp].open /\ \E h \in Handles, m \in Names, how \in OpenModes \cup {"removeOther"} :
          todo = <<OnName("visit", Tmp, m), OnName(how, h, m)>>
    BY <1>1, <1>2, TaskPlaces
  <2>2. PICK h \in Handles, m \in Names, how \in OpenModes \cup {"removeOther"} :
          todo = <<OnName("visit", Tmp, m), OnName(how, h, m)>>
    BY <2>1
  <2>3. Head(todo) = OnName("visit", Tmp, m)
    BY <2>2, Tuple2
  <2>4. n = m
    BY <2>3, TaskParts
  <2>5. QED
    BY <1>1, <1>2, <2>1, <2>4 DEF NamesFound
<1>5. ASSUME NEW p \in InodePages, Latest(p), inodeArea[p].name = n,
             hs' = [hs EXCEPT ![Tmp] = Loaded(p)]
      PROVE  /\ hs'[Tmp].open /\ hs'[Tmp].name = n
             /\ \A i \in 1 .. MaxIno : StoredName(i) = n => i = hs'[Tmp].ino
  <2>1. hs'[Tmp] = Loaded(p)
    BY <1>3, <1>5
  <2>2. Loaded(p).open /\ Loaded(p).name = n /\ Loaded(p).ino = inodeArea[p].ino
    BY <1>5 DEF Loaded
  <2>3. inodeArea[p].ino \in 1 .. MaxIno /\ StoredName(inodeArea[p].ino) = n
    BY <1>1, <1>5, StoredNames DEF LatestPages
  <2>4. QED
    BY <1>1, <1>4, <2>1, <2>2, <2>3 DEF NamesStored
<1>6. ASSUME hs' = hs, NEW i \in 1 .. MaxIno, StoredName(i) = n
      PROVE  FALSE
  <2>1. PICK p \in LatestPages : inodeArea[p].name = n
    BY <1>1, <1>4, <1>6, StoredNames
  <2>2. p \in InodePages /\ Latest(p) /\ Valid(p)
    BY <2>1 DEF LatestPages, Latest
  <2>3. <<FirstPage(p), p>> \in scan
    BY <1>4, <2>2 DEF VersionStore
  <2> DEFINE next == {v \in scan : Matters(v[2], n)}
  <2>4. <<FirstPage(p), p>> \in next
    BY <1>1, <1>4, <2>1, <2>2, <2>3 DEF Matters
  <2>5. next # {} => \E q : hs' = [hs EXCEPT ![Tmp] = Loaded(q)]
    BY DEF Visit
  <2> HIDE DEF next
  <2>6. PICK q : hs' = [hs EXCEPT ![Tmp] = Loaded(q)]
    BY <2>4, <2>5
  <2>7. hs'[Tmp] = Loaded(q)
    BY <1>3, <2>6
  <2>8. Loaded(q).open
    BY DEF Loaded
  <2>9. QED
    BY <1>4, <1>6, <2>7, <2>8
<1> HIDE DEF n
<1>7. \/ hs' = hs
      \/ \E p \in InodePages : /\ Latest(p) /\ inodeArea[p].name = n
                               /\ hs' = [hs EXCEPT ![Tmp] = Loaded(p)]
  BY <1>1, PlainVisit DEF n
<1>8. QED
  BY <1>2, <1>4, <1>5, <1>6, <1>7 DEF n

LEMMA FoundStays ==
  ASSUME PlainUse, RefinementInv, RefinementInv', NamesInv, [Next]_vars
  PROVE  NamesFound'
<1>1. TypeOK /\ Control /\ PagesInv /\ StoredLists /\ SearchesStored /\ NamesFound
  BY DEF RefinementInv, BaseInv, NumbersInv, PagesInv, NamesInv
<1>2. CASE todo' = <<>> \/ Head(todo').t \notin OpenModes \cup {"visit", "removeOther"}
  BY <1>2 DEF NamesFound
<1>3. CASE FindScan
  <2>1. todo # <<>> /\ todo \in Seq(Task) /\ Head(todo).t = "find"
    BY <1>1, <1>3 DEF FindScan, Doing, TypeOK
  <2>2. OnName("visit", Tmp, Head(todo).n) \in Task
    BY <2>1, HeadType, TaskTypes DEF TaskKinds, Actors
  <2>3. Head(todo').t = "visit"
    <3> DEFINE x == OnName("visit", Tmp, Head(todo).n)
    <3>1. <<x>> \in Seq(Task) /\ <<x>> # <<>> /\ Head(<<x>>) = x /\ x.t = "visit"
      BY <2>2, TaskParts
    <3>2. Then(<<x>>)
      BY <1>3 DEF FindScan
    <3> HIDE DEF x
    <3>3. QED
      BY <2>1, <3>1, <3>2, ThenHead
  <2>4. scan' = VersionStore /\ inodeArea' = inodeArea
    BY <1>3 DEF FindScan, flash
  <2>5. scan' = VersionStore'
    BY <2>4, SameVersions
  <2>6. QED
    BY <2>3, <2>5 DEF NamesFound, OpenModes
<1>4. CASE Visit
  <2>1. todo # <<>> /\ todo \in Seq(Task) /\ Head(todo).t = "visit" /\ todo' = Tail(todo)
    BY <1>1, <1>4, PlainVisit, Popped DEF Doing, TypeOK
  <2>2. PICK h \in Handles, n \in Names, how \in OpenModes \cup {"removeOther"} :
          todo = <<OnName("visit", Tmp, n), OnName(how, h, n)>>
    BY <1>1, <2>1, TaskPlaces
  <2>3. Head(todo).n = n /\ todo' = <<OnName(how, h, n)>>
    BY <2>1, <2>2, Tuple2, TaskParts
  <2>4. Head(todo').t = how /\ Head(todo').n = Head(todo).n
    BY <2>3, Tuple1, TaskParts
  <2>5. \A i \in 1 .. MaxIno : StoredName(i)' = StoredName(i)
    BY <2>1, StoredNameSteps DEF WriteMeta, Doing
  <2>6. /\ hs'[Tmp].open => hs'[Tmp].name = Head(todo').n
        /\ \A i \in 1 .. MaxIno :
             StoredName(i)' = Head(todo').n => hs'[Tmp].open /\ i = hs'[Tmp].ino
    BY <1>4, <2>4, <2>5, VisitFinds
  <2>7. Head(todo').t # "visit"
    BY <2>2, <2>4 DEF OpenModes
  <2>8. QED
    BY <2>6, <2>7 DEF NamesFound
<1>5. CASE Work
  BY <1>1, <1>2, <1>3, <1>4, <1>5, SearchSteps
<1>6. CASE Call
  BY <1>1, <1>2, <1>6, CallBegins DEF OpenModes
<1>7. CASE PowerLoss
  BY <1>2, <1>7 DEF PowerLoss
<1>8. CASE MountScan
  BY <1>2, <1>8, Tuple1, TaskParts DEF MountScan, OpenModes
<1>9. CASE UNCHANGED vars
  <2>1. UNCHANGED <<todo, hs, inodeArea, scan>>
    BY <1>9 DEF vars
  <2>2. VersionStore' = VersionStore
    BY <2>1, SameVersions
  <2>3. todo # <<>> /\ Head(todo).t \in OpenModes \cup {"removeOther"} =>
          \A i \in 1 .. MaxIno : StoredName(i)' = StoredName(i)
    BY StoredNameSteps DEF WriteMeta, Doing, OpenModes
  <2>4. QED
    BY <1>1, <2>1, <2>2, <2>3 DEF NamesFound
<1>10. QED
  BY <1>5, <1>6, <1>7, <1>8, <1>9 DEF Next

LEMMA JoinNone3 ==
  ASSUME NEW x, NEW y, NEW z
  PROVE  <<x, y, z>> \o <<>> = <<x, y, z>>
OBVIOUS

LEMMA WorkKinds ==
  ASSUME Work
  PROVE  /\ Head(todo).t = "deleted" => Deleted
         /\ Head(todo).t = "renameSelf" => RenameSelf
BY DEF Work, WriteOn, WriteRefused, EnlargeStep, FlushNumber, FlushVersion,
   WriteZeroPage, WriteMeta, WriteMetaFails, ErasePage, Drop, Deleted, FindScan, Visit, OpenMissing, OpenFound,
   OpenTrunc, RemoveOther, RenameSelf, Clean, Correct, EraseOutdated, MountDone, Doing

\* rename_file() takes a name only when no other file has it any more.
LEMMA TakenStays ==
  ASSUME PlainUse, RefinementInv, RefinementInv', NamesInv, ~Refused, [Next]_vars
  PROVE  NamesTaken'
<1>1. /\ TypeOK /\ TypeOK' /\ Control /\ Numbered /\ PagesInv /\ HandleLists
      /\ CommitsToFresh /\ CommitsChanges /\ NamelessTmp /\ NamesFound /\ NamesTaken
  BY DEF RefinementInv, BaseInv, NumbersInv, PagesInv, NamesInv
<1>2. Tmp \in Actors /\ hs \in [Actors -> Handle] /\ hs[Tmp] \in Handle /\ todo \in Seq(Task)
  BY <1>1 DEF Actors, TypeOK
<1>3. SUFFICES ASSUME NEW k \in 1 .. Len(todo'), todo'[k].t = "renameSelf"
               PROVE  /\ \A i \in 1 .. MaxIno :
                           StoredName(i)' = todo'[k].n =>
                             hs'[Tmp].open /\ hs'[Tmp].mod /\ i = hs'[Tmp].ino
                      /\ Head(todo').t \in {"erase", "deleted", "renameSelf"} => ~hs'[Tmp].mod
  BY DEF NamesTaken
<1> DEFINE x == todo'[k]
           Goal == /\ \A i \in 1 .. MaxIno :
                        StoredName(i)' = x.n =>
                          hs'[Tmp].open /\ hs'[Tmp].mod /\ i = hs'[Tmp].ino
                   /\ Head(todo').t \in {"erase", "deleted", "renameSelf"} => ~hs'[Tmp].mod
<1>4. Named(x) /\ x.t = "renameSelf" /\ x.n # NoName
  <2>1. Named(x) /\ x.t = "renameSelf"
    BY <1>1, <1>3, NamedTasks DEF AllNamed
  <2>2. x.n \in Names
    BY <1>3, NameTasksStay DEF NameTasks, NameKinds
  <2>3. QED
    BY <2>1, <2>2, NameAssumption
<1>5. ~(todo' = <<>>)
  BY <1>3
<1> HIDE DEF x
<1>6. CASE RemoveOther
  <2>1. todo # <<>> /\ Head(todo).t = "removeOther"
    BY <1>6 DEF RemoveOther, Doing
  <2>2. \A i \in 1 .. MaxIno : StoredName(i)' = StoredName(i)
    BY <2>1, StoredNameSteps DEF WriteMeta, Doing
  <2>3. PICK h \in Handles, n \in Names : todo = <<OnName("removeOther", h, n)>>
    BY <1>1, <2>1, TaskPlaces
  <2>4. Tail(todo) = <<>> /\ Head(todo).h = h /\ Head(todo).n = n
    BY <2>3, Tuple1, TaskParts
  <2> DEFINE y == OnName("renameSelf", h, n)
  <2>5. CASE hs[Tmp].open
    <3>1. /\ hs' = [hs EXCEPT ![Tmp] = Emptied(@)]
          /\ todo' = (<<On("flush", Tmp), On("deleted", Tmp)>> \o <<y>>) \o <<>>
      BY <1>6, <2>4, <2>5 DEF RemoveOther, Then
    <3>2. todo' = <<On("flush", Tmp), On("deleted", Tmp), y>>
      BY <3>1, Join21, JoinNone3
    <3>3. k = 1 \/ k = 2 \/ k = 3
      BY <1>3, <3>2
    <3>4. x.n = n /\ Head(todo').t = "flush"
      BY <1>4, <3>2, <3>3, TaskParts, Tuple3 DEF x
    <3>5. hs'[Tmp] = Emptied(hs[Tmp])
      BY <1>2, <3>1
    <3>6. hs'[Tmp].open /\ hs'[Tmp].mod /\ hs'[Tmp].ino = hs[Tmp].ino
      BY <1>2, <2>5, <3>5 DEF Emptied, Handle
    <3>7. QED
      BY <1>1, <2>1, <2>2, <2>4, <3>4, <3>6 DEF NamesFound, x
  <2>6. CASE ~hs[Tmp].open
    <3>1. hs' = hs /\ todo' = <<y>> \o <<>>
      BY <1>6, <2>4, <2>6 DEF RemoveOther, Then
    <3>2. todo' = <<y>>
      BY <3>1
    <3>3. x.n = n
      BY <1>3, <3>2, TaskParts DEF x
    <3>4. ~hs[Tmp].mod
      BY <1>1, <1>2, <2>6 DEF HandleLists, NoHandle
    <3>5. QED
      BY <1>1, <2>1, <2>2, <2>4, <2>6, <3>1, <3>3, <3>4 DEF NamesFound, x
  <2>7. QED
    BY <2>5, <2>6
<1>7. CASE ~RemoveOther
  <2>1. PICK j \in 1 .. Len(todo) : todo[j] = x
    <3>1. \A h, n : \A mode \in OpenModes \cup {"removeOther"} :
            x # OnName(mode, h, n)
      BY <1>4, TaskParts DEF OpenModes
    <3>2. QED
      BY <1>4, <1>7, <3>1 DEF Named, NameKinds
  <2>2. /\ up = "up" /\ todo # <<>>
        /\ \/ Head(todo).t = "renameSelf"
           \/ Head(todo).t \in FlushKinds \cup {"deleted"} /\ Head(todo).h = Tmp
    BY <1>1, <1>4, <2>1, RenamePending
  <2>3. /\ \A i \in 1 .. MaxIno :
             StoredName(i) = x.n => hs[Tmp].open /\ hs[Tmp].mod /\ i = hs[Tmp].ino
        /\ Head(todo).t \in {"erase", "deleted", "renameSelf"} => ~hs[Tmp].mod
    BY <1>1, <1>4, <2>1 DEF NamesTaken
  <2>4. /\ hs[Tmp].mod => hs[Tmp].open /\ hs[Tmp].ino # 0
        /\ ~NoHandle.mod
    BY <1>1, <1>2 DEF HandleLists, NoHandle, Numbered
  <2>5. ~WriteMeta => \A i \in 1 .. MaxIno : StoredName(i)' = StoredName(i)
    BY StoredNameSteps
  <2>6. ASSUME hs'[Tmp].open = hs[Tmp].open, hs'[Tmp].mod = hs[Tmp].mod,
               hs'[Tmp].ino = hs[Tmp].ino, ~WriteMeta,
               ~hs[Tmp].mod \/ Head(todo').t \notin {"erase", "deleted", "renameSelf"}
        PROVE  Goal
    BY <2>3, <2>5, <2>6
  <2>7. CASE WriteMeta
    <3>1. Head(todo).t \in {"meta", "metaNew"}
      BY <2>7 DEF WriteMeta, Doing
    <3>2. Actor = Tmp /\ Committing(Tmp)
      BY <2>2, <3>1 DEF Actor, Committing, FlushKinds
    <3>3. hs[Tmp].open /\ hs[Tmp].mod /\ hs[Tmp].name = NoName
      BY <1>1, <1>2, <3>2 DEF CommitsToFresh, CommitsChanges, NamelessTmp
    <3>4. \A i \in 1 .. MaxIno :
            StoredName(i)' = IF i = hs[Tmp].ino THEN NoName ELSE StoredName(i)
      BY <2>7, <3>2, <3>3, MetaNames
    <3>5. \A i \in 1 .. MaxIno : StoredName(i)' # x.n
      BY <1>4, <2>3, <3>4
    <3>6. hs' = [hs EXCEPT ![Tmp].mod = FALSE]
      BY <2>7, <3>2 DEF WriteMeta
    <3>7. ~hs'[Tmp].mod
      BY <1>2, <3>6
    <3>8. QED
      BY <3>5, <3>7 DEF x
  <2>8. CASE ~WriteMeta /\ UNCHANGED vars
    <3>1. hs' = hs /\ todo' = todo
      BY <2>8 DEF vars
    <3>2. QED
      BY <2>3, <2>5, <2>8, <3>1 DEF x
  <2> HIDE DEF Goal
  <2>9. CASE FlushNumber
    <3>1. todo # <<>> /\ Head(todo).t = "flush" /\ Actor = Tmp
      BY <2>2, <2>9 DEF FlushNumber, Doing, Actor, FlushKinds
    <3>2. ~hs[Tmp].mod /\ hs' = hs
      BY <2>4, <2>9, <3>1 DEF FlushNumber
    <3>3. ~WriteMeta
      BY <3>1 DEF WriteMeta, Doing
    <3>4. QED
      BY <2>6, <3>2, <3>3 DEF Goal, x
  <2>10. CASE FlushVersion
    <3>1. todo # <<>> /\ Head(todo).t = "flush" /\ Actor = Tmp
      BY <2>2, <2>10 DEF FlushVersion, Doing, Actor, FlushKinds
    <3>2. ~WriteMeta
      BY <3>1 DEF WriteMeta, Doing
    <3>3. NoPage \notin InodePageChoices
      BY <2>10 DEF Refused, FlushVersion
    <3>4. PICK page \in InodePageChoices :
            /\ hs' = [hs EXCEPT ![Tmp].page = page, ![Tmp].ver = NextVersion(@),
                                ![Tmp].del = {}]
            /\ Then(<<On("zero", Tmp), On("meta", Tmp)>>)
      BY <2>10, <3>1, <3>3 DEF FlushVersion
    <3>5. /\ hs'[Tmp].open = hs[Tmp].open /\ hs'[Tmp].mod = hs[Tmp].mod
          /\ hs'[Tmp].ino = hs[Tmp].ino
      BY <1>2, <3>4 DEF Handle
    <3>6. On("zero", Tmp) \in Task /\ On("meta", Tmp) \in Task /\ Tail(todo) \in Seq(Task)
      BY <1>2, <3>1, TaskTypes, HeadType DEF TaskKinds, FileNames
    <3>7. Head(todo').t = "zero"
      BY <3>4, <3>6, Stacks, TaskParts DEF Then
    <3>8. QED
      BY <2>6, <3>2, <3>5, <3>7 DEF Goal, x
  <2>11. CASE WriteZeroPage
    <3>1. todo # <<>> /\ Head(todo).t = "zero" /\ Actor = Tmp
      BY <2>2, <2>11 DEF WriteZeroPage, Doing, Actor, FlushKinds
    <3>2. ~WriteMeta
      BY <3>1 DEF WriteMeta, Doing
    <3>3. hs' = hs \/ \E j1 : hs' = [hs EXCEPT ![Tmp].dp[j1].new = FALSE]
      BY <2>11, <3>1 DEF WriteZeroPage
    <3>4. /\ hs'[Tmp].open = hs[Tmp].open /\ hs'[Tmp].mod = hs[Tmp].mod
          /\ hs'[Tmp].ino = hs[Tmp].ino
      BY <1>2, <3>3 DEF Handle
    <3>5. todo' = todo \/ todo' = Tail(todo)
      BY <1>2, <2>11, <3>1, Popped DEF WriteZeroPage
    <3>6. Head(todo').t \in {"zero", "meta", "metaNew"}
      BY <1>1, <3>1, <3>5, AfterTask
    <3>7. QED
      BY <2>6, <3>2, <3>4, <3>6 DEF Goal, x
  <2>12. CASE ErasePage
    <3>1. Head(todo).t = "erase" /\ hs' = hs
      BY <2>12 DEF ErasePage, Doing
    <3>2. ~WriteMeta
      BY <3>1 DEF WriteMeta, Doing
    <3>3. QED
      BY <2>3, <2>6, <3>1, <3>2 DEF Goal, x
  <2>13. CASE Deleted
    <3>1. Head(todo).t = "deleted" /\ Actor = Tmp
      BY <2>2, <2>13 DEF Deleted, Doing, Actor
    <3>2. ~hs[Tmp].mod /\ ~WriteMeta
      BY <2>3, <3>1 DEF WriteMeta, Doing
    <3>3. hs' = [hs EXCEPT ![Tmp] = NoHandle]
      BY <2>13, <3>1, <3>2 DEF Deleted
    <3>4. ~hs'[Tmp].mod
      BY <1>2, <2>4, <3>3
    <3>5. QED
      BY <2>3, <2>5, <3>2, <3>4 DEF x
  <2>14. ~RenameSelf
    <3>1. SUFFICES ASSUME RenameSelf PROVE FALSE
      OBVIOUS
    <3>2. Head(todo).t = "renameSelf"
      BY <3>1 DEF RenameSelf, Doing
    <3>3. PICK h \in Handles, n \in Names : todo = <<OnName("renameSelf", h, n)>>
      BY <1>1, <2>2, <3>2, TaskPlaces
    <3>4. Tail(todo) = <<>> /\ Head(todo).h = h
      BY <3>3, Tuple1, TaskParts
    <3>5. todo' = <<On("flush", h), On("flush", Tmp), On("drop", Tmp)>> \o <<>>
      BY <3>1, <3>4 DEF RenameSelf, Then
    <3>6. todo' = <<On("flush", h), On("flush", Tmp), On("drop", Tmp)>>
      BY <3>5, JoinNone3
    <3>7. k = 1 \/ k = 2 \/ k = 3
      BY <1>3, <3>6
    <3>8. QED
      BY <1>3, <3>6, <3>7, TaskParts
  <2>15. CASE Work
    <3>1. ~WriteMetaFails
      BY DEF WriteMetaFails, PlainUse, Refusals
    <3>2. /\ Head(todo).t = "deleted" => Deleted
          /\ Head(todo).t = "renameSelf" => RenameSelf
      BY <2>15, WorkKinds
    <3>3. QED
      BY <2>2, <2>7, <2>9, <2>10, <2>11, <2>12, <2>13, <2>14, <2>15, <3>1, <3>2, WorkByTask
         DEF FlushKinds
  <2>16. ~Call /\ ~PowerLoss /\ ~MountScan
    BY <1>5, <2>2, CallIdle DEF PowerLoss, MountScan
  <2>17. QED
    BY <2>7, <2>8, <2>15, <2>16 DEF Next, Goal, x
<1>8. QED
  BY <1>6, <1>7

LEMMA NamesInit == Init => NamesInv
<1>1. SUFFICES ASSUME Init PROVE NamesInv
  OBVIOUS
<1>2. /\ todo = <<>> /\ \A p \in InodePages : ~Valid(p)
      /\ \A a \in Actors : ~hs[a].open
  BY <1>1 DEF Init, Actors, Valid, NoHandle
<1>3. LatestPages = {}
  BY <1>2 DEF LatestPages, Latest
<1>4. \A i \in 1 .. MaxIno : StoredName(i) \notin Names
  <2>1. TypeOK /\ Numbered /\ NumbersSuffice
    BY <1>1, RefinementInit DEF RefinementInv, BaseInv, NumbersInv
  <2>2. \A i : StoredName(i) = NoName
    BY <1>3, <2>1, StoredNames
  <2>3. QED
    BY <2>2, NameAssumption
<1>5. \A h \in Handles : h \in Actors
  BY DEF Actors
<1>6. Tmp \in Actors /\ Len(todo) = 0
  BY <1>2 DEF Actors
<1>7. QED
  BY <1>2, <1>4, <1>5, <1>6
     DEF NamesInv, NamesStored, NamesOpen, NamesAgree, NamelessTmp, NameTasks,
         NamesFound, NamesTaken

LEMMA NamesNext ==
  ASSUME PlainUse, RefinementInv, NamesInv, ~Refused, [Next]_vars
  PROVE  RefinementInv' /\ NamesInv'
<1>1. RefinementInv'
  BY RefinementNext
<1>2. NamesStored' /\ NamesOpen' /\ NamesAgree'
  BY <1>1, NamesStayApart
<1>3. NamelessTmp'
  BY NamelessStays
<1>4. NameTasks'
  BY <1>1, NameTasksStay
<1>5. NamesFound'
  BY <1>1, FoundStays
<1>6. NamesTaken'
  BY <1>1, TakenStays
<1>7. QED
  BY <1>1, <1>2, <1>3, <1>4, <1>5, <1>6 DEF NamesInv

LEMMA AtMostOne ==
  ASSUME NEW S, \A x, y \in S : x = y
  PROVE  Cardinality(S) <= 1
<1>1. CASE S = {}
  BY <1>1, FS_EmptySet
<1>2. CASE S # {}
  <2>1. PICK x \in S : S = {x}
    BY <1>2
  <2>2. QED
    BY <2>1, FS_Singleton
<1>3. QED
  BY <1>1, <1>2

LEMMA NamesAgreed ==
  ASSUME RefinementInv, NamesInv
  PROVE  OneFilePerName
<1>1. TypeOK /\ Numbered /\ NumbersSuffice
  BY DEF RefinementInv, BaseInv, NumbersInv
<1>2. SUFFICES ASSUME NEW n \in Names
      PROVE  /\ Cardinality({p \in LatestPages : inodeArea[p].name = n}) <= 1
             /\ Cardinality({h \in Handles : hs[h].open /\ hs[h].name = n}) <= 1
             /\ \A p \in {q \in LatestPages : inodeArea[q].name = n},
                   h \in {g \in Handles : hs[g].open /\ hs[g].name = n} :
                  inodeArea[p].ino = hs[h].ino
  BY DEF OneFilePerName
<1> DEFINE stored == {p \in LatestPages : inodeArea[p].name = n}
           opened == {h \in Handles : hs[h].open /\ hs[h].name = n}
<1>3. \A p \in stored : inodeArea[p].ino \in 1 .. MaxIno /\ StoredName(inodeArea[p].ino) = n
  BY <1>1, StoredNames
<1>4. \A p, q \in stored : p = q
  <2>1. TAKE p, q \in stored
  <2>2. inodeArea[p].ino = inodeArea[q].ino
    BY <1>2, <1>3 DEF NamesInv, NamesStored
  <2>3. QED
    BY <1>1, <2>2, OneLatest DEF LatestPages
<1>5. \A g, h \in opened : g = h
  BY <1>2 DEF NamesInv, NamesOpen
<1>6. \A p \in stored, h \in opened : inodeArea[p].ino = hs[h].ino
  BY <1>2, <1>3 DEF NamesInv, NamesAgree
<1>7. QED
  BY <1>4, <1>5, <1>6, AtMostOne

\* open() creates a file only when find_file() has not found its name, and
\* rename_file() deletes the file whose name it takes: for every number of
\* files, handles and names, and wherever power is lost in plain use, a
\* name belongs to one file as long as no flush is refused an inode page.  In
\* plain use no write() of several pages is refused after the first of them, so
\* that no lookup corrects, and rewrites, a file that is open.
THEOREM NamesStayUnique ==
  ASSUME PlainUse
  PROVE  Spec => NamesAreUnique
<1>1. Init => RefinementInv /\ NamesInv
  BY RefinementInit, NamesInit
<1>2. RefinementInv /\ NamesInv /\ ~Refused /\ [Next]_vars => RefinementInv' /\ NamesInv'
  BY NamesNext
<1>3. RefinementInv /\ NamesInv => OneFilePerName
  BY NamesAgreed
<1>4. QED
  BY <1>1, <1>2, <1>3, PTL DEF Spec, NamesAreUnique
=============================================================================
