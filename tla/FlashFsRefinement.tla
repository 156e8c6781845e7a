-------------------------- MODULE FlashFsRefinement --------------------------
(***************************************************************************)
(* FlashFs implements AtomicFiles: in plain use every step of the file     *)
(* system is a step of a store of files, or no step of it at all.          *)
(***************************************************************************)
EXTENDS FlashFsCommits

(***************************************************************************)
(* Only files with changes are written.                                    *)
(***************************************************************************)
\* Which action a task stands for.
LEMMA WorkByTask ==
  ASSUME Work
  PROVE  /\ todo # <<>>
         /\ Head(todo).t = "flush" => FlushNumber \/ FlushVersion
         /\ Head(todo).t = "zero" => WriteZeroPage
         /\ Head(todo).t \in {"meta", "metaNew"} => WriteMeta \/ WriteMetaFails
         /\ Head(todo).t = "erase" => ErasePage
BY DEF Work, WriteOn, WriteRefused, EnlargeStep, FlushNumber, FlushVersion,
   WriteZeroPage, WriteMeta, WriteMetaFails, ErasePage, Drop, Deleted, FindScan, Visit, OpenMissing, OpenFound,
   OpenTrunc, RemoveOther, RenameSelf, Clean, Correct, EraseOutdated, MountDone, Doing

LEMMA WritesChanges ==
  ASSUME TypeOK, Control, CommitsChanges, [Next]_vars
  PROVE  CommitsChanges'
<1>1. SUFFICES ASSUME NEW a \in Actors, Committing(a)' PROVE hs'[a].mod
  BY DEF CommitsChanges
<1>2. /\ todo' # <<>> /\ Head(todo').h = a
      /\ Head(todo').t \in {"zero", "meta", "metaNew"}
  BY <1>1 DEF Committing
<1>3. \/ Committing(a)
      \/ Doing("flush") /\ Actor = a
  BY <1>1, CommittingSteps
<1>4. todo # <<>> /\ Head(todo).h = a /\ Head(todo).t \in {"flush", "zero", "meta", "metaNew"}
  BY <1>3 DEF Committing, Doing, Actor
<1>5. CASE UNCHANGED vars
  <2>1. Committing(a)
    BY <1>2, <1>5 DEF vars, Committing
  <2>2. QED
    BY <1>5, <2>1 DEF vars, CommitsChanges
<1>6. ~Call /\ ~MountScan /\ ~PowerLoss
  <2>1. ~Call
    BY <1>4, CallIdle
  <2>2. ~MountScan
    BY <1>2, Tuple1 DEF MountScan, On
  <2>3. ~PowerLoss
    BY <1>2 DEF PowerLoss
  <2>4. QED
    BY <2>1, <2>2, <2>3
<1>7. CASE Work
  <2>1. /\ hs \in [Actors -> Handle] /\ hs[a] \in Handle /\ Actor = a
        /\ todo \in Seq(Task)
    BY <1>4 DEF TypeOK, Actor
  <2>2. Head(todo).t # "zero" => todo' # Tail(todo)
    <3>1. SUFFICES ASSUME Head(todo).t # "zero", todo' = Tail(todo) PROVE FALSE
      OBVIOUS
    <3>2. Tail(todo) # <<>> /\ Head(todo).t \in FlushKinds \ {"zero"}
      BY <1>2, <1>4, <3>1 DEF FlushKinds
    <3>3. \/ Head(Tail(todo)).t \in {"drop", "mount", "deleted"}
          \/ Tail(todo) = <<On("flush", Tmp), On("drop", Tmp)>>
      BY <1>4, <3>2, AfterTask
    <3>4. Head(<<On("flush", Tmp), On("drop", Tmp)>>).t = "flush"
      BY Tuple2 DEF On
    <3>5. QED
      BY <1>2, <3>1, <3>3, <3>4
  <2>3. CASE Head(todo).t = "flush"
    <3>1. FlushNumber \/ FlushVersion
      BY <1>7, <2>3, WorkByTask
    <3>2. CASE FlushNumber
      <4>1. hs[a].mod /\ hs' = [hs EXCEPT ![a].ino = maxIno + 1]
        BY <2>1, <2>2, <2>3, <3>2, Popped DEF FlushNumber, Doing
      <4>2. QED
        BY <2>1, <4>1 DEF Handle
    <3>3. CASE FlushVersion
      <4>1. hs[a].mod /\ (hs' = hs \/ \E page : hs' = [hs EXCEPT ![a].page = page,
                ![a].ver = NextVersion(@), ![a].del = {}])
        BY <2>1, <3>3 DEF FlushVersion
      <4>2. ASSUME NEW page, hs' = [hs EXCEPT ![a].page = page,
                       ![a].ver = NextVersion(@), ![a].del = {}]
            PROVE  hs'[a].mod
        <5> DEFINE v == NextVersion(hs[a].ver)
        <5>1. hs'[a] = [hs[a] EXCEPT !.page = page, !.ver = v, !.del = {}]
          BY <2>1, <4>2, Zenon
        <5> HIDE DEF v
        <5>2. QED
          BY <2>1, <4>1, <5>1 DEF Handle
      <4>3. QED
        BY <4>1, <4>2
    <3>4. QED
      BY <3>1, <3>2, <3>3
  <2>4. CASE Head(todo).t \in {"zero", "meta", "metaNew"}
    <3>1. hs[a].mod
      BY <1>4, <2>4 DEF CommitsChanges, Committing
    <3>2. CASE WriteZeroPage
      <4>1. hs' = hs \/ \E k : hs' = [hs EXCEPT ![a].dp[k].new = FALSE]
        BY <2>1, <3>2 DEF WriteZeroPage
      <4>2. QED
        BY <2>1, <3>1, <4>1 DEF Handle
    <3>3. CASE WriteMetaFails
      BY <3>1, <3>3 DEF WriteMetaFails
    <3>4. ~WriteMeta
      <4>1. SUFFICES ASSUME WriteMeta PROVE FALSE
        OBVIOUS
      <4>2. \/ Then(<<>>)
            \/ Then(<<On("erase", Actor)>>)
        BY <4>1 DEF WriteMeta
      <4>3. CASE Then(<<>>)
        BY <1>4, <2>1, <2>2, <2>4, <4>1, <4>3, Popped DEF WriteMeta, Doing
      <4>4. CASE Then(<<On("erase", Actor)>>)
        <5>1. On("erase", a) \in Task /\ On("erase", a).t = "erase"
          BY OnTypes DEF On, TaskKinds
        <5>2. <<On("erase", a)>> \in Seq(Task) /\ <<On("erase", a)>> # <<>>
          BY <5>1
        <5>3. Head(todo') = Head(<<On("erase", a)>>)
          BY <1>4, <2>1, <4>4, <5>2, ThenHead
        <5>4. QED
          BY <1>2, <5>1, <5>3, Tuple1
      <4>5. QED
        BY <4>2, <4>3, <4>4
    <3>5. QED
      BY <1>7, <2>4, <3>2, <3>3, <3>4, WorkByTask
  <2>5. QED
    BY <1>4, <2>3, <2>4
<1> QED BY <1>5, <1>6, <1>7 DEF Next

(***************************************************************************)
(* There are numbers left for the files that are going to need one.        *)
(***************************************************************************)
\* Only find_file() leads to the task that opens or deletes what it has found.
LEMMA SearchSteps ==
  ASSUME TypeOK, Control, PagesInv, Work, todo' # <<>>,
         Head(todo').t \in OpenModes \cup {"find", "visit", "removeOther"}
  PROVE  FindScan \/ Visit
<1>1. /\ todo # <<>> /\ todo \in Seq(Task) /\ Tail(todo) \in Seq(Task)
      /\ Actor \in Actors /\ Head(todo).n \in FileNames /\ Head(todo).h \in Actors
  BY WorkByTask, HeadType DEF TypeOK
<1>2. /\ \A t, h : On(t, h).t = t
      /\ \A t, h, n : OnName(t, h, n).t = t
  BY TaskParts
<1>3. Tmp \in Actors /\ Handles \subseteq Actors
  BY DEF Actors
<1>4. ASSUME NEW x \in Task, NEW r \in Seq(Task), Then(<<x>> \o r)
      PROVE  Head(todo') = x
  <2>1. <<x>> \o r \in Seq(Task) /\ <<x>> \o r # <<>> /\ Head(<<x>> \o r) = x
    BY <1>4, Stacks
  <2>2. QED
    BY <1>1, <1>4, <2>1, ThenHead
<1>5. ASSUME NEW x \in Task, \/ Then(<<x>>)
                             \/ \E y \in Task : Then(<<x, y>>)
                             \/ \E y, z \in Task : Then(<<x, y, z>>)
      PROVE  Head(todo') = x
  <2>1. CASE Then(<<x>>)
    <3>1. <<x>> \in Seq(Task) /\ <<x>> # <<>> /\ Head(<<x>>) = x
      BY Tuple1
    <3>2. QED
      BY <1>1, <2>1, <3>1, ThenHead
  <2>2. ASSUME NEW y \in Task, Then(<<x, y>>)
        PROVE  Head(todo') = x
    <3>1. <<x, y>> \in Seq(Task) /\ <<x, y>> # <<>> /\ Head(<<x, y>>) = x
      BY Tuple2
    <3>2. QED
      BY <1>1, <2>2, <3>1, ThenHead
  <2>3. ASSUME NEW y \in Task, NEW z \in Task, Then(<<x, y, z>>)
        PROVE  Head(todo') = x
    <3>1. <<x, y, z>> \in Seq(Task) /\ <<x, y, z>> # <<>> /\ Head(<<x, y, z>>) = x
      BY Tuple3
    <3>2. QED
      BY <1>1, <2>3, <3>1, ThenHead
  <2>4. QED
    BY <1>5, <2>1, <2>2, <2>3
<1>6. \A t \in TaskKinds, h \in Actors : On(t, h) \in Task
  BY OnTypes
<1>7. Then(<<>>) => todo' = Tail(todo)
  BY <1>1, Popped
<1>8. ASSUME FlushWork PROVE FALSE
  <2>1. Head(todo).t \in FlushKinds
    BY <1>8, FlushFrame
  <2>2. todo' # todo
    BY <2>1 DEF FlushKinds, OpenModes
  <2>3. Then(<<>>) \/ Then(<<On("erase", Actor)>>)
          \/ Then(<<On("zero", Actor), On("meta", Actor)>>)
          \/ Then(<<On("zero", Actor), On("metaNew", Actor)>>)
    BY <1>8, <2>2 DEF FlushWork, FlushNumber, FlushVersion, WriteZeroPage, WriteMeta,
                      WriteMetaFails, ErasePage
  <2>4. todo' = Tail(todo)
    <3>1. /\ On("erase", Actor) \in Task /\ On("zero", Actor) \in Task
          /\ On("meta", Actor) \in Task /\ On("metaNew", Actor) \in Task
      BY <1>1, <1>6 DEF TaskKinds
    <3>2. \/ Then(<<>>)
          \/ Head(todo') = On("erase", Actor)
          \/ Head(todo') = On("zero", Actor)
      BY <1>5, <2>3, <3>1
    <3>3. QED
      BY <1>2, <1>7, <3>2 DEF OpenModes
  <2>5. Head(<<On("flush", Tmp), On("drop", Tmp)>>).t = "flush"
    BY <1>2, Tuple2
  <2>6. QED
    BY <1>1, <2>1, <2>4, <2>5, AfterTask DEF FlushKinds, OpenModes
<1>9. ASSUME Drop \/ Deleted \/ MountDone \/ Correct
      PROVE  FALSE
  <2>1. todo' = Tail(todo) /\ Head(todo).t \in {"drop", "deleted", "mount", "correct"}
    <3>1. Correct => Then(<<>>) /\ Doing("correct")
      BY PlainCorrect DEF PagesInv
    <3>2. QED
      BY <1>7, <1>9, <3>1 DEF Drop, Deleted, MountDone, Doing
  <2>2. PlainTasks /\ Head(todo').t # "visit"
    BY <1>1, <2>1, PlainPop DEF PagesInv, Searches
  <2>3. Head(todo').t \in OpenModes \cup {"removeOther"}
    BY <1>1, <2>1, <2>2, AfterTask DEF FlushKinds, OpenModes
  <2>4. \/ Tail(todo) = <<>>
        \/ Head(Tail(todo)).t \in {"correct", "visit", "renameSelf"}
    BY <1>1, <1>2, <2>1, TaskPlaces, Tuple1, Tuple2, Tuple3
  <2>5. QED
    BY <2>1, <2>3, <2>4 DEF OpenModes
<1>10. ASSUME OpenMissing \/ OpenFound PROVE FALSE
  <2>1. todo' = Tail(todo) /\ Head(todo).t \in OpenModes
    BY <1>7, <1>10 DEF OpenMissing, OpenFound, Doing, OpenModes
  <2>2. Tail(todo) = <<>>
    BY <1>1, <2>1, TaskPlaces, Tuple1
  <2>3. QED
    BY <2>1, <2>2
<1>11. ASSUME OpenTrunc \/ RemoveOther \/ RenameSelf \/ EraseOutdated PROVE FALSE
  <2>1. /\ On("flush", Tmp) \in Task /\ On("drop", Tmp) \in Task
        /\ On("flush", Actor) \in Task /\ On("erase", Tmp) \in Task
        /\ On("deleted", Tmp) \in Task
        /\ OnName("renameSelf", Head(todo).h, Head(todo).n) \in Task
        /\ On("flush", Head(todo).h) \in Task
    <3>1. OnName("renameSelf", Head(todo).h, Head(todo).n) \in Task
      BY <1>1, TaskTypes DEF TaskKinds
    <3>2. QED
      BY <1>1, <1>3, <1>6, <3>1 DEF TaskKinds
  <2>2. Head(todo').t \in {"flush", "renameSelf", "erase"}
    <3>1. OpenTrunc => Head(todo').t = "flush"
      BY <1>2, <1>5, <2>1 DEF OpenTrunc
    <3>2. RenameSelf => Head(todo').t = "flush"
      BY <1>2, <1>5, <2>1 DEF RenameSelf
    <3>3. EraseOutdated => Head(todo').t = "erase"
      <4>1. SUFFICES ASSUME EraseOutdated PROVE Head(todo').t = "erase"
        OBVIOUS
      <4>2. todo' = <<On("erase", Tmp)>> \o todo
        BY <4>1 DEF EraseOutdated
      <4>3. Head(todo') = On("erase", Tmp)
        BY <1>1, <2>1, <4>2, Stacks
      <4>4. QED
        BY <1>2, <4>3
    <3>4. RemoveOther => Head(todo').t \in {"flush", "renameSelf"}
      <4> DEFINE self == OnName("renameSelf", Head(todo).h, Head(todo).n)
      <4>1. SUFFICES ASSUME RemoveOther PROVE Head(todo').t \in {"flush", "renameSelf"}
        OBVIOUS
      <4>2. <<On("flush", Tmp), On("deleted", Tmp)>> \o <<self>>
              = <<On("flush", Tmp), On("deleted", Tmp), self>>
        BY Join21
      <4>3. Then(<<On("flush", Tmp), On("deleted", Tmp)>> \o <<self>>) \/ Then(<<self>>)
        BY <4>1 DEF RemoveOther
      <4>4. Head(todo') = On("flush", Tmp) \/ Head(todo') = self
        BY <1>5, <2>1, <4>2, <4>3
      <4>5. QED
        BY <1>2, <4>4
    <3>5. QED
      BY <1>11, <3>1, <3>2, <3>3, <3>4
  <2>3. QED
    BY <2>2 DEF OpenModes
<1>12. ~WriteWork /\ ~EnlargeStep /\ ~Clean
  <2>1. Head(todo).t \notin Corrections
    BY <1>1, PlainTail DEF PagesInv
  <2>2. QED
    BY <2>1 DEF WriteWork, WriteOn, WriteRefused, EnlargeStep, Clean, Doing, Corrections
<1>13. QED
  BY <1>8, <1>9, <1>10, <1>11, <1>12 DEF Work, WriteWork, FlushWork

LEMMA SufficeKept ==
  ASSUME TypeOK, TypeOK', NumbersSuffice, maxIno' = maxIno,
         \A p \in ValidPages' : inodeArea'[p].ino <= MaxIno,
         Unnumbered' \subseteq Unnumbered,
         Creating' => Creating
  PROVE  NumbersSuffice'
<1>1. /\ IsFiniteSet(Unnumbered') /\ Cardinality(Unnumbered') <= Cardinality(Unnumbered)
      /\ Cardinality(Unnumbered') \in Nat /\ Cardinality(Unnumbered) \in Nat
  BY FS_Subset, FS_CardinalityType DEF NumbersSuffice
<1>2. maxIno \in Nat /\ MaxIno \in Nat
  BY BoundAssumption DEF TypeOK
<1>3. IsFiniteSet(Unnumbered)' /\ Cardinality(Unnumbered)' = Cardinality(Unnumbered')
  BY <1>1
<1>4. maxIno' + Cardinality(Unnumbered)' <= MaxIno
  BY <1>1, <1>2, <1>3 DEF NumbersSuffice
<1>5. Creating' => maxIno' + Cardinality(Unnumbered)' < MaxIno
  BY <1>1, <1>2, <1>3 DEF NumbersSuffice
<1>6. QED
  BY <1>3, <1>4, <1>5 DEF NumbersSuffice

LEMMA CallSuffices ==
  ASSUME TypeOK, TypeOK', NumbersSuffice, Call
  PROVE  NumbersSuffice'
<1>1. todo = <<>> /\ inodeArea' = inodeArea /\ maxIno' = maxIno
  BY CallIdle, CallFrame
<1>2. Unnumbered' = Unnumbered
  BY CallInos DEF Unnumbered, Actors
<1>3. /\ ValidPages' = ValidPages
      /\ \A p \in ValidPages' : inodeArea'[p].ino <= MaxIno
  BY <1>1 DEF ValidPages, Valid, NumbersSuffice
<1>4. CASE ~Creating'
  BY <1>1, <1>2, <1>3, <1>4, SufficeKept
<1>5. CASE Creating'
  <2>1. /\ todo' # <<>> /\ Head(todo').t \in OpenModes \cup {"find", "visit"}
    BY <1>5 DEF Creating, OpenModes
  <2>2. /\ \A k, x : On(k, x).t = k
        /\ \A k, x, n : OnName(k, x, n).t = k /\ OnName(k, x, n).n = n
        /\ \A k, x, n : OnSize(k, x, n).t = k
    BY DEF On, OnName, OnSize
  <2>3. \E h \in Handles, n \in Names :
          \/ \E mode \in {"openIn", "openOut", "openTrunc"} : Open(h, n, mode)
          \/ Rename(h, n)
    <3>1. \A h : Flush(h) \/ Close(h) \/ Delete(h) =>
            \E y : todo' \in {<<On("flush", h)>>, <<On("flush", h), y>>}
      BY DEF Flush, Close, Delete, Start
    <3>2. \A h \in Handles, k \in 1 .. MaxLen, v \in Vals : Write(h, k, v) =>
            todo' = <<>> \/ todo' = <<OnSize("write", h, k + 1)>>
      BY WriteCall
    <3>3. \A h, n : /\ Truncate(h, n) => todo' = todo
                    /\ Enlarge(h, n, "grow") => todo' = <<OnSize("grow", h, n)>>
                    /\ Enlarge(h, n, "seek") => todo' = <<OnSize("seek", h, n)>>
      BY DEF Truncate, Enlarge, Start
    <3>4. Cleanup \/ ListFiles => \/ \E y : todo' = <<On("clean", Tmp), y>>
                                  \/ todo' = <<On("correct", Tmp)>>
      BY DEF Cleanup, ListFiles, Start
    <3>5. ASSUME NEW x, \/ todo' = <<x>>
                        \/ \E y : todo' = <<x, y>>
          PROVE  Head(todo') = x
      BY <3>5, Tuple1, Tuple2
    <3>6. ~(Cleanup \/ ListFiles)
      <4>1. SUFFICES ASSUME Cleanup \/ ListFiles PROVE FALSE
        OBVIOUS
      <4>2. Head(todo') = On("clean", Tmp) \/ Head(todo') = On("correct", Tmp)
        BY <3>4, <3>5, <4>1
      <4>3. QED
        BY <2>1, <2>2, <4>2 DEF OpenModes
    <3>7. \A h : ~(Flush(h) \/ Close(h) \/ Delete(h))
      <4>1. SUFFICES ASSUME NEW h, Flush(h) \/ Close(h) \/ Delete(h) PROVE FALSE
        OBVIOUS
      <4>2. Head(todo') = On("flush", h)
        BY <3>1, <3>5, <4>1
      <4>3. QED
        BY <2>1, <2>2, <4>2 DEF OpenModes
    <3>8. \A h, n : ~(Truncate(h, n) \/ Enlarge(h, n, "grow") \/ Enlarge(h, n, "seek"))
      <4>1. SUFFICES ASSUME NEW h, NEW n,
                            Truncate(h, n) \/ Enlarge(h, n, "grow") \/ Enlarge(h, n, "seek")
                     PROVE  FALSE
        OBVIOUS
      <4>2. Head(todo') = OnSize("grow", h, n) \/ Head(todo') = OnSize("seek", h, n)
        BY <1>1, <2>1, <3>3, <3>5, <4>1
      <4>3. QED
        BY <2>1, <2>2, <4>2 DEF OpenModes
    <3>9. \A h \in Handles, k \in 1 .. MaxLen, v \in Vals : ~Write(h, k, v)
      <4>1. SUFFICES ASSUME NEW h \in Handles, NEW k \in 1 .. MaxLen, NEW v \in Vals,
                            Write(h, k, v)
                     PROVE  FALSE
        OBVIOUS
      <4>2. Head(todo') = OnSize("write", h, k + 1)
        BY <2>1, <3>2, <3>5, <4>1
      <4>3. QED
        BY <2>1, <2>2, <4>2 DEF OpenModes
    <3>10. QED
      BY <3>6, <3>7, <3>8, <3>9 DEF Call
  <2>4. PICK h \in Handles, n \in Names, how \in OpenModes \cup {"removeOther"} :
          /\ todo' = <<OnName("find", Tmp, n), OnName(how, h, n)>>
          /\ how \in OpenModes => how = "openIn" \/ Exists(n) \/ NumbersLeft
    BY <2>3 DEF Open, Rename, Start, OpenModes
  <2>5. Head(todo') = OnName("find", Tmp, n) /\ todo'[2] = OnName(how, h, n)
    BY <2>4, Tuple2
  <2>6. how \in {"openOut", "openTrunc"} /\ ~Exists(n)'
    BY <1>5, <2>2, <2>5 DEF Creating
  <2>7. Exists(n)' <=> Exists(n)
    BY <1>1 DEF Exists, Latest, ValidPages, Valid, Supersedes
  <2>8. NumbersLeft
    BY <2>4, <2>6, <2>7 DEF OpenModes
  <2>9. maxIno + Cardinality(Unnumbered) < MaxIno
    BY <2>8 DEF NumbersLeft, Unnumbered
  <2>10. QED
    BY <1>1, <1>2, <1>3, <2>9 DEF NumbersSuffice
<1>6. QED
  BY <1>4, <1>5

\* Only open() opens a handle of the user.
LEMMA OpenedBy ==
  ASSUME TypeOK, Work, NEW h \in Handles, ~hs[h].open, hs'[h].open
  PROVE  OpenMissing \/ OpenFound \/ OpenTrunc
<1>1. /\ hs \in [Actors -> Handle] /\ h \in Actors /\ h # Tmp /\ hs[h] \in Handle
      /\ Actor = Head(todo).h
  BY HandleAssumption DEF TypeOK, Actors, Actor
<1>2. ~FlushWork
  BY <1>1, FlushFrame
<1>3. ~WriteWork /\ ~EnlargeStep
  <2>1. SUFFICES ASSUME EnlargeStep PROVE FALSE
    <3>1. SUFFICES ASSUME WriteWork PROVE FALSE
      OBVIOUS
    <3>2. PICK g : /\ Relisted(hs[Head(todo).h], g)
                   /\ hs' = [hs EXCEPT ![Head(todo).h] = g]
      BY <3>1, WriteSteps
    <3>3. QED
      BY <1>1, <3>2 DEF Relisted
  <2>2. \/ hs' = hs
        \/ \E x : hs' = [hs EXCEPT ![Head(todo).h].dp = x]
        \/ hs' = [hs EXCEPT ![Head(todo).h].len = Head(todo).k, ![Head(todo).h].mod = TRUE]
    <3>1. ASSUME NEW page, hs' = [hs EXCEPT ![Head(todo).h].dp =
                                    Append(@, [id |-> page, new |-> TRUE])]
          PROVE  \E x : hs' = [hs EXCEPT ![Head(todo).h].dp = x]
      BY <3>1
    <3>2. QED
      BY <2>1, <3>1 DEF EnlargeStep
  <2>3. ASSUME NEW a, NEW x, hs' = [hs EXCEPT ![a].dp = x]
        PROVE  hs'[h].open = hs[h].open
    <3>1. hs'[h] = hs[h] \/ hs'[h] = [hs[h] EXCEPT !.dp = x]
      BY <1>1, <2>3
    <3>2. QED
      BY <1>1, <3>1 DEF Handle
  <2>4. ASSUME NEW a, NEW k, hs' = [hs EXCEPT ![a].len = k, ![a].mod = TRUE]
        PROVE  hs'[h].open = hs[h].open
    <3>1. hs'[h] = hs[h] \/ hs'[h] = [hs[h] EXCEPT !.len = k, !.mod = TRUE]
      BY <1>1, <2>4
    <3>2. QED
      BY <1>1, <3>1 DEF Handle
  <2>5. QED
    BY <2>2, <2>3, <2>4
<1>4. ~Drop /\ ~Deleted
  BY <1>1 DEF Drop, Deleted, NoHandle
<1>5. ~FindScan /\ ~Clean /\ ~EraseOutdated /\ ~MountDone
  BY DEF FindScan, Clean, EraseOutdated, MountDone
<1>6. ~Visit /\ ~Correct /\ ~RemoveOther
  BY <1>1 DEF Visit, Correct, RemoveOther
<1>7. ~RenameSelf
  <2>1. SUFFICES ASSUME RenameSelf PROVE FALSE
    OBVIOUS
  <2>2. hs' = [hs EXCEPT ![Head(todo).h].name = Head(todo).n, ![Head(todo).h].mod = TRUE]
    BY <2>1 DEF RenameSelf
  <2>3. \/ hs'[h] = hs[h]
        \/ hs'[h] = [hs[h] EXCEPT !.name = Head(todo).n, !.mod = TRUE]
    BY <1>1, <2>2
  <2>4. QED
    BY <1>1, <2>3 DEF Handle
<1>8. QED
  BY <1>2, <1>3, <1>4, <1>5, <1>6, <1>7 DEF Work, WriteWork, FlushWork

\* A lookup that is going to fail goes on like that.
LEMMA CreatingWork ==
  ASSUME TypeOK, Control, PagesInv, Work, Creating'
  PROVE  Creating /\ hs' = hs /\ maxIno' = maxIno
<1>1. FindScan \/ Visit
  BY SearchSteps DEF Creating, OpenModes
<1>2. /\ Head(todo).t \in {"find", "visit"} /\ ~hs[Tmp].open
      /\ \E h \in Handles, n \in Names, how \in OpenModes \cup {"removeOther"} :
           /\ hs[h].open <=> how = "removeOther"
           /\ todo = <<OnName(Head(todo).t, Tmp, n), OnName(how, h, n)>>
  <2> DEFINE t == Head(todo).t
  <2>1. todo # <<>> /\ t \in {"find", "visit"} /\ t = Head(todo).t
    BY <1>1 DEF FindScan, Visit, Doing
  <2>2. QED
    BY <2>1, TaskPlaces
<1>3. PICK h \in Handles, n \in Names, how \in OpenModes \cup {"removeOther"} :
        todo = <<OnName(Head(todo).t, Tmp, n), OnName(how, h, n)>>
  BY <1>2
<1>4. /\ todo # <<>> /\ Head(todo).n = n /\ todo[2] = OnName(how, h, n)
      /\ Tail(todo) = <<OnName(how, h, n)>>
      /\ n # NoName
  <2>1. Head(todo) = OnName(Head(todo).t, Tmp, n)
    BY <1>3, Tuple2
  <2>2. todo # <<>> /\ Tail(todo) = <<OnName(how, h, n)>>
    BY <1>3, Tuple2
  <2>3. todo[2] = OnName(how, h, n)
    BY <1>3
  <2>4. Head(todo).n = n
    BY <2>1 DEF OnName
  <2>5. n # NoName
    BY NameAssumption
  <2>6. QED
    BY <2>2, <2>3, <2>4, <2>5
<1>5. \A k, x : OnName(k, x, n).t = k /\ OnName(k, x, n).n = n
  BY DEF OnName
<1>6. CASE FindScan
  <2>1. /\ todo' = <<OnName("visit", Tmp, n)>> \o <<OnName(how, h, n)>>
        /\ scan' = VersionStore /\ hs' = hs /\ maxIno' = maxIno /\ inodeArea' = inodeArea
        /\ Head(todo).t = "find"
    BY <1>4, <1>6 DEF FindScan, Then, flash, Doing
  <2>2. todo' = <<OnName("visit", Tmp, n), OnName(how, h, n)>>
    BY <2>1, Join11
  <2>3. Head(todo') = OnName("visit", Tmp, n) /\ todo'[2] = OnName(how, h, n)
    BY <2>2, Tuple2
  <2>4. how \in {"openOut", "openTrunc"} /\ \A v \in scan' : inodeArea[v[2]].name # n
    BY <1>5, <2>1, <2>3 DEF Creating
  <2>5. ~Exists(n)
    <3>1. SUFFICES ASSUME NEW p \in InodePages, Latest(p), inodeArea[p].name = n
                   PROVE  FALSE
      BY DEF Exists
    <3>2. <<FirstPage(p), p>> \in scan'
      BY <2>1, <3>1 DEF VersionStore
    <3>3. QED
      BY <2>4, <3>1, <3>2
  <2>6. QED
    BY <1>4, <1>5, <2>1, <2>4, <2>5 DEF Creating
<1>7. CASE Visit
  <2>1. /\ Head(todo).t = "visit" /\ todo' = Tail(todo) /\ scan' = {}
        /\ maxIno' = maxIno /\ inodeArea' = inodeArea
        /\ hs' = hs \/ \E p \in InodePages : hs' = [hs EXCEPT ![Tmp] = Loaded(p)]
    <3>1. todo \in Seq(Task)
      BY DEF TypeOK
    <3>2. QED
      BY <1>4, <1>7, <3>1, PlainVisit, Popped DEF PagesInv, Doing
  <2>2. Head(todo') = OnName(how, h, n) /\ todo' # <<>>
    BY <1>4, <2>1, Tuple1
  <2>3. how \in {"openOut", "openTrunc"} /\ ~hs'[Tmp].open
    BY <1>5, <2>2 DEF Creating, OpenModes
  <2>4. hs' = hs
    <3>1. \A p \in InodePages : Loaded(p).open /\ Tmp \in Actors
      BY DEF Loaded, Actors
    <3>2. QED
      BY <2>1, <2>3, <3>1 DEF TypeOK
  <2>5. \A v \in scan : inodeArea[v[2]].name # n
    <3>1. {v \in scan : Matters(v[2], n)} = {}
      <4> DEFINE next == {v \in scan : Matters(v[2], n)}
      <4>1. SUFFICES ASSUME next # {} PROVE FALSE
        OBVIOUS
      <4>2. hs' = [hs EXCEPT ![Tmp] = Loaded(FirstOf(next)[2])]
        BY <1>4, <1>7, <4>1 DEF Visit
      <4>3. Loaded(FirstOf(next)[2]).open /\ Tmp \in Actors
        BY DEF Loaded, Actors
      <4>4. hs'[Tmp].open
        BY <4>2, <4>3 DEF TypeOK
      <4>5. QED
        BY <2>3, <4>4
    <3>2. \A v \in scan : Latest(v[2])
      BY <1>4, <2>1 DEF PagesInv, SearchesStored
    <3>3. \A v \in scan : Valid(v[2])
      BY <3>2 DEF Latest
    <3>4. QED
      BY <1>4, <3>1, <3>3 DEF Matters
  <2>6. QED
    BY <1>4, <1>5, <2>1, <2>3, <2>4, <2>5 DEF Creating
<1>8. QED
  BY <1>1, <1>6, <1>7

LEMMA NewFileSuffices ==
  ASSUME TypeOK, TypeOK', Control, PagesInv, NumbersSuffice, NumbersBounded', OpenMissing
  PROVE  NumbersSuffice'
<1> DEFINE task == Head(todo)
<1>1. /\ todo # <<>> /\ task.t \in OpenModes /\ ~hs[Tmp].open /\ up' = up
      /\ maxIno' = maxIno /\ inodeArea' = inodeArea
  BY DEF OpenMissing, Doing, OpenModes, flash
<1>2. PICK h \in Handles : task.h = h /\ up = "up"
  <2>1. \E h \in Handles, n \in Names : todo = <<OnName(task.t, h, n)>> /\ up = "up"
    BY <1>1, TaskPlaces
  <2>2. ASSUME NEW h \in Handles, NEW n \in Names, todo = <<OnName(task.t, h, n)>>
        PROVE  task.h = h
    <3>1. task = OnName(task.t, h, n)
      BY <2>2, Tuple1
    <3>2. QED
      BY <3>1 DEF OnName
  <2>3. QED
    BY <2>1, <2>2
<1>3. \/ hs' = hs
      \/ /\ task.t \in {"openOut", "openTrunc"}
         /\ \E f : hs' = [hs EXCEPT ![h] = f]
  BY <1>1, <1>2 DEF OpenMissing, NewHandle, OpenModes
<1>4. ~Creating'
  <2>1. SUFFICES ASSUME Creating' PROVE FALSE
    OBVIOUS
  <2>2. Work
    BY DEF Work
  <2>3. FindScan \/ Visit
    BY <2>1, <2>2, SearchSteps DEF Creating, OpenModes
  <2>4. QED
    BY <1>1, <2>3 DEF FindScan, Visit, Doing, OpenModes
<1>5. \A p \in ValidPages' : inodeArea'[p].ino <= MaxIno
  BY <1>1 DEF ValidPages, Valid, NumbersSuffice
<1>6. CASE hs' = hs
  <2>1. Unnumbered' \subseteq Unnumbered
    BY <1>6 DEF Unnumbered
  <2>2. QED
    BY <1>1, <1>4, <1>5, <2>1, SufficeKept
<1>7. CASE hs' # hs
  <2>1. Unnumbered' \in SUBSET (Unnumbered \cup {h})
    BY <1>3, <1>7 DEF Unnumbered, TypeOK, Actors
  <2>2. maxIno + Cardinality(Unnumbered) < MaxIno
    BY <1>1, <1>3, <1>7 DEF NumbersSuffice, Creating
  <2>3. /\ IsFiniteSet(Unnumbered) /\ Cardinality(Unnumbered) \in Nat
        /\ IsFiniteSet(Unnumbered \cup {h})
        /\ Cardinality(Unnumbered \cup {h}) <= Cardinality(Unnumbered) + 1
    <3>1. IsFiniteSet(Unnumbered) /\ Cardinality(Unnumbered) \in Nat
      BY FS_CardinalityType DEF NumbersSuffice
    <3>2. QED
      BY <3>1, FS_AddElement
  <2>4. /\ IsFiniteSet(Unnumbered')
        /\ Cardinality(Unnumbered') <= Cardinality(Unnumbered \cup {h})
        /\ Cardinality(Unnumbered') \in Nat
    <3>1. /\ IsFiniteSet(Unnumbered')
          /\ Cardinality(Unnumbered') <= Cardinality(Unnumbered \cup {h})
      BY <2>1, <2>3, FS_Subset
    <3>2. QED
      BY <3>1, FS_CardinalityType
  <2>5. Cardinality(Unnumbered \cup {h}) \in Nat
    BY <2>3, FS_CardinalityType
  <2>6. maxIno' + Cardinality(Unnumbered') <= MaxIno
    BY <1>1, <2>2, <2>3, <2>4, <2>5, BoundAssumption DEF TypeOK
  <2>7. QED
    BY <1>4, <1>5, <2>4, <2>6 DEF NumbersSuffice
<1>8. QED
  BY <1>6, <1>7

LEMMA NumberSuffices ==
  ASSUME TypeOK, TypeOK', Control, Numbered, PagesInv, NumbersSuffice,
         FlushNumber, hs[Actor].mod
  PROVE  NumbersSuffice'
<1> DEFINE h == Actor
<1>1. /\ todo # <<>> /\ Head(todo).t = "flush" /\ hs[h].ino = 0
      /\ hs' = [hs EXCEPT ![h].ino = maxIno + 1] /\ maxIno' = maxIno + 1
      /\ inodeArea' = inodeArea /\ Actor \in Actors
  BY HeadType DEF FlushNumber, Doing, flash, TypeOK
<1> HIDE DEF h
<1>2. /\ hs \in [Actors -> Handle] /\ h \in Actors /\ hs[h] \in Handle /\ maxIno \in Nat
      /\ maxIno' \in Nat /\ MaxIno \in Nat
  BY <1>1, BoundAssumption DEF TypeOK, h
<1>3. hs[h].open
  BY <1>2, NoHandleParts DEF PagesInv, HandleLists, h
<1>4. h \in Handles
  BY <1>1, <1>2, <1>3 DEF Numbered, Actors
<1>5. Unnumbered' \in SUBSET (Unnumbered \ {h})
  <2>1. hs'[h].ino = maxIno + 1 /\ \A b \in Actors \ {h} : hs'[b] = hs[b]
    BY <1>1, <1>2 DEF Handle
  <2>2. maxIno + 1 # 0
    BY <1>2
  <2>3. QED
    BY <2>1, <2>2 DEF Unnumbered, Actors
<1>6. h \in Unnumbered
  BY <1>1, <1>3, <1>4 DEF Unnumbered
<1>7. /\ IsFiniteSet(Unnumbered) /\ Cardinality(Unnumbered) \in Nat
      /\ IsFiniteSet(Unnumbered \ {h})
      /\ Cardinality(Unnumbered \ {h}) = Cardinality(Unnumbered) - 1
      /\ Cardinality(Unnumbered \ {h}) \in Nat
  <2>1. IsFiniteSet(Unnumbered)
    BY DEF NumbersSuffice
  <2>2. /\ IsFiniteSet(Unnumbered \ {h})
        /\ Cardinality(Unnumbered \ {h}) = Cardinality(Unnumbered) - 1
    BY <1>6, <2>1, FS_RemoveElement
  <2>3. QED
    BY <2>1, <2>2, FS_CardinalityType
<1>8. /\ IsFiniteSet(Unnumbered')
      /\ Cardinality(Unnumbered') <= Cardinality(Unnumbered \ {h})
      /\ Cardinality(Unnumbered') \in Nat
  <2>1. /\ IsFiniteSet(Unnumbered')
        /\ Cardinality(Unnumbered') <= Cardinality(Unnumbered \ {h})
    BY <1>5, <1>7, FS_Subset
  <2>2. QED
    BY <2>1, FS_CardinalityType
<1>9. maxIno' + Cardinality(Unnumbered') <= MaxIno
  BY <1>1, <1>2, <1>7, <1>8 DEF NumbersSuffice
<1>10. \A p \in ValidPages' : inodeArea'[p].ino <= MaxIno
  BY <1>1 DEF ValidPages, Valid, NumbersSuffice
<1>11. ~Creating'
  <2>1. SUFFICES ASSUME Creating' PROVE FALSE
    OBVIOUS
  <2>2. Work
    BY DEF Work
  <2>3. FindScan \/ Visit
    BY <2>1, <2>2, SearchSteps DEF Creating, OpenModes
  <2>4. QED
    BY <1>1, <2>3 DEF FindScan, Visit, Doing
<1>12. QED
  BY <1>8, <1>9, <1>10, <1>11 DEF NumbersSuffice

\* Losing the power tears a page at most that nothing valid was on.
LEMMA LossTears ==
  ASSUME TypeOK, PagesInv, PowerLoss \/ MountScan
  PROVE  /\ dataArea' = dataArea
         /\ ValidPages' = ValidPages
         /\ \A p \in InodePages : /\ Valid(p)' <=> Valid(p)
                                  /\ Valid(p) => inodeArea'[p] = inodeArea[p]
<1>1. CASE inodeArea' = inodeArea
  BY <1>1 DEF PowerLoss, MountScan, flash, ValidPages, Valid
<1>2. CASE inodeArea' # inodeArea
  <2>1. /\ PowerLoss /\ dataArea' = dataArea
        /\ todo # <<>> /\ Head(todo).t \in {"meta", "metaNew"}
        /\ inodeArea' = [inodeArea EXCEPT ![hs[Actor].page] = Torn]
        /\ Actor \in Actors
    BY <1>2, HeadType DEF PowerLoss, MountScan, flash, Doing, TypeOK
  <2>2. Committing(Actor)
    BY <2>1 DEF Committing, Actor
  <2>3. ~Valid(hs[Actor].page)
    BY <2>1, <2>2 DEF PagesInv, CommitsToFresh
  <2>4. QED
    BY <2>1, <2>3 DEF ValidPages, Valid, TypeOK
<1>3. QED
  BY <1>1, <1>2

LEMMA SufficeNext ==
  ASSUME BaseInv, BaseInv', PagesInv, NumbersSuffice, [Next]_vars
  PROVE  NumbersSuffice'
<1>1. /\ TypeOK /\ TypeOK' /\ Control /\ Numbered /\ NumbersBounded /\ NumbersBounded'
      /\ PoweredOff
  BY DEF BaseInv, NumbersInv
<1>2. maxIno \in Nat /\ maxIno' \in Nat /\ MaxIno \in Nat
  BY <1>1, BoundAssumption DEF TypeOK
<1>3. CASE Call
  BY <1>1, <1>3, CallSuffices
<1>4. CASE Work
  <2>1. CASE OpenMissing
    BY <1>1, <2>1, NewFileSuffices
  <2>2. CASE FlushNumber /\ hs[Actor].mod
    BY <1>1, <2>2, NumberSuffices
  <2>3. CASE ~OpenMissing /\ ~(FlushNumber /\ hs[Actor].mod)
    <3>1. maxIno' = maxIno
      BY <1>4, <2>3 DEF Work, WriteOn, WritePage, WriteFresh, WriteWhole, WritePart,
         WriteRefused, EnlargeStep, FlushNumber, FlushVersion, WriteZeroPage,
         WriteMeta, WriteMetaFails, ErasePage, Drop, Deleted, FindScan, Visit,
         OpenFound, OpenTrunc, RemoveOther, RenameSelf, Clean, Correct, EraseOutdated,
         MountDone, alloc
    <3>2. up' # "off"
      BY <1>1, <1>4, Running
    <3>3. maxIno <= MaxIno
      <4>1. Cardinality(Unnumbered) \in Nat
        BY FS_CardinalityType DEF NumbersSuffice
      <4>2. QED
        BY <1>2, <4>1 DEF NumbersSuffice
    <3>4. \A p \in ValidPages' : inodeArea'[p].ino <= MaxIno
      <4>1. SUFFICES ASSUME NEW p \in ValidPages' PROVE inodeArea'[p].ino <= MaxIno
        OBVIOUS
      <4>2. inodeArea'[p].ino <= maxIno'
        BY <1>1, <3>2 DEF NumbersBounded
      <4>3. inodeArea'[p] \in Inode
        BY <1>1, <4>1 DEF TypeOK, ValidPages, Valid
      <4>4. inodeArea'[p].ino \in Nat
        BY <4>3 DEF Inode
      <4>5. QED
        BY <1>2, <3>1, <3>3, <4>2, <4>4
    <3>5. Unnumbered' \subseteq Unnumbered
      <4>1. SUFFICES ASSUME NEW h \in Handles, hs'[h].open, hs'[h].ino = 0
                     PROVE  hs[h].open /\ hs[h].ino = 0
        BY DEF Unnumbered
      <4>2. InoFrom(h)
        BY <1>1, <1>4, <4>1, InoSteps DEF Actors
      <4>3. maxIno + 1 # 0
        BY <1>2
      <4>4. CASE ~hs[h].open
        <5>1. OpenFound \/ OpenTrunc
          BY <1>1, <1>4, <2>3, <4>1, <4>4, OpenedBy
        <5>2. /\ hs[Tmp].open /\ todo # <<>> /\ Head(todo).t \in OpenModes
              /\ hs \in [Actors -> Handle] /\ h \in Actors /\ Tmp \in Actors /\ h # Tmp
          BY <1>1, <5>1, HandleAssumption DEF OpenFound, OpenTrunc, Doing, OpenModes,
                                              TypeOK, Actors
        <5>3. hs[Tmp].ino # 0
          BY <1>1, <5>2 DEF Numbered
        <5>4. hs'[h].ino = hs[Tmp].ino
          <6>1. CASE OpenFound
            BY <4>1, <4>4, <5>2, <6>1 DEF OpenFound
          <6>2. CASE OpenTrunc
            <7> DEFINE g(page) == [[NoHandle EXCEPT !.ino = hs[Tmp].ino,
                          !.ver = hs[Tmp].ver, !.name = hs[Tmp].name]
                             EXCEPT !.open = TRUE, !.page = page]
            <7>1. hs' = hs \/ \E page : hs' = [hs EXCEPT ![Actor] = g(page)]
              BY <6>2 DEF OpenTrunc, NewHandle
            <7>2. \A page : g(page).ino = hs[Tmp].ino
              BY DEF NoHandle
            <7> HIDE DEF g
            <7>3. QED
              BY <4>1, <4>4, <5>2, <7>1, <7>2
          <6>3. QED
            BY <5>1, <6>1, <6>2
        <5>5. QED
          BY <4>1, <5>3, <5>4
      <4>5. QED
        BY <4>1, <4>2, <4>3, <4>4, HandleAssumption DEF InoFrom
    <3>6. Creating' => Creating
      BY <1>1, <1>4, CreatingWork
    <3>7. QED
      BY <1>1, <3>1, <3>4, <3>5, <3>6, SufficeKept
  <2>4. QED
    BY <2>1, <2>2, <2>3
<1>5. ASSUME PowerLoss \/ MountScan
      PROVE  NumbersSuffice'
  <2>1. \A h \in Handles : ~hs'[h].open
    BY <1>1, <1>5, NoHandleParts DEF PowerLoss, MountScan, Control, AllClosed, Actors
  <2>2. Unnumbered' = {}
    BY <2>1 DEF Unnumbered
  <2>3. /\ IsFiniteSet(Unnumbered') /\ Cardinality(Unnumbered') = 0
    BY <2>2, FS_EmptySet
  <2>4. /\ todo' = <<>> \/ todo' = <<On("mount", Tmp)>>
    BY <1>5 DEF PowerLoss, MountScan
  <2>5. ~Creating'
    <3>1. Head(<<On("mount", Tmp)>>).t = "mount"
      BY Tuple1 DEF On
    <3>2. QED
      BY <2>4, <3>1 DEF Creating
  <2>6. \A p \in ValidPages' : p \in ValidPages /\ inodeArea'[p] = inodeArea[p]
    BY <1>1, <1>5, LossTears DEF ValidPages
  <2>7. \A p \in ValidPages' : inodeArea'[p].ino <= MaxIno
    BY <2>6 DEF NumbersSuffice
  <2>8. maxIno' <= MaxIno
    <3>1. CASE PowerLoss
      BY <1>2, <3>1 DEF PowerLoss
    <3>2. CASE MountScan
      <4>1. CASE ValidPages = {}
        BY <1>2, <3>2, <4>1 DEF MountScan, HighestNumber
      <4>2. CASE ValidPages # {}
        <5> DEFINE S == {inodeArea[p].ino : p \in ValidPages}
        <5>1. S \in SUBSET Nat /\ S # {} /\ \A y \in S : y <= MaxIno
          <6>1. \A p \in ValidPages : inodeArea[p] \in Inode
            BY <1>1 DEF TypeOK, ValidPages, Valid
          <6>2. \A p \in ValidPages : inodeArea[p].ino \in Nat
            BY <6>1 DEF Inode
          <6>3. QED
            BY <4>2, <6>2 DEF NumbersSuffice
        <5>2. Greatest(S) \in S
          BY <1>2, <5>1, GreatestExists
        <5>3. maxIno' = Greatest(S)
          BY <3>2, <4>2 DEF MountScan, HighestNumber
        <5> HIDE DEF S
        <5>4. QED
          BY <5>1, <5>2, <5>3
      <4>3. QED
        BY <4>1, <4>2
    <3>3. QED
      BY <1>5, <3>1, <3>2
  <2>9. IsFiniteSet(Unnumbered)' /\ Cardinality(Unnumbered)' = 0
    BY <2>3
  <2>10. maxIno' + Cardinality(Unnumbered)' <= MaxIno
    <3>1. maxIno' \in Nat
      BY <1>2
    <3>2. Cardinality(Unnumbered)' = 0
      BY <2>9
    <3>3. \A m \in Nat : m <= MaxIno => m + 0 <= MaxIno
      BY BoundAssumption
    <3>4. QED
      BY <2>8, <3>1, <3>2, <3>3
  <2>11. \A p \in ValidPages' : (inodeArea[p].ino <= MaxIno)'
    BY <2>7
  <2>12. QED
    BY <2>5, <2>9, <2>10, <2>11 DEF NumbersSuffice
<1>6. CASE UNCHANGED vars
  <2>1. UNCHANGED <<inodeArea, maxIno, hs, todo, scan>>
    BY <1>6 DEF vars, flash, alloc, locals
  <2>2. Unnumbered' = Unnumbered
    BY <2>1 DEF Unnumbered
  <2>3. \A n : Exists(n)' <=> Exists(n)
    BY <2>1 DEF Exists, Latest, ValidPages, Valid, Supersedes
  <2>4. Creating' <=> Creating
    BY <2>1, <2>3 DEF Creating
  <2>5. QED
    BY <2>1, <2>2, <2>4 DEF NumbersSuffice, ValidPages, Valid
<1>7. QED
  BY <1>3, <1>4, <1>5, <1>6 DEF Next

(***************************************************************************)
(* The files a reader of the flash would find, and the drafts.             *)
(***************************************************************************)
Store  == [i \in 1 .. MaxIno |-> CurrentFile(i)]
Drafts == [h \in Actors |-> DraftOf(hs[h])]

\* the latest pages of file i, and the file that an inode s describes
At(i) == {p \in InodePages : Latest(p) /\ inodeArea[p].ino = i}

FileOf(s, data) == [name |-> s.name, content |-> [k \in 1 .. s.len |-> data[s.ids[k]]]]

\* the draft of a handle without new pages
PlainDraft(f, data) ==
  [open |-> f.open, ino |-> f.ino, name |-> f.name,
   content |-> [k \in 1 .. f.len |-> data[f.dp[k].id]], dirty |-> f.mod]

\* What a step does to one draft, and to the stored files.
OneDraft(h, d) == /\ Drafts' = [Drafts EXCEPT ![h] = d]
                  /\ Store' = Store

LEMMA CurrentIs ==
  ASSUME NEW i
  PROVE  CurrentFile(i) = IF At(i) = {} THEN [name |-> NoName, content |-> <<>>]
                          ELSE FileOf(inodeArea[CHOOSE p \in At(i) : TRUE], dataArea)
BY DEF CurrentFile, At, FileOf, ContentAt

LEMMA CurrentNext ==
  ASSUME NEW i
  PROVE  CurrentFile(i)' = IF At(i)' = {} THEN [name |-> NoName, content |-> <<>>]
                           ELSE FileOf(inodeArea'[CHOOSE p \in At(i)' : TRUE], dataArea')
BY DEF CurrentFile, At, FileOf, ContentAt

\* Where the latest pages and what they hold stay, the files stay.
LEMMA FileKept ==
  ASSUME TypeOK, StoredLists, NEW i, At(i)' = At(i),
         \A p \in At(i) : /\ inodeArea'[p] = inodeArea[p]
                          /\ \A d \in StoredPages(p) : dataArea'[d] = dataArea[d]
  PROVE  CurrentFile(i)' = CurrentFile(i)
<1>1. CASE At(i) = {}
  BY <1>1, CurrentIs, CurrentNext
<1>2. CASE At(i) # {}
  <2> DEFINE p == CHOOSE p \in At(i) : TRUE
             s == inodeArea[p]
  <2>1. p \in At(i)
    BY <1>2
  <2>2. /\ CurrentFile(i) = FileOf(s, dataArea)
        /\ CurrentFile(i)' = FileOf(inodeArea'[p], dataArea')
    BY <1>2, CurrentIs, CurrentNext
  <2> HIDE DEF p
  <2>3. p \in ValidPages /\ s \in Inode
    BY <2>1 DEF At, Latest, ValidPages, Valid, TypeOK
  <2>4. \A k \in 1 .. s.len : s.ids[k] \in StoredPages(p)
    BY <2>3 DEF StoredLists, StoredPages, PagesOf, Inode
  <2>5. FileOf(s, dataArea') = FileOf(s, dataArea)
    <3>1. \A k \in 1 .. s.len : dataArea'[s.ids[k]] = dataArea[s.ids[k]]
      BY <2>1, <2>4
    <3>2. QED
      BY <3>1 DEF FileOf
  <2>6. QED
    BY <2>1, <2>2, <2>5
<1>3. QED
  BY <1>1, <1>2

LEMMA StoreKept ==
  ASSUME TypeOK, StoredLists, LatestPages' = LatestPages,
         \A p \in LatestPages : /\ inodeArea'[p] = inodeArea[p]
                                /\ \A d \in StoredPages(p) : dataArea'[d] = dataArea[d]
  PROVE  Store' = Store
<1>1. ASSUME NEW i PROVE CurrentFile(i)' = CurrentFile(i)
  <2>1. \A p \in InodePages : Latest(p)' <=> Latest(p)
    BY DEF LatestPages
  <2>2. \A p \in InodePages : Latest(p) => p \in LatestPages
    BY DEF LatestPages
  <2>3. At(i)' = At(i)
    BY <2>1, <2>2 DEF At
  <2>4. \A p \in At(i) : p \in LatestPages
    BY <2>2 DEF At
  <2>5. QED
    BY <2>3, <2>4, FileKept
<1>2. QED
  BY <1>1 DEF Store

\* Drafts, in a state and in the next one.
LEMMA DraftsAre ==
  ASSUME HandleLists, HandleLists'
  PROVE  \A a \in Actors : /\ Drafts[a] = PlainDraft(hs[a], dataArea)
                           /\ Drafts'[a] = PlainDraft(hs'[a], dataArea')
<1>1. SUFFICES ASSUME NEW a \in Actors
               PROVE  /\ Drafts[a] = PlainDraft(hs[a], dataArea)
                      /\ Drafts'[a] = PlainDraft(hs'[a], dataArea')
  OBVIOUS
<1>2. Drafts[a] = DraftOf(hs[a]) /\ Drafts'[a] = DraftOf(hs[a])'
  BY DEF Drafts
<1>3. /\ \A k \in 1 .. hs[a].len : ~hs[a].dp[k].new
      /\ \A k \in 1 .. hs'[a].len : ~hs'[a].dp[k].new
  BY DEF HandleLists
<1>4. ReadBack(hs[a]) = [k \in 1 .. hs[a].len |-> dataArea[hs[a].dp[k].id]]
  BY <1>3 DEF ReadBack
<1>5. ReadBack(hs[a])' = [k \in 1 .. hs'[a].len |-> dataArea'[hs'[a].dp[k].id]]
  BY <1>3 DEF ReadBack
<1>6. QED
  BY <1>2, <1>4, <1>5 DEF DraftOf, PlainDraft

(***************************************************************************)
(* The actions of the abstract store, over Drafts and Store.               *)
(***************************************************************************)
Stays == Store' = Store /\ Drafts' = Drafts

LEMMA AbstractStays ==
  ASSUME Stays
  PROVE  [Abstract!Next]_(<<Store, Drafts>>)
BY DEF Stays

LEMMA AbstractEdits ==
  ASSUME NEW h \in Actors, Drafts[h].open
  PROVE  /\ \A vs :
              OneDraft(h, [Drafts[h] EXCEPT
                   !.content = [j \in 1 .. Len(@) \cup DOMAIN vs |->
                                  IF j \in DOMAIN vs THEN vs[j] ELSE @[j]],
                   !.dirty = TRUE])
              => Abstract!Overwrite(h, vs)
         /\ \A n \in 0 .. MaxLen :
              OneDraft(h, [Drafts[h] EXCEPT
                   !.content = [j \in 1 .. n |-> IF j <= Len(@) THEN @[j] ELSE Zero],
                   !.dirty = TRUE])
              => Abstract!Resize(h, n)
         /\ \A n \in Names :
              OneDraft(h, [Drafts[h] EXCEPT !.name = n, !.dirty = TRUE])
              => Abstract!Retitle(h, n)
         /\ OneDraft(h, [Drafts[h] EXCEPT !.name = NoName, !.content = <<>>, !.dirty = TRUE])
              => Abstract!Discard(h)
         /\ OneDraft(h, Abstract!Closed) => Abstract!Close(h)
<1> DEFINE d == Drafts[h]
<1>1. ASSUME NEW n \in 0 .. MaxLen,
             OneDraft(h, [d EXCEPT
               !.content = [j \in 1 .. n |-> IF j <= Len(@) THEN @[j] ELSE Zero],
               !.dirty = TRUE])
      PROVE  Abstract!Resize(h, n)
  <2> DEFINE fill == [j \in 1 .. n |-> Zero]
  <2>1. fill \in Abstract!Fillings(n)
    BY ValueAssumption DEF Abstract!Fillings
  <2>2. [j \in 1 .. n |-> IF j <= Len(d.content) THEN d.content[j] ELSE Zero]
          = [j \in 1 .. n |-> IF j <= Len(d.content) THEN d.content[j] ELSE fill[j]]
    OBVIOUS
  <2>3. QED
    BY <1>1, <2>1, <2>2 DEF OneDraft, Drafts, Store, Abstract!Resize, Abstract!Becomes
<1>2. \A vs :
        OneDraft(h, [d EXCEPT
          !.content = [j \in 1 .. Len(@) \cup DOMAIN vs |->
                         IF j \in DOMAIN vs THEN vs[j] ELSE @[j]],
          !.dirty = TRUE])
        => Abstract!Overwrite(h, vs)
  BY DEF OneDraft, Drafts, Store, Abstract!Overwrite, Abstract!Becomes
<1>3. QED
  BY <1>1, <1>2 DEF OneDraft, Drafts, Store, Abstract!Retitle, Abstract!Discard,
     Abstract!Close, Abstract!Becomes

LEMMA AbstractOpens ==
  ASSUME NEW h \in Actors, ~Drafts[h].open
  PROVE  /\ \A n \in Names :
              OneDraft(h, [Abstract!Closed EXCEPT !.open = TRUE, !.name = n, !.dirty = TRUE])
              => Abstract!Create(h, n)
         /\ \A i \in 1 .. MaxIno :
              /\ Store[i].name # NoName
              /\ OneDraft(h, [open |-> TRUE, ino |-> i, name |-> Store[i].name,
                              content |-> Store[i].content, dirty |-> FALSE])
              => Abstract!Load(h, i)
         /\ \A g \in Actors :
              /\ Drafts[g].open
              /\ Drafts' = [Drafts EXCEPT ![h] = Drafts[g], ![g] = Abstract!Closed]
              /\ Store' = Store
              => Abstract!HandOver(g, h)
         /\ \A g \in Actors :
              /\ Drafts[g].open
              /\ OneDraft(h, [Drafts[g] EXCEPT !.content = <<>>, !.dirty = FALSE])
              => Abstract!StartOver(g, h)
BY DEF OneDraft, Drafts, Store, Abstract!Create, Abstract!Load, Abstract!HandOver,
       Abstract!StartOver, Abstract!Becomes

LEMMA AbstractFlushes ==
  ASSUME NEW h \in Actors, Drafts[h].dirty
  PROVE  /\ \A i \in 1 .. MaxIno :
              /\ Drafts[h].open /\ Drafts[h].ino = 0
              /\ Store[i] = Abstract!NoFile
              /\ \A g \in Actors : Drafts[g].ino # i
              /\ OneDraft(h, [Drafts[h] EXCEPT !.ino = i])
              => Abstract!Number(h, i)
         /\ /\ Drafts[h].ino # 0
            /\ Store' = [Store EXCEPT ![Drafts[h].ino] =
                           [name |-> Drafts[h].name, content |-> Drafts[h].content]]
            /\ Drafts' = [Drafts EXCEPT ![h].dirty = FALSE]
            => Abstract!Commit(h)
BY DEF OneDraft, Drafts, Store, Abstract!Number, Abstract!Commit, Abstract!Becomes

LEMMA AbstractLoss ==
  ASSUME Store' = Store, Drafts' = [h \in Actors |-> Abstract!Closed]
  PROVE  Abstract!PowerLoss
BY DEF Drafts, Store, Abstract!PowerLoss

\* The steps that neither commit a draft nor start an empty one of an open file.
Edit ==
  \/ \E h \in Actors :
       \/ \E n \in Names : Abstract!Create(h, n) \/ Abstract!Retitle(h, n)
       \/ \E i \in 1 .. MaxIno : Abstract!Load(h, i) \/ Abstract!Number(h, i)
       \/ \E g \in Actors : Abstract!HandOver(g, h)
       \/ \E j \in 1 .. Len(Drafts[h].content) + 1 :
            \E k \in j .. MaxLen : \E vs \in [j .. k -> Vals] : Abstract!Overwrite(h, vs)
       \/ \E n \in 0 .. MaxLen : Abstract!Resize(h, n)
       \/ Abstract!Discard(h) \/ Abstract!Close(h)
  \/ Abstract!PowerLoss

LEMMA AbstractActions ==
  /\ Edit => Abstract!Next
  /\ \A h \in Actors : Abstract!Commit(h) => Abstract!Next
  /\ \A g, h \in Actors : Abstract!StartOver(g, h) => Abstract!Next
BY DEF Edit, Drafts, Abstract!Next

LEMMA AbstractInit ==
  ASSUME Init
  PROVE  Abstract!Init
<1>1. \A i : CurrentFile(i) = Abstract!NoFile
  <2>1. \A p \in InodePages : ~Latest(p)
    BY DEF Init, Latest, Valid
  <2>2. \A i : At(i) = {}
    BY <2>1 DEF At
  <2>3. QED
    BY <2>2, CurrentIs DEF Abstract!NoFile
<1>2. \A h \in Actors : DraftOf(hs[h]) = Abstract!Closed
  <2>1. \A h \in Actors : hs[h] = NoHandle
    BY DEF Init
  <2>2. DraftOf(NoHandle) = Abstract!Closed
    <3>1. ReadBack(NoHandle) = <<>>
      <4>1. NoHandle.len = 0
        BY DEF NoHandle
      <4>2. ReadBack(NoHandle) = [k \in {} |-> IF NoHandle.dp[k].new THEN Zero
                                               ELSE dataArea[NoHandle.dp[k].id]]
        BY <4>1 DEF ReadBack
      <4>3. QED
        BY <4>2
    <3>2. QED
      BY <3>1 DEF DraftOf, NoHandle, Abstract!Closed
  <2>3. QED
    BY <2>1, <2>2
<1>3. QED
  BY <1>1, <1>2 DEF Abstract!Init

(***************************************************************************)
(* Steps that leave the stored inodes alone.                               *)
(***************************************************************************)
SameView(f, g) ==
  /\ g.open = f.open /\ g.ino = f.ino /\ g.name = f.name /\ g.mod = f.mod
  /\ g.len = f.len /\ \A k \in 1 .. f.len : g.dp[k].id = f.dp[k].id

LEMMA ViewKept ==
  ASSUME HandleLists, HandleLists', NEW a \in Actors, SameView(hs[a], hs'[a]),
         \A d \in HandlePages(hs[a]) : dataArea'[d] = dataArea[d]
  PROVE  Drafts'[a] = Drafts[a]
<1> DEFINE f == hs[a]
           g == hs'[a]
<1>1. Drafts[a] = PlainDraft(f, dataArea) /\ Drafts'[a] = PlainDraft(g, dataArea')
  BY DraftsAre
<1>2. \A k \in 1 .. f.len : f.dp[k].id \in HandlePages(f)
  BY DEF HandleLists, HandlePages
<1>3. \A k \in 1 .. f.len : dataArea'[g.dp[k].id] = dataArea[f.dp[k].id]
  BY <1>2 DEF SameView
<1>4. [k \in 1 .. g.len |-> dataArea'[g.dp[k].id]] = [k \in 1 .. f.len |-> dataArea[f.dp[k].id]]
  BY <1>3 DEF SameView
<1>5. QED
  BY <1>1, <1>4 DEF PlainDraft, SameView

LEMMA DraftsExcept ==
  ASSUME NEW h \in Actors, \A a \in Actors \ {h} : Drafts'[a] = Drafts[a]
  PROVE  Drafts' = [Drafts EXCEPT ![h] = Drafts'[h]]
BY DEF Drafts

\* A step on the handle h, whatever it does to h itself.
LEMMA OneHandle ==
  ASSUME TypeOK, PagesInv, PagesInv', NEW h \in Actors,
         inodeArea' = inodeArea,
         dataArea' = dataArea \/ up = "up",
         \A d \in DataPages : d \in freeData \/ dataArea'[d] = dataArea[d],
         \A a \in Actors \ {h} : SameView(hs[a], hs'[a])
  PROVE  /\ OneDraft(h, PlainDraft(hs'[h], dataArea'))
         /\ SameView(hs[h], hs'[h]) => Stays
<1>1. HandleLists /\ HandleLists' /\ StoredLists
  BY DEF PagesInv
<1>2. Store' = Store
  <2>1. LatestPages' = LatestPages
    BY DEF LatestPages, Latest, ValidPages, Valid, Supersedes
  <2>2. ASSUME NEW p \in LatestPages, NEW d \in StoredPages(p)
        PROVE  dataArea'[d] = dataArea[d]
    <3>1. p \in ValidPages /\ inodeArea[p] \in Inode
      BY DEF LatestPages, Latest, ValidPages, Valid, TypeOK
    <3>2. d \in DataPages
      BY <3>1, PagesTypes DEF StoredPages
    <3>3. up = "up" => d \notin freeData
      BY <3>1 DEF PagesInv, FreeIsUnused
    <3>4. QED
      BY <3>2, <3>3
  <2>3. QED
    BY <1>1, <2>1, <2>2, StoreKept
<1>3. \A a \in Actors : \A d \in HandlePages(hs[a]) : dataArea'[d] = dataArea[d]
  <2>1. SUFFICES ASSUME NEW a \in Actors, NEW d \in HandlePages(hs[a])
                 PROVE  dataArea'[d] = dataArea[d]
    OBVIOUS
  <2>2. d \in DataPages
    BY PagesTypes DEF TypeOK
  <2>3. d \notin freeData
    BY DEF PagesInv, FreeIsUnused
  <2>4. QED
    BY <2>2, <2>3
<1>4. \A a \in Actors : SameView(hs[a], hs'[a]) => Drafts'[a] = Drafts[a]
  BY <1>1, <1>3, ViewKept
<1>5. Drafts'[h] = PlainDraft(hs'[h], dataArea')
  BY <1>1, DraftsAre
<1>6. Drafts' = [Drafts EXCEPT ![h] = Drafts'[h]]
  BY <1>4, DraftsExcept
<1>7. OneDraft(h, PlainDraft(hs'[h], dataArea'))
  BY <1>2, <1>5, <1>6 DEF OneDraft
<1>8. SameView(hs[h], hs'[h]) => Stays
  <2>1. SUFFICES ASSUME SameView(hs[h], hs'[h]) PROVE Stays
    OBVIOUS
  <2>2. \A a \in Actors : Drafts'[a] = Drafts[a]
    BY <1>4, <2>1
  <2>3. Drafts' = Drafts
    BY <2>2 DEF Drafts
  <2>4. QED
    BY <1>2, <2>3 DEF Stays
<1>9. QED
  BY <1>7, <1>8

\* A draft of which some parts are replaced.
Draft(o, i, n, c, b) == [open |-> o, ino |-> i, name |-> n, content |-> c, dirty |-> b]

Filled(d, c, b)     == [d EXCEPT !.content = c, !.dirty = b]
Titled(d, n, b)     == [d EXCEPT !.name = n, !.dirty = b]
Swapped(d, n, c, b) == [d EXCEPT !.name = n, !.content = c, !.dirty = b]

IsDraft(d) == d = Draft(d.open, d.ino, d.name, d.content, d.dirty)

LEMMA OneEdit ==
  ASSUME NEW d, IsDraft(d), NEW x
  PROVE  /\ [d EXCEPT !.open = x] = Draft(x, d.ino, d.name, d.content, d.dirty)
         /\ [d EXCEPT !.ino = x] = Draft(d.open, x, d.name, d.content, d.dirty)
         /\ [d EXCEPT !.name = x] = Draft(d.open, d.ino, x, d.content, d.dirty)
         /\ [d EXCEPT !.content = x] = Draft(d.open, d.ino, d.name, x, d.dirty)
         /\ [d EXCEPT !.dirty = x] = Draft(d.open, d.ino, d.name, d.content, x)
<1> DEFINE o == d.open
           i == d.ino
           n == d.name
           c == d.content
           b == d.dirty
<1>1. d = Draft(o, i, n, c, b)
  BY DEF IsDraft
<1> HIDE DEF o, i, n, c, b
<1>2. [d EXCEPT !.open = x] = Draft(x, i, n, c, b)
  BY <1>1 DEF Draft
<1>3. [d EXCEPT !.ino = x] = Draft(o, x, n, c, b)
  BY <1>1 DEF Draft
<1>4. [d EXCEPT !.name = x] = Draft(o, i, x, c, b)
  BY <1>1 DEF Draft
<1>5. [d EXCEPT !.content = x] = Draft(o, i, n, x, b)
  BY <1>1 DEF Draft
<1>6. [d EXCEPT !.dirty = x] = Draft(o, i, n, c, x)
  BY <1>1 DEF Draft
<1>7. QED
  BY <1>2, <1>3, <1>4, <1>5, <1>6 DEF o, i, n, c, b

LEMMA DraftEdit ==
  ASSUME NEW d, IsDraft(d), NEW x, NEW y, NEW z
  PROVE  /\ Filled(d, y, z) = Draft(d.open, d.ino, d.name, y, z)
         /\ Titled(d, x, z) = Draft(d.open, d.ino, x, d.content, z)
         /\ Swapped(d, x, y, z) = Draft(d.open, d.ino, x, y, z)
<1> DEFINE o == d.open
           i == d.ino
           n == d.name
           c == d.content
           b == d.dirty
           e == [d EXCEPT !.content = y]
           k == [d EXCEPT !.name = x]
           m == [k EXCEPT !.content = y]
<1>1. Filled(d, y, z) = [e EXCEPT !.dirty = z]
  BY DEF Filled
<1>2. Titled(d, x, z) = [k EXCEPT !.dirty = z]
  BY DEF Titled
<1>3. Swapped(d, x, y, z) = [m EXCEPT !.dirty = z]
  BY DEF Swapped
<1>4. d = Draft(o, i, n, c, b)
  BY DEF IsDraft
<1> HIDE DEF o, i, n, c, b
<1>5. e = Draft(o, i, n, y, b) /\ k = Draft(o, i, x, c, b)
  BY <1>4 DEF Draft
<1> HIDE DEF k
<1>6. m = Draft(o, i, x, y, b)
  BY <1>5 DEF Draft
<1> HIDE DEF e, m
<1>7. [e EXCEPT !.dirty = z] = Draft(o, i, n, y, z)
  BY <1>5 DEF Draft
<1>8. [k EXCEPT !.dirty = z] = Draft(o, i, x, c, z)
  BY <1>5 DEF Draft
<1>9. [m EXCEPT !.dirty = z] = Draft(o, i, x, y, z)
  BY <1>6 DEF Draft
<1>10. QED
  BY <1>1, <1>2, <1>3, <1>7, <1>8, <1>9 DEF o, i, n, c

LEMMA DraftSwap ==
  ASSUME NEW d, IsDraft(d), NEW x, NEW y, NEW z
  PROVE  Swapped(d, x, y, z) = Draft(d.open, d.ino, x, y, z)
BY DraftEdit

\* The content of a draft is as long as the file.
LEMMA PlainParts ==
  ASSUME NEW f \in Handle, NEW data
  PROVE  LET d == PlainDraft(f, data) IN
         /\ d.open = f.open /\ d.ino = f.ino /\ d.name = f.name /\ d.dirty = f.mod
         /\ d.content = [k \in 1 .. f.len |-> data[f.dp[k].id]]
         /\ Len(d.content) = f.len /\ f.len \in Nat
<1>1. f.len \in Nat
  BY DEF Handle
<1>2. Len([k \in 1 .. f.len |-> data[f.dp[k].id]]) = f.len
  BY <1>1
<1>3. QED
  BY <1>1, <1>2 DEF PlainDraft

LEMMA WriteRefines ==
  ASSUME PlainUse, TypeOK, PagesInv, PagesInv', up = "up",
         NEW h \in Handles, NEW k \in 1 .. MaxLen, NEW v \in Vals, Write(h, k, v)
  PROVE  Edit
<1> DEFINE f == hs[h]
<1>1. /\ f.open /\ h \in Actors /\ f \in Handle /\ inodeArea' = inodeArea /\ k <= f.len + 1
      /\ freeData \subseteq DataPages /\ hs \in [Actors -> Handle]
      /\ dataArea \in [DataPages -> Vals \cup {Blank}]
  BY WriteParts DEF Actors, TypeOK
<1>2. PICK b \in Handle, page \in freeData :
        /\ k \in 1 .. Len(b.dp) /\ HasRoom(hs[h], b, k)
        /\ dataArea' = [dataArea EXCEPT ![page] = v]
        /\ hs' = [hs EXCEPT ![h] = Placed(b, k, page)]
  BY WriteParts
<1> DEFINE g == Placed(b, k, page)
<1>3. dataArea' = [dataArea EXCEPT ![page] = v] /\ hs' = [hs EXCEPT ![h] = g]
  BY <1>2
<1>4. /\ g \in Handle /\ g.open = f.open /\ g.ino = f.ino
      /\ g.dp = [b.dp EXCEPT ![k] = [id |-> page, new |-> FALSE]]
      /\ g.len = IF k > f.len THEN k ELSE f.len
      /\ g.name = f.name /\ g.mod = TRUE
  <2>1. page \in DataPages
    BY <1>1
  <2>2. g.name = b.name /\ g.mod = TRUE
    BY DEF Placed, Handle
  <2>3. QED
    BY <1>2, <2>1, <2>2, PlacedHandle DEF HasRoom
<1> HIDE DEF g
<1>5. /\ Len(f.dp) = f.len /\ f.len \in Nat /\ f.dp \in Seq(Entry) /\ b.dp \in Seq(Entry)
      /\ Len(b.dp) = g.len
      /\ \A j \in 1 .. g.len : j # k => j \in 1 .. f.len /\ b.dp[j] = f.dp[j]
      /\ k \in 1 .. g.len
  BY <1>1, <1>2, <1>4 DEF PagesInv, HandleLists, HasRoom, Handle
<1>6. \A j \in 1 .. f.len : f.dp[j].id # page /\ f.dp[j].id \in DataPages
  <2>1. TAKE j \in 1 .. f.len
  <2>2. f.dp[j].id \in HandlePages(f) /\ f.dp[j].id \in DataPages
    BY <1>1, <1>5, EntryAt DEF HandlePages
  <2>3. HandlePages(f) \cap freeData = {}
    BY <1>1 DEF PagesInv, FreeIsUnused
  <2>4. QED
    BY <1>2, <2>2, <2>3
<1>7. \A j \in 1 .. g.len :
        dataArea'[g.dp[j].id] = IF j = k THEN v ELSE dataArea[f.dp[j].id]
  <2>1. TAKE j \in 1 .. g.len
  <2>2. CASE j = k
    <3>1. g.dp[j].id = page
      BY <1>4, <1>5, <2>2
    <3>2. QED
      BY <1>1, <1>3, <2>2, <3>1
  <2>3. CASE j # k
    <3>1. g.dp[j] = f.dp[j] /\ j \in 1 .. f.len
      BY <1>4, <1>5, <2>3
    <3>2. QED
      BY <1>1, <1>3, <1>6, <2>3, <3>1
  <2>4. QED
    BY <2>2, <2>3
<1>8. OneDraft(h, PlainDraft(g, dataArea'))
  <2>1. \A d \in DataPages : d \in freeData \/ dataArea'[d] = dataArea[d]
    BY <1>1, <1>3
  <2>2. \A a \in Actors \ {h} : SameView(hs[a], hs'[a])
    BY <1>1, <1>3 DEF SameView
  <2>3. hs'[h] = g
    BY <1>1, <1>3
  <2>4. QED
    BY <1>1, <2>1, <2>2, <2>3, OneHandle
<1>9. Drafts[h] = PlainDraft(f, dataArea)
  BY <1>1, DraftsAre DEF PagesInv
<1> DEFINE d == Drafts[h]
           vs == [j \in k .. k |-> v]
           c == [j \in 1 .. Len(d.content) \cup DOMAIN vs |->
                   IF j \in DOMAIN vs THEN vs[j] ELSE d.content[j]]
<1>10. /\ d.open /\ Len(d.content) = f.len
       /\ d.content = [j \in 1 .. f.len |-> dataArea[f.dp[j].id]]
  BY <1>1, <1>9, PlainParts
<1>11. PlainDraft(g, dataArea') = [d EXCEPT !.content = c, !.dirty = TRUE]
  <2>1. PlainDraft(g, dataArea').content = c
    <3>1. c = [j \in 1 .. g.len |-> IF j = k THEN v ELSE d.content[j]]
      <4>1. DOMAIN vs = {k} /\ vs[k] = v
        OBVIOUS
      <4>2. 1 .. Len(d.content) \cup {k} = 1 .. g.len
        BY <1>1, <1>4, <1>5, <1>10
      <4>3. QED
        BY <4>1, <4>2
    <3>2. \A j \in 1 .. g.len : j # k => d.content[j] = dataArea[f.dp[j].id]
      BY <1>5, <1>10
    <3>3. [j \in 1 .. g.len |-> dataArea'[g.dp[j].id]]
             = [j \in 1 .. g.len |-> IF j = k THEN v ELSE d.content[j]]
      BY <1>7, <3>2
    <3>4. QED
      BY <3>1, <3>3 DEF PlainDraft
  <2>2. PlainDraft(g, dataArea') = Draft(f.open, f.ino, f.name, c, TRUE)
    BY <1>4, <2>1 DEF PlainDraft, Draft
  <2>3. d = Draft(f.open, f.ino, f.name, d.content, f.mod)
    BY <1>9 DEF PlainDraft, Draft
  <2> HIDE DEF c, d
  <2>4. Filled(d, c, TRUE) = Draft(f.open, f.ino, f.name, c, TRUE)
    <3>1. IsDraft(d)
      BY <2>3 DEF IsDraft, Draft
    <3>2. d.open = f.open /\ d.ino = f.ino /\ d.name = f.name
      BY <2>3 DEF Draft
    <3>3. Filled(d, c, TRUE) = Draft(d.open, d.ino, d.name, c, TRUE)
      BY <3>1, DraftEdit
    <3>4. QED
      BY <3>2, <3>3
  <2>5. [d EXCEPT !.content = c, !.dirty = TRUE] = Draft(f.open, f.ino, f.name, c, TRUE)
    BY <2>4 DEF Filled
  <2>6. QED
    BY <2>2, <2>5
<1> HIDE DEF vs
<1>12. Abstract!Overwrite(h, vs)
  <2>1. OneDraft(h, [Drafts[h] EXCEPT
               !.content = [j \in 1 .. Len(@) \cup DOMAIN vs |->
                              IF j \in DOMAIN vs THEN vs[j] ELSE @[j]],
               !.dirty = TRUE])
    BY <1>8, <1>11
  <2>2. h \in Actors /\ Drafts[h].open
    BY <1>1, <1>10
  <2>3. QED
    BY <2>1, <2>2, AbstractEdits
<1>13. vs \in [k .. k -> Vals] /\ k \in 1 .. Len(d.content) + 1 /\ k \in k .. MaxLen
  BY <1>1, <1>5, <1>10 DEF vs
<1>14. QED
  BY <1>1, <1>12, <1>13 DEF Edit

\* delete_file() and the deletion of another file of the new name.
LEMMA EmptyRefines ==
  ASSUME TypeOK, PagesInv, PagesInv', NEW h \in Actors, hs[h].open,
         inodeArea' = inodeArea, dataArea' = dataArea,
         hs' = [hs EXCEPT ![h] = Emptied(@)]
  PROVE  Edit
<1> DEFINE f == hs[h]
           g == Emptied(f)
           d == Drafts[h]
<1>1. f \in Handle /\ hs \in [Actors -> Handle] /\ f.open
  BY DEF TypeOK
<1>2. g.open = f.open /\ g.ino = f.ino /\ g.name = NoName /\ g.mod = TRUE /\ g.len = 0
  BY <1>1 DEF Emptied, Handle
<1> HIDE DEF g
<1>3. hs'[h] = g /\ \A a \in Actors \ {h} : hs'[a] = hs[a]
  BY <1>1 DEF g
<1>4. OneDraft(h, PlainDraft(g, dataArea'))
  <2>1. \A a \in Actors \ {h} : SameView(hs[a], hs'[a])
    BY <1>3 DEF SameView
  <2>2. QED
    BY <1>3, <2>1, OneHandle
<1>5. d = Draft(f.open, f.ino, f.name, d.content, f.mod) /\ d.open
  <2>1. d = PlainDraft(f, dataArea)
    BY DraftsAre DEF PagesInv
  <2>2. QED
    BY <1>1, <2>1 DEF PlainDraft, Draft
<1>6. PlainDraft(g, dataArea') = Draft(f.open, f.ino, NoName, <<>>, TRUE)
  <2>1. PlainDraft(g, dataArea').content = <<>>
    <3>1. PlainDraft(g, dataArea').content = [k \in 1 .. 0 |-> dataArea'[g.dp[k].id]]
      BY <1>2 DEF PlainDraft
    <3>2. QED
      BY <3>1
  <2>2. QED
    BY <1>2, <2>1 DEF PlainDraft, Draft
<1> HIDE DEF d
<1>7. [d EXCEPT !.name = NoName, !.content = <<>>, !.dirty = TRUE]
        = Draft(f.open, f.ino, NoName, <<>>, TRUE)
  <2>1. Swapped(d, NoName, <<>>, TRUE) = Draft(f.open, f.ino, NoName, <<>>, TRUE)
    <3>1. IsDraft(d)
      BY <1>5 DEF IsDraft, Draft
    <3>2. d.open = f.open /\ d.ino = f.ino
      BY <1>5 DEF Draft
    <3>3. Swapped(d, NoName, <<>>, TRUE) = Draft(d.open, d.ino, NoName, <<>>, TRUE)
      BY <3>1, DraftSwap
    <3>4. QED
      BY <3>2, <3>3
  <2>2. QED
    BY <2>1 DEF Swapped
<1>8. OneDraft(h, [d EXCEPT !.name = NoName, !.content = <<>>, !.dirty = TRUE])
  BY <1>4, <1>6, <1>7
<1>9. Abstract!Discard(h)
  BY <1>5, <1>8, AbstractEdits DEF d
<1>10. QED
  BY <1>9 DEF Edit

LEMMA TruncateRefines ==
  ASSUME TypeOK, PagesInv, PagesInv', NEW h \in Handles, NEW n \in 0 .. MaxLen,
         Truncate(h, n)
  PROVE  Edit
<1> DEFINE f == hs[h]
           g == [f EXCEPT !.len = n, !.dp = Cut(@, n), !.del = {}, !.mod = TRUE]
           d == Drafts[h]
<1>1. /\ f \in Handle /\ hs \in [Actors -> Handle] /\ f.open /\ h \in Actors
      /\ n \in Nat /\ n < f.len /\ f.len \in Nat
      /\ inodeArea' = inodeArea /\ dataArea' = dataArea
      /\ hs' = [hs EXCEPT ![h].len = n, ![h].dp = Cut(@, n), ![h].del = {}, ![h].mod = TRUE]
  BY DEF TypeOK, Truncate, Actors, Handle, flash
<1>2. hs' = [hs EXCEPT ![h] = g]
  BY <1>1
<1>3. /\ Len(f.dp) = f.len /\ f.dp \in Seq(Entry)
  BY <1>1 DEF PagesInv, HandleLists, Handle
<1>4. \A j \in 1 .. n : Cut(f.dp, n)[j] = f.dp[j]
  BY <1>1, <1>3 DEF Cut
<1>5. /\ g.open = f.open /\ g.ino = f.ino /\ g.name = f.name /\ g.mod = TRUE
      /\ g.len = n /\ g.dp = Cut(f.dp, n)
  BY <1>1 DEF Handle
<1> HIDE DEF g
<1>6. OneDraft(h, PlainDraft(g, dataArea'))
  <2>1. \A a \in Actors \ {h} : SameView(hs[a], hs'[a])
    BY <1>1, <1>2 DEF SameView
  <2>2. hs'[h] = g
    BY <1>1, <1>2
  <2>3. QED
    BY <1>1, <2>1, <2>2, OneHandle
<1>7. d = PlainDraft(f, dataArea)
  BY <1>1, DraftsAre DEF PagesInv
<1>8. /\ d = Draft(f.open, f.ino, f.name, d.content, f.mod) /\ d.open
      /\ Len(d.content) = f.len
      /\ d.content = [k \in 1 .. f.len |-> dataArea[f.dp[k].id]]
  BY <1>1, <1>7, PlainParts DEF PlainDraft, Draft
<1> DEFINE c == [j \in 1 .. n |-> IF j <= Len(d.content) THEN d.content[j] ELSE Zero]
<1>9. PlainDraft(g, dataArea') = Draft(f.open, f.ino, f.name, c, TRUE)
  <2>1. \A j \in 1 .. n : d.content[j] = dataArea[f.dp[j].id] /\ j <= Len(d.content)
    BY <1>1, <1>8
  <2>2. [j \in 1 .. n |-> dataArea'[g.dp[j].id]] = c
    BY <1>1, <1>4, <1>5, <2>1
  <2> HIDE DEF c
  <2>3. QED
    BY <1>5, <2>2 DEF PlainDraft, Draft
<1> HIDE DEF d
<1>10. [d EXCEPT !.content = c, !.dirty = TRUE] = Draft(f.open, f.ino, f.name, c, TRUE)
  <2>1. Filled(d, c, TRUE) = Draft(f.open, f.ino, f.name, c, TRUE)
    <3>1. IsDraft(d)
      BY <1>8 DEF IsDraft, Draft
    <3>2. d.open = f.open /\ d.ino = f.ino /\ d.name = f.name
      <4>1. d = Draft(f.open, f.ino, f.name, d.content, f.mod)
        BY <1>8
      <4>2. QED
        BY <4>1 DEF Draft
    <3>3. Filled(d, c, TRUE) = Draft(d.open, d.ino, d.name, c, TRUE)
      BY <3>1, DraftEdit
    <3>4. QED
      BY <3>2, <3>3
  <2>2. QED
    BY <2>1 DEF Filled
<1>11. OneDraft(h, [d EXCEPT !.content = c, !.dirty = TRUE])
  BY <1>6, <1>9, <1>10
<1>12. Abstract!Resize(h, n)
  BY <1>1, <1>8, <1>11, AbstractEdits DEF d
<1>13. QED
  BY <1>1, <1>12 DEF Edit

LEMMA CallRefines ==
  ASSUME PlainUse, TypeOK, PagesInv, PagesInv', Call
  PROVE  Stays \/ Edit
<1>1. up = "up" /\ inodeArea' = inodeArea
  BY CallFrame
<1>2. "grow" \notin Calls /\ "seek" \notin Calls /\ "cleanup" \notin Calls
  BY DEF PlainUse
<1>3. ASSUME hs' = hs, dataArea' = dataArea PROVE Stays
  <2>1. Tmp \in Actors /\ \A a \in Actors : SameView(hs[a], hs'[a])
    BY <1>3 DEF Actors, SameView
  <2>2. QED
    BY <1>1, <1>3, <2>1, OneHandle
<1>4. ASSUME NEW h \in Handles, NEW n \in Names, NEW mode, Open(h, n, mode) \/ Rename(h, n)
      PROVE  Stays
  BY <1>3, <1>4 DEF Open, Rename, flash
<1>5. ASSUME NEW h \in Handles, Flush(h) \/ Close(h) PROVE Stays
  BY <1>3, <1>5 DEF Flush, Close, flash
<1>6. ASSUME NEW h \in Handles, Delete(h) PROVE Edit
  <2>1. h \in Actors /\ hs[h].open /\ dataArea' = dataArea /\ hs' = [hs EXCEPT ![h] = Emptied(@)]
    BY <1>6 DEF Delete, flash, Actors
  <2>2. QED
    BY <1>1, <2>1, EmptyRefines
<1>7. ASSUME NEW h \in Handles, NEW k \in 1 .. MaxLen, NEW v \in Vals, Write(h, k, v)
      PROVE  Edit
  BY <1>1, <1>7, WriteRefines
<1>8. ASSUME NEW h \in Handles, NEW n \in 0 .. MaxLen, Truncate(h, n) PROVE Edit
  BY <1>8, TruncateRefines
<1>9. \A h, n : ~Enlarge(h, n, "grow") /\ ~Enlarge(h, n, "seek")
  BY <1>2 DEF Enlarge
<1>10. ~Cleanup /\ (ListFiles => Stays)
  BY <1>2, <1>3 DEF Cleanup, ListFiles, flash
<1>11. QED
  BY <1>4, <1>5, <1>6, <1>7, <1>8, <1>9, <1>10 DEF Call

(***************************************************************************)
(* flush().                                                                *)
(***************************************************************************)
\* The first flush of a new file gives it a number that nothing has.
LEMMA NumberRefines ==
  ASSUME TypeOK, NumbersBounded, up # "off", PagesInv, PagesInv', NumbersSuffice', TypeOK',
         FlushNumber
  PROVE  Stays \/ Edit
<1> DEFINE h == Actor
           f == hs[h]
           i == maxIno + 1
           d == Drafts[h]
<1>1. /\ h \in Actors /\ f \in Handle /\ hs \in [Actors -> Handle] /\ maxIno \in Nat
      /\ inodeArea' = inodeArea /\ dataArea' = dataArea
  BY HeadType DEF FlushNumber, TypeOK, flash, Doing
<1>2. CASE ~f.mod
  <2>1. hs' = hs
    BY <1>2 DEF FlushNumber
  <2>2. \A a \in Actors : SameView(hs[a], hs'[a])
    BY <2>1 DEF SameView
  <2>3. QED
    BY <1>1, <2>2, OneHandle
<1>3. CASE f.mod
  <2>1. f.ino = 0 /\ hs' = [hs EXCEPT ![h].ino = i] /\ maxIno' = i
    BY <1>3 DEF FlushNumber
  <2>2. f.open
    BY <1>1, <1>3, NoHandleParts DEF PagesInv, HandleLists
  <2> HIDE DEF h
  <2> DEFINE g == [f EXCEPT !.ino = i]
  <2>3. /\ hs'[h] = g /\ \A a \in Actors \ {h} : hs'[a] = hs[a]
        /\ g.open = f.open /\ g.ino = i /\ g.name = f.name /\ g.mod = f.mod
        /\ g.len = f.len /\ g.dp = f.dp
    BY <1>1, <2>1 DEF Handle
  <2> HIDE DEF g
  <2>4. OneDraft(h, PlainDraft(g, dataArea'))
    <3>1. \A a \in Actors \ {h} : SameView(hs[a], hs'[a])
      BY <2>3 DEF SameView
    <3>2. QED
      BY <1>1, <2>3, <3>1, OneHandle
  <2>5. \A a \in Actors : Drafts[a] = PlainDraft(hs[a], dataArea)
    BY DraftsAre DEF PagesInv
  <2>6. /\ d = Draft(f.open, f.ino, f.name, d.content, f.mod) /\ d.open /\ d.dirty
        /\ d.ino = 0
        /\ PlainDraft(g, dataArea') = Draft(f.open, i, f.name, d.content, f.mod)
    <3>1. d = PlainDraft(f, dataArea)
      BY <1>1, <2>5
    <3>2. QED
      BY <1>1, <1>3, <2>1, <2>2, <2>3, <3>1 DEF PlainDraft, Draft
  <2>7. \A a \in Actors : Drafts[a].ino # i
    <3>1. SUFFICES ASSUME NEW a \in Actors PROVE Drafts[a].ino # i
      OBVIOUS
    <3>2. Drafts[a].ino = hs[a].ino
      <4>1. hs[a] \in Handle
        BY <1>1
      <4>2. PlainDraft(hs[a], dataArea).ino = hs[a].ino
        BY <4>1, PlainParts
      <4>3. QED
        BY <2>5, <4>2
    <3>3. hs[a].ino \in Nat /\ hs[a].ino <= maxIno
      <4>1. hs[a] \in Handle
        BY <1>1
      <4>2. hs[a].ino \in Nat
        BY <4>1 DEF Handle
      <4>3. QED
        BY <4>2 DEF NumbersBounded
    <3>4. QED
      BY <1>1, <3>2, <3>3
  <2>8. i \in 1 .. MaxIno
    <3>1. i <= MaxIno
      <4>1. \E c \in Nat : i + c <= MaxIno
        <5>1. Cardinality(Unnumbered') \in Nat
          BY FS_CardinalityType DEF NumbersSuffice
        <5>2. i + Cardinality(Unnumbered') <= MaxIno
          BY <2>1 DEF NumbersSuffice
        <5>3. QED
          BY <5>1, <5>2
      <4>2. QED
        BY <1>1, <4>1, BoundAssumption
    <3>2. QED
      BY <1>1, <3>1, BoundAssumption
  <2>9. Store[i] = Abstract!NoFile
    <3>1. At(i) = {}
      <4>1. SUFFICES ASSUME NEW p \in At(i) PROVE FALSE
        OBVIOUS
      <4>2. p \in ValidPages /\ inodeArea[p].ino = i
        BY <4>1 DEF At, Latest, ValidPages
      <4>3. inodeArea[p].ino <= maxIno
        BY <4>2 DEF NumbersBounded
      <4>4. QED
        BY <1>1, <4>2, <4>3
    <3>2. CurrentFile(i) = Abstract!NoFile
      BY <3>1, CurrentIs DEF Abstract!NoFile
    <3>3. QED
      BY <2>8, <3>2 DEF Store
  <2> HIDE DEF d
  <2>10. [d EXCEPT !.ino = i] = Draft(f.open, i, f.name, d.content, f.mod)
    <3>1. IsDraft(d)
      BY <2>6 DEF IsDraft, Draft
    <3>2. d.open = f.open /\ d.name = f.name /\ d.dirty = f.mod
      <4>1. d = Draft(f.open, f.ino, f.name, d.content, f.mod)
        BY <2>6
      <4>2. QED
        BY <4>1 DEF Draft
    <3>3. [d EXCEPT !.ino = i] = Draft(d.open, i, d.name, d.content, d.dirty)
      BY <3>1, OneEdit
    <3>4. QED
      BY <3>2, <3>3
  <2>11. OneDraft(h, [d EXCEPT !.ino = i])
    BY <2>4, <2>6, <2>10
  <2> HIDE DEF i
  <2>12. Abstract!Number(h, i)
    BY <1>1, <2>6, <2>7, <2>8, <2>9, <2>11, AbstractFlushes DEF d
  <2>13. QED
    BY <1>1, <2>8, <2>12 DEF Edit
<1>4. QED
  BY <1>2, <1>3

\* After write_meta_page() the page it wrote is the latest of its file, and for
\* the other files nothing has changed.
LEMMA LatestAfter ==
  ASSUME TypeOK, TypeOK', NEW p0 \in InodePages, NEW s \in Inode, ~Valid(p0), Valid(p0)',
         inodeArea'[p0] = s, ValidPages' = ValidPages \cup {p0},
         \A q \in InodePages \ {p0} : inodeArea'[q] = inodeArea[q] /\ (Valid(q)' <=> Valid(q)),
         \A q \in ValidPages : inodeArea[q].ino = s.ino => inodeArea[q].ver < s.ver
  PROVE  /\ At(s.ino)' = {p0}
         /\ \A i : i # s.ino => At(i)' = At(i)
<1>1. /\ p0 \notin ValidPages /\ ValidPages \subseteq InodePages
      /\ s.ver \in Nat /\ p0 \in Nat
      /\ \A q \in ValidPages : inodeArea'[q] = inodeArea[q] /\ inodeArea[q].ver \in Nat
  <2>1. \A q \in ValidPages : inodeArea[q] \in Inode
    BY DEF TypeOK, ValidPages, Valid
  <2>2. p0 \notin ValidPages /\ ValidPages \subseteq InodePages
    BY DEF ValidPages
  <2>3. \A q \in ValidPages : q \in InodePages \ {p0}
    BY <2>2
  <2>4. QED
    BY <2>1, <2>2, <2>3, PageRanges DEF Inode
<1>2. Latest(p0)'
  <2>1. SUFFICES ASSUME NEW q \in ValidPages', Supersedes(q, p0)' PROVE FALSE
    BY DEF Latest
  <2>2. /\ inodeArea'[q].ino = s.ino
        /\ inodeArea'[q].ver > s.ver \/ (inodeArea'[q].ver = s.ver /\ q < p0)
    BY <2>1 DEF Supersedes
  <2>3. CASE q = p0
    BY <1>1, <2>2, <2>3
  <2>4. CASE q # p0
    <3>1. q \in ValidPages
      BY <2>4
    <3>2. inodeArea[q].ver < s.ver /\ inodeArea'[q] = inodeArea[q] /\ inodeArea[q].ver \in Nat
      BY <1>1, <2>2, <3>1
    <3>3. QED
      BY <1>1, <2>2, <3>2
  <2>5. QED
    BY <2>3, <2>4
<1>3. ASSUME NEW q \in InodePages, q # p0, inodeArea'[q].ino = s.ino
      PROVE  ~Latest(q)'
  <2>1. SUFFICES ASSUME Valid(q)' PROVE Supersedes(p0, q)'
    BY DEF Latest
  <2>2. q \in ValidPages
    BY <1>3, <2>1 DEF ValidPages
  <2>3. inodeArea'[q].ver < s.ver /\ inodeArea'[q].ver \in Nat
    BY <1>1, <1>3, <2>2
  <2>4. QED
    BY <1>1, <1>3, <2>3 DEF Supersedes
<1>4. ASSUME NEW q \in InodePages, q # p0, inodeArea[q].ino # s.ino
      PROVE  Latest(q)' <=> Latest(q)
  <2>1. inodeArea'[q] = inodeArea[q] /\ (Valid(q)' <=> Valid(q))
    BY <1>4
  <2>2. \A r \in ValidPages : Supersedes(r, q)' <=> Supersedes(r, q)
    BY <1>1, <2>1 DEF Supersedes
  <2>3. ~Supersedes(p0, q)'
    BY <1>4, <2>1 DEF Supersedes
  <2>4. QED
    BY <2>1, <2>2, <2>3 DEF Latest
<1>5. At(s.ino)' = {p0}
  <2>1. p0 \in At(s.ino)'
    BY <1>2 DEF At
  <2>2. ASSUME NEW q \in At(s.ino)' PROVE q = p0
    BY <1>3, <2>2 DEF At
  <2>3. QED
    BY <2>1, <2>2
<1>6. ASSUME NEW i, i # s.ino PROVE At(i)' = At(i)
  <2>1. ASSUME NEW q \in At(i)' PROVE q \in At(i)
    <3>1. q \in InodePages /\ Latest(q)' /\ inodeArea'[q].ino = i
      BY <2>1 DEF At
    <3>2. q # p0
      BY <1>6, <3>1
    <3>3. inodeArea[q].ino = i
      BY <3>1, <3>2
    <3>4. QED
      BY <1>4, <1>6, <3>1, <3>2, <3>3 DEF At
  <2>2. ASSUME NEW q \in At(i) PROVE q \in At(i)'
    <3>1. q \in InodePages /\ Latest(q) /\ inodeArea[q].ino = i
      BY <2>2 DEF At
    <3>2. q # p0
      BY <3>1 DEF Latest
    <3>3. inodeArea'[q].ino = i
      BY <3>1, <3>2
    <3>4. QED
      BY <1>4, <1>6, <3>1, <3>2, <3>3 DEF At
  <2>3. QED
    BY <2>1, <2>2
<1>7. QED
  BY <1>5, <1>6

\* The commit: the stored file becomes the whole draft, in one step.
LEMMA CommitRefines ==
  ASSUME TypeOK, TypeOK', Numbered, PagesInv, PagesInv', CommitsChanges, NumbersSuffice',
         WriteMeta
  PROVE  /\ Abstract!Commit(Actor)
         /\ Actor \in Actors /\ Drafts[Actor].ino \in 1 .. MaxIno
         /\ \A b \in Actors \ {Actor} :
              Drafts[b].open => Drafts[b].ino # Drafts[Actor].ino
<1>1. PICK a \in Actors, f \in Handle, s \in Inode, p0 \in InodePages, i0 \in Nat :
        /\ todo # <<>> /\ Head(todo).h = a /\ Head(todo).t \in {"meta", "metaNew"}
        /\ f = hs[a] /\ s = Serialised(f) /\ p0 = f.page /\ i0 = f.ino
        /\ inodeArea' = [inodeArea EXCEPT ![p0] = s]
        /\ hs' = [hs EXCEPT ![a].mod = FALSE] /\ dataArea' = dataArea
        /\ hs \in [Actors -> Handle]
  <2> DEFINE b == Actor
             g == hs[b]
  <2>1. b \in Actors /\ g \in Handle /\ hs \in [Actors -> Handle]
    BY HeadType DEF WriteMeta, Doing, TypeOK
  <2>2. Serialised(g) \in Inode /\ g.page \in InodePages /\ g.ino \in Nat
    BY <2>1, SerialisedType DEF Handle
  <2>3. /\ todo # <<>> /\ Head(todo).h = b /\ Head(todo).t \in {"meta", "metaNew"}
        /\ inodeArea' = [inodeArea EXCEPT ![g.page] = Serialised(g)]
        /\ hs' = [hs EXCEPT ![b].mod = FALSE] /\ dataArea' = dataArea
    BY DEF WriteMeta, Doing, Actor
  <2> HIDE DEF b
  <2>4. QED
    BY <2>1, <2>2, <2>3
<1> DEFINE d == Drafts[a]
<1>2. f.mod
  BY <1>1 DEF CommitsChanges, Committing
<1>3. /\ f.open /\ i0 # 0 /\ ~Valid(p0)
      /\ \A q \in ValidPages : inodeArea[q].ino = i0 => inodeArea[q].ver < f.ver
  BY <1>1, BeforeCommit
<1>4. /\ s \notin {Blank, Torn}
      /\ s.ino = i0 /\ s.ver = f.ver /\ s.name = f.name /\ s.len = f.len
      /\ DOMAIN s.ids = DOMAIN f.dp /\ \A k \in DOMAIN f.dp : s.ids[k] = f.dp[k].id
  BY <1>1, SerialisedParts
<1>5. /\ inodeArea'[p0] = s /\ \A q \in InodePages \ {p0} : inodeArea'[q] = inodeArea[q]
  BY <1>1, <1>3 DEF TypeOK
<1>6. /\ ValidPages' = ValidPages \cup {p0} /\ Valid(p0)'
      /\ \A q \in InodePages \ {p0} : Valid(q)' <=> Valid(q)
  BY <1>3, <1>4, <1>5, OneMore
<1>7. /\ At(i0)' = {p0}
      /\ \A i : i # i0 => At(i)' = At(i)
  BY <1>3, <1>4, <1>5, <1>6, LatestAfter
<1>8. i0 \in 1 .. MaxIno
  <2>1. inodeArea'[p0].ino <= MaxIno
    BY <1>6 DEF NumbersSuffice
  <2>2. QED
    BY <1>3, <1>4, <1>5, <2>1, BoundAssumption
<1>9. ASSUME NEW i \in 1 .. MaxIno, i # i0 PROVE CurrentFile(i)' = CurrentFile(i)
  <2>1. At(i)' = At(i)
    BY <1>7, <1>9
  <2>2. \A p \in At(i) : inodeArea'[p] = inodeArea[p]
    <3>1. \A p \in At(i) : p \in InodePages \ {p0}
      BY <1>3 DEF At, Latest
    <3>2. QED
      BY <1>5, <3>1
  <2>3. StoredLists
    BY DEF PagesInv
  <2>4. QED
    BY <1>1, <2>1, <2>2, <2>3, FileKept
<1>10. CurrentFile(i0)' = FileOf(s, dataArea')
  <2>1. (CHOOSE p \in {p0} : TRUE) = p0
    OBVIOUS
  <2>2. At(i0)' # {}
    BY <1>7
  <2>3. QED
    BY <1>5, <1>7, <2>1, <2>2, CurrentNext
<1>11. d = PlainDraft(f, dataArea)
  BY <1>1, DraftsAre DEF PagesInv
<1>12. /\ d = Draft(f.open, f.ino, f.name, d.content, f.mod)
       /\ d.open /\ d.ino = i0 /\ d.name = f.name /\ d.dirty
       /\ d.content = [k \in 1 .. f.len |-> dataArea[f.dp[k].id]]
  BY <1>1, <1>2, <1>3, <1>11, PlainParts DEF PlainDraft, Draft
<1>13. FileOf(s, dataArea') = [name |-> d.name, content |-> d.content]
  <2>1. Len(f.dp) = f.len /\ f.dp \in Seq(Entry)
    BY <1>1 DEF PagesInv, HandleLists, Handle
  <2>2. \A k \in 1 .. f.len : s.ids[k] = f.dp[k].id
    BY <1>4, <2>1
  <2>3. [k \in 1 .. s.len |-> dataArea'[s.ids[k]]] = [k \in 1 .. f.len |-> dataArea[f.dp[k].id]]
    BY <1>1, <1>4, <2>2
  <2>4. QED
    BY <1>4, <1>12, <2>3 DEF FileOf
<1>14. Store' = [Store EXCEPT ![d.ino] = [name |-> d.name, content |-> d.content]]
  <2>1. CurrentFile(i0)' = [name |-> d.name, content |-> d.content]
    BY <1>10, <1>12, <1>13
  <2>2. \A i \in 1 .. MaxIno : i # i0 => CurrentFile(i)' = CurrentFile(i)
    BY <1>9, <1>12
  <2>3. d.ino = i0
    BY <1>12
  <2> HIDE DEF d
  <2>4. QED
    BY <2>1, <2>2, <2>3 DEF Store
<1>15. Drafts' = [Drafts EXCEPT ![a].dirty = FALSE]
  <2> DEFINE g == [f EXCEPT !.mod = FALSE]
  <2>1. /\ hs'[a] = g /\ \A b \in Actors \ {a} : hs'[b] = hs[b]
        /\ g.open = f.open /\ g.ino = f.ino /\ g.name = f.name /\ g.mod = FALSE
        /\ g.len = f.len /\ g.dp = f.dp
    BY <1>1 DEF Handle
  <2> HIDE DEF g
  <2>2. HandleLists /\ HandleLists'
    BY DEF PagesInv
  <2>3. \A b \in Actors \ {a} : Drafts'[b] = Drafts[b]
    <3>1. \A b \in Actors \ {a} : SameView(hs[b], hs'[b])
      BY <2>1 DEF SameView
    <3>2. QED
      BY <1>1, <2>2, <3>1, ViewKept
  <2>4. Drafts' = [Drafts EXCEPT ![a] = Drafts'[a]]
    BY <1>1, <2>3, DraftsExcept
  <2>5. Drafts'[a] = Draft(f.open, f.ino, f.name, d.content, FALSE)
    <3>1. Drafts'[a] = PlainDraft(g, dataArea')
      BY <1>1, <2>1, <2>2, DraftsAre
    <3>2. g.open = f.open /\ g.ino = f.ino /\ g.name = f.name /\ g.mod = FALSE
      BY <2>1
    <3>3. [k \in 1 .. g.len |-> dataArea'[g.dp[k].id]] = d.content
      BY <1>1, <1>12, <2>1
    <3> HIDE DEF d
    <3>4. QED
      BY <3>1, <3>2, <3>3 DEF PlainDraft, Draft
  <2> HIDE DEF d
  <2>6. Drafts'[a] = [d EXCEPT !.dirty = FALSE]
    <3>1. IsDraft(d)
      BY <1>12, <2>5 DEF IsDraft, Draft
    <3>2. d.open = f.open /\ d.ino = f.ino /\ d.name = f.name
      <4>1. d = Draft(f.open, f.ino, f.name, d.content, f.mod)
        BY <1>12
      <4>2. QED
        BY <4>1 DEF Draft
    <3>3. [d EXCEPT !.dirty = FALSE] = Draft(d.open, d.ino, d.name, d.content, FALSE)
      BY <3>1, OneEdit
    <3>4. QED
      BY <1>12, <2>5, <3>2, <3>3
  <2>7. QED
    BY <2>4, <2>6 DEF d
<1>16. Abstract!Commit(a)
  <2>1. Drafts[a].dirty /\ Drafts[a].ino # 0
    BY <1>3, <1>12
  <2>2. QED
    BY <1>1, <1>14, <1>15, <2>1, AbstractFlushes
<1>17. \A b \in Actors \ {a} : Drafts[b].open => Drafts[b].ino # d.ino
  <2>1. \A b \in Actors \ {a} : hs[b].open => hs[b].ino # i0
    BY <1>1, BeforeCommit
  <2>2. \A b \in Actors : Drafts[b].open = hs[b].open /\ Drafts[b].ino = hs[b].ino
    BY DEF Drafts, DraftOf
  <2>3. QED
    BY <1>12, <2>1, <2>2
<1>18. QED
  BY <1>1, <1>8, <1>12, <1>16, <1>17 DEF Actor

(***************************************************************************)
(* Erasing.                                                                *)
(***************************************************************************)
\* No page of a file that find_file() would find is erased.
LEMMA LatestNotDoomed ==
  ASSUME TypeOK, DoomedIsOld, NEW p \in LatestPages
  PROVE  p \notin doomed /\ StoredPages(p) \cap doomed = {}
<1>1. p \in ValidPages /\ \A q \in ValidPages : ~Supersedes(q, p)
  BY DEF LatestPages, Latest, ValidPages
<1>2. p \notin doomed
  <2>1. SUFFICES ASSUME p \in doomed PROVE FALSE
    OBVIOUS
  <2>2. PICK q \in ValidPages : SameFile(p, q) /\ inodeArea[p].ver < inodeArea[q].ver
    BY <1>1, <2>1 DEF DoomedIsOld
  <2>3. inodeArea[p].ver \in Nat /\ inodeArea[q].ver \in Nat
    BY <1>1, <2>2, LoadedType DEF TypeOK, ValidPages, Inode
  <2>4. QED
    BY <1>1, <2>2, <2>3 DEF Supersedes, SameFile
<1>3. QED
  BY <1>1, <1>2 DEF DoomedIsOld

\* An erased inode page was not the latest of its file, so the others are.
LEMMA LatestWithout ==
  ASSUME TypeOK, DoomedIsOld, NEW x \in doomed, ValidPages' = ValidPages \ {x},
         \A q \in ValidPages' : inodeArea'[q] = inodeArea[q]
  PROVE  LatestPages' = LatestPages
<1>1. \A q \in ValidPages : inodeArea[q].ver \in Nat /\ q \in InodePages
  BY LoadedType DEF TypeOK, ValidPages, Inode
<1>2. \A q, r \in ValidPages' : Supersedes(r, q)' <=> Supersedes(r, q)
  BY DEF Supersedes
<1>3. ASSUME NEW q \in ValidPages', Supersedes(x, q), x \in ValidPages
      PROVE  \E r \in ValidPages' : Supersedes(r, q)
  <2>1. PICK r \in ValidPages \ doomed :
          SameFile(x, r) /\ inodeArea[x].ver < inodeArea[r].ver
    BY <1>3 DEF DoomedIsOld
  <2>2. r \in ValidPages' /\ q \in ValidPages
    BY <1>3, <2>1
  <2>3. /\ inodeArea[r].ver \in Nat /\ inodeArea[x].ver \in Nat /\ inodeArea[q].ver \in Nat
        /\ inodeArea[x].ver >= inodeArea[q].ver
    BY <1>1, <1>3, <2>1, <2>2 DEF Supersedes
  <2>4. Supersedes(r, q)
    BY <1>3, <2>1, <2>3 DEF Supersedes, SameFile
  <2>5. QED
    BY <2>2, <2>4
<1>4. \A q \in ValidPages' : Latest(q)' <=> Latest(q)
  <2>1. SUFFICES ASSUME NEW q \in ValidPages' PROVE Latest(q)' <=> Latest(q)
    OBVIOUS
  <2>2. /\ Latest(q)' <=> \A r \in ValidPages' : ~Supersedes(r, q)'
        /\ Latest(q) <=> \A r \in ValidPages : ~Supersedes(r, q)
    BY <2>1 DEF Latest, ValidPages
  <2>3. QED
    BY <1>2, <1>3, <2>1, <2>2
<1>5. /\ \A q \in LatestPages' : q \in ValidPages' /\ q \in InodePages
      /\ \A q \in LatestPages : q \in ValidPages'
  <2>1. \A q \in LatestPages' : q \in ValidPages' /\ q \in InodePages
    BY DEF LatestPages, Latest, ValidPages
  <2>2. \A q \in LatestPages : q \in ValidPages /\ q # x
    BY LatestNotDoomed DEF LatestPages, Latest, ValidPages
  <2>3. QED
    BY <2>1, <2>2
<1>6. QED
  BY <1>4, <1>5 DEF LatestPages

LEMMA EraseRefines ==
  ASSUME TypeOK, PagesInv, PagesInv', ErasePage
  PROVE  Stays
<1>1. hs' = hs /\ \A a \in Actors : SameView(hs[a], hs'[a])
  BY DEF ErasePage, SameView
<1>2. CASE doomed = {}
  <2>1. inodeArea' = inodeArea /\ dataArea' = dataArea /\ Tmp \in Actors
    BY <1>2 DEF ErasePage, flash, Actors
  <2>2. QED
    BY <1>1, <2>1, OneHandle
<1>3. CASE doomed # {}
  <2>1. doomed \subseteq Nat /\ doomed \subseteq AllPages
    BY PageRanges DEF TypeOK, AllPages
  <2>2. PICK x \in doomed : x = Least(doomed)
    BY <1>3, <2>1, LeastExists
  <2>3. IF x \in InodePages
        THEN inodeArea' = [inodeArea EXCEPT ![x] = Blank] /\ UNCHANGED dataArea
        ELSE dataArea' = [dataArea EXCEPT ![x] = Blank] /\ UNCHANGED inodeArea
    BY <1>3, <2>2 DEF ErasePage
  <2>4. /\ \A q \in InodePages \ {x} : inodeArea'[q] = inodeArea[q]
        /\ x \in InodePages => inodeArea'[x] = Blank
        /\ \A d \in DataPages \ {x} : dataArea'[d] = dataArea[d]
    BY <2>3 DEF TypeOK
  <2>5. ValidPages' = ValidPages \ {x}
    BY <2>4 DEF ValidPages, Valid
  <2>6. \A q \in ValidPages' : inodeArea'[q] = inodeArea[q]
    BY <2>4, <2>5 DEF ValidPages
  <2>7. DoomedIsOld /\ StoredLists /\ HandleLists /\ HandleLists'
    BY DEF PagesInv
  <2>8. LatestPages' = LatestPages
    BY <2>2, <2>5, <2>6, <2>7, LatestWithout
  <2>9. Store' = Store
    <3>1. ASSUME NEW p \in LatestPages
          PROVE  /\ inodeArea'[p] = inodeArea[p]
                 /\ \A d \in StoredPages(p) : dataArea'[d] = dataArea[d]
      <4>1. p \in InodePages \ {x} /\ x \notin StoredPages(p)
        BY <2>2, <2>7, <3>1, LatestNotDoomed DEF LatestPages
      <4>2. Valid(p)
        BY <3>1 DEF LatestPages, Latest
      <4>3. StoredPages(p) \subseteq DataPages
        BY <4>1, <4>2, LoadedType, PagesTypes DEF TypeOK, StoredPages
      <4>4. QED
        BY <2>4, <4>1, <4>3
    <3>2. QED
      BY <2>7, <2>8, <3>1, StoreKept
  <2>10. ASSUME NEW a \in Actors PROVE Drafts'[a] = Drafts[a]
    <3>1. HandlePages(hs[a]) \subseteq DataPages
      BY PagesTypes DEF TypeOK
    <3>2. x \notin HandlePages(hs[a])
      BY <2>2, <2>7 DEF DoomedIsOld
    <3>3. \A d \in HandlePages(hs[a]) : dataArea'[d] = dataArea[d]
      BY <2>4, <3>1, <3>2
    <3>4. QED
      BY <1>1, <2>7, <3>3, ViewKept
  <2>11. Drafts' = Drafts
    BY <2>10 DEF Drafts
  <2>12. QED
    BY <2>9, <2>11 DEF Stays
<1>4. QED
  BY <1>2, <1>3

(***************************************************************************)
(* Steps the abstract store does not see.                                  *)
(***************************************************************************)
LEMMA NothingSeen ==
  ASSUME TypeOK, PagesInv, PagesInv', UNCHANGED <<inodeArea, dataArea, hs>>
  PROVE  Stays
<1>1. Tmp \in Actors /\ \A a \in Actors : SameView(hs[a], hs'[a])
  BY DEF Actors, SameView
<1>2. QED
  BY <1>1, OneHandle

LEMMA QuietRefines ==
  ASSUME TypeOK, PagesInv, PagesInv',
         \/ FlushVersion \/ WriteZeroPage \/ FindScan \/ Correct
         \/ EraseOutdated \/ MountDone \/ MountScan
  PROVE  Stays
<1>1. CASE FlushVersion
  <2>1. PICK a \in Actors, page \in InodePageChoices :
          /\ inodeArea' = inodeArea /\ dataArea' = dataArea
          /\ \/ hs' = hs
             \/ hs' = [hs EXCEPT ![a].page = page, ![a].ver = NextVersion(@), ![a].del = {}]
    <3>1. Actor \in Actors
      BY <1>1, HeadType DEF FlushVersion, Doing, TypeOK
    <3>2. QED
      BY <1>1, <3>1 DEF FlushVersion, flash
  <2>2. CASE hs' = hs
    BY <2>1, <2>2, NothingSeen
  <2>3. CASE hs' = [hs EXCEPT ![a].page = page, ![a].ver = NextVersion(@), ![a].del = {}]
    <3>1. hs \in [Actors -> Handle] /\ hs[a] \in Handle
      BY DEF TypeOK
    <3>2. \A b \in Actors \ {a} : hs'[b] = hs[b]
      BY <2>3, <3>1
    <3>3. /\ hs'[a].open = hs[a].open /\ hs'[a].ino = hs[a].ino /\ hs'[a].name = hs[a].name
          /\ hs'[a].mod = hs[a].mod /\ hs'[a].len = hs[a].len /\ hs'[a].dp = hs[a].dp
      BY <2>3, <3>1 DEF Handle
    <3>4. \A b \in Actors : SameView(hs[b], hs'[b])
      BY <3>2, <3>3 DEF SameView
    <3>5. QED
      BY <2>1, <3>4, OneHandle
  <2>4. QED
    BY <2>1, <2>2, <2>3
<1>2. CASE WriteZeroPage
  <2>1. Actor \in Actors
    BY <1>2, HeadType DEF WriteZeroPage, Doing, TypeOK
  <2>2. {k \in DOMAIN hs[Actor].dp : hs[Actor].dp[k].new} = {}
    BY <2>1 DEF PagesInv, HandleLists
  <2>3. QED
    BY <1>2, <2>2, NothingSeen DEF WriteZeroPage
<1>3. CASE Correct
  <2>1. StoredLists
    BY DEF PagesInv
  <2>2. QED
    BY <1>3, <2>1, PlainCorrect, NothingSeen
<1>4. CASE FindScan \/ EraseOutdated \/ MountDone \/ MountScan
  BY <1>4, NothingSeen DEF FindScan, EraseOutdated, MountDone, MountScan, flash
<1>5. QED
  BY <1>1, <1>2, <1>3, <1>4

(***************************************************************************)
(* Closing.                                                                *)
(***************************************************************************)
LEMMA ClosedDraft ==
  ASSUME NEW data
  PROVE  PlainDraft(NoHandle, data) = Abstract!Closed
<1>1. NoHandle.len = 0
  BY DEF NoHandle
<1>2. [k \in 1 .. NoHandle.len |-> data[NoHandle.dp[k].id]] = <<>>
  BY <1>1
<1>3. QED
  BY <1>2 DEF PlainDraft, NoHandle, Abstract!Closed

LEMMA CloseRefines ==
  ASSUME TypeOK, PagesInv, PagesInv', Drop \/ Deleted
  PROVE  Stays \/ Edit
<1>1. PICK h \in Actors :
        /\ inodeArea' = inodeArea /\ dataArea' = dataArea
        /\ hs' = hs \/ hs' = [hs EXCEPT ![h] = NoHandle]
  <2>1. Actor \in Actors
    BY HeadType DEF Drop, Deleted, Doing, TypeOK
  <2>2. QED
    BY <2>1 DEF Drop, Deleted, flash
<1>2. CASE hs' = hs
  BY <1>1, <1>2, NothingSeen
<1>3. CASE hs' = [hs EXCEPT ![h] = NoHandle]
  <2>1. hs'[h] = NoHandle /\ \A a \in Actors \ {h} : hs'[a] = hs[a]
    BY <1>3 DEF TypeOK
  <2>2. \A a \in Actors \ {h} : SameView(hs[a], hs'[a])
    BY <2>1 DEF SameView
  <2>3. OneDraft(h, Abstract!Closed)
    BY <1>1, <2>1, <2>2, OneHandle, ClosedDraft
  <2>4. CASE hs[h].open
    <3>1. Drafts[h].open
      BY <2>4 DEF Drafts, DraftOf
    <3>2. QED
      BY <2>3, <3>1, AbstractEdits DEF Edit
  <2>5. CASE ~hs[h].open
    <3>1. hs[h] = NoHandle
      BY <2>5 DEF PagesInv, HandleLists
    <3>2. hs' = hs
      BY <1>3, <3>1 DEF TypeOK
    <3>3. QED
      BY <1>1, <3>2, NothingSeen
  <2>6. QED
    BY <2>4, <2>5
<1>4. QED
  BY <1>1, <1>2, <1>3

(***************************************************************************)
(* Opening.                                                                *)
(***************************************************************************)
\* What is loaded is what the flash holds.
LEMMA LoadedIsStored ==
  ASSUME TypeOK, StoredLists, NEW p \in InodePages, Latest(p),
         NEW i \in 1 .. MaxIno, inodeArea[p].ino = i
  PROVE  /\ Store[i].name = inodeArea[p].name
         /\ PlainDraft(Loaded(p), dataArea) =
              [open |-> TRUE, ino |-> i, name |-> Store[i].name,
               content |-> Store[i].content, dirty |-> FALSE]
<1> DEFINE f == Loaded(p)
           s == inodeArea[p]
<1>1. At(i) = {p}
  <2>1. p \in At(i)
    BY DEF At
  <2>2. ASSUME NEW q \in At(i) PROVE q = p
    BY <2>2, OneLatest DEF At
  <2>3. QED
    BY <2>1, <2>2
<1>2. Store[i] = FileOf(s, dataArea)
  <2>1. (CHOOSE q \in {p} : TRUE) = p
    OBVIOUS
  <2>2. CurrentFile(i) = FileOf(s, dataArea)
    BY <1>1, <2>1, CurrentIs
  <2>3. QED
    BY <2>2 DEF Store
<1>3. /\ f.open /\ ~f.mod /\ f.ino = i /\ f.len = s.len /\ f.len \in Nat
      /\ Len(f.dp) = f.len /\ f.dp \in Seq(Entry)
      /\ \A k \in DOMAIN f.dp : f.dp[k].id = s.ids[k]
  <2>1. Valid(p) /\ f \in Handle
    BY LoadedType DEF Latest, TypeOK
  <2>2. f.len \in Nat /\ f.dp \in Seq(Entry)
    BY <2>1 DEF Handle
  <2>3. QED
    BY <2>1, <2>2, LoadedParts
<1>4. f.name = s.name
  BY DEF Loaded
<1> HIDE DEF f
<1>5. [k \in 1 .. f.len |-> dataArea[f.dp[k].id]] = [k \in 1 .. s.len |-> dataArea[s.ids[k]]]
  BY <1>3
<1>6. f.mod = FALSE /\ f.open = TRUE
  <2>1. f \in Handle
    BY LoadedType DEF Latest, TypeOK, f
  <2>2. QED
    BY <1>3, <2>1 DEF Handle
<1>7. /\ Store[i].name = s.name
      /\ Store[i].content = [k \in 1 .. s.len |-> dataArea[s.ids[k]]]
  BY <1>2 DEF FileOf
<1>8. PlainDraft(f, dataArea) =
        [open |-> TRUE, ino |-> i, name |-> s.name,
         content |-> [k \in 1 .. s.len |-> dataArea[s.ids[k]]], dirty |-> FALSE]
  BY <1>3, <1>4, <1>5, <1>6 DEF PlainDraft
<1>9. QED
  BY <1>7, <1>8 DEF f

LEMMA VisitRefines ==
  ASSUME TypeOK, Control, Numbered, NumbersSuffice, PagesInv, PagesInv', Visit
  PROVE  Stays \/ Edit
<1>1. /\ StoredLists /\ SearchesStored
  BY DEF PagesInv
<1>2. inodeArea' = inodeArea /\ dataArea' = dataArea
  BY <1>1, PlainVisit
<1>3. CASE hs' = hs
  BY <1>2, <1>3, NothingSeen
<1>4. CASE \E p \in InodePages : /\ Latest(p)
                                 /\ inodeArea[p].name = Head(todo).n /\ Head(todo).n # NoName
                                 /\ hs' = [hs EXCEPT ![Tmp] = Loaded(p)]
  <2>1. PICK p \in InodePages : /\ Latest(p) /\ inodeArea[p].name # NoName
                                /\ hs' = [hs EXCEPT ![Tmp] = Loaded(p)]
    BY <1>4
  <2>2. Tmp \in Actors /\ ~hs[Tmp].open
    BY TaskPlaces DEF Visit, Doing, Actors
  <2>3. PICK i \in 1 .. MaxIno : inodeArea[p].ino = i
    <3>1. Valid(p) /\ p \in ValidPages
      BY <2>1 DEF Latest, ValidPages
    <3>2. inodeArea[p].ino \in Nat
      BY <3>1, LoadedType DEF TypeOK, Inode
    <3>3. inodeArea[p].ino # 0 /\ inodeArea[p].ino <= MaxIno
      BY <3>1 DEF Numbered, NumbersSuffice
    <3>4. QED
      BY <3>2, <3>3, BoundAssumption
  <2>4. /\ Store[i].name # NoName
        /\ PlainDraft(Loaded(p), dataArea) =
             [open |-> TRUE, ino |-> i, name |-> Store[i].name,
              content |-> Store[i].content, dirty |-> FALSE]
    BY <1>1, <2>1, <2>3, LoadedIsStored
  <2>5. hs'[Tmp] = Loaded(p) /\ \A a \in Actors \ {Tmp} : hs'[a] = hs[a]
    BY <2>1, <2>2 DEF TypeOK
  <2>6. \A a \in Actors \ {Tmp} : SameView(hs[a], hs'[a])
    BY <2>5 DEF SameView
  <2>7. OneDraft(Tmp, PlainDraft(Loaded(p), dataArea))
    <3>1. OneDraft(Tmp, PlainDraft(hs'[Tmp], dataArea'))
      BY <1>2, <2>2, <2>6, OneHandle
    <3>2. QED
      BY <1>2, <2>5, <3>1
  <2>8. OneDraft(Tmp, [open |-> TRUE, ino |-> i, name |-> Store[i].name,
                       content |-> Store[i].content, dirty |-> FALSE])
    BY <2>4, <2>7
  <2>9. ~Drafts[Tmp].open
    BY <2>2 DEF Drafts, DraftOf
  <2>10. Abstract!Load(Tmp, i)
    BY <2>2, <2>3, <2>4, <2>8, <2>9, AbstractOpens
  <2>11. QED
    BY <2>2, <2>10 DEF Edit
<1>5. QED
  BY <1>1, <1>3, <1>4, PlainVisit

\* A new handle g in the place of one that is closed.
LEMMA NewDraft ==
  ASSUME TypeOK, PagesInv, PagesInv', NEW h \in Actors, NEW g,
         inodeArea' = inodeArea, dataArea' = dataArea, hs' = [hs EXCEPT ![h] = g]
  PROVE  OneDraft(h, PlainDraft(g, dataArea))
<1>1. hs'[h] = g /\ \A a \in Actors \ {h} : hs'[a] = hs[a]
  BY DEF TypeOK
<1>2. \A a \in Actors \ {h} : SameView(hs[a], hs'[a])
  BY <1>1 DEF SameView
<1>3. OneDraft(h, PlainDraft(hs'[h], dataArea'))
  BY <1>2, OneHandle
<1>4. QED
  BY <1>1, <1>3

\* open() works for a handle that is closed.
LEMMA OpeningTask ==
  ASSUME Control, todo # <<>>, Head(todo).t \in OpenModes
  PROVE  \E h \in Handles, n \in Names :
           ~hs[h].open /\ h \in Actors /\ h # Tmp /\ Head(todo).h = h /\ Head(todo).n = n
<1>1. PICK h \in Handles, n \in Names :
        /\ hs[h].open <=> Head(todo).t = "removeOther"
        /\ todo = <<OnName(Head(todo).t, h, n)>>
  BY TaskPlaces
<1>2. Head(todo) = OnName(Head(todo).t, h, n)
  BY <1>1, Tuple1
<1>3. Head(todo).h = h /\ Head(todo).n = n
  BY <1>2, TaskParts
<1>4. ~hs[h].open /\ h \in Actors /\ h # Tmp
  BY <1>1, HandleAssumption DEF OpenModes, Actors
<1>5. QED
  BY <1>3, <1>4

LEMMA MissingRefines ==
  ASSUME TypeOK, Control, PagesInv, PagesInv', OpenMissing
  PROVE  Stays \/ Edit
<1>1. PICK h \in Handles, n \in Names :
        ~hs[h].open /\ h \in Actors /\ Head(todo).h = h /\ Head(todo).n = n
  BY OpeningTask DEF OpenMissing, Doing, OpenModes
<1>2. Head(todo).h = h /\ Head(todo).n = n /\ h \in Actors
  BY <1>1
<1>3. inodeArea' = inodeArea /\ dataArea' = dataArea
  BY DEF OpenMissing, flash
<1>4. CASE hs' = hs
  BY <1>3, <1>4, NothingSeen
<1>5. CASE hs' # hs
  <2>1. PICK page :
          hs' = [hs EXCEPT ![h] = [[NoHandle EXCEPT !.name = n, !.mod = TRUE]
                                     EXCEPT !.open = TRUE, !.page = page]]
    BY <1>2, <1>5 DEF OpenMissing, NewHandle
  <2> DEFINE g == [[NoHandle EXCEPT !.name = n, !.mod = TRUE] EXCEPT !.open = TRUE, !.page = page]
  <2>2. OneDraft(h, PlainDraft(g, dataArea))
    BY <1>2, <1>3, <2>1, NewDraft
  <2>3. g.open = TRUE /\ g.ino = 0 /\ g.name = n /\ g.mod = TRUE /\ g.len = 0
    BY DEF NoHandle
  <2> HIDE DEF g
  <2>4. [k \in 1 .. g.len |-> dataArea[g.dp[k].id]] = <<>>
    BY <2>3
  <2>5. PlainDraft(g, dataArea) = [open |-> TRUE, ino |-> 0, name |-> n, content |-> <<>>,
                                   dirty |-> TRUE]
    BY <2>3, <2>4 DEF PlainDraft
  <2>6. [Abstract!Closed EXCEPT !.open = TRUE, !.name = n, !.dirty = TRUE]
          = [open |-> TRUE, ino |-> 0, name |-> n, content |-> <<>>, dirty |-> TRUE]
    <3> DEFINE c == Abstract!Closed
               e == [c EXCEPT !.open = TRUE]
    <3>1. c = Draft(FALSE, 0, NoName, <<>>, FALSE)
      BY DEF Abstract!Closed, Draft
    <3> HIDE DEF c
    <3>2. e = Draft(TRUE, 0, NoName, <<>>, FALSE)
      <4>1. IsDraft(c)
        BY <3>1 DEF IsDraft, Draft
      <4>2. c.open = FALSE /\ c.ino = 0 /\ c.name = NoName /\ c.content = <<>> /\ c.dirty = FALSE
        BY <3>1 DEF Draft
      <4>3. [c EXCEPT !.open = TRUE] = Draft(TRUE, c.ino, c.name, c.content, c.dirty)
        BY <4>1, OneEdit
      <4>4. QED
        BY <4>2, <4>3
    <3>3. [c EXCEPT !.open = TRUE, !.name = n, !.dirty = TRUE] = [e EXCEPT !.name = n, !.dirty = TRUE]
      OBVIOUS
    <3> HIDE DEF e
    <3>4. [e EXCEPT !.name = n, !.dirty = TRUE] = Draft(TRUE, 0, n, <<>>, TRUE)
      <4>1. Titled(e, n, TRUE) = Draft(TRUE, 0, n, <<>>, TRUE)
        <5>1. IsDraft(e)
          BY <3>2 DEF IsDraft, Draft
        <5>2. e.open = TRUE /\ e.ino = 0 /\ e.name = NoName /\ e.content = <<>> /\ e.dirty = FALSE
          BY <3>2 DEF Draft
        <5>3. Titled(e, n, TRUE) = Draft(e.open, e.ino, n, e.content, TRUE)
          BY <5>1, DraftEdit
        <5>4. QED
          BY <5>2, <5>3
      <4>2. QED
        BY <4>1 DEF Titled
    <3>5. QED
      BY <3>3, <3>4 DEF Draft, c
  <2>7. ~Drafts[h].open
    BY <1>1, <1>2 DEF Drafts, DraftOf
  <2>8. OneDraft(h, [Abstract!Closed EXCEPT !.open = TRUE, !.name = n, !.dirty = TRUE])
    BY <2>2, <2>5, <2>6
  <2>9. Abstract!Create(h, n)
    BY <1>2, <2>7, <2>8, AbstractOpens
  <2>10. QED
    BY <1>2, <2>9 DEF Edit
<1>6. QED
  BY <1>4, <1>5

LEMMA FoundRefines ==
  ASSUME TypeOK, Control, PagesInv, PagesInv', OpenFound
  PROVE  Edit
<1>1. PICK h \in Handles : ~hs[h].open /\ h \in Actors /\ h # Tmp /\ h = Actor
  BY OpeningTask DEF OpenFound, Doing, OpenModes, Actor
<1>2. /\ h \in Actors /\ Tmp \in Actors /\ h # Tmp /\ hs[Tmp].open
      /\ inodeArea' = inodeArea /\ dataArea' = dataArea
      /\ hs' = [hs EXCEPT ![h] = hs[Tmp], ![Tmp] = NoHandle]
  BY <1>1 DEF OpenFound, flash, Actors
<1>3. /\ hs'[h] = hs[Tmp] /\ hs'[Tmp] = NoHandle
      /\ \A a \in Actors \ {h, Tmp} : hs'[a] = hs[a]
  BY <1>2 DEF TypeOK
<1>4. HandleLists /\ HandleLists' /\ StoredLists
  BY DEF PagesInv
<1>5. Store' = Store
  <2>1. LatestPages' = LatestPages
    BY <1>2, SameNames DEF LatestPages
  <2>2. QED
    BY <1>2, <1>4, <2>1, StoreKept
<1>6. \A a \in Actors : /\ Drafts[a] = PlainDraft(hs[a], dataArea)
                        /\ Drafts'[a] = PlainDraft(hs'[a], dataArea)
  BY <1>2, <1>4, DraftsAre
<1>7. Drafts'[h] = Drafts[Tmp] /\ Drafts'[Tmp] = Abstract!Closed
  <2>1. Drafts'[h] = Drafts[Tmp]
    <3>1. Drafts'[h] = PlainDraft(hs'[h], dataArea) /\ Drafts[Tmp] = PlainDraft(hs[Tmp], dataArea)
      BY <1>2, <1>6
    <3> QED BY <1>3, <3>1
  <2>2. Drafts'[Tmp] = PlainDraft(NoHandle, dataArea)
    BY <1>2, <1>3, <1>6
  <2> QED BY <2>1, <2>2, ClosedDraft
<1>8. \A a \in Actors \ {h, Tmp} : Drafts'[a] = Drafts[a]
  BY <1>3, <1>6
<1>9. Drafts' = [Drafts EXCEPT ![h] = Drafts[Tmp], ![Tmp] = Abstract!Closed]
  <2>1. /\ Drafts = [a \in Actors |-> Drafts[a]]
        /\ Drafts' = [a \in Actors |-> Drafts'[a]]
    BY DEF Drafts
  <2>2. QED
    BY <1>2, <1>7, <1>8, <2>1
<1>10. Drafts[Tmp].open /\ ~Drafts[h].open
  BY <1>1, <1>2 DEF Drafts, DraftOf
<1>11. Abstract!HandOver(Tmp, h)
  BY <1>2, <1>5, <1>9, <1>10, AbstractOpens
<1>12. QED
  BY <1>2, <1>11 DEF Edit

LEMMA StartOverRefines ==
  ASSUME TypeOK, Control, PagesInv, PagesInv', OpenTrunc
  PROVE  Stays \/ Abstract!Next
<1> DEFINE f == hs[Tmp]
           d == Drafts[Tmp]
<1>1. PICK h \in Handles : ~hs[h].open /\ h \in Actors /\ h = Actor
  BY OpeningTask DEF OpenTrunc, Doing, OpenModes, Actor
<1>2. inodeArea' = inodeArea /\ dataArea' = dataArea /\ Tmp \in Actors /\ f.open
      /\ f \in Handle
  BY DEF OpenTrunc, flash, Actors, TypeOK
<1>3. CASE hs' = hs
  BY <1>2, <1>3, NothingSeen
<1>4. CASE hs' # hs
  <2>1. PICK page :
          hs' = [hs EXCEPT ![h] =
            [[NoHandle EXCEPT !.ino = f.ino, !.ver = f.ver, !.name = f.name]
               EXCEPT !.open = TRUE, !.page = page]]
    BY <1>1, <1>4 DEF OpenTrunc, NewHandle
  <2> DEFINE g == [[NoHandle EXCEPT !.ino = f.ino, !.ver = f.ver, !.name = f.name]
                     EXCEPT !.open = TRUE, !.page = page]
  <2>2. OneDraft(h, PlainDraft(g, dataArea))
    BY <1>1, <1>2, <2>1, NewDraft
  <2>3. g.open = TRUE /\ g.ino = f.ino /\ g.name = f.name /\ g.mod = FALSE /\ g.len = 0
    BY DEF NoHandle
  <2> HIDE DEF g
  <2>4. [k \in 1 .. g.len |-> dataArea[g.dp[k].id]] = <<>>
    BY <2>3
  <2>5. PlainDraft(g, dataArea) = Draft(TRUE, f.ino, f.name, <<>>, FALSE)
    BY <2>3, <2>4 DEF PlainDraft, Draft
  <2>6. d = Draft(TRUE, f.ino, f.name, d.content, d.dirty) /\ d.open
    <3>1. d = PlainDraft(f, dataArea)
      BY <1>2, DraftsAre DEF PagesInv
    <3>2. d = Draft(f.open, f.ino, f.name, d.content, d.dirty) /\ d.open
      BY <1>2, <3>1 DEF PlainDraft, Draft
    <3>3. f.open = TRUE
      BY <1>2 DEF Handle
    <3> HIDE DEF d
    <3>4. QED
      BY <3>2, <3>3
  <2> HIDE DEF d
  <2>7. [d EXCEPT !.content = <<>>, !.dirty = FALSE] = Draft(TRUE, f.ino, f.name, <<>>, FALSE)
    <3>1. Filled(d, <<>>, FALSE) = Draft(TRUE, f.ino, f.name, <<>>, FALSE)
      <4>1. IsDraft(d)
        BY <2>6 DEF IsDraft, Draft
      <4>2. d.open = TRUE /\ d.ino = f.ino /\ d.name = f.name
        BY <2>6 DEF Draft
      <4>3. Filled(d, <<>>, FALSE) = Draft(d.open, d.ino, d.name, <<>>, FALSE)
        BY <4>1, DraftEdit
      <4>4. QED
        BY <4>2, <4>3
    <3>2. QED
      BY <3>1 DEF Filled
  <2>8. OneDraft(h, [d EXCEPT !.content = <<>>, !.dirty = FALSE])
    BY <2>2, <2>5, <2>7
  <2>9. ~Drafts[h].open
    BY <1>1 DEF Drafts, DraftOf
  <2>10. Abstract!StartOver(Tmp, h)
    BY <1>1, <1>2, <2>6, <2>8, <2>9, AbstractOpens DEF d
  <2>11. QED
    BY <1>1, <1>2, <2>10, AbstractActions
<1>5. QED
  BY <1>3, <1>4

(***************************************************************************)
(* Renaming.                                                               *)
(***************************************************************************)
LEMMA RemoveRefines ==
  ASSUME TypeOK, PagesInv, PagesInv', RemoveOther
  PROVE  Stays \/ Edit
<1>1. /\ inodeArea' = inodeArea /\ dataArea' = dataArea /\ Tmp \in Actors
  BY DEF RemoveOther, flash, Actors
<1>2. CASE hs[Tmp].open
  <2>1. hs' = [hs EXCEPT ![Tmp] = Emptied(@)]
    BY <1>2 DEF RemoveOther
  <2>2. QED
    BY <1>1, <1>2, <2>1, EmptyRefines
<1>3. CASE ~hs[Tmp].open
  BY <1>1, <1>3, NothingSeen DEF RemoveOther
<1>4. QED
  BY <1>2, <1>3

LEMMA RetitleRefines ==
  ASSUME TypeOK, Control, PagesInv, PagesInv', RenameSelf
  PROVE  Edit
<1>1. PICK h \in Handles, n \in Names : hs[h].open /\ Head(todo).h = h /\ Head(todo).n = n
  <2>1. PICK h \in Handles, n \in Names : hs[h].open /\ todo = <<OnName("renameSelf", h, n)>>
    BY TaskPlaces DEF RenameSelf, Doing
  <2>2. Head(todo) = OnName("renameSelf", h, n)
    BY <2>1, Tuple1
  <2>3. QED
    BY <2>1, <2>2, TaskParts
<1> DEFINE f == hs[h]
           g == [f EXCEPT !.name = n, !.mod = TRUE]
           d == Drafts[h]
<1>2. /\ f \in Handle /\ hs \in [Actors -> Handle] /\ h \in Actors
      /\ inodeArea' = inodeArea /\ dataArea' = dataArea
      /\ hs' = [hs EXCEPT ![h].name = n, ![h].mod = TRUE]
  BY <1>1 DEF TypeOK, RenameSelf, Actors, flash
<1>3. hs' = [hs EXCEPT ![h] = g]
  BY <1>2
<1>4. /\ g.open = f.open /\ g.ino = f.ino /\ g.name = n /\ g.mod = TRUE
      /\ g.len = f.len /\ g.dp = f.dp
  BY <1>2 DEF Handle
<1> HIDE DEF g
<1>5. OneDraft(h, PlainDraft(g, dataArea))
  BY <1>2, <1>3, NewDraft
<1>6. d = PlainDraft(f, dataArea)
  BY <1>2, DraftsAre DEF PagesInv
<1>7. /\ d = Draft(f.open, f.ino, f.name, d.content, f.mod) /\ d.open
      /\ d.content = [k \in 1 .. f.len |-> dataArea[f.dp[k].id]]
  BY <1>1, <1>6 DEF PlainDraft, Draft
<1>8. PlainDraft(g, dataArea) = Draft(f.open, f.ino, n, d.content, TRUE)
  <2>1. [k \in 1 .. g.len |-> dataArea[g.dp[k].id]] = d.content
    BY <1>4, <1>7
  <2> HIDE DEF d
  <2>2. QED
    BY <1>4, <2>1 DEF PlainDraft, Draft
<1> HIDE DEF d
<1>9. [d EXCEPT !.name = n, !.dirty = TRUE] = Draft(f.open, f.ino, n, d.content, TRUE)
  <2>1. Titled(d, n, TRUE) = Draft(f.open, f.ino, n, d.content, TRUE)
    <3>1. IsDraft(d)
      BY <1>7 DEF IsDraft, Draft
    <3>2. d.open = f.open /\ d.ino = f.ino
      <4>1. d = Draft(f.open, f.ino, f.name, d.content, f.mod)
        BY <1>7
      <4>2. QED
        BY <4>1 DEF Draft
    <3>3. Titled(d, n, TRUE) = Draft(d.open, d.ino, n, d.content, TRUE)
      BY <3>1, DraftEdit
    <3>4. QED
      BY <3>2, <3>3
  <2>2. QED
    BY <2>1 DEF Titled
<1>10. OneDraft(h, [d EXCEPT !.name = n, !.dirty = TRUE])
  BY <1>5, <1>8, <1>9
<1>11. Abstract!Retitle(h, n)
  BY <1>2, <1>7, <1>10, AbstractEdits DEF d
<1>12. QED
  BY <1>2, <1>11 DEF Edit

(***************************************************************************)
(* Every step.                                                             *)
(***************************************************************************)
LEMMA LossRefines ==
  ASSUME TypeOK, PagesInv, PagesInv', PowerLoss
  PROVE  Edit
<1>1. /\ dataArea' = dataArea /\ ValidPages' = ValidPages
      /\ \A p \in InodePages : /\ Valid(p)' <=> Valid(p)
                               /\ Valid(p) => inodeArea'[p] = inodeArea[p]
  BY LossTears
<1>2. HandleLists /\ HandleLists' /\ StoredLists
  BY DEF PagesInv
<1>3. \A p \in ValidPages : inodeArea'[p] = inodeArea[p]
  BY <1>1 DEF ValidPages
<1>4. \A p, q \in ValidPages : Supersedes(q, p)' <=> Supersedes(q, p)
  BY <1>3 DEF Supersedes
<1>5. \A p \in InodePages : Latest(p)' <=> Latest(p)
  <2>1. SUFFICES ASSUME NEW p \in InodePages, Valid(p) PROVE Latest(p)' <=> Latest(p)
    BY <1>1 DEF Latest
  <2>2. p \in ValidPages /\ Valid(p)'
    BY <1>1, <2>1 DEF ValidPages
  <2>3. QED
    BY <1>1, <1>4, <2>1, <2>2 DEF Latest
<1>6. LatestPages' = LatestPages /\ LatestPages \subseteq ValidPages
  BY <1>5 DEF LatestPages, Latest, ValidPages
<1>7. Store' = Store
  BY <1>1, <1>2, <1>3, <1>6, StoreKept
<1>8. \A a \in Actors : hs'[a] = NoHandle
  BY DEF PowerLoss
<1>9. \A a \in Actors : Drafts'[a] = Abstract!Closed
  BY <1>2, <1>8, DraftsAre, ClosedDraft
<1>10. Drafts' = [h \in Actors |-> Abstract!Closed]
  <2>1. Drafts' = [h \in Actors |-> Drafts'[h]]
    BY DEF Drafts
  <2>2. QED
    BY <1>9, <2>1
<1>11. QED
  BY <1>7, <1>10, AbstractLoss DEF Edit

\* What holds in every state of plain use.
RefinementInv == BaseInv /\ PagesInv /\ NumbersSuffice /\ CommitsChanges

LEMMA StepKinds ==
  ASSUME PlainUse, RefinementInv, RefinementInv', [Next]_vars
  PROVE  \/ Stays \/ Edit
         \/ /\ WriteMeta /\ Abstract!Commit(Actor)
            /\ Actor \in Actors /\ Drafts[Actor].ino \in 1 .. MaxIno
            /\ \A b \in Actors \ {Actor} :
                 Drafts[b].open => Drafts[b].ino # Drafts[Actor].ino
         \/ OpenTrunc /\ Abstract!Next
<1>1. /\ TypeOK /\ TypeOK' /\ Control /\ Numbered /\ NumbersBounded /\ PoweredOff
      /\ PagesInv /\ PagesInv' /\ NumbersSuffice /\ NumbersSuffice' /\ CommitsChanges
  BY DEF RefinementInv, BaseInv, NumbersInv
<1>2. CASE Call
  BY <1>1, <1>2, CallRefines
<1>3. CASE Work
  <2>1. \A t \in {"write", "grow", "seek", "clean"} : ~(todo # <<>> /\ Head(todo).t = t)
    <3>1. todo # <<>> => todo[1] = Head(todo) /\ 1 \in 1 .. Len(todo)
      BY <1>1 DEF TypeOK
    <3>2. QED
      BY <1>1, <3>1 DEF PagesInv, PlainTasks
  <2>2. ~WriteWork /\ ~EnlargeStep /\ ~Clean /\ ~WriteMetaFails
    BY <2>1 DEF WriteWork, WriteOn, WriteRefused, EnlargeStep, Clean, Doing, WriteMetaFails,
       PlainUse, Refusals
  <2>3. up # "off"
    BY <1>1, <1>3, Running
  <2>4. CASE FlushNumber
    BY <1>1, <2>3, <2>4, NumberRefines
  <2>5. CASE WriteMeta
    BY <1>1, <2>5, CommitRefines
  <2>6. CASE ErasePage
    BY <1>1, <2>6, EraseRefines
  <2>7. CASE \/ FlushVersion \/ WriteZeroPage \/ FindScan \/ Correct
             \/ EraseOutdated \/ MountDone
    BY <1>1, <2>7, QuietRefines
  <2>8. CASE Drop \/ Deleted
    BY <1>1, <2>8, CloseRefines
  <2>9. CASE Visit
    BY <1>1, <2>9, VisitRefines
  <2>10. CASE OpenMissing \/ OpenFound \/ OpenTrunc
    BY <1>1, <2>10, MissingRefines, FoundRefines, StartOverRefines
  <2>11. CASE RemoveOther \/ RenameSelf
    BY <1>1, <2>11, RemoveRefines, RetitleRefines
  <2>12. QED
    BY <1>3, <2>2, <2>4, <2>5, <2>6, <2>7, <2>8, <2>9, <2>10, <2>11 DEF Work, WriteWork
<1>4. CASE PowerLoss
  BY <1>1, <1>4, LossRefines
<1>5. CASE MountScan
  BY <1>1, <1>5, QuietRefines
<1>6. CASE UNCHANGED vars
  BY <1>1, <1>6, NothingSeen DEF vars
<1>7. QED
  BY <1>2, <1>3, <1>4, <1>5, <1>6 DEF Next

LEMMA NextRefines ==
  ASSUME PlainUse, RefinementInv, RefinementInv', [Next]_vars
  PROVE  [Abstract!Next]_(<<Store, Drafts>>)
<1>1. Stays \/ Abstract!Next
  BY StepKinds, AbstractActions
<1>2. QED
  BY <1>1, AbstractStays

LEMMA RefinementInit == Init => RefinementInv
<1>1. SUFFICES ASSUME Init PROVE RefinementInv
  OBVIOUS
<1>2. /\ todo = <<>> /\ maxIno = 0 /\ \A p \in InodePages : inodeArea[p] = Blank
      /\ \A h \in Handles : hs[h] = NoHandle
  BY <1>1 DEF Init, Actors
<1>3. Unnumbered = {} /\ ValidPages = {}
  BY <1>2, NoHandleParts DEF Unnumbered, ValidPages, Valid
<1>4. IsFiniteSet(Unnumbered) /\ Cardinality(Unnumbered) = 0
  BY <1>3, FS_EmptySet
<1>5. NumbersSuffice
  BY <1>2, <1>3, <1>4, BoundAssumption DEF NumbersSuffice, Creating
<1>6. CommitsChanges
  BY <1>2 DEF CommitsChanges, Committing
<1>7. QED
  BY <1>1, <1>5, <1>6, BaseInit, PagesInit DEF RefinementInv

LEMMA RefinementNext ==
  ASSUME PlainUse, RefinementInv, [Next]_vars
  PROVE  RefinementInv'
<1>1. BaseInv /\ PagesInv /\ NumbersSuffice /\ CommitsChanges /\ TypeOK /\ Control
  BY DEF RefinementInv, BaseInv, NumbersInv
<1>2. BaseInv'
  BY <1>1, BaseNext
<1>3. PagesInv'
  BY <1>1, <1>2, PagesNext
<1>4. NumbersSuffice'
  BY <1>1, <1>2, SufficeNext
<1>5. CommitsChanges'
  BY <1>1, WritesChanges
<1>6. QED
  BY <1>2, <1>3, <1>4, <1>5 DEF RefinementInv

\* Journaling (Readme.md, "Journaling mechanism"), for every number of pages,
\* files, handles and names and for every interleaving of calls, losses of power
\* and restarts in plain use: write_meta_page() replaces a stored file by the
\* whole content of its handle in one step, and no other step of flush(),
\* erase_inode_and_unused_pages(), open(), rename_file(), delete_file(),
\* init() or a power loss between two of them changes a stored file.  In plain
\* use no write() of several pages is refused after the first of them, and one
\* that nothing refuses is a call for each page.
THEOREM FilesChangeAtomically ==
  ASSUME PlainUse
  PROVE  Spec => FilesAreAtomic
<1>1. Init => RefinementInv
  BY RefinementInit
<1>2. RefinementInv /\ [Next]_vars => RefinementInv'
  BY RefinementNext
<1>3. Spec => []RefinementInv
  BY <1>1, <1>2, PTL DEF Spec
<1>4. Init => Abstract!Init
  BY AbstractInit
<1>5. RefinementInv /\ RefinementInv' /\ [Next]_vars => [Abstract!Next]_(<<Store, Drafts>>)
  BY NextRefines
<1>6. QED
  BY <1>3, <1>4, <1>5, PTL DEF Spec, FilesAreAtomic, Abstract!Spec, Store, Drafts
=============================================================================
