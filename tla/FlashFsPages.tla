----------------------------- MODULE FlashFsPages -----------------------------
(***************************************************************************)
(* The steps of FlashFs keep PagesInv: in plain use every page of the      *)
(* flash belongs to one file, one open handle or the free pages.           *)
(***************************************************************************)
EXTENDS FlashFsProofs

(***************************************************************************)
(* The list of tasks in plain use.                                         *)
(***************************************************************************)
Corrections == {"write", "grow", "seek", "clean"}
Searches    == {"visit", "correct"}

LEMMA PlainPop ==
  ASSUME todo \in Seq(Task), todo # <<>>, PlainTasks, todo' = Tail(todo)
  PROVE  /\ PlainTasks'
         /\ todo' # <<>> => Head(todo').t \notin Corrections \cup Searches
<1>1. /\ Len(todo') = Len(todo) - 1
      /\ \A k \in 1 .. Len(todo') : todo'[k] = todo[k + 1]
      /\ Len(todo) \in Nat
  OBVIOUS
<1>2. todo' # <<>> => Head(todo') = todo'[1] /\ 1 \in 1 .. Len(todo')
  OBVIOUS
<1>3. PlainTasks'
  BY <1>1 DEF PlainTasks
<1>4. todo' # <<>> => Head(todo').t \notin Corrections \cup Searches
  <2>1. SUFFICES ASSUME todo' # <<>> PROVE Head(todo').t \notin Corrections \cup Searches
    OBVIOUS
  <2>2. 2 \in 1 .. Len(todo) /\ 2 \in 2 .. Len(todo) /\ Head(todo') = todo[2]
    BY <2>1, <1>1, <1>2
  <2>3. QED
    BY <2>2 DEF PlainTasks, Corrections, Searches
<1>5. QED
  BY <1>3, <1>4

LEMMA PlainPush1 ==
  ASSUME NEW r \in Seq(Task), NEW x \in Task, x.t \notin Corrections,
         \A k \in 1 .. Len(r) : r[k].t \notin Corrections \cup Searches,
         todo' = <<x>> \o r
  PROVE  PlainTasks'
<1>1. /\ Len(todo') = Len(r) + 1
      /\ todo'[1] = x
      /\ \A k \in 2 .. Len(todo') : todo'[k] = r[k - 1]
      /\ Len(r) \in Nat
  OBVIOUS
<1>2. \A k \in 2 .. Len(todo') : k - 1 \in 1 .. Len(r)
  BY <1>1
<1>3. \A k \in 2 .. Len(todo') : todo'[k].t \notin Corrections \cup Searches
  BY <1>1, <1>2
<1>4. \A k \in 1 .. Len(todo') : todo'[k].t \notin Corrections
  <2>1. TAKE k \in 1 .. Len(todo')
  <2>2. k = 1 \/ k \in 2 .. Len(todo')
    BY <1>1
  <2>3. QED
    BY <2>2, <1>1, <1>3
<1>5. QED
  BY <1>3, <1>4 DEF PlainTasks, Corrections, Searches

LEMMA PlainPush2 ==
  ASSUME NEW r \in Seq(Task), NEW x \in Task, NEW y \in Task, x.t \notin Corrections,
         y.t \notin Corrections \cup Searches,
         \A k \in 1 .. Len(r) : r[k].t \notin Corrections \cup Searches,
         todo' = <<x, y>> \o r
  PROVE  PlainTasks'
<1>1. /\ Len(todo') = Len(r) + 2
      /\ todo'[1] = x /\ todo'[2] = y
      /\ \A k \in 3 .. Len(todo') : todo'[k] = r[k - 2]
      /\ Len(r) \in Nat
  OBVIOUS
<1>2. \A k \in 3 .. Len(todo') : k - 2 \in 1 .. Len(r)
  BY <1>1
<1>3. \A k \in 2 .. Len(todo') : todo'[k].t \notin Corrections \cup Searches
  <2>1. TAKE k \in 2 .. Len(todo')
  <2>2. k = 2 \/ k \in 3 .. Len(todo')
    BY <1>1
  <2>3. QED
    BY <2>2, <1>1, <1>2
<1>4. \A k \in 1 .. Len(todo') : todo'[k].t \notin Corrections
  <2>1. TAKE k \in 1 .. Len(todo')
  <2>2. k = 1 \/ k \in 2 .. Len(todo')
    BY <1>1
  <2>3. QED
    BY <2>2, <1>1, <1>3
<1>5. QED
  BY <1>3, <1>4 DEF PlainTasks, Corrections, Searches

\* What follows the task at the head.
LEMMA PlainTail ==
  ASSUME todo \in Seq(Task), todo # <<>>, PlainTasks
  PROVE  /\ Tail(todo) \in Seq(Task)
         /\ \A k \in 1 .. Len(Tail(todo)) :
              Tail(todo)[k].t \notin Corrections \cup Searches
         /\ Head(todo).t \notin Corrections
<1>1. /\ Len(Tail(todo)) = Len(todo) - 1
      /\ \A k \in 1 .. Len(Tail(todo)) : Tail(todo)[k] = todo[k + 1]
      /\ Len(todo) \in Nat \ {0}
      /\ Head(todo) = todo[1]
      /\ Tail(todo) \in Seq(Task)
  OBVIOUS
<1>2. \A k \in 1 .. Len(Tail(todo)) : k + 1 \in 1 .. Len(todo) /\ k + 1 \in 2 .. Len(todo)
  BY <1>1
<1>3. QED
  BY <1>1, <1>2 DEF PlainTasks, Corrections, Searches

LEMMA TaskParts ==
  /\ \A t, h : On(t, h).t = t /\ On(t, h).h = h
  /\ \A t, h, n : OnName(t, h, n).t = t /\ OnName(t, h, n).h = h /\ OnName(t, h, n).n = n
BY DEF On, OnName

LEMMA OnTypes ==
  ASSUME NEW t \in TaskKinds, NEW a \in Actors
  PROVE  On(t, a) \in Task
BY TaskTypes DEF FileNames

LEMMA PlainShort ==
  ASSUME NEW x \in Task, NEW y \in Task, NEW z \in Task, x.t \notin Corrections,
         y.t \notin Corrections \cup Searches, z.t \notin Corrections \cup Searches,
         todo' \in {<<>>, <<x>>, <<x, y>>, <<x, y, z>>}
  PROVE  PlainTasks'
<1>1. CASE todo' = <<>>
  BY <1>1 DEF PlainTasks
<1>2. CASE todo' = <<x>>
  BY <1>2 DEF PlainTasks, Corrections, Searches
<1>3. CASE todo' = <<x, y>>
  <2>1. Len(todo') = 2 /\ todo'[1] = x /\ todo'[2] = y
    BY <1>3
  <2>2. \A k \in 1 .. Len(todo') : k = 1 \/ k = 2
    BY <2>1
  <2>3. \A k \in 2 .. Len(todo') : k = 2
    BY <2>1
  <2>4. QED
    BY <2>1, <2>2, <2>3 DEF PlainTasks, Corrections, Searches
<1>4. CASE todo' = <<x, y, z>>
  <2>1. Len(todo') = 3 /\ todo'[1] = x /\ todo'[2] = y /\ todo'[3] = z
    BY <1>4
  <2>2. \A k \in 1 .. Len(todo') : k = 1 \/ k = 2 \/ k = 3
    BY <2>1
  <2>3. \A k \in 2 .. Len(todo') : k = 2 \/ k = 3
    BY <2>1
  <2>4. QED
    BY <2>1, <2>2, <2>3 DEF PlainTasks, Corrections, Searches
<1>5. QED
  BY <1>1, <1>2, <1>3, <1>4

\* No stored inode is longer than its file, so that find_file() and
\* list_files() have nothing to correct.
LEMMA NothingOverLong ==
  ASSUME TypeOK, StoredLists, NEW p, Valid(p), p \in InodePages
  PROVE  ~OverLong(inodeArea[p])
<1>1. p \in ValidPages
  BY DEF ValidPages
<1>2. inodeArea[p].extra = {} /\ Len(inodeArea[p].ids) = inodeArea[p].len
      /\ inodeArea[p].len \in Nat
  BY <1>1, LoadedType DEF StoredLists, TypeOK, Inode
<1>3. QED
  BY <1>2 DEF OverLong

\* find_file() goes on until it has found the name or seen every inode.
LEMMA PlainVisit ==
  ASSUME TypeOK, StoredLists, SearchesStored, Visit
  PROVE  /\ Doing("visit") /\ Then(<<>>) /\ scan' = {}
         /\ UNCHANGED <<inodeArea, dataArea, up, freeData, reserved, maxIno, old, doomed>>
         /\ \/ UNCHANGED hs
            \/ \E p \in InodePages :
                 /\ Latest(p)
                 /\ inodeArea[p].name = Head(todo).n
                 /\ Head(todo).n # NoName
                 /\ hs' = [hs EXCEPT ![Tmp] = Loaded(p)]
<1> DEFINE n    == Head(todo).n
           next == {v \in scan : Matters(v[2], n)}
           v    == FirstOf(next)
<1>1. /\ Doing("visit")
      /\ IF next = {}
         THEN scan' = {} /\ Then(<<>>) /\ UNCHANGED hs
         ELSE /\ hs' = [hs EXCEPT ![Tmp] = Loaded(v[2])]
              /\ IF inodeArea[v[2]].name = n
                 THEN scan' = {} /\ Then(<<>>)
                 ELSE TRUE
      /\ UNCHANGED <<flash, up, alloc, old, doomed>>
  BY DEF Visit
<1>2. CASE next = {}
  BY <1>1, <1>2 DEF flash, alloc
<1>3. CASE next # {}
  <2>1. scan \in SUBSET (InodePages \X InodePages)
    BY DEF TypeOK
  <2>2. next \in SUBSET (InodePages \X InodePages)
    BY <2>1
  <2> HIDE DEF next
  <2>3. v \in next
    BY <2>2, <1>3, FirstOfExists
  <2> USE DEF next
  <2>4. v \in scan /\ Matters(v[2], n) /\ v[2] \in InodePages
    BY <2>1, <2>3
  <2>5. Latest(v[2])
    BY <1>1, <2>4 DEF SearchesStored, Doing
  <2> HIDE DEF next, v
  <2>6. Valid(v[2]) /\ ~OverLong(inodeArea[v[2]])
    BY <2>4, NothingOverLong DEF Matters
  <2>7. inodeArea[v[2]].name = n /\ n # NoName
    BY <2>4, <2>6 DEF Matters
  <2>8. QED
    BY <1>1, <1>3, <2>4, <2>5, <2>7 DEF flash, alloc
<1>4. QED
  BY <1>2, <1>3

LEMMA PlainCorrect ==
  ASSUME TypeOK, StoredLists, Correct
  PROVE  /\ Doing("correct") /\ Then(<<>>) /\ scan' = {}
         /\ reserved' = reserved \ {v[1] : v \in scan}
         /\ UNCHANGED <<inodeArea, dataArea, up, freeData, maxIno, hs, old, doomed>>
<1> DEFINE next == {v \in scan : Valid(v[1]) /\ OverLong(inodeArea[v[1]])}
<1>1. next = {}
  BY NothingOverLong DEF TypeOK
<1>2. QED
  BY <1>1 DEF Correct, flash

(***************************************************************************)
(* Steps that change handles only: a call starts, a file is written or cut *)
(* or closed, a task is dropped.  The handle h may take pages from the     *)
(* free ones; the others may only lose some.                               *)
(***************************************************************************)
LEMMA HandleSteps ==
  ASSUME TypeOK, TypeOK', PagesInv, NEW h \in Actors,
         inodeArea' = inodeArea, doomed' = doomed, up' = up, old' = old,
         freeData' \subseteq freeData,
         freeData' # freeData => up = "up" /\ doomed = {},
         \A d \in DataPages : d \in freeData \ freeData' \/ dataArea'[d] = dataArea[d],
         \A a \in Actors \ {h} : HandlePages(hs'[a]) \subseteq HandlePages(hs[a]),
         HandlePages(hs'[h]) \subseteq HandlePages(hs[h]) \cup (freeData \ freeData'),
         \A a \in Actors : hs'[a].open =>
           /\ hs[a].open
           /\ hs'[a].ino = hs[a].ino /\ hs'[a].ver = hs[a].ver
           /\ hs'[a].page = hs[a].page
           /\ Valid(hs[a].page) \/ hs[a].page \in reserved',
         HandleLists',
         \A a \in Actors : Committing(a)' => Committing(a) /\ hs'[a] = hs[a],
         \A a \in Actors : Replacing(a)' <=> Replacing(a),
         doomed # {} => todo' # <<>> /\ Head(todo').t = "erase",
         \A a, b \in Actors :
           /\ a # b /\ hs'[a].open /\ hs'[b].open
           /\ hs'[a].ino = hs'[b].ino /\ hs'[a].ino # 0
           => /\ ~hs'[Tmp].mod
              /\ todo' \in {<<On("flush", Tmp), On("drop", Tmp)>>, <<On("drop", Tmp)>>},
         PlainTasks', SearchesStored'
  PROVE  PagesInv'
<1> DEFINE taken == freeData \ freeData'
<1>1. /\ ValidPages' = ValidPages
      /\ \A p \in InodePages : (Valid(p)' <=> Valid(p))
      /\ \A p \in InodePages : StoredPages(p)' = StoredPages(p)
      /\ \A p, q \in InodePages : SameFile(p, q)' <=> SameFile(p, q)
      /\ ValidPages \subseteq InodePages
      /\ \A a \in Actors : hs[a].page \in InodePages /\ hs'[a].page \in InodePages
  BY DEF ValidPages, Valid, StoredPages, SameFile, TypeOK, Handle
<1>2. /\ \A p \in ValidPages : StoredPages(p) \subseteq DataPages
      /\ \A a \in Actors : HandlePages(hs[a]) \subseteq DataPages
  BY LoadedType, PagesTypes DEF TypeOK, ValidPages, StoredPages
<1>3. \A a \in Actors : HandlePages(hs'[a]) # {} => hs'[a].open
  <2>1. HandlePages(NoHandle) = {}
    BY DEF HandlePages, NoHandle
  <2>2. QED
    BY <2>1 DEF HandleLists
<1>4. /\ \A p \in ValidPages : StoredPages(p) \cap taken = {}
      /\ \A a \in Actors : HandlePages(hs[a]) \cap taken = {}
  BY DEF PagesInv, FreeIsUnused
<1>5. StoredLists'
  <2>1. \A p \in ValidPages : \A d \in StoredPages(p) : dataArea'[d] # Blank
    BY <1>2, <1>4 DEF PagesInv, StoredLists
  <2>2. QED
    BY <1>1, <2>1 DEF PagesInv, StoredLists
<1>6. StoredVersions'
  BY <1>1 DEF PagesInv, StoredVersions
<1>7. StoredShares'
  BY <1>1 DEF PagesInv, StoredShares
<1>8. SettledShares'
  BY <1>1 DEF PagesInv, SettledShares
<1>9. FreeIsUnused'
  <2>1. \A a \in Actors : HandlePages(hs'[a]) \cap freeData' = {}
    BY DEF PagesInv, FreeIsUnused
  <2>2. QED
    BY <1>1, <2>1 DEF PagesInv, FreeIsUnused
<1>10. DoomedIsOld'
  <2>1. \A a \in Actors : HandlePages(hs'[a]) \cap doomed = {}
    BY DEF PagesInv, DoomedIsOld
  <2>2. QED
    BY <1>1, <2>1 DEF PagesInv, DoomedIsOld
<1>11. HandlePlaces'
  BY <1>1 DEF PagesInv, HandlePlaces
<1>12. HandlesApart'
  <2>1. \A a, b \in Actors : a # b => HandlePages(hs'[a]) \cap HandlePages(hs'[b]) = {}
    <3>1. TAKE a, b \in Actors
    <3>2. HAVE a # b
    <3>3. HandlePages(hs[a]) \cap HandlePages(hs[b]) = {}
      BY <3>2 DEF PagesInv, HandlesApart
    <3>4. QED
      BY <3>2, <3>3, <1>4
  <2>2. QED
    BY <2>1 DEF PagesInv, HandlesApart
<1>13. HandleShares'
  <2>1. SUFFICES ASSUME NEW a \in Actors, NEW q \in ValidPages,
                        HandlePages(hs'[a]) \cap StoredPages(q) # {}
                 PROVE  /\ inodeArea[q].ino = hs'[a].ino
                        /\ Erasing => \/ q = hs'[a].page
                                      \/ q \in doomed
                                      \/ Replacing(a) /\ q = old.page
    BY <1>1 DEF HandleShares
  <2>2. HandlePages(hs[a]) \cap StoredPages(q) # {}
    BY <2>1, <1>4
  <2>3. hs'[a].ino = hs[a].ino /\ hs'[a].page = hs[a].page
    BY <2>1, <1>3
  <2>4. QED
    BY <2>2, <2>3 DEF PagesInv, HandleShares
<1>14. HandleVersions'
  <2>1. SUFFICES ASSUME NEW a \in Actors, NEW q \in ValidPages,
                        hs'[a].open, inodeArea[q].ino = hs'[a].ino
                 PROVE  /\ inodeArea[q].ver <= hs'[a].ver
                        /\ Committing(a)' => inodeArea[q].ver < hs'[a].ver
    BY <1>1 DEF HandleVersions
  <2>2. QED
    BY <2>1 DEF PagesInv, HandleVersions
<1>15. CommitsToFresh'
  BY <1>1 DEF PagesInv, CommitsToFresh
<1>16. ReplacesOld'
  <2>1. SUFFICES ASSUME NEW a \in Actors, Replacing(a)
                 PROVE  /\ HandlePages(hs'[a]) \subseteq old.ids
                        /\ old.ids \cap freeData' = {}
                        /\ \A b \in Actors \ {a} : old.ids \cap HandlePages(hs'[b]) = {}
                        /\ \A q \in ValidPages : old.ids \cap StoredPages(q) # {} =>
                             inodeArea[q].ino = hs'[a].ino /\ (Erasing => q = old.page)
                        /\ \A b \in Actors : hs'[b].open => hs'[b].page # old.page
                        /\ Valid(old.page) => /\ inodeArea[old.page].ino = hs'[a].ino
                                              /\ inodeArea[old.page].ver + 1 = hs'[a].ver
    BY <1>1 DEF ReplacesOld, TypeOK
  <2>2. Replacing(a)'
    BY <2>1
  <2>3. Committing(a)'
    BY <2>2 DEF Replacing, Committing
  <2>4. hs'[a] = hs[a]
    BY <2>3
  <2>5. old.ids \cap freeData = {}
    BY <2>1 DEF PagesInv, ReplacesOld
  <2>6. \A b \in Actors \ {a} : old.ids \cap HandlePages(hs'[b]) = {}
    <3>1. TAKE b \in Actors \ {a}
    <3>2. old.ids \cap HandlePages(hs[b]) = {}
      BY <2>1 DEF PagesInv, ReplacesOld
    <3>3. QED
      BY <3>2, <2>5
  <2>7. QED
    BY <2>1, <2>4, <2>5, <2>6 DEF PagesInv, ReplacesOld
<1>17. QED
  BY <1>5, <1>6, <1>7, <1>8, <1>9, <1>10, <1>11, <1>12, <1>13, <1>14, <1>15, <1>16
     DEF PagesInv

(***************************************************************************)
(* Calls.                                                                  *)
(***************************************************************************)
LEMMA SameNames ==
  ASSUME inodeArea' = inodeArea
  PROVE  /\ \A i : CommittedName(i)' = CommittedName(i)
         /\ \A p : Latest(p)' <=> Latest(p)
         /\ \A p : Valid(p)' <=> Valid(p)
<1>1. \A p : Valid(p)' <=> Valid(p)
  BY DEF Valid
<1>2. ValidPages' = ValidPages
  BY <1>1 DEF ValidPages
<1>3. \A p : Latest(p)' <=> Latest(p)
  BY <1>1, <1>2 DEF Latest, Supersedes
<1>4. \A i : CommittedName(i)' = CommittedName(i)
  BY <1>3 DEF CommittedName
<1>5. QED
  BY <1>1, <1>3, <1>4

\* only a flush has a page to write
LEMMA NothingToCommit ==
  /\ (todo = <<>> \/ Head(todo).t \notin {"zero", "meta", "metaNew"}) =>
       \A a : ~Committing(a) /\ ~Replacing(a)
  /\ (todo' = <<>> \/ Head(todo').t \notin {"zero", "meta", "metaNew"}) =>
       \A a : ~Committing(a)' /\ ~Replacing(a)'
BY DEF Committing, Replacing

\* two handles on one file are found behind open() with trunc only
LEMMA NothingShared ==
  ASSUME PagesInv,
         todo = <<>> \/ Head(todo).t \notin {"flush", "drop"},
         NEW a \in Actors, NEW b \in Actors, a # b, hs[a].open, hs[b].open,
         hs[a].ino = hs[b].ino, hs[a].ino # 0
  PROVE  FALSE
<1>1. todo \in {<<On("flush", Tmp), On("drop", Tmp)>>, <<On("drop", Tmp)>>}
  BY DEF PagesInv, HandlesApart
<1>2. todo # <<>> /\ Head(todo) \in {On("flush", Tmp), On("drop", Tmp)}
  BY <1>1, Tuple1, Tuple2
<1>3. On("flush", Tmp).t = "flush" /\ On("drop", Tmp).t = "drop"
  BY DEF On
<1>4. QED
  BY <1>2, <1>3

\* A call that leaves handle h as g.
LEMMA CallSteps ==
  ASSUME TypeOK, TypeOK', PagesInv, todo = <<>>, up = "up",
         NEW h \in Actors, NEW g \in Handle,
         hs' = [hs EXCEPT ![h] = g],
         g.open = hs[h].open, g.ino = hs[h].ino, g.ver = hs[h].ver, g.page = hs[h].page,
         UNCHANGED <<inodeArea, up, reserved, old, doomed>>,
         freeData' \subseteq freeData,
         \A d \in DataPages : d \in freeData \ freeData' \/ dataArea'[d] = dataArea[d],
         HandlePages(g) \subseteq HandlePages(hs[h]) \cup (freeData \ freeData'),
         ~g.open => g = NoHandle,
         Len(g.dp) = g.len,
         \A j, k \in DOMAIN g.dp : g.dp[j].id = g.dp[k].id => j = k,
         \A k \in DOMAIN g.dp : ~g.dp[k].new /\ dataArea'[g.dp[k].id] # Blank,
         g.ino = 0 => g.del = {},
         todo' = <<>> \/ Head(todo').t \in {"find", "flush", "correct"},
         PlainTasks', SearchesStored'
  PROVE  PagesInv'
<1>1. hs'[h] = g /\ \A b \in Actors \ {h} : hs'[b] = hs[b]
  BY DEF TypeOK
<1>2. doomed = {}
  BY DEF PagesInv, DoomedIsOld
<1>3. \A b \in Actors \ {h} : \A k \in DOMAIN hs[b].dp : dataArea'[hs[b].dp[k].id] # Blank
  <2>1. SUFFICES ASSUME NEW b \in Actors, NEW k \in DOMAIN hs[b].dp
                 PROVE  dataArea'[hs[b].dp[k].id] # Blank
    OBVIOUS
  <2>2. hs[b] \in Handle /\ hs[b].dp[k].id \in HandlePages(hs[b])
    BY DEF TypeOK, HandlePages
  <2>3. hs[b].dp[k].id \in DataPages
    BY <2>2, PagesTypes
  <2>4. hs[b].dp[k].id \notin freeData
    BY <2>2 DEF PagesInv, FreeIsUnused
  <2>5. dataArea[hs[b].dp[k].id] # Blank
    BY DEF PagesInv, HandleLists
  <2>6. QED
    BY <2>3, <2>4, <2>5
<1>4. HandleLists'
  <2>1. SUFFICES ASSUME NEW b \in Actors
                 PROVE  /\ ~hs'[b].open => hs'[b] = NoHandle
                        /\ up' # "up" => ~hs'[b].open
                        /\ Len(hs'[b].dp) = hs'[b].len
                        /\ \A j, k \in DOMAIN hs'[b].dp :
                             hs'[b].dp[j].id = hs'[b].dp[k].id => j = k
                        /\ \A k \in DOMAIN hs'[b].dp :
                             ~hs'[b].dp[k].new /\ dataArea'[hs'[b].dp[k].id] # Blank
                        /\ hs'[b].ino = 0 => hs'[b].del = {}
    BY DEF HandleLists
  <2>2. CASE b = h
    BY <2>2, <1>1
  <2>3. CASE b # h
    BY <2>3, <1>1, <1>3 DEF PagesInv, HandleLists
  <2>4. QED
    BY <2>2, <2>3
<1>5. \A a \in Actors : ~Committing(a)' /\ ~Replacing(a)' /\ ~Replacing(a)
  BY NothingToCommit
<1>6. \A a \in Actors : /\ hs'[a].open => hs[a].open
                        /\ hs'[a].ino = hs[a].ino /\ hs'[a].ver = hs[a].ver
                        /\ hs'[a].page = hs[a].page
                        /\ hs[a].open => Valid(hs[a].page) \/ hs[a].page \in reserved'
  BY <1>1 DEF PagesInv, HandlePlaces
<1>7. \A a, b \in Actors :
        ~(/\ a # b /\ hs'[a].open /\ hs'[b].open
          /\ hs'[a].ino = hs'[b].ino /\ hs'[a].ino # 0)
  BY <1>6, NothingShared
<1>8. QED
  BY <1>1, <1>2, <1>4, <1>5, <1>6, <1>7, HandleSteps

\* What Put makes of a handle b with room for page k.
Placed(b, k, page) ==
  [b EXCEPT !.dp[k] = [id |-> page, new |-> FALSE],
            !.len = IF k > @ THEN k ELSE @, !.mod = TRUE]

LEMMA PlacedHandle ==
  ASSUME NEW b \in Handle, NEW k \in 1 .. Len(b.dp), NEW page \in DataPages
  PROVE  LET g == Placed(b, k, page) IN
         /\ g \in Handle
         /\ g.open = b.open /\ g.ino = b.ino /\ g.ver = b.ver /\ g.page = b.page
         /\ g.del = b.del
         /\ g.dp = [b.dp EXCEPT ![k] = [id |-> page, new |-> FALSE]]
         /\ g.len = IF k > b.len THEN k ELSE b.len
<1> DEFINE dp  == [b.dp EXCEPT ![k] = [id |-> page, new |-> FALSE]]
           len == IF k > b.len THEN k ELSE b.len
           g   == [b EXCEPT !.dp = dp, !.len = len, !.mod = TRUE]
<1>1. Placed(b, k, page) = g
  BY DEF Handle, Placed
<1>2. [id |-> page, new |-> FALSE] \in Entry /\ b.dp \in Seq(Entry) /\ b.len \in Nat
  BY DEF Entry, Handle
<1>3. dp \in Seq(Entry) /\ len \in Nat
  BY <1>2, ExceptSeq
<1> HIDE DEF dp, len
<1>4. g \in Handle
  BY <1>3 DEF Handle
<1>5. /\ g.open = b.open /\ g.ino = b.ino /\ g.ver = b.ver /\ g.page = b.page
      /\ g.del = b.del /\ g.dp = dp /\ g.len = len
  BY DEF Handle
<1>6. QED
  BY <1>1, <1>4, <1>5 DEF dp, len

\* a page list without a hole, of different pages that are all written
PlainList(f) ==
  /\ Len(f.dp) = f.len
  /\ \A i, j \in DOMAIN f.dp : f.dp[i].id = f.dp[j].id => i = j
  /\ \A j \in DOMAIN f.dp : ~f.dp[j].new

\* b is the handle f with room for page k
HasRoom(f, b, k) ==
  /\ b.open = f.open /\ b.ino = f.ino /\ b.ver = f.ver /\ b.page = f.page
  /\ b.len = f.len /\ b.name = f.name
  /\ Len(b.dp) = IF k > f.len THEN k ELSE f.len
  /\ \A j \in 1 .. Len(b.dp) : j # k => j \in DOMAIN f.dp /\ b.dp[j] = f.dp[j]
  /\ b.del \subseteq HandlePages(f)

LEMMA PlacedPage ==
  ASSUME NEW f \in Handle, NEW b \in Handle, NEW k \in 1 .. Len(b.dp),
         NEW page \in DataPages, page \notin HandlePages(f),
         PlainList(f), HasRoom(f, b, k)
  PROVE  LET g == Placed(b, k, page) IN
         /\ g \in Handle
         /\ g.open = f.open /\ g.ino = f.ino /\ g.ver = f.ver /\ g.page = f.page
         /\ g.del = b.del
         /\ Len(g.dp) = g.len
         /\ \A i, j \in DOMAIN g.dp : g.dp[i].id = g.dp[j].id => i = j
         /\ \A j \in DOMAIN g.dp : /\ ~g.dp[j].new
                                   /\ \/ g.dp[j].id = page
                                      \/ j \in DOMAIN f.dp /\ g.dp[j] = f.dp[j]
         /\ HandlePages(g) \subseteq HandlePages(f) \cup {page}
<1> DEFINE g  == Placed(b, k, page)
           e  == [id |-> page, new |-> FALSE]
           dp == [b.dp EXCEPT ![k] = e]
<1> USE DEF PlainList, HasRoom
<1>1. e \in Entry
  BY DEF Entry
<1>2. b.dp \in Seq(Entry) /\ b.len \in Nat /\ f.dp \in Seq(Entry)
  BY DEF Handle
<1>3. /\ dp \in Seq(Entry) /\ Len(dp) = Len(b.dp) /\ DOMAIN dp = 1 .. Len(b.dp)
      /\ dp[k] = e /\ \A j \in 1 .. Len(b.dp) : j # k => dp[j] = b.dp[j]
  BY <1>1, <1>2
<1>5. /\ g.dp = dp /\ g.len = IF k > b.len THEN k ELSE b.len
      /\ g.open = b.open /\ g.ino = b.ino /\ g.ver = b.ver /\ g.page = b.page
      /\ g.del = b.del /\ g \in Handle
  BY PlacedHandle
<1> HIDE DEF dp, g
<1>7. \A j \in DOMAIN f.dp : f.dp[j].id \in HandlePages(f)
  BY DEF HandlePages
<1>8. \A j \in 1 .. Len(b.dp) :
        \/ j = k /\ dp[j] = e
        \/ j # k /\ j \in DOMAIN f.dp /\ dp[j] = f.dp[j] /\ f.dp[j].id # page
  BY <1>3, <1>7
<1>9. e.id = page /\ e.new = FALSE
  OBVIOUS
<1> HIDE DEF e
<1>10. \A i, j \in DOMAIN dp : dp[i].id = dp[j].id => i = j
  <2>1. TAKE i, j \in DOMAIN dp
  <2>2. HAVE dp[i].id = dp[j].id
  <2>3. CASE i = k
    BY <2>2, <2>3, <1>3, <1>8, <1>9
  <2>4. CASE i # k
    BY <2>2, <2>4, <1>3, <1>8, <1>9
  <2>5. QED
    BY <2>3, <2>4
<1>11. \A j \in DOMAIN dp :
         /\ ~dp[j].new
         /\ dp[j].id = page \/ (j \in DOMAIN f.dp /\ dp[j] = f.dp[j])
  BY <1>3, <1>8, <1>9
<1>12. HandlePages(g) \subseteq HandlePages(f) \cup {page}
  <2>1. HandlePages(g) = {dp[j].id : j \in DOMAIN dp} \cup b.del
    BY <1>5 DEF HandlePages
  <2>2. QED
    BY <2>1, <1>7, <1>11
<1>13. QED
  BY <1>3, <1>5, <1>10, <1>11, <1>12 DEF g

\* A write() that nothing refuses ends with its page.
LEMMA PlainPut ==
  ASSUME ~Refusals, NEW h, NEW b \in Handle, NEW k \in 1 .. Len(b.dp), NEW page, NEW v,
         Put(h, b, k, page, v)
  PROVE  /\ dataArea' = [dataArea EXCEPT ![page] = v]
         /\ hs' = [hs EXCEPT ![h] = Placed(b, k, page)]
         /\ todo' = <<>>
<1> DEFINE e == [id |-> page, new |-> FALSE]
           g == [b EXCEPT !.dp[k] = e]
<1>1. /\ dataArea' = [dataArea EXCEPT ![page] = v]
      /\ hs' = [hs EXCEPT ![h] = [g EXCEPT !.len = IF k > @ THEN k ELSE @, !.mod = TRUE]]
      /\ todo' = <<>>
  BY DEF Put, Refusals, GoesOn
<1>2. [g EXCEPT !.len = IF k > @ THEN k ELSE @, !.mod = TRUE] = Placed(b, k, page)
  BY DEF Placed, Handle
<1>3. QED
  BY <1>1, <1>2

\* write(): the page comes from the free ones.
LEMMA PutSteps ==
  ASSUME TypeOK, TypeOK', PagesInv, todo = <<>>, up = "up",
         NEW h \in Actors, hs[h].open, NEW b \in Handle, NEW k \in 1 .. Len(b.dp),
         NEW page \in freeData, NEW v \in Vals,
         HasRoom(hs[h], b, k), b.ino = 0 => b.del = {},
         dataArea' = [dataArea EXCEPT ![page] = v],
         hs' = [hs EXCEPT ![h] = Placed(b, k, page)], todo' = <<>>,
         freeData' = freeData \ {page},
         UNCHANGED <<inodeArea, up, reserved, maxIno, locals>>
  PROVE  PagesInv'
<1> DEFINE f == hs[h]
           g == Placed(b, k, page)
<1>1. dataArea' = [dataArea EXCEPT ![page] = v] /\ hs' = [hs EXCEPT ![h] = g]
  OBVIOUS
<1>2. f \in Handle /\ page \in DataPages /\ v # Blank /\ v \in Vals
  BY MarkAssumption DEF TypeOK
<1>3. page \notin HandlePages(f) /\ HandlePages(f) \subseteq DataPages \ freeData
  BY <1>2, PagesTypes DEF PagesInv, FreeIsUnused
<1>4. PlainList(f) /\ \A j \in DOMAIN f.dp : dataArea[f.dp[j].id] # Blank
  BY DEF PagesInv, HandleLists, PlainList
<1>5. /\ g \in Handle
      /\ g.open = f.open /\ g.ino = f.ino /\ g.ver = f.ver /\ g.page = f.page
      /\ g.del = b.del
      /\ Len(g.dp) = g.len
      /\ \A i, j \in DOMAIN g.dp : g.dp[i].id = g.dp[j].id => i = j
      /\ \A j \in DOMAIN g.dp : /\ ~g.dp[j].new
                                /\ \/ g.dp[j].id = page
                                   \/ j \in DOMAIN f.dp /\ g.dp[j] = f.dp[j]
      /\ HandlePages(g) \subseteq HandlePages(f) \cup {page}
  BY <1>2, <1>3, <1>4, PlacedPage
<1> HIDE DEF g
<1>6. \A d \in DataPages : d \in freeData \ freeData' \/ dataArea'[d] = dataArea[d]
  BY <1>1 DEF TypeOK
<1>7. dataArea'[page] # Blank
  BY <1>1, <1>2 DEF TypeOK
<1>8. \A j \in DOMAIN f.dp : dataArea'[f.dp[j].id] # Blank
  <2>1. TAKE j \in DOMAIN f.dp
  <2>2. f.dp[j].id \in HandlePages(f)
    BY DEF HandlePages
  <2>3. QED
    BY <2>2, <1>3, <1>4, <1>6
<1>9. \A j \in DOMAIN g.dp : ~g.dp[j].new /\ dataArea'[g.dp[j].id] # Blank
  BY <1>5, <1>7, <1>8
<1>10. g.ino = 0 => g.del = {}
  BY <1>5 DEF HasRoom
<1>11. PlainTasks' /\ SearchesStored'
  BY DEF PlainTasks, SearchesStored
<1>12. QED
  <2>1. HandlePages(g) \subseteq HandlePages(f) \cup (freeData \ freeData')
    BY <1>5
  <2>2. g.open /\ g.ino = f.ino /\ g.ver = f.ver /\ g.page = f.page
    BY <1>5
  <2>3. old' = old /\ doomed' = doomed
    BY DEF locals
  <2> HIDE DEF g
  <2>4. QED
    BY <1>1, <1>5, <1>6, <1>9, <1>10, <1>11, <2>1, <2>2, <2>3, CallSteps

LEMMA StartSteps ==
  ASSUME TypeOK, TypeOK', PagesInv, todo = <<>>, up = "up",
         UNCHANGED <<flash, up, alloc, hs, old, doomed>>,
         Head(todo').t \in {"find", "flush", "correct"},
         PlainTasks', SearchesStored'
  PROVE  PagesInv'
<1> DEFINE g == hs[Tmp]
<1>1. Tmp \in Actors /\ g \in Handle
  BY DEF Actors, TypeOK
<1>2. hs' = [hs EXCEPT ![Tmp] = g]
  BY <1>1 DEF TypeOK
<1>3. /\ ~g.open => g = NoHandle
      /\ Len(g.dp) = g.len
      /\ \A j, k \in DOMAIN g.dp : g.dp[j].id = g.dp[k].id => j = k
      /\ \A k \in DOMAIN g.dp : ~g.dp[k].new /\ dataArea[g.dp[k].id] # Blank
      /\ g.ino = 0 => g.del = {}
  BY <1>1 DEF PagesInv, HandleLists
<1>4. UNCHANGED <<inodeArea, up, reserved, old, doomed, dataArea, freeData>>
  BY DEF flash, alloc
<1> HIDE DEF g
<1>5. g.open = hs[Tmp].open /\ g.ino = hs[Tmp].ino /\ g.ver = hs[Tmp].ver
      /\ g.page = hs[Tmp].page /\ HandlePages(g) = HandlePages(hs[Tmp])
  BY DEF g
<1>6. QED
  BY <1>1, <1>2, <1>3, <1>4, <1>5, CallSteps

LEMMA SearchBegins ==
  ASSUME TypeOK, UNCHANGED <<inodeArea, hs>>, NEW n, NEW h \in Handles,
         Unshared(h, n),
         hs[h].open => hs[h].ino = 0 \/ CommittedName(hs[h].ino) # n,
         todo' # <<>>, Head(todo').t = "find", Head(todo').n = n
  PROVE  SearchesStored'
<1>1. \A g \in Handles :
        hs[g].open /\ hs[g].ino # 0 => CommittedName(hs[g].ino) # n
  BY DEF Unshared
<1>2. \A g \in Handles :
        hs'[g].open /\ hs'[g].ino # 0 => CommittedName(hs[g].ino)' # n
  <2>1. TAKE g \in Handles
  <2>2. CommittedName(hs[g].ino)' = CommittedName(hs[g].ino)
    BY SameNames
  <2>3. QED
    BY <1>1, <2>2
<1>3. QED
  BY <1>2 DEF SearchesStored, OpenModes

LEMMA NoSearch ==
  ASSUME \/ todo' = <<>>
         \/ Head(todo').t \notin {"find", "visit", "correct", "openIn", "openOut",
                                 "openTrunc", "removeOther"}
  PROVE  SearchesStored'
BY DEF SearchesStored, OpenModes

\* What write() does in plain use: a free page takes the data, and the list of the
\* handle has room for it.
LEMMA WriteParts ==
  ASSUME PlainUse, TypeOK, PagesInv,
         NEW h \in Handles, NEW k \in 1 .. MaxLen, NEW v \in Vals,
         Write(h, k, v)
  PROVE  /\ hs[h].open /\ k <= hs[h].len + 1
         /\ UNCHANGED <<inodeArea, up, reserved, maxIno, todo, locals>>
         /\ \E b \in Handle, page \in freeData :
              /\ k \in 1 .. Len(b.dp) /\ HasRoom(hs[h], b, k) /\ (b.ino = 0 => b.del = {})
              /\ dataArea' = [dataArea EXCEPT ![page] = v]
              /\ hs' = [hs EXCEPT ![h] = Placed(b, k, page)]
              /\ freeData' = freeData \ {page}
<1> DEFINE f == hs[h]
           Room(b, page) == /\ k \in 1 .. Len(b.dp) /\ HasRoom(f, b, k)
                            /\ b.ino = 0 => b.del = {}
                            /\ Put(h, b, k, page, v) /\ freeData' = freeData \ {page}
<1>1. f.open /\ f \in Handle /\ h \in Actors /\ freeData \subseteq DataPages
      /\ k \in Nat \ {0} /\ k <= f.len + 1
  BY DEF Write, TypeOK, Actors
<1>2. PlainList(f) /\ f.dp \in Seq(Entry) /\ f.len \in Nat
      /\ f.del \subseteq HandlePages(f)
  BY <1>1 DEF PagesInv, HandleLists, PlainList, Handle, HandlePages
<1>3. \A j \in 1 .. Len(f.dp) : ~f.dp[j].new /\ f.dp[j].id \in HandlePages(f)
  BY <1>2 DEF PlainList, HandlePages
<1>4. /\ UNCHANGED <<inodeArea, up, reserved, maxIno, locals>>
      /\ todo = <<>> /\ ~Refusals
      /\ WriteFresh(h, k, v) \/ WriteWhole(h, k, v) \/ WritePart(h, k, v)
  BY DEF Write, WritePage, WriteFresh, WriteWhole, WritePart, Idle, PlainUse
<1>5. f.ino = 0 => f.del = {}
  BY <1>1 DEF PagesInv, HandleLists
<1>6. ASSUME WriteFresh(h, k, v) PROVE \E b \in Handle, page \in freeData : Room(b, page)
  <2>1. /\ k = Len(f.dp) + 1
        /\ \E page \in DataPageChoices(f) \ {NoPage} :
             /\ Put(h, [f EXCEPT !.dp = Append(@, [id |-> page, new |-> TRUE])],
                    k, page, v)
             /\ freeData' = freeData \ {page}
    <3>1. ~(k \in DOMAIN f.dp /\ f.dp[k].new)
      BY <1>1, <1>2, <1>3
    <3>2. QED
      BY <3>1, <1>6 DEF WriteFresh
  <2>2. PICK page \in DataPageChoices(f) \ {NoPage} :
             /\ Put(h, [f EXCEPT !.dp = Append(@, [id |-> page, new |-> TRUE])],
                    k, page, v)
             /\ freeData' = freeData \ {page}
    BY <2>1
  <2>3. page \in freeData /\ page \in DataPages
    BY <1>1, DataPageChoicesType
  <2> DEFINE e == [id |-> page, new |-> TRUE]
             b == [f EXCEPT !.dp = Append(@, e)]
  <2>4. b \in Handle /\ Len(b.dp) = k
    BY <1>1, <2>1, <2>3, AppendedType
  <2>5. /\ b.open = f.open /\ b.ino = f.ino /\ b.ver = f.ver /\ b.page = f.page
        /\ b.len = f.len /\ b.del = f.del /\ b.dp = Append(f.dp, e) /\ b.name = f.name
    BY <1>1 DEF Handle
  <2>6. \A j \in 1 .. Len(f.dp) : b.dp[j] = f.dp[j]
    BY <1>2, <2>5
  <2>7. Put(h, b, k, page, v)
    BY <2>2
  <2> HIDE DEF b
  <2>8. HasRoom(f, b, k)
    BY <1>2, <2>1, <2>4, <2>5, <2>6 DEF HasRoom, PlainList
  <2>9. Room(b, page)
    BY <1>1, <1>5, <2>2, <2>4, <2>5, <2>7, <2>8
  <2>10. QED
    BY <2>3, <2>4, <2>9
<1>7. ASSUME WriteWhole(h, k, v) PROVE \E b \in Handle, page \in freeData : Room(b, page)
  <2>1. /\ k \in 1 .. Len(f.dp)
        /\ \E page \in LowestDataPage \ {NoPage} :
             Put(h, f, k, page, v) /\ freeData' = freeData \ {page}
    BY <1>1, <1>2, <1>7 DEF WriteWhole, Stored
  <2>2. PICK page \in LowestDataPage \ {NoPage} :
             Put(h, f, k, page, v) /\ freeData' = freeData \ {page}
    BY <2>1
  <2>3. page \in freeData
    BY <1>1, DataPageChoicesType
  <2>4. HasRoom(f, f, k)
    BY <1>2, <2>1 DEF HasRoom, PlainList
  <2>5. Room(f, page)
    BY <1>5, <2>1, <2>2, <2>4
  <2>6. QED
    BY <1>1, <2>3, <2>5
<1>8. ASSUME WritePart(h, k, v) PROVE \E b \in Handle, page \in freeData : Room(b, page)
  <2>1. /\ k \in 1 .. Len(f.dp) /\ f.ino # 0
        /\ \E page \in DataPageChoices(f) \ {NoPage} :
             /\ Put(h, ReplacedEntry(f, k, page), k, page, v)
             /\ freeData' = freeData \ {page}
    BY <1>1, <1>2, <1>8 DEF WritePart, PlainUse, WritesParts, Stored
  <2>2. PICK page \in DataPageChoices(f) \ {NoPage} :
             /\ Put(h, ReplacedEntry(f, k, page), k, page, v)
             /\ freeData' = freeData \ {page}
    BY <2>1
  <2>3. page \in freeData /\ page \in DataPages
    BY <1>1, DataPageChoicesType
  <2> DEFINE e == [id |-> page, new |-> TRUE]
             b == ReplacedEntry(f, k, page)
  <2>4. b \in Handle /\ k \in 1 .. Len(b.dp)
    BY <1>1, <2>1, <2>3, ReplacedType
  <2>5. /\ b.open = f.open /\ b.ino = f.ino /\ b.ver = f.ver /\ b.page = f.page
        /\ b.len = f.len /\ b.del = f.del \cup {f.dp[k].id} /\ b.name = f.name
        /\ b.dp = [f.dp EXCEPT ![k] = e]
    BY <1>1 DEF Handle, ReplacedEntry
  <2>6. Len(b.dp) = Len(f.dp) /\ \A j \in 1 .. Len(f.dp) : j # k => b.dp[j] = f.dp[j]
    BY <1>2, <2>5
  <2> HIDE DEF b
  <2>7. b.del \subseteq HandlePages(f)
    BY <1>2, <1>3, <2>1, <2>5
  <2>8. HasRoom(f, b, k)
    BY <1>2, <2>1, <2>4, <2>5, <2>6, <2>7 DEF HasRoom, PlainList
  <2>9. Put(h, b, k, page, v)
    BY <2>2 DEF b
  <2>10. Room(b, page)
    BY <2>1, <2>2, <2>4, <2>5, <2>8, <2>9
  <2>11. QED
    BY <2>3, <2>4, <2>10
<1>9. \E b \in Handle, page \in freeData : Room(b, page)
  BY <1>4, <1>6, <1>7, <1>8
<1>10. QED
  <2>1. PICK b \in Handle, page \in freeData : Room(b, page)
    BY <1>9
  <2>2. /\ dataArea' = [dataArea EXCEPT ![page] = v]
        /\ hs' = [hs EXCEPT ![h] = Placed(b, k, page)]
        /\ todo' = <<>>
    BY <1>4, <2>1, PlainPut
  <2>3. QED
    BY <1>1, <1>4, <2>1, <2>2

LEMMA CallPages ==
  ASSUME PlainUse, TypeOK, TypeOK', PagesInv, Call
  PROVE  PagesInv'
<1>1. todo = <<>> /\ up = "up" /\ UNCHANGED <<up, inodeArea, maxIno>>
  BY CallIdle, CallFrame
<1>2. /\ Exclusive
      /\ ~Refusals
      /\ \A c \in {"draftPart", "grow", "seek", "renameSelf", "cleanup"} : c \notin Calls
  BY DEF PlainUse
<1>3. \A h \in Handles : h \in Actors /\ hs[h] \in Handle
  BY DEF TypeOK, Actors
<1>4. \A h \in Handles, n \in Names : OnName("find", Tmp, n) \in Task
        /\ OnName("find", Tmp, n).t = "find" /\ OnName("find", Tmp, n).n = n
  BY CallTasks, TaskParts
<1>5. ASSUME NEW h \in Handles, NEW n \in Names,
             NEW mode \in {"openIn", "openOut", "openTrunc"}, Open(h, n, mode)
      PROVE  PagesInv'
  <2>1. OnName(mode, h, n) \in Task /\ OnName(mode, h, n).t = mode
    BY CallTasks, TaskParts DEF OpenModes
  <2>2. /\ todo' = <<OnName("find", Tmp, n), OnName(mode, h, n)>>
        /\ UNCHANGED <<flash, up, alloc, hs, locals>>
        /\ ~hs[h].open
        /\ Unshared(h, n)
    BY <1>2, <1>5 DEF Open, Start
  <2>3. todo' # <<>> /\ Head(todo') = OnName("find", Tmp, n)
    BY <2>2, Tuple2
  <2>4. PlainTasks'
    BY <1>4, <2>1, <2>2, PlainShort DEF Corrections, Searches
  <2>5. SearchesStored'
    BY <1>1, <1>4, <2>2, <2>3, SearchBegins
  <2>6. QED
    BY <1>1, <1>4, <2>2, <2>3, <2>4, <2>5, StartSteps DEF locals
<1>6. ASSUME NEW h \in Handles, NEW n \in Names, Rename(h, n)
      PROVE  PagesInv'
  <2>1. OnName("removeOther", h, n) \in Task /\ OnName("removeOther", h, n).t = "removeOther"
    BY CallTasks, TaskParts
  <2>2. /\ todo' = <<OnName("find", Tmp, n), OnName("removeOther", h, n)>>
        /\ UNCHANGED <<flash, up, alloc, hs, locals>>
        /\ hs[h].ino = 0 \/ CommittedName(hs[h].ino) # n
        /\ Unshared(h, n)
    BY <1>2, <1>6 DEF Rename, Start, OwnName
  <2>3. todo' # <<>> /\ Head(todo') = OnName("find", Tmp, n)
    BY <2>2, Tuple2
  <2>4. PlainTasks'
    BY <1>4, <2>1, <2>2, PlainShort DEF Corrections, Searches
  <2>5. SearchesStored'
    BY <1>1, <1>4, <2>2, <2>3, SearchBegins
  <2>6. QED
    BY <1>1, <1>4, <2>2, <2>3, <2>4, <2>5, StartSteps DEF locals
<1>7. \A h \in Handles :
        /\ On("flush", h) \in Task /\ On("drop", h) \in Task /\ On("deleted", h) \in Task
        /\ On("flush", h).t = "flush" /\ On("drop", h).t = "drop"
        /\ On("deleted", h).t = "deleted"
  BY <1>3, OnTypes, TaskParts DEF TaskKinds
<1>8. ASSUME NEW h \in Handles, Flush(h) \/ Close(h)
      PROVE  PagesInv'
  <2>1. /\ todo' \in {<<On("flush", h)>>, <<On("flush", h), On("drop", h)>>}
        /\ UNCHANGED <<flash, up, alloc, hs, locals>>
    BY <1>8 DEF Flush, Close, Start
  <2>2. Head(todo') = On("flush", h)
    BY <2>1, Tuple1, Tuple2
  <2>3. PlainTasks'
    BY <1>7, <2>1, PlainShort DEF Corrections, Searches
  <2>4. SearchesStored'
    BY <1>7, <2>2, NoSearch
  <2>5. QED
    BY <1>1, <1>7, <2>1, <2>2, <2>3, <2>4, StartSteps DEF locals
<1>9. ASSUME NEW h \in Handles, Delete(h)
      PROVE  PagesInv'
  <2> DEFINE g == Emptied(hs[h])
  <2>1. /\ todo' = <<On("flush", h), On("deleted", h)>>
        /\ UNCHANGED <<flash, up, alloc, locals>>
        /\ hs' = [hs EXCEPT ![h] = g]
        /\ hs[h].open
    BY <1>9 DEF Delete, Start
  <2>2. Head(todo') = On("flush", h)
    BY <2>1, Tuple2
  <2>3. PlainTasks'
    BY <1>7, <2>1, PlainShort DEF Corrections, Searches
  <2>4. SearchesStored'
    BY <1>7, <2>2, NoSearch
  <2>5. /\ g.open = hs[h].open /\ g.ino = hs[h].ino /\ g.ver = hs[h].ver
        /\ g.page = hs[h].page /\ g.dp = <<>> /\ g.len = 0 /\ g.del = {}
    BY <1>3 DEF Emptied, Handle
  <2>6. g \in Handle
    BY <1>3, EmptySeq DEF Emptied, Handle, FileNames
  <2> HIDE DEF g
  <2>7. HandlePages(g) = {}
    BY <2>5 DEF HandlePages
  <2>8. UNCHANGED <<inodeArea, up, reserved, old, doomed, dataArea, freeData>>
    BY <2>1 DEF flash, alloc, locals
  <2>9. h \in Actors /\ g.open /\ Len(g.dp) = g.len /\ DOMAIN g.dp = {}
    BY <1>3, <2>1, <2>5
  <2>10. QED
    BY <1>1, <1>7, <2>1, <2>2, <2>3, <2>4, <2>5, <2>6, <2>7, <2>8, <2>9, CallSteps
<1>10. ASSUME NEW h \in Handles, NEW k \in 1 .. MaxLen, NEW v \in Vals,
              Write(h, k, v)
       PROVE  PagesInv'
  <2>1. /\ hs[h].open /\ UNCHANGED <<inodeArea, up, reserved, maxIno, todo, locals>>
        /\ \E b \in Handle, page \in freeData :
             /\ k \in 1 .. Len(b.dp) /\ HasRoom(hs[h], b, k) /\ (b.ino = 0 => b.del = {})
             /\ dataArea' = [dataArea EXCEPT ![page] = v]
             /\ hs' = [hs EXCEPT ![h] = Placed(b, k, page)]
             /\ freeData' = freeData \ {page}
    BY <1>10, WriteParts
  <2>2. PICK b \in Handle, page \in freeData :
          /\ k \in 1 .. Len(b.dp) /\ HasRoom(hs[h], b, k) /\ (b.ino = 0 => b.del = {})
          /\ dataArea' = [dataArea EXCEPT ![page] = v]
          /\ hs' = [hs EXCEPT ![h] = Placed(b, k, page)]
          /\ freeData' = freeData \ {page}
    BY <2>1
  <2>3. h \in Actors /\ todo' = <<>>
    BY <1>1, <1>3, <2>1
  <2>4. QED
    BY <1>1, <2>1, <2>2, <2>3, PutSteps
<1>11. ASSUME NEW h \in Handles, NEW n \in 0 .. MaxLen, Truncate(h, n)
       PROVE  PagesInv'
  <2> DEFINE f == hs[h]
             g == [f EXCEPT !.len = n, !.dp = Cut(@, n), !.del = {}, !.mod = TRUE]
  <2>1. /\ f.open /\ f \in Handle /\ h \in Actors /\ n \in Nat /\ n < f.len
        /\ UNCHANGED <<flash, up, alloc, todo, locals>>
        /\ hs' = [hs EXCEPT ![h].len = n, ![h].dp = Cut(@, n), ![h].del = {},
                            ![h].mod = TRUE]
    BY <1>3, <1>11 DEF Truncate
  <2>2. hs' = [hs EXCEPT ![h] = g]
    BY <2>1 DEF TypeOK
  <2>3. PlainList(f) /\ f.dp \in Seq(Entry) /\ f.len \in Nat
        /\ \A j \in DOMAIN f.dp : dataArea[f.dp[j].id] # Blank
    BY <2>1 DEF PagesInv, HandleLists, PlainList, Handle
  <2> DEFINE s == Cut(f.dp, n)
  <2>4. /\ s \in Seq(Entry) /\ Len(s) = n
        /\ \A j \in DOMAIN s : j \in DOMAIN f.dp /\ s[j] = f.dp[j]
    BY <2>1, <2>3 DEF Cut, PlainList
  <2> HIDE DEF s
  <2>5. g = [f EXCEPT !.len = n, !.dp = s, !.del = {}, !.mod = TRUE]
    BY DEF s
  <2> HIDE DEF g
  <2>6. /\ g.open = f.open /\ g.ino = f.ino /\ g.ver = f.ver
        /\ g.page = f.page /\ g.dp = s /\ g.len = n /\ g.del = {}
        /\ g \in Handle
    BY <2>1, <2>4, <2>5 DEF Handle
  <2>7. HandlePages(g) \subseteq HandlePages(f)
    BY <2>4, <2>6 DEF HandlePages
  <2>8. /\ Len(g.dp) = g.len
        /\ \A j, k \in DOMAIN g.dp : g.dp[j].id = g.dp[k].id => j = k
        /\ \A k \in DOMAIN g.dp : ~g.dp[k].new /\ dataArea[g.dp[k].id] # Blank
    BY <2>3, <2>4, <2>6 DEF PlainList
  <2>9. UNCHANGED <<inodeArea, up, reserved, old, doomed, dataArea, freeData>>
    BY <2>1 DEF flash, alloc, locals
  <2>10. /\ todo' = <<>> /\ g.open
         /\ \A k \in DOMAIN g.dp : ~g.dp[k].new /\ dataArea'[g.dp[k].id] # Blank
         /\ HandlePages(g) \subseteq HandlePages(hs[h]) \cup (freeData \ freeData')
         /\ g.open = hs[h].open /\ g.ino = hs[h].ino /\ g.ver = hs[h].ver
         /\ g.page = hs[h].page
    BY <1>1, <2>1, <2>6, <2>7, <2>8, <2>9
  <2>11. PlainTasks' /\ SearchesStored'
    <3>1. todo' = <<>> /\ todo' = todo /\ PlainTasks
      BY <1>1, <2>1 DEF PagesInv
    <3>2. QED
      BY <3>1, NoSearch DEF PlainTasks
  <2> HIDE DEF f
  <2>12. QED
    BY <1>1, <2>1, <2>2, <2>6, <2>8, <2>9, <2>11, <2>10, CallSteps
<1>12. ASSUME ListFiles
       PROVE  PagesInv'
  <2>1. /\ todo' = <<On("correct", Tmp)>>
        /\ scan' = Survey
        /\ UNCHANGED <<flash, up, alloc, hs, old, doomed>>
    BY <1>12 DEF ListFiles, Start
  <2>2. On("correct", Tmp) \in Task /\ On("correct", Tmp).t = "correct"
        /\ On("drop", Tmp) \in Task /\ On("drop", Tmp).t = "drop"
        /\ Head(todo') = On("correct", Tmp)
    BY <2>1, Tuple1, MountTasks, TaskParts
  <2>3. PlainTasks'
    BY <2>1, <2>2, PlainShort DEF Corrections, Searches
  <2>4. \A v \in scan' : Valid(v[1])'
    BY <1>1, <2>1, SameNames DEF Survey, ValidPages
  <2>5. SearchesStored'
    BY <2>2, <2>4 DEF SearchesStored, OpenModes
  <2>6. QED
    BY <1>1, <2>1, <2>2, <2>3, <2>5, StartSteps
<1>13. ~Cleanup /\ \A h \in Handles, n \in 0 .. MaxLen :
         ~Enlarge(h, n, "grow") /\ ~Enlarge(h, n, "seek")
  BY <1>2 DEF Cleanup, Enlarge
<1>14. QED
  BY <1>5, <1>6, <1>8, <1>9, <1>10, <1>11, <1>12, <1>13 DEF Call

(***************************************************************************)
(* Steps of a call that leave the handles alone.                           *)
(***************************************************************************)
LEMMA SameLists ==
  ASSUME HandleLists, UNCHANGED <<hs, dataArea, up>>
  PROVE  HandleLists'
BY DEF HandleLists

\* A task is done and nothing but the reservations has changed.
LEMMA QuietPop ==
  ASSUME TypeOK, TypeOK', Control, PagesInv, todo # <<>>, todo' = Tail(todo),
         Head(todo).t \notin {"drop", "meta", "metaNew"}, doomed = {},
         UNCHANGED <<inodeArea, dataArea, up, freeData, hs, old, doomed>>,
         \A a \in Actors :
           hs[a].open => Valid(hs[a].page) \/ hs[a].page \in reserved',
         SearchesStored'
  PROVE  PagesInv'
<1> DEFINE t == Head(todo).t
           r == Tail(todo)
<1>1. todo \in Seq(Task)
  BY DEF TypeOK
<1>2. /\ t = "zero" => /\ r # <<>> /\ Head(r).h = Head(todo).h
                       /\ Head(r).t \in {"meta", "metaNew"}
      /\ t \in FlushKinds \ {"zero"} =>
           \/ r = <<>>
           \/ Head(r).t \in {"drop", "mount", "deleted"}
           \/ r = <<On("flush", Tmp), On("drop", Tmp)>>
      /\ t \notin FlushKinds =>
           r = <<>> \/ Head(r).t \in OpenModes \cup {"removeOther", "visit", "correct", "renameSelf"}
  BY AfterTask
<1>3. Head(<<On("flush", Tmp), On("drop", Tmp)>>).t = "flush"
  BY Tuple2, TaskParts
<1> HIDE DEF t, r
<1>4. /\ t = "zero" => /\ r # <<>> /\ Head(r).h = Head(todo).h
                       /\ Head(r).t \in {"meta", "metaNew"}
      /\ t # "zero" => r = <<>> \/ Head(r).t \notin {"zero", "meta", "metaNew"}
  BY <1>2, <1>3 DEF OpenModes
<1>5. r # <<>> => todo[2] = Head(r)
  BY <1>1, Second DEF r
<1>6. todo' = r /\ t = Head(todo).t /\ t \notin {"drop", "meta", "metaNew"}
  BY DEF t, r
<1>7. \A a \in Actors : (Committing(a)' => Committing(a)) /\ (Replacing(a)' <=> Replacing(a))
  BY <1>4, <1>5, <1>6 DEF Committing, Replacing
<1>8. ASSUME NEW a \in Actors, NEW b \in Actors, a # b, hs[a].open, hs[b].open,
             hs[a].ino = hs[b].ino, hs[a].ino # 0
      PROVE  /\ ~hs[Tmp].mod
             /\ todo' \in {<<On("flush", Tmp), On("drop", Tmp)>>, <<On("drop", Tmp)>>}
  <2>1. /\ ~hs[Tmp].mod
        /\ todo \in {<<On("flush", Tmp), On("drop", Tmp)>>, <<On("drop", Tmp)>>}
    BY <1>8 DEF PagesInv, HandlesApart
  <2>2. todo # <<On("drop", Tmp)>>
    BY <1>6, Tuple1, TaskParts
  <2>3. todo' = <<On("drop", Tmp)>>
    BY <2>1, <2>2, <1>6, Tuple2 DEF r
  <2>4. QED
    BY <2>1, <2>3
<1>9. PlainTasks'
  BY <1>1, PlainPop DEF PagesInv
<1>10. HandleLists'
  BY SameLists DEF PagesInv
<1>11. Tmp \in Actors
  BY DEF Actors
<1>12. QED
  BY <1>7, <1>8, <1>9, <1>10, <1>11, HandleSteps

\* A search, a flush or the end of rename_file() is about to begin.
LEMMA QuietPush ==
  ASSUME TypeOK, TypeOK', PagesInv, todo # <<>>, doomed = {},
         Head(todo).t \notin {"flush", "drop", "zero", "meta", "metaNew"},
         Head(todo').t \in {"visit", "flush", "renameSelf"},
         UNCHANGED <<inodeArea, dataArea, up, freeData, hs, old, doomed>>,
         \A a \in Actors :
           hs[a].open => Valid(hs[a].page) \/ hs[a].page \in reserved',
         PlainTasks', SearchesStored'
  PROVE  PagesInv'
<1>1. \A a \in Actors : ~Committing(a)' /\ ~Replacing(a)' /\ ~Replacing(a)
  BY NothingToCommit
<1>2. \A a, b \in Actors :
        ~(/\ a # b /\ hs[a].open /\ hs[b].open
          /\ hs[a].ino = hs[b].ino /\ hs[a].ino # 0)
  BY NothingShared
<1>3. HandleLists'
  BY SameLists DEF PagesInv
<1>4. Tmp \in Actors
  BY DEF Actors
<1>5. QED
  BY <1>1, <1>2, <1>3, <1>4, HandleSteps

LEMMA FlushedSearch ==
  ASSUME TypeOK, Control, todo # <<>>, Head(todo).t \in FlushKinds, todo' = Tail(todo)
  PROVE  SearchesStored'
<1> DEFINE t == Head(todo).t
           r == Tail(todo)
<1>1. /\ t = "zero" => /\ r # <<>> /\ Head(r).h = Head(todo).h
                       /\ Head(r).t \in {"meta", "metaNew"}
      /\ t \in FlushKinds \ {"zero"} =>
           \/ r = <<>>
           \/ Head(r).t \in {"drop", "mount", "deleted"}
           \/ r = <<On("flush", Tmp), On("drop", Tmp)>>
  BY AfterTask
<1>2. Head(<<On("flush", Tmp), On("drop", Tmp)>>).t = "flush"
  BY Tuple2, TaskParts
<1> HIDE DEF r
<1>3. todo' = <<>> \/ Head(todo').t \in {"meta", "metaNew", "drop", "mount", "deleted", "flush"}
  BY <1>1, <1>2 DEF r
<1>4. QED
  BY <1>3, NoSearch

LEMMA NothingDoomed ==
  ASSUME PagesInv, todo = <<>> \/ Head(todo).t # "erase"
  PROVE  doomed = {}
BY DEF PagesInv, DoomedIsOld

LEMMA PlacesKept ==
  ASSUME PagesInv, NEW a \in Actors, hs[a].open
  PROVE  Valid(hs[a].page) \/ hs[a].page \in reserved
BY DEF PagesInv, HandlePlaces

LEMMA QuietFlush ==
  ASSUME TypeOK, TypeOK', Control, PagesInv,
         \/ FlushNumber /\ ~hs[Actor].mod
         \/ FlushVersion /\ hs' = hs /\ Then(<<>>) /\ UNCHANGED <<reserved, old>>
         \/ WriteZeroPage
         \/ ErasePage /\ doomed = {}
  PROVE  PagesInv'
<1>1. todo # <<>> /\ Head(todo).t \in {"flush", "zero", "erase"} /\ Actor \in Actors
  BY HeadType DEF FlushNumber, FlushVersion, WriteZeroPage, ErasePage, Doing, TypeOK
<1>2. todo \in Seq(Task)
  BY DEF TypeOK
<1>3. {k \in DOMAIN hs[Actor].dp : hs[Actor].dp[k].new} = {}
  BY <1>1 DEF PagesInv, HandleLists
<1>4. /\ Then(<<>>)
      /\ UNCHANGED <<inodeArea, dataArea, up, freeData, reserved, hs, old, doomed>>
  <2>1. CASE FlushNumber /\ ~hs[Actor].mod
    BY <2>1 DEF FlushNumber, flash, locals
  <2>2. CASE FlushVersion /\ hs' = hs /\ Then(<<>>) /\ UNCHANGED <<reserved, old>>
    BY <2>2 DEF FlushVersion, flash
  <2>3. CASE WriteZeroPage
    BY <2>3, <1>3 DEF WriteZeroPage, alloc, locals
  <2>4. CASE ErasePage /\ doomed = {}
    BY <2>4 DEF ErasePage, flash
  <2>5. QED
    BY <2>1, <2>2, <2>3, <2>4
<1>5. todo' = Tail(todo)
  BY <1>1, <1>2, <1>4, Popped
<1>6. doomed = {}
  <2>1. CASE Head(todo).t = "erase"
    BY <2>1 DEF FlushNumber, FlushVersion, WriteZeroPage, Doing
  <2>2. CASE Head(todo).t # "erase"
    BY <2>2, NothingDoomed
  <2>3. QED
    BY <2>1, <2>2
<1>7. SearchesStored'
  BY <1>1, <1>5, FlushedSearch DEF FlushKinds
<1>8. QED
  BY <1>1, <1>4, <1>5, <1>6, <1>7, PlacesKept, QuietPop

LEMMA SearchDone ==
  ASSUME TypeOK, Control, PlainTasks, todo # <<>>, Head(todo).t \notin FlushKinds,
         todo' = Tail(todo), ~hs'[Tmp].mod
  PROVE  SearchesStored'
<1> DEFINE r == Tail(todo)
<1>1. r = <<>> \/ Head(r).t \in OpenModes \cup {"removeOther", "visit", "correct", "renameSelf"}
  BY AfterTask
<1>2. r # <<>> => Head(r).t \notin {"visit", "correct"}
  BY PlainPop DEF TypeOK, Searches
<1> HIDE DEF r
<1>3. todo' = <<>> \/ Head(todo').t \in OpenModes \cup {"removeOther", "renameSelf"}
  BY <1>1, <1>2 DEF r
<1>4. QED
  BY <1>3 DEF SearchesStored, OpenModes

LEMMA QuietSearch ==
  ASSUME TypeOK, TypeOK', Control, PagesInv,
         FindScan \/ Correct \/ (Visit /\ UNCHANGED hs)
  PROVE  PagesInv'
<1> DEFINE t == Head(todo).t
           r == Tail(todo)
<1>1. /\ todo # <<>> /\ t \in {"find", "visit", "correct"} /\ todo \in Seq(Task)
      /\ PlainTasks /\ StoredLists /\ SearchesStored
  BY DEF FindScan, Correct, Visit, Doing, TypeOK, PagesInv
<1>2. doomed = {}
  BY <1>1, NothingDoomed
<1>3. ~hs[Tmp].open
  BY <1>1, TaskPlaces
<1>4. ~hs[Tmp].mod
  <2>1. hs[Tmp] = NoHandle
    BY <1>3 DEF PagesInv, HandleLists, Actors
  <2>2. QED
    BY <2>1 DEF NoHandle
<1>5. CASE FindScan
  <2>1. /\ todo' = <<OnName("visit", Tmp, Head(todo).n)>> \o r
        /\ scan' = VersionStore /\ reserved' = reserved \ ValidPages
        /\ UNCHANGED <<inodeArea, dataArea, up, freeData, hs, old, doomed>>
        /\ Head(todo).t = "find"
    BY <1>5 DEF FindScan, Then, flash, Doing
  <2>2. OnName("visit", Tmp, Head(todo).n) \in Task
    BY <1>1, HeadType, TaskTypes DEF TaskKinds, Actors
  <2>3. /\ \A k \in 1 .. Len(r) : r[k].t \notin Corrections \cup Searches
        /\ r \in Seq(Task)
    BY <1>1, PlainTail
  <2> HIDE DEF r
  <2>4. PlainTasks'
    <3>1. OnName("visit", Tmp, Head(todo).n).t \notin Corrections
      BY TaskParts DEF Corrections
    <3>2. todo' = <<OnName("visit", Tmp, Head(todo).n)>> \o r
      BY <2>1
    <3> QED BY <2>2, <2>3, <3>1, <3>2, PlainPush1
  <2>5. todo' # <<>> /\ Head(todo') = OnName("visit", Tmp, Head(todo).n)
    BY <2>1, <2>2, <2>3, Stacks
  <2>6. \A v \in scan' : Latest(v[2])'
    BY <2>1, SameNames DEF VersionStore
  <2>7. \A g \in Handles :
          hs'[g].open /\ hs'[g].ino # 0 => CommittedName(hs[g].ino)' # Head(todo).n
    <3>1. TAKE g \in Handles
    <3>2. CommittedName(hs[g].ino)' = CommittedName(hs[g].ino)
      BY <2>1, SameNames
    <3>3. hs[g].open /\ hs[g].ino # 0 => CommittedName(hs[g].ino) # Head(todo).n
      BY <1>1, <2>1 DEF SearchesStored
    <3>4. hs' = hs
      BY <2>1
    <3> HIDE DEF r, t
    <3>5. QED
      BY <3>2, <3>3, <3>4
  <2>8. Head(todo').t = "visit" /\ Head(todo').n = Head(todo).n
    BY <2>5, TaskParts
  <2>9. SearchesStored'
    BY <2>6, <2>7, <2>8 DEF SearchesStored, OpenModes
  <2>10. \A a \in Actors :
           hs[a].open => Valid(hs[a].page) \/ hs[a].page \in reserved'
    <3>1. TAKE a \in Actors
    <3>2. hs[a].page \in InodePages
      BY DEF TypeOK, Handle
    <3>3. QED
      BY <2>1, <3>2, PlacesKept DEF ValidPages
  <2>11. QED
    BY <1>1, <1>2, <2>1, <2>4, <2>8, <2>9, <2>10, QuietPush
<1>6. CASE Correct \/ (Visit /\ UNCHANGED hs)
  <2>1. /\ Then(<<>>)
        /\ UNCHANGED <<inodeArea, dataArea, up, freeData, hs, old, doomed>>
        /\ reserved' = reserved
           \/ (Head(todo).t = "correct" /\ reserved' = reserved \ {v[1] : v \in scan})
    BY <1>1, <1>6, PlainCorrect, PlainVisit DEF Doing
  <2>2. todo' = r
    BY <1>1, <2>1, Popped
  <2>3. SearchesStored'
    BY <1>1, <1>4, <2>1, <2>2, SearchDone DEF FlushKinds
  <2>4. \A a \in Actors :
          hs[a].open => Valid(hs[a].page) \/ hs[a].page \in reserved'
    <3>1. Head(todo).t = "correct" => \A v \in scan : Valid(v[1])
      BY <1>1 DEF SearchesStored
    <3>2. QED
      BY <2>1, <3>1, PlacesKept
  <2>5. QED
    BY <1>1, <1>2, <2>1, <2>2, <2>3, <2>4, QuietPop
<1>7. QED
  BY <1>5, <1>6

LEMMA QuietOther ==
  ASSUME TypeOK, TypeOK', Control, PagesInv,
         \/ OpenMissing /\ UNCHANGED <<hs, reserved>>
         \/ OpenTrunc /\ UNCHANGED <<hs, reserved>>
         \/ RemoveOther /\ ~hs[Tmp].open
         \/ Deleted /\ hs[Actor].mod
  PROVE  PagesInv'
<1> DEFINE t == Head(todo).t
           r == Tail(todo)
<1>1. /\ todo # <<>> /\ t \in OpenModes \cup {"removeOther", "deleted"} /\ todo \in Seq(Task)
      /\ PlainTasks
  BY DEF OpenMissing, OpenTrunc, RemoveOther, Deleted, Doing, OpenModes, TypeOK, PagesInv
<1>2. doomed = {} /\ t \notin {"flush", "drop", "zero", "meta", "metaNew"}
  BY <1>1, NothingDoomed DEF OpenModes
<1>3. UNCHANGED <<inodeArea, dataArea, up, freeData, reserved, hs, old, doomed>>
  BY DEF OpenMissing, OpenTrunc, RemoveOther, Deleted, flash, alloc, locals
<1>4. r = <<>> \/ Head(r).t = "renameSelf"
  <2>1. t \in OpenModes \cup {"removeOther"} =>
           \E h \in Handles, n \in Names : todo = <<OnName(t, h, n)>>
    BY <1>1, TaskPlaces
  <2>2. t = "deleted" =>
          \/ \E h \in Handles : todo = <<On("deleted", h)>>
          \/ \E h \in Handles, n \in Names :
               todo = <<On("deleted", Tmp), OnName("renameSelf", h, n)>>
    BY <1>1, TaskPlaces
  <2>3. \A h, n : /\ Tail(<<OnName(t, h, n)>>) = <<>>
                  /\ Tail(<<On("deleted", h)>>) = <<>>
                  /\ Tail(<<On("deleted", Tmp), OnName("renameSelf", h, n)>>) =
                       <<OnName("renameSelf", h, n)>>
                  /\ Head(<<OnName("renameSelf", h, n)>>) = OnName("renameSelf", h, n)
    BY Tuple1, Tuple2
  <2>4. QED
    BY <1>1, <2>1, <2>2, <2>3, TaskParts
<1>5. \A a \in Actors : hs[a].open => Valid(hs[a].page) \/ hs[a].page \in reserved'
  BY <1>3, PlacesKept
<1>6. r \in Seq(Task) /\ Head(todo).h \in Actors /\ Head(todo).n \in FileNames
      /\ \A k \in 1 .. Len(r) : r[k].t \notin Corrections \cup Searches
  BY <1>1, PlainTail, HeadType
<1>7. ASSUME todo' = r
      PROVE  PagesInv'
  <2>1. todo' = <<>> \/ Head(todo').t = "renameSelf"
    BY <1>4, <1>7
  <2>2. SearchesStored'
    BY <2>1, NoSearch
  <2>3. QED
    BY <1>1, <1>2, <1>3, <1>5, <1>7, <2>2, QuietPop
<1>8. CASE (OpenMissing /\ UNCHANGED <<hs, reserved>>) \/ (Deleted /\ hs[Actor].mod)
  <2>1. Then(<<>>)
    BY <1>8 DEF OpenMissing, Deleted
  <2>2. todo' = r
    BY <1>1, <2>1, Popped
  <2>3. QED
    BY <1>7, <2>2
<1>9. CASE OpenTrunc /\ UNCHANGED <<hs, reserved>>
  <2>1. todo' = <<On("flush", Tmp), On("drop", Tmp)>> \o r
    BY <1>9 DEF OpenTrunc, Then
  <2>2. /\ On("flush", Tmp) \in Task /\ On("drop", Tmp) \in Task
        /\ On("flush", Tmp).t \notin Corrections
        /\ On("drop", Tmp).t \notin Corrections \cup Searches
    BY MountTasks, TaskParts DEF Corrections, Searches
  <2> HIDE DEF r
  <2>3. PlainTasks'
    BY <1>6, <2>1, <2>2, PlainPush2
  <2>4. Head(todo').t = "flush"
    BY <1>6, <2>1, <2>2, Stacks, TaskParts
  <2>5. SearchesStored'
    BY <2>4, NoSearch
  <2>6. QED
    BY <1>1, <1>2, <1>3, <1>5, <2>3, <2>4, <2>5, QuietPush
<1>10. CASE RemoveOther /\ ~hs[Tmp].open
  <2> DEFINE x == OnName("renameSelf", Head(todo).h, Head(todo).n)
  <2>1. todo' = <<x>> \o r
    BY <1>10 DEF RemoveOther, Then
  <2>2. x \in Task /\ x.t = "renameSelf"
    BY <1>6, TaskTypes, TaskParts DEF TaskKinds
  <2> HIDE DEF r, x
  <2>3. PlainTasks'
    BY <1>6, <2>1, <2>2, PlainPush1 DEF Corrections
  <2>4. Head(todo').t = "renameSelf"
    BY <1>6, <2>1, <2>2, Stacks
  <2>5. SearchesStored'
    BY <2>4, NoSearch
  <2>6. QED
    BY <1>1, <1>2, <1>3, <1>5, <2>3, <2>4, <2>5, QuietPush
<1>11. QED
  BY <1>8, <1>9, <1>10

LEMMA StutterPages ==
  ASSUME TypeOK, TypeOK', PagesInv, UNCHANGED vars
  PROVE  PagesInv'
<1>1. UNCHANGED <<inodeArea, dataArea, up, freeData, reserved, hs, todo, scan, old, doomed>>
  BY DEF vars
<1>2. HandleLists'
  BY <1>1, SameLists DEF PagesInv
<1>3. PlainTasks'
  BY <1>1 DEF PagesInv, PlainTasks
<1>4. SearchesStored'
  <2>1. SearchesStored
    BY DEF PagesInv
  <2>2. /\ \A p : Latest(p)' <=> Latest(p)
        /\ \A p : Valid(p)' <=> Valid(p)
    BY <1>1, SameNames
  <2>3. \A g \in Handles : CommittedName(hs[g].ino)' = CommittedName(hs[g].ino)
    BY <1>1, SameNames
  <2>4. QED
    BY <1>1, <2>1, <2>2, <2>3 DEF SearchesStored
<1>5. /\ \A a \in Actors : (Committing(a)' <=> Committing(a))
      /\ \A a \in Actors : (Replacing(a)' <=> Replacing(a))
  BY <1>1 DEF Committing, Replacing
<1>6. Tmp \in Actors
  BY DEF Actors
<1>7. doomed # {} => todo' # <<>> /\ Head(todo').t = "erase"
  BY <1>1 DEF PagesInv, DoomedIsOld
<1>8. \A a, b \in Actors :
        /\ a # b /\ hs[a].open /\ hs[b].open /\ hs[a].ino = hs[b].ino /\ hs[a].ino # 0
        => /\ ~hs[Tmp].mod
           /\ todo' \in {<<On("flush", Tmp), On("drop", Tmp)>>, <<On("drop", Tmp)>>}
  BY <1>1 DEF PagesInv, HandlesApart
<1>9. QED
  BY <1>1, <1>2, <1>3, <1>4, <1>5, <1>6, <1>7, <1>8, PlacesKept, HandleSteps

(***************************************************************************)
(* Steps of a call that change one handle.                                 *)
(***************************************************************************)
\* Whatever the lists of the other handles are, the one that h has now is
\* as plain.
LEMMA OneList ==
  ASSUME TypeOK, HandleLists, NEW h \in Actors, NEW g,
         hs' = [hs EXCEPT ![h] = g], UNCHANGED <<dataArea, up>>,
         ~g.open => g = NoHandle,
         up # "up" => ~g.open,
         Len(g.dp) = g.len,
         \A j, k \in DOMAIN g.dp : g.dp[j].id = g.dp[k].id => j = k,
         \A k \in DOMAIN g.dp : ~g.dp[k].new /\ dataArea[g.dp[k].id] # Blank,
         g.ino = 0 => g.del = {}
  PROVE  HandleLists'
<1>1. hs'[h] = g /\ \A b \in Actors \ {h} : hs'[b] = hs[b]
  BY DEF TypeOK
<1>2. SUFFICES ASSUME NEW b \in Actors
               PROVE  /\ ~hs'[b].open => hs'[b] = NoHandle
                      /\ up' # "up" => ~hs'[b].open
                      /\ Len(hs'[b].dp) = hs'[b].len
                      /\ \A j, k \in DOMAIN hs'[b].dp :
                           hs'[b].dp[j].id = hs'[b].dp[k].id => j = k
                      /\ \A k \in DOMAIN hs'[b].dp :
                           ~hs'[b].dp[k].new /\ dataArea'[hs'[b].dp[k].id] # Blank
                      /\ hs'[b].ino = 0 => hs'[b].del = {}
  BY DEF HandleLists
<1>3. CASE b = h
  BY <1>1, <1>3
<1>4. CASE b # h
  BY <1>1, <1>4 DEF HandleLists
<1>5. QED
  BY <1>3, <1>4

LEMMA NoHandleParts ==
  /\ NoHandle.open = FALSE /\ NoHandle.mod = FALSE /\ NoHandle.ino = 0
  /\ NoHandle.dp = <<>> /\ NoHandle.len = 0 /\ NoHandle.del = {}
  /\ HandlePages(NoHandle) = {}
BY DEF NoHandle, HandlePages

\* A handle is given up.
LEMMA ClosePages ==
  ASSUME TypeOK, TypeOK', Control, PagesInv, todo # <<>>, todo' = Tail(todo),
         NEW h \in Actors, h = Head(todo).h, Head(todo).t \in {"drop", "deleted"},
         hs' = [hs EXCEPT ![h] = NoHandle],
         UNCHANGED <<inodeArea, dataArea, up, freeData, old, doomed>>,
         \A a \in Actors \ {h} :
           hs[a].open => Valid(hs[a].page) \/ hs[a].page \in reserved'
  PROVE  PagesInv'
<1> DEFINE t == Head(todo).t
           r == Tail(todo)
<1>1. todo \in Seq(Task) /\ PlainTasks /\ t \notin FlushKinds
  BY DEF TypeOK, PagesInv, FlushKinds
<1>2. doomed = {}
  BY NothingDoomed
<1>3. hs'[h] = NoHandle /\ \A b \in Actors \ {h} : hs'[b] = hs[b]
  BY DEF TypeOK
<1>4. /\ PlainTasks'
      /\ r # <<>> => Head(r).t \notin {"visit", "correct"}
  BY <1>1, PlainPop DEF Searches
<1>5. r = <<>> \/ Head(r).t \in OpenModes \cup {"removeOther", "visit", "correct", "renameSelf"}
  BY <1>1, AfterTask
<1>6. \A a \in Actors : ~Committing(a)' /\ ~Replacing(a)' /\ ~Replacing(a)
  <2>1. todo' = <<>> \/ Head(todo').t \notin {"zero", "meta", "metaNew"}
    BY <1>5 DEF OpenModes
  <2>2. QED
    BY <2>1, NothingToCommit
<1>7. t = "drop" => h = Tmp \/ ~hs[Tmp].open
  <2>1. t = "drop" =>
          \/ todo = <<On("drop", Tmp)>>
          \/ todo = <<On("drop", Tmp), On("correct", Tmp)>>
          \/ ~hs[Tmp].open
          \/ \E k \in Handles, n \in Names, how \in OpenModes \cup {"removeOther"} :
               todo = <<On("drop", Tmp), OnName("visit", Tmp, n), OnName(how, k, n)>>
    BY TaskPlaces
  <2>2. \A x, y : /\ Head(<<On("drop", Tmp)>>).h = Tmp
                  /\ Head(<<On("drop", Tmp), x>>).h = Tmp
                  /\ Head(<<On("drop", Tmp), x, y>>).h = Tmp
    BY Tuple1, Tuple2, Tuple3, TaskParts
  <2>3. QED
    BY <2>1, <2>2
<1>8. \A a, b \in Actors :
        ~(/\ a # b /\ hs'[a].open /\ hs'[b].open
          /\ hs'[a].ino = hs'[b].ino /\ hs'[a].ino # 0)
  <2>1. SUFFICES ASSUME NEW a \in Actors, NEW b \in Actors, a # b, hs'[a].open, hs'[b].open,
                        hs'[a].ino = hs'[b].ino, hs'[a].ino # 0
                 PROVE  FALSE
    OBVIOUS
  <2>2. a # h /\ b # h
    BY <2>1, <1>3, NoHandleParts
  <2>3. hs'[a] = hs[a] /\ hs'[b] = hs[b]
    BY <2>2, <1>3
  <2>4. Tmp \in {a, b} /\ todo \in {<<On("flush", Tmp), On("drop", Tmp)>>, <<On("drop", Tmp)>>}
    BY <2>1, <2>3 DEF PagesInv, HandlesApart
  <2>5. Head(todo) \in {On("flush", Tmp), On("drop", Tmp)}
    BY <2>4, Tuple1, Tuple2
  <2>6. h = Tmp
    BY <2>5, TaskParts
  <2>7. QED
    BY <2>2, <2>4, <2>6
<1>9. HandleLists'
  <2>1. Len(<<>>) = 0 /\ DOMAIN <<>> = {}
    OBVIOUS
  <2>2. QED
    BY <2>1, NoHandleParts, OneList DEF PagesInv
<1>10. t = "drop" => SearchesStored'
  <2>1. ASSUME t = "drop"
        PROVE  ~hs'[Tmp].mod
    <3>1. CASE h = Tmp
      BY <3>1, <1>3, NoHandleParts
    <3>2. CASE h # Tmp
      <4>1. ~hs[Tmp].open /\ Tmp \in Actors \ {h}
        BY <2>1, <3>2, <1>7 DEF Actors
      <4>2. hs[Tmp] = NoHandle
        BY <4>1 DEF PagesInv, HandleLists
      <4>3. QED
        BY <4>1, <4>2, <1>3, NoHandleParts
    <3>3. QED
      BY <3>1, <3>2
  <2>2. QED
    BY <2>1, <1>1, SearchDone
<1>11. t = "deleted" => SearchesStored'
  <2>1. ASSUME t = "deleted"
        PROVE  r = <<>> \/ Head(r).t = "renameSelf"
    <3>1. \/ \E k \in Handles : todo = <<On("deleted", k)>>
          \/ \E k \in Handles, n \in Names :
               todo = <<On("deleted", Tmp), OnName("renameSelf", k, n)>>
      BY <2>1, TaskPlaces
    <3>2. \A k, n : /\ Tail(<<On("deleted", k)>>) = <<>>
                    /\ Tail(<<On("deleted", Tmp), OnName("renameSelf", k, n)>>) =
                         <<OnName("renameSelf", k, n)>>
                    /\ Head(<<OnName("renameSelf", k, n)>>) = OnName("renameSelf", k, n)
      BY Tuple1, Tuple2
    <3>3. QED
      BY <3>1, <3>2, TaskParts
  <2>2. QED
    BY <2>1, NoSearch
<1>12. \A a \in Actors :
         /\ HandlePages(hs'[a]) \subseteq HandlePages(hs[a])
         /\ hs'[a].open => /\ hs'[a] = hs[a]
                           /\ Valid(hs[a].page) \/ hs[a].page \in reserved'
  <2>1. TAKE a \in Actors
  <2>2. CASE a = h
    BY <2>2, <1>3, NoHandleParts
  <2>3. CASE a # h
    BY <2>3, <1>3
  <2>4. QED
    BY <2>2, <2>3
<1>13. QED
  BY <1>2, <1>4, <1>6, <1>8, <1>9, <1>10, <1>11, <1>12, HandleSteps

\* g is what Emptied, or a change of the name, makes of the handle f
Marked(f, g) ==
  /\ g.open = f.open /\ g.ino = f.ino /\ g.ver = f.ver /\ g.page = f.page
  /\ g.del \subseteq f.del
  /\ \/ g.dp = <<>> /\ g.len = 0
     \/ g.dp = f.dp /\ g.len = f.len

\* A handle is to be flushed next.
LEMMA MarkPages ==
  ASSUME TypeOK, TypeOK', PagesInv, todo # <<>>,
         Head(todo).t \in {"removeOther", "renameSelf"},
         NEW h \in Actors, NEW g, hs' = [hs EXCEPT ![h] = g],
         hs[h].open, Marked(hs[h], g),
         UNCHANGED <<inodeArea, dataArea, up, freeData, reserved, old, doomed>>,
         Head(todo').t = "flush", PlainTasks'
  PROVE  PagesInv'
<1>1. doomed = {}
  BY NothingDoomed
<1>2. hs'[h] = g /\ \A b \in Actors \ {h} : hs'[b] = hs[b]
  BY DEF TypeOK
<1>3. \A a \in Actors : ~Committing(a)' /\ ~Replacing(a)' /\ ~Replacing(a)
  BY NothingToCommit
<1>4. \A a \in Actors :
        /\ hs'[a].open = hs[a].open /\ hs'[a].ino = hs[a].ino /\ hs'[a].ver = hs[a].ver
        /\ hs'[a].page = hs[a].page
  <2>1. TAKE a \in Actors
  <2>2. CASE a = h
    BY <2>2, <1>2 DEF Marked
  <2>3. CASE a # h
    BY <2>3, <1>2
  <2>4. QED
    BY <2>2, <2>3
<1>5. \A a, b \in Actors :
        ~(/\ a # b /\ hs'[a].open /\ hs'[b].open
          /\ hs'[a].ino = hs'[b].ino /\ hs'[a].ino # 0)
  BY <1>4, NothingShared
<1>6. /\ up = "up"
      /\ Len(hs[h].dp) = hs[h].len
      /\ \A j, k \in DOMAIN hs[h].dp : hs[h].dp[j].id = hs[h].dp[k].id => j = k
      /\ \A k \in DOMAIN hs[h].dp : ~hs[h].dp[k].new /\ dataArea[hs[h].dp[k].id] # Blank
      /\ hs[h].ino = 0 => hs[h].del = {}
  BY DEF PagesInv, HandleLists
<1>7. HandleLists'
  <2>1. Len(<<>>) = 0 /\ DOMAIN <<>> = {}
    OBVIOUS
  <2>2. /\ Len(g.dp) = g.len
        /\ \A j, k \in DOMAIN g.dp : g.dp[j].id = g.dp[k].id => j = k
        /\ \A k \in DOMAIN g.dp : ~g.dp[k].new /\ dataArea[g.dp[k].id] # Blank
    <3>1. CASE g.dp = <<>> /\ g.len = 0
      BY <2>1, <3>1
    <3>2. CASE g.dp = hs[h].dp /\ g.len = hs[h].len
      BY <3>2, <1>6
    <3>3. QED
      BY <3>1, <3>2 DEF Marked
  <2>3. g.open /\ (g.ino = 0 => g.del = {}) /\ HandleLists
    BY <1>6 DEF PagesInv, Marked
  <2>4. QED
    BY <1>6, <2>2, <2>3, OneList
<1>8. HandlePages(g) \subseteq HandlePages(hs[h])
  <2>1. DOMAIN <<>> = {}
    OBVIOUS
  <2>2. QED
    BY <2>1 DEF HandlePages, Marked
<1>9. \A a \in Actors :
        /\ HandlePages(hs'[a]) \subseteq HandlePages(hs[a])
        /\ hs'[a].open => Valid(hs[a].page) \/ hs[a].page \in reserved'
  BY <1>2, <1>4, <1>8, PlacesKept
<1>10. SearchesStored'
  BY NoSearch
<1>11. QED
  BY <1>1, <1>3, <1>4, <1>5, <1>7, <1>9, <1>10, HandleSteps

LEMMA HandleWork ==
  ASSUME TypeOK, TypeOK', Control, PagesInv,
         \/ Drop
         \/ Deleted /\ ~hs[Actor].mod
         \/ RemoveOther /\ hs[Tmp].open
         \/ RenameSelf
  PROVE  PagesInv'
<1> DEFINE t == Head(todo).t
<1>1. /\ todo # <<>> /\ t \in {"drop", "deleted", "removeOther", "renameSelf"}
      /\ todo \in Seq(Task) /\ PlainTasks /\ Actor \in Actors /\ Tmp \in Actors
      /\ \A a \in Actors : hs[a] \in Handle
  BY HeadType DEF Drop, Deleted, RemoveOther, RenameSelf, Doing, TypeOK, PagesInv, Actors
<1>2. CASE Drop \/ (Deleted /\ ~hs[Actor].mod)
  <2> DEFINE h == Actor
  <2>1. /\ hs' = [hs EXCEPT ![h] = NoHandle] /\ Then(<<>>) /\ t \in {"drop", "deleted"}
        /\ reserved' = reserved \/ (hs[h].open /\ reserved' = reserved \ {hs[h].page})
        /\ UNCHANGED <<inodeArea, dataArea, up, freeData, old, doomed>>
    BY <1>2 DEF Drop, Deleted, Doing, FreeUnwritten, flash, alloc, locals
  <2>2. todo' = Tail(todo)
    BY <1>1, <2>1, Popped
  <2>3. \A a \in Actors \ {h} :
          hs[a].open => Valid(hs[a].page) \/ hs[a].page \in reserved'
    <3>1. SUFFICES ASSUME NEW a \in Actors \ {h}, hs[a].open
                   PROVE  Valid(hs[a].page) \/ hs[a].page \in reserved'
      OBVIOUS
    <3>2. hs[h].open => hs[a].page # hs[h].page
      BY <1>1, <3>1 DEF PagesInv, HandlesApart
    <3>3. Valid(hs[a].page) \/ hs[a].page \in reserved
      BY <3>1, PlacesKept
    <3>4. reserved' = reserved \/ (hs[h].open /\ reserved' = reserved \ {hs[h].page})
      BY <2>1
    <3> HIDE DEF h
    <3>5. QED
      BY <3>2, <3>3, <3>4
  <2>4. h \in Actors /\ h = Head(todo).h
    BY <1>1 DEF Actor
  <2> HIDE DEF h
  <2>5. QED
    BY <1>1, <2>1, <2>2, <2>3, <2>4, ClosePages
<1>3. CASE RemoveOther /\ hs[Tmp].open
  <2> DEFINE g == Emptied(hs[Tmp])
             x == OnName("renameSelf", Head(todo).h, Head(todo).n)
  <2>1. /\ t = "removeOther"
        /\ hs' = [hs EXCEPT ![Tmp] = g]
        /\ todo' = (<<On("flush", Tmp), On("deleted", Tmp)>> \o <<x>>) \o Tail(todo)
        /\ UNCHANGED <<inodeArea, dataArea, up, freeData, reserved, old, doomed>>
    BY <1>3 DEF RemoveOther, Doing, Then, flash, alloc, locals
  <2>2. \E h \in Handles, n \in Names : todo = <<OnName(t, h, n)>>
    BY <1>1, <2>1, TaskPlaces
  <2>3. Tail(todo) = <<>>
    BY <2>2, Tuple1
  <2>4. todo' = <<On("flush", Tmp), On("deleted", Tmp), x>>
    <3>1. <<On("flush", Tmp), On("deleted", Tmp)>> \o <<x>> = <<On("flush", Tmp), On("deleted", Tmp), x>>
      BY Join21
    <3>2. <<On("flush", Tmp), On("deleted", Tmp), x>> \o <<>> = <<On("flush", Tmp), On("deleted", Tmp), x>>
      OBVIOUS
    <3>3. QED
      BY <2>1, <2>3, <3>1, <3>2
  <2>5. /\ On("flush", Tmp) \in Task /\ On("deleted", Tmp) \in Task /\ x \in Task
        /\ On("flush", Tmp).t \notin Corrections
        /\ On("deleted", Tmp).t \notin Corrections \cup Searches
        /\ x.t \notin Corrections \cup Searches
    BY <1>1, HeadType, TaskTypes, OnTypes, TaskParts DEF TaskKinds, Corrections, Searches
  <2>6. Marked(hs[Tmp], g)
    BY <1>1 DEF Emptied, Handle, Marked
  <2> HIDE DEF g, x
  <2>7. PlainTasks'
    BY <2>4, <2>5, PlainShort
  <2>8. Head(todo').t = "flush"
    BY <2>4, Tuple3, TaskParts
  <2>9. QED
    BY <1>1, <1>3, <2>1, <2>6, <2>7, <2>8, MarkPages
<1>4. CASE RenameSelf
  <2> DEFINE h == Head(todo).h
             g == [hs[h] EXCEPT !.name = Head(todo).n, !.mod = TRUE]
  <2>1. /\ t = "renameSelf"
        /\ hs' = [hs EXCEPT ![h].name = Head(todo).n, ![h].mod = TRUE]
        /\ todo' = <<On("flush", h), On("flush", Tmp), On("drop", Tmp)>> \o Tail(todo)
        /\ UNCHANGED <<inodeArea, dataArea, up, freeData, reserved, old, doomed>>
    BY <1>4 DEF RenameSelf, Doing, Then, flash, alloc, locals
  <2>2. h \in Actors
    BY <1>1, HeadType
  <2>3. \E k \in Handles, n \in Names : hs[k].open /\ todo = <<OnName("renameSelf", k, n)>>
    BY <1>1, <2>1, TaskPlaces
  <2>4. Tail(todo) = <<>> /\ hs[h].open
    BY <2>3, Tuple1, TaskParts
  <2> HIDE DEF h
  <2>5. hs' = [hs EXCEPT ![h] = g]
    BY <1>1, <2>1, <2>2 DEF TypeOK
  <2>6. todo' = <<On("flush", h), On("flush", Tmp), On("drop", Tmp)>>
    <3>1. <<On("flush", h), On("flush", Tmp), On("drop", Tmp)>> \o <<>> =
            <<On("flush", h), On("flush", Tmp), On("drop", Tmp)>>
      OBVIOUS
    <3>2. QED
      BY <2>1, <2>4, <3>1
  <2>7. /\ On("flush", h) \in Task /\ On("flush", Tmp) \in Task /\ On("drop", Tmp) \in Task
        /\ On("flush", h).t \notin Corrections
        /\ On("flush", Tmp).t \notin Corrections \cup Searches
        /\ On("drop", Tmp).t \notin Corrections \cup Searches
    BY <1>1, <2>2, OnTypes, TaskParts DEF TaskKinds, Corrections, Searches
  <2>8. Marked(hs[h], g)
    BY <1>1, <2>2 DEF Handle, Marked
  <2> HIDE DEF g
  <2>9. PlainTasks'
    BY <2>6, <2>7, PlainShort
  <2>10. Head(todo').t = "flush"
    BY <2>6, Tuple3, TaskParts
  <2>11. QED
    BY <1>1, <2>1, <2>2, <2>4, <2>5, <2>8, <2>9, <2>10, MarkPages
<1>5. QED
  BY <1>2, <1>3, <1>4

(***************************************************************************)
(* flush(): the number of a new file, and the page of a new version.       *)
(***************************************************************************)
\* The stored inodes are what they were.
LEMMA StoredSame ==
  ASSUME PagesInv, UNCHANGED <<inodeArea, dataArea, up, doomed>>
  PROVE  /\ StoredLists' /\ StoredVersions' /\ StoredShares' /\ SettledShares'
         /\ ValidPages' = ValidPages
         /\ \A p \in InodePages : (Valid(p)' <=> Valid(p))
         /\ \A p \in InodePages : StoredPages(p)' = StoredPages(p)
<1>1. /\ ValidPages' = ValidPages
      /\ \A p \in InodePages : (Valid(p)' <=> Valid(p))
      /\ \A p \in InodePages : StoredPages(p)' = StoredPages(p)
      /\ \A p, q \in InodePages : SameFile(p, q)' <=> SameFile(p, q)
      /\ ValidPages \subseteq InodePages
  BY DEF ValidPages, Valid, StoredPages, SameFile
<1>2. StoredLists'
  BY <1>1 DEF PagesInv, StoredLists
<1>3. StoredVersions'
  BY <1>1 DEF PagesInv, StoredVersions
<1>4. StoredShares'
  BY <1>1 DEF PagesInv, StoredShares
<1>5. SettledShares'
  BY <1>1 DEF PagesInv, SettledShares
<1>6. QED
  BY <1>1, <1>2, <1>3, <1>4, <1>5

LEMMA FreshPage ==
  ASSUME TypeOK, PagesInv, NEW page \in InodePageChoices, page # NoPage
  PROVE  /\ page \in InodePages /\ ~Valid(page) /\ page \notin reserved
         /\ \A a \in Actors : hs[a].open => hs[a].page # page
<1>1. page \in FreeInodePages
  <2>1. CASE WearLeveling
    BY <2>1 DEF InodePageChoices
  <2>2. CASE ~WearLeveling
    <3> DEFINE seen == FreeInodePages \ {MaxInodes - 1}
    <3>1. seen # {} /\ page = Least(seen)
      BY <2>2 DEF InodePageChoices
    <3>2. seen \subseteq Nat
      BY PageRanges DEF FreeInodePages
    <3> HIDE DEF seen
    <3>3. page \in seen
      BY <3>1, <3>2, LeastExists
    <3>4. QED
      BY <3>3 DEF seen
  <2>3. QED
    BY <2>1, <2>2
<1>2. page \in InodePages /\ ~Valid(page) /\ page \notin reserved
  BY <1>1 DEF FreeInodePages
<1>3. QED
  BY <1>2, PlacesKept

\* Nobody else works on the file that is being flushed.
LEMMA FlushedAlone ==
  ASSUME TypeOK, PagesInv, todo # <<>>,
         Head(todo).t \in {"flush", "zero", "meta", "metaNew", "erase"},
         hs[Head(todo).h].mod \/ Head(todo).t # "flush",
         NEW a \in Actors, NEW b \in Actors, a # b, hs[a].open, hs[b].open,
         hs[a].ino = hs[b].ino, hs[a].ino # 0
  PROVE  FALSE
<1>1. /\ ~hs[Tmp].mod
      /\ todo \in {<<On("flush", Tmp), On("drop", Tmp)>>, <<On("drop", Tmp)>>}
  BY DEF PagesInv, HandlesApart
<1>2. todo # <<On("drop", Tmp)>>
  BY Tuple1, TaskParts
<1>3. Head(todo) = On("flush", Tmp)
  BY <1>1, <1>2, Tuple2
<1>4. QED
  BY <1>1, <1>3, TaskParts

LEMMA NumberPages ==
  ASSUME TypeOK, TypeOK', Control, Numbered, NumbersBounded, PagesInv,
         FlushNumber, hs[Actor].mod
  PROVE  PagesInv'
<1> DEFINE a == Actor
           N == maxIno + 1
           g == [hs[a] EXCEPT !.ino = N]
<1>1. /\ todo # <<>> /\ Head(todo).t = "flush" /\ todo \in Seq(Task)
      /\ hs[a].ino = 0 /\ hs[a].mod
      /\ hs' = [hs EXCEPT ![a].ino = N]
      /\ todo' = <<On("zero", a), On("metaNew", a)>> \o Tail(todo)
      /\ UNCHANGED <<inodeArea, dataArea, up, freeData, reserved, old, doomed>>
  BY DEF FlushNumber, Doing, Then, flash, locals, TypeOK
<1>2. a \in Actors /\ a = Head(todo).h /\ maxIno \in Nat /\ PlainTasks
      /\ hs[a] \in Handle
  BY <1>1, HeadType DEF TypeOK, PagesInv, Actor
<1> HIDE DEF a
<1>3. hs' = [hs EXCEPT ![a] = g]
  BY <1>1, <1>2 DEF TypeOK
<1>4. /\ g.open = hs[a].open /\ g.ino = N /\ g.ver = hs[a].ver /\ g.page = hs[a].page
      /\ g.dp = hs[a].dp /\ g.len = hs[a].len /\ g.del = hs[a].del
  BY <1>2 DEF Handle
<1> HIDE DEF g
<1>5. HandlePages(g) = HandlePages(hs[a])
  BY <1>4 DEF HandlePages
<1>6. hs'[a] = g /\ \A b \in Actors \ {a} : hs'[b] = hs[b]
  BY <1>2, <1>3 DEF TypeOK
<1>7. hs[a].open /\ up = "up" /\ hs[a].del = {} /\ HandleLists
  BY <1>1, <1>2, NoHandleParts DEF PagesInv, HandleLists
<1>8. /\ \A q \in ValidPages : inodeArea[q].ino # N /\ inodeArea[q].ino # 0
      /\ \A b \in Actors : hs[b].ino # N
      /\ N # 0
  <2>1. /\ \A q \in ValidPages : inodeArea[q].ino <= maxIno /\ inodeArea[q].ino \in Nat
        /\ \A b \in Actors : hs[b].ino <= maxIno /\ hs[b].ino \in Nat
    BY <1>7, LoadedType DEF NumbersBounded, TypeOK, ValidPages, Inode, Handle
  <2>2. QED
    BY <2>1, <1>2 DEF Numbered
<1>9. doomed = {}
  BY <1>1, NothingDoomed
<1>10. ~Valid(hs[a].page) /\ hs[a].page \in reserved
  <2>1. hs[a].page \in InodePages
    BY <1>2 DEF Handle
  <2>2. QED
    BY <1>1, <1>2, <1>7, <1>8, <2>1 DEF PagesInv, HandlePlaces, ValidPages
<1>11. /\ StoredLists' /\ StoredVersions' /\ StoredShares' /\ SettledShares'
       /\ ValidPages' = ValidPages
       /\ \A p \in InodePages : (Valid(p)' <=> Valid(p))
       /\ \A p \in InodePages : StoredPages(p)' = StoredPages(p)
  BY <1>1, StoredSame
<1>12. /\ On("zero", a) \in Task /\ On("metaNew", a) \in Task /\ Tail(todo) \in Seq(Task)
       /\ On("zero", a).t = "zero" /\ On("metaNew", a).t = "metaNew"
       /\ On("zero", a).h = a
       /\ \A k \in 1 .. Len(Tail(todo)) : Tail(todo)[k].t \notin Corrections \cup Searches
  BY <1>1, <1>2, OnTypes, TaskParts, PlainTail DEF TaskKinds
<1>13. /\ todo' # <<>> /\ Head(todo') = On("zero", a) /\ todo'[2] = On("metaNew", a)
  BY <1>1, <1>12, Stacks
<1>14. PlainTasks'
  BY <1>1, <1>12, PlainPush2 DEF Corrections, Searches
<1>15. SearchesStored'
  BY <1>12, <1>13, NoSearch
<1>16. (\A b : Committing(b)' => b = a) /\ (\A b : ~Replacing(b)')
  BY <1>12, <1>13 DEF Committing, Replacing
<1>17. FreeIsUnused'
  BY <1>1, <1>5, <1>6, <1>11 DEF PagesInv, FreeIsUnused, ValidPages
<1>18. DoomedIsOld'
  BY <1>1, <1>9 DEF DoomedIsOld
<1>19. HandleLists'
  <2>1. ~g.open => g = NoHandle
    BY <1>4, <1>7
  <2>2. /\ up # "up" => ~g.open
        /\ Len(g.dp) = g.len
        /\ \A j, k \in DOMAIN g.dp : g.dp[j].id = g.dp[k].id => j = k
        /\ \A k \in DOMAIN g.dp : ~g.dp[k].new /\ dataArea[g.dp[k].id] # Blank
        /\ g.ino = 0 => g.del = {}
    <3>1. /\ Len(hs[a].dp) = hs[a].len
          /\ \A j, k \in DOMAIN hs[a].dp : hs[a].dp[j].id = hs[a].dp[k].id => j = k
          /\ \A k \in DOMAIN hs[a].dp : ~hs[a].dp[k].new /\ dataArea[hs[a].dp[k].id] # Blank
      BY <1>2, <1>7 DEF HandleLists
    <3> QED BY <1>4, <1>7, <3>1
  <2>3. QED
    BY <1>1, <1>2, <1>3, <1>7, <2>1, <2>2, OneList
<1>20. HandlePlaces'
  <2>1. SUFFICES ASSUME NEW b \in Actors, hs'[b].open
                 PROVE  IF Valid(hs'[b].page)
                        THEN inodeArea[hs'[b].page].ino = hs'[b].ino
                             /\ inodeArea[hs'[b].page].ver = hs'[b].ver
                        ELSE hs'[b].page \in reserved
    BY <1>1 DEF HandlePlaces, Valid
  <2>2. CASE b = a
    BY <2>2, <1>4, <1>6, <1>10
  <2>3. CASE b # a
    BY <2>1, <2>3, <1>6 DEF PagesInv, HandlePlaces
  <2>4. QED
    BY <2>2, <2>3
<1>21. HandlesApart'
  <2>1. SUFFICES ASSUME NEW b \in Actors, NEW c \in Actors, b # c
                 PROVE  /\ HandlePages(hs'[b]) \cap HandlePages(hs'[c]) = {}
                        /\ hs'[b].open /\ hs'[c].open => hs'[b].page # hs'[c].page
                        /\ ~(/\ hs'[b].open /\ hs'[c].open
                             /\ hs'[b].ino = hs'[c].ino /\ hs'[b].ino # 0)
    BY DEF HandlesApart
  <2>2. \A x \in Actors :
          /\ HandlePages(hs'[x]) = HandlePages(hs[x])
          /\ hs'[x].open = hs[x].open /\ hs'[x].page = hs[x].page
          /\ hs'[x].ino = hs[x].ino \/ (x = a /\ hs'[x].ino = N)
    <3>1. TAKE x \in Actors
    <3>2. CASE x = a
      BY <3>2, <1>4, <1>5, <1>6
    <3>3. CASE x # a
      BY <3>3, <1>6
    <3>4. QED
      BY <3>2, <3>3
  <2>3. ~(/\ hs'[b].open /\ hs'[c].open /\ hs'[b].ino = hs'[c].ino /\ hs'[b].ino # 0)
    BY <1>1, <1>2, <1>8, <2>1, <2>2, FlushedAlone
  <2>4. QED
    BY <2>1, <2>2, <2>3 DEF PagesInv, HandlesApart
<1>22. HandleShares'
  <2>1. SUFFICES ASSUME NEW b \in Actors, NEW q \in ValidPages,
                        HandlePages(hs'[b]) \cap StoredPages(q) # {}
                 PROVE  /\ inodeArea[q].ino = hs'[b].ino
                        /\ Erasing => \/ q = hs'[b].page
                                      \/ q \in doomed
    BY <1>1, <1>11 DEF HandleShares, ValidPages
  <2>2. HandlePages(hs[b]) \cap StoredPages(q) # {}
    BY <1>5, <1>6, <2>1
  <2>3. inodeArea[q].ino = hs[b].ino /\ ~Replacing(b)
    BY <1>1, <2>2, NothingToCommit DEF PagesInv, HandleShares
  <2>4. b # a
    BY <1>1, <1>8, <2>3
  <2>5. QED
    BY <1>6, <2>2, <2>3, <2>4 DEF PagesInv, HandleShares
<1>23. HandleVersions'
  <2>1. SUFFICES ASSUME NEW b \in Actors, NEW q \in ValidPages,
                        hs'[b].open, inodeArea[q].ino = hs'[b].ino
                 PROVE  /\ inodeArea[q].ver <= hs'[b].ver
                        /\ ~Committing(b)'
    BY <1>1, <1>11 DEF HandleVersions
  <2>2. b # a
    BY <1>4, <1>6, <1>8, <2>1
  <2>3. QED
    BY <1>6, <1>16, <2>1, <2>2 DEF PagesInv, HandleVersions
<1>24. CommitsToFresh'
  <2>1. SUFFICES ASSUME NEW b \in Actors, b = a
                 PROVE  hs'[b].open /\ ~Valid(hs'[b].page) /\ hs'[b].del = {}
    BY <1>1, <1>16 DEF CommitsToFresh, Valid
  <2>2. QED
    BY <2>1, <1>4, <1>6, <1>7, <1>10
<1>25. ReplacesOld'
  BY <1>16 DEF ReplacesOld
<1>26. QED
  BY <1>11, <1>14, <1>15, <1>17, <1>18, <1>19, <1>20, <1>21, <1>22, <1>23, <1>24,
     <1>25 DEF PagesInv

\* the list of the handle g is as HandleLists wants it
FitsList(g) ==
  /\ ~g.open => g = NoHandle
  /\ up # "up" => ~g.open
  /\ Len(g.dp) = g.len
  /\ \A j, k \in DOMAIN g.dp : g.dp[j].id = g.dp[k].id => j = k
  /\ \A k \in DOMAIN g.dp : ~g.dp[k].new /\ dataArea[g.dp[k].id] # Blank
  /\ g.ino = 0 => g.del = {}

LEMMA ListFits ==
  ASSUME HandleLists, NEW h \in Actors, \A b \in Actors \ {h} : hs'[b] = hs[b],
         UNCHANGED <<dataArea, up>>, FitsList(hs'[h])
  PROVE  HandleLists'
<1>1. SUFFICES ASSUME NEW b \in Actors
               PROVE  FitsList(hs'[b])
  BY DEF HandleLists, FitsList
<1>2. CASE b = h
  BY <1>2
<1>3. CASE b # h
  BY <1>3 DEF HandleLists, FitsList
<1>4. QED
  BY <1>2, <1>3

\* the handle f with its next version, on the page it chose
NextHandle(f, page) ==
  [f EXCEPT !.page = page, !.ver = NextVersion(@), !.del = {}]

LEMMA VersionPages ==
  ASSUME TypeOK, TypeOK', Control, PagesInv, FlushVersion,
         NEW page \in InodePageChoices, page # NoPage,
         NEW f, f = hs[Actor], NEW g, g = NextHandle(f, page),
         reserved' = reserved \cup {page},
         old' = [page |-> f.page, ids |-> HandlePages(f)],
         hs' = [hs EXCEPT ![Actor] = g],
         Then(<<On("zero", Actor), On("meta", Actor)>>)
  PROVE  PagesInv'
<1> DEFINE a == Actor
<1>1. /\ todo # <<>> /\ Head(todo).t = "flush" /\ todo \in Seq(Task)
      /\ f.ino # 0 /\ f.mod
      /\ todo' = <<On("zero", a), On("meta", a)>> \o Tail(todo)
      /\ UNCHANGED <<inodeArea, dataArea, up, freeData, doomed>>
  BY DEF FlushVersion, Doing, Then, flash, TypeOK
<1>2. a \in Actors /\ a = Head(todo).h /\ PlainTasks /\ f \in Handle /\ f.ver \in Nat
  BY <1>1, HeadType DEF TypeOK, PagesInv, Actor, Handle
<1>3. hs' = [hs EXCEPT ![a] = g]
  OBVIOUS
<1>4. /\ old'.page = f.page /\ old'.ids = HandlePages(f)
      /\ reserved' = reserved \cup {page}
  OBVIOUS
<1> HIDE DEF a
<1>5. /\ g.open = f.open /\ g.ino = f.ino /\ g.ver = f.ver + 1 /\ g.page = page
      /\ g.dp = f.dp /\ g.len = f.len /\ g.del = {}
  BY <1>2 DEF Handle, NextHandle, NextVersion
<1>6. HandlePages(g) \subseteq HandlePages(f)
  BY <1>5 DEF HandlePages
<1>7. hs[a] = f /\ hs'[a] = g /\ \A b \in Actors \ {a} : hs'[b] = hs[b]
  BY <1>2, <1>3 DEF TypeOK
<1>8. f.open /\ up = "up" /\ HandleLists
  BY <1>1, <1>2, <1>7, NoHandleParts DEF PagesInv, HandleLists
<1>9. doomed = {}
  BY <1>1, NothingDoomed
<1>10. /\ page \in InodePages /\ ~Valid(page) /\ page \notin reserved
       /\ \A b \in Actors : hs[b].open => hs[b].page # page
  BY FreshPage
<1>11. /\ StoredLists' /\ StoredVersions' /\ StoredShares' /\ SettledShares'
       /\ ValidPages' = ValidPages
       /\ \A p \in InodePages : (Valid(p)' <=> Valid(p))
       /\ \A p \in InodePages : StoredPages(p)' = StoredPages(p)
  BY <1>1, StoredSame
<1>12. /\ On("zero", a) \in Task /\ On("meta", a) \in Task /\ Tail(todo) \in Seq(Task)
       /\ On("zero", a).t = "zero" /\ On("meta", a).t = "meta"
       /\ On("zero", a).h = a
       /\ \A k \in 1 .. Len(Tail(todo)) : Tail(todo)[k].t \notin Corrections \cup Searches
  BY <1>1, <1>2, OnTypes, TaskParts, PlainTail DEF TaskKinds
<1>13. /\ todo' # <<>> /\ Head(todo') = On("zero", a) /\ todo'[2] = On("meta", a)
  BY <1>1, <1>12, Stacks
<1>14. PlainTasks'
  BY <1>1, <1>12, PlainPush2 DEF Corrections, Searches
<1>15. SearchesStored'
  BY <1>12, <1>13, NoSearch
<1>16. (\A b : Committing(b)' => b = a) /\ (\A b : Replacing(b)' <=> b = a)
  BY <1>12, <1>13 DEF Committing, Replacing
<1>17. \A x \in Actors :
         /\ HandlePages(hs'[x]) \subseteq HandlePages(hs[x])
         /\ hs'[x].open = hs[x].open /\ hs'[x].ino = hs[x].ino
         /\ x # a => hs'[x] = hs[x]
  <2>1. TAKE x \in Actors
  <2>2. CASE x = a
    BY <2>2, <1>5, <1>6, <1>7
  <2>3. CASE x # a
    BY <2>3, <1>7
  <2>4. QED
    BY <2>2, <2>3
<1>18. FreeIsUnused'
  <2>1. \A x \in Actors : HandlePages(hs'[x]) \cap freeData = {}
    BY <1>17 DEF PagesInv, FreeIsUnused
  <2>2. QED
    BY <1>1, <1>11, <2>1 DEF PagesInv, FreeIsUnused, ValidPages
<1>19. DoomedIsOld'
  BY <1>1, <1>9 DEF DoomedIsOld
<1>20. HandleLists'
  <2>1. FitsList(g)
    BY <1>2, <1>5, <1>7, <1>8 DEF HandleLists, FitsList
  <2>2. UNCHANGED <<dataArea, up>> /\ HandleLists
    BY <1>1, <1>8
  <2>3. QED
    BY <1>2, <1>7, <2>1, <2>2, ListFits
<1>21. HandlePlaces'
  <2>1. SUFFICES ASSUME NEW b \in Actors, hs'[b].open
                 PROVE  IF Valid(hs'[b].page)
                        THEN inodeArea[hs'[b].page].ino = hs'[b].ino
                             /\ inodeArea[hs'[b].page].ver = hs'[b].ver
                        ELSE hs'[b].page \in reserved'
    BY <1>1 DEF HandlePlaces, Valid
  <2>2. CASE b = a
    BY <2>2, <1>4, <1>5, <1>7, <1>10
  <2>3. CASE b # a
    BY <2>1, <2>3, <1>4, <1>7 DEF PagesInv, HandlePlaces
  <2>4. QED
    BY <2>2, <2>3
<1>22. HandlesApart'
  <2>1. SUFFICES ASSUME NEW b \in Actors, NEW c \in Actors, b # c
                 PROVE  /\ HandlePages(hs'[b]) \cap HandlePages(hs'[c]) = {}
                        /\ hs'[b].open /\ hs'[c].open => hs'[b].page # hs'[c].page
                        /\ ~(/\ hs'[b].open /\ hs'[c].open
                             /\ hs'[b].ino = hs'[c].ino /\ hs'[b].ino # 0)
    BY DEF HandlesApart
  <2>2. HandlePages(hs[b]) \cap HandlePages(hs[c]) = {}
        /\ (hs[b].open /\ hs[c].open => hs[b].page # hs[c].page)
    BY <2>1 DEF PagesInv, HandlesApart
  <2>3. ~(/\ hs'[b].open /\ hs'[c].open /\ hs'[b].ino = hs'[c].ino /\ hs'[b].ino # 0)
    <3>1. hs[Head(todo).h].mod
      BY <1>1, <1>2, <1>7
    <3>2. SUFFICES ASSUME hs'[b].open, hs'[c].open, hs'[b].ino = hs'[c].ino,
                          hs'[b].ino # 0
                   PROVE  FALSE
      OBVIOUS
    <3>3. hs[b].open /\ hs[c].open /\ hs[b].ino = hs[c].ino /\ hs[b].ino # 0
      BY <1>17, <3>2
    <3>4. Head(todo).t \in {"flush", "zero", "meta", "metaNew", "erase"}
      BY <1>1
    <3>5. QED
      BY <1>1, <2>1, <3>1, <3>3, <3>4, FlushedAlone
  <2>4. hs'[b].open /\ hs'[c].open => hs'[b].page # hs'[c].page
    <3>1. CASE b = a
      BY <3>1, <2>1, <1>5, <1>7, <1>10
    <3>2. CASE c = a
      BY <3>2, <2>1, <1>5, <1>7, <1>10
    <3>3. CASE b # a /\ c # a
      BY <3>3, <2>2, <1>7
    <3>4. QED
      BY <3>1, <3>2, <3>3
  <2>5. QED
    BY <1>17, <2>1, <2>2, <2>3, <2>4
<1>23. HandleShares'
  <2>1. SUFFICES ASSUME NEW b \in Actors, NEW q \in ValidPages,
                        HandlePages(hs'[b]) \cap StoredPages(q) # {}
                 PROVE  /\ inodeArea[q].ino = hs'[b].ino
                        /\ Erasing => q = hs'[b].page \/ (b = a /\ q = old'.page)
    BY <1>1, <1>11, <1>16 DEF HandleShares, ValidPages
  <2>2. HandlePages(hs[b]) \cap StoredPages(q) # {}
    BY <1>17, <2>1
  <2>3. ~Replacing(b)
    BY <1>1, NothingToCommit
  <2>4. inodeArea[q].ino = hs[b].ino /\ (Erasing => q = hs[b].page)
    BY <1>9, <2>2, <2>3 DEF PagesInv, HandleShares
  <2>5. CASE b = a
    BY <2>4, <2>5, <1>4, <1>7, <1>17
  <2>6. CASE b # a
    BY <2>4, <2>6, <1>17
  <2>7. QED
    BY <2>5, <2>6
<1>24. HandleVersions'
  <2>1. SUFFICES ASSUME NEW b \in Actors, NEW q \in ValidPages,
                        hs'[b].open, inodeArea[q].ino = hs'[b].ino
                 PROVE  /\ inodeArea[q].ver <= hs'[b].ver
                        /\ Committing(b)' => inodeArea[q].ver < hs'[b].ver
    BY <1>1, <1>11 DEF HandleVersions
  <2>2. inodeArea[q].ver <= hs[b].ver /\ inodeArea[q].ver \in Nat
    <3>1. hs[b].open /\ inodeArea[q].ino = hs[b].ino
      BY <1>17, <2>1
    <3>2. inodeArea[q].ver <= hs[b].ver
      BY <3>1 DEF PagesInv, HandleVersions
    <3>3. inodeArea[q] \in Inode
      BY LoadedType DEF TypeOK, ValidPages
    <3>4. QED
      BY <3>2, <3>3 DEF Inode
  <2>3. CASE b = a
    BY <2>2, <2>3, <1>2, <1>5, <1>7
  <2>4. CASE b # a
    BY <2>2, <2>4, <1>16, <1>17
  <2>5. QED
    BY <2>3, <2>4
<1>25. CommitsToFresh'
  <2>1. SUFFICES ASSUME NEW b \in Actors, b = a
                 PROVE  hs'[b].open /\ ~Valid(hs'[b].page) /\ hs'[b].del = {}
    BY <1>1, <1>16 DEF CommitsToFresh, Valid
  <2>2. QED
    BY <2>1, <1>5, <1>7, <1>8, <1>10
<1>26. ReplacesOld'
  <2>1. f.page \in InodePages /\ f.page # page /\ (Valid(f.page) \/ f.page \in reserved)
    BY <1>2, <1>7, <1>8, <1>10, PlacesKept DEF Handle
  <2>2. Valid(f.page) => /\ inodeArea[f.page].ino = f.ino
                         /\ inodeArea[f.page].ver + 1 = f.ver + 1
    BY <1>2, <1>7, <1>8 DEF PagesInv, HandlePlaces
  <2>3. \A q \in ValidPages : HandlePages(f) \cap StoredPages(q) # {} =>
          inodeArea[q].ino = f.ino /\ (Erasing => q = f.page)
    <3>1. ~Replacing(a)
      BY <1>1, NothingToCommit
    <3>2. QED
      BY <1>2, <1>7, <1>9, <3>1 DEF PagesInv, HandleShares
  <2>4. HandlePages(f) \cap freeData = {}
        /\ \A b \in Actors \ {a} : HandlePages(f) \cap HandlePages(hs'[b]) = {}
    BY <1>2, <1>7 DEF PagesInv, FreeIsUnused, HandlesApart
  <2>5. \A b \in Actors : hs'[b].open => hs'[b].page # f.page
    <3>1. \A b \in Actors \ {a} : hs[b].open => hs[b].page # f.page
      BY <1>2, <1>7, <1>8 DEF PagesInv, HandlesApart
    <3>2. QED
      BY <3>1, <2>1, <1>5, <1>7
  <2>6. SUFFICES ASSUME NEW b \in Actors, b = a
                 PROVE  /\ HandlePages(hs'[b]) \subseteq old'.ids
                        /\ old'.ids \cap freeData = {}
                        /\ \A c \in Actors \ {b} : old'.ids \cap HandlePages(hs'[c]) = {}
                        /\ \A q \in ValidPages : old'.ids \cap StoredPages(q) # {} =>
                             inodeArea[q].ino = hs'[b].ino /\ (Erasing => q = old'.page)
                        /\ \A c \in Actors : hs'[c].open => hs'[c].page # old'.page
                        /\ Valid(old'.page) => /\ inodeArea[old'.page].ino = hs'[b].ino
                                               /\ inodeArea[old'.page].ver + 1 = hs'[b].ver
    BY <1>1, <1>11, <1>16 DEF ReplacesOld, Valid, ValidPages
  <2>7. QED
    BY <2>2, <2>3, <2>4, <2>5, <2>6, <1>4, <1>5, <1>6, <1>7
<1>27. QED
  BY <1>11, <1>14, <1>15, <1>18, <1>19, <1>20, <1>21, <1>22, <1>23, <1>24,
     <1>25, <1>26 DEF PagesInv
=============================================================================
