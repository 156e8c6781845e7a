---------------------------- MODULE FlashFsProofs ----------------------------
(***************************************************************************)
(* Theorems about FlashFs for every size of the flash, every set of names, *)
(* contents and handles, and every choice of calls and faults.  First the  *)
(* facts about the operators FlashFs is built from: least and greatest     *)
(* elements, and the types of what the helpers return; then the types and  *)
(* the highest number; then Control and Numbered, which lists of tasks a   *)
(* call can leave behind and which inode numbers the stored files and the  *)
(* handles can have.  From them: a new file never gets the number of       *)
(* another one, and mounting leaves one version of a file on the flash.    *)
(***************************************************************************)
EXTENDS FlashFsInvariants, WellFoundedInduction, SequenceTheorems, TLAPS

(***************************************************************************)
(* Least and greatest elements.                                            *)
(***************************************************************************)
\* allocate_free_data_page() takes the first element of a std::set: a set of
\* page numbers that is not empty has a least element, and Least finds it.
LEMMA LeastExists ==
  ASSUME NEW S \in SUBSET Nat, S # {}
  PROVE  /\ Least(S) \in S
         /\ \A y \in S : Least(S) <= y
<1> DEFINE R == OpToRel(<, Nat)
<1>1. \A x, y \in Nat : <<y, x>> \in R <=> y < x
  BY DEF OpToRel
<1>2. IsWellFoundedOn(R, Nat)
  BY NatLessThanWellFounded
<1> HIDE DEF R
<1>3. PICK x \in S : \A y \in S : ~ (<<y, x>> \in R)
  BY <1>2, WFMin
<1>4. \A y \in S : x <= y
  <2> TAKE y \in S
  <2>1. x \in Nat /\ y \in Nat /\ ~ (<<y, x>> \in R)
    BY <1>3
  <2>2. ~(y < x)
    BY <2>1, <1>1
  <2> QED BY <2>1, <2>2
<1> QED BY <1>4 DEF Least

\* The numbers that a finite range of pages holds are bounded: the maximum
\* that base_init and init() look for exists.
LEMMA BoundExists ==
  ASSUME NEW n \in Nat, NEW f, NEW D,
         \A p \in (0 .. n - 1) \cap D : f[p] \in Nat
  PROVE  \E m \in Nat : \A p \in (0 .. n - 1) \cap D : f[p] <= m
<1> DEFINE Below(k) == (0 .. k - 1) \cap D
           Bounded(k) == \E m \in Nat : \A p \in Below(k) : f[p] <= m
           Bad == {k \in 0 .. n : ~Bounded(k)}
<1>1. Bounded(0)
  <2>1. \A p \in Below(0) : f[p] <= 0
    OBVIOUS
  <2> QED BY <2>1
<1>2. ASSUME NEW j \in 0 .. n - 1, Bounded(j)
      PROVE  Bounded(j + 1)
  <2>1. PICK m \in Nat : \A p \in Below(j) : f[p] <= m
    BY <1>2
  <2>2. \A p \in Below(j + 1) : p = j \/ p \in Below(j)
    OBVIOUS
  <2>3. \A p \in Below(j + 1) : f[p] \in Nat
    OBVIOUS
  <2> HIDE DEF Below
  <2>4. CASE j \in Below(j + 1)
    <3>1. PICK w \in Nat : w = f[j]
      BY <2>3, <2>4
    <3>2. \A p \in Below(j + 1) : f[p] <= m + w
      <4> TAKE p \in Below(j + 1)
      <4>1. PICK u \in Nat : u = f[p]
        BY <2>3
      <4>2. u <= m \/ u = w
        BY <4>1, <3>1, <2>1, <2>2
      <4>3. u <= m + w
        BY <4>2
      <4> QED BY <4>1, <4>3
    <3>3. m + w \in Nat
      OBVIOUS
    <3> QED BY <3>2, <3>3
  <2>5. CASE j \notin Below(j + 1)
    BY <2>1, <2>2, <2>5
  <2> QED BY <2>4, <2>5
<1> HIDE DEF Bounded
<1>3. Bad \in SUBSET Nat
  OBVIOUS
<1>4. Bad = {}
  <2> SUFFICES ASSUME Bad # {} PROVE FALSE
    OBVIOUS
  <2>1. /\ Least(Bad) \in Bad
        /\ \A y \in Bad : Least(Bad) <= y
    <3> HIDE DEF Bad
    <3> QED BY <1>3, LeastExists
  <2>2. PICK k \in Nat : k = Least(Bad)
    BY <2>1
  <2>3. k \in 1 .. n /\ ~Bounded(k)
    BY <2>1, <2>2, <1>1
  <2>4. k - 1 \in 0 .. n - 1 /\ k - 1 \in 0 .. n /\ ~(k <= k - 1) /\ (k - 1) + 1 = k
    BY <2>3
  <2>5. k - 1 \notin Bad
    <3> HIDE DEF Bad
    <3> QED BY <2>1, <2>2, <2>4
  <2>6. Bounded(k - 1)
    BY <2>5, <2>4
  <2>7. Bounded((k - 1) + 1)
    BY <2>4, <2>6, <1>2
  <2> QED BY <2>3, <2>4, <2>7
<1>5. Bounded(n)
  BY <1>4
<1> QED BY <1>5 DEF Bounded

LEMMA GreatestExists ==
  ASSUME NEW S \in SUBSET Nat, S # {}, NEW b \in Nat, \A y \in S : y <= b
  PROVE  /\ Greatest(S) \in S
         /\ \A y \in S : Greatest(S) >= y
<1> DEFINE U == {m \in Nat : \A y \in S : y <= m}
<1>1. U \in SUBSET Nat /\ U # {}
  OBVIOUS
<1>2. PICK m \in U : \A k \in U : m <= k
  <2> HIDE DEF U
  <2> QED BY <1>1, LeastExists
<1>3. m \in S
  <2> SUFFICES ASSUME m \notin S PROVE FALSE
    OBVIOUS
  <2>1. m \in Nat /\ \A y \in S : y \in Nat /\ y < m
    BY <1>2
  <2>2. PICK z \in S : TRUE
    OBVIOUS
  <2>3. z \in Nat /\ z < m
    BY <2>1, <2>2
  <2>4. m - 1 \in Nat
    BY <2>1, <2>3
  <2>5. \A y \in S : y <= m - 1
    BY <2>1
  <2>6. m - 1 \in U
    BY <2>4, <2>5
  <2> QED BY <2>6, <2>1, <1>2
<1>4. \E x \in S : \A y \in S : x >= y
  BY <1>3, <1>2
<1> QED BY <1>4 DEF Greatest

(***************************************************************************)
(* Pages and tasks.                                                        *)
(***************************************************************************)
\* The two areas of the flash are disjoint ranges of page numbers.
LEMMA PageRanges ==
  /\ InodePages \subseteq Nat
  /\ DataPages \subseteq Nat
  /\ 0 \in InodePages
  /\ InodePages \cap DataPages = {}
  /\ NoPage \notin InodePages \cup DataPages
BY LayoutAssumption DEF InodePages, DataPages, NoPage

LEMMA TaskTypes ==
  ASSUME NEW t \in TaskKinds, NEW h \in Actors, NEW n \in FileNames, NEW k \in Nat
  PROVE  /\ On(t, h) \in Task
         /\ OnName(t, h, n) \in Task
         /\ OnSize(t, h, k) \in Task
BY DEF On, OnName, OnSize, Task, FileNames

LEMMA ShortSequences ==
  ASSUME NEW S, NEW a \in S, NEW b \in S, NEW c \in S
  PROVE  /\ <<>> \in Seq(S)
         /\ <<a>> \in Seq(S)
         /\ <<a, b>> \in Seq(S)
         /\ <<a, b, c>> \in Seq(S)
OBVIOUS

\* What is left of a call after a step are tasks again.
LEMMA ThenType ==
  ASSUME NEW ts \in Seq(Task), todo \in Seq(Task), todo # <<>>, Then(ts)
  PROVE  todo' \in Seq(Task)
<1>1. Tail(todo) \in Seq(Task)
  BY HeadTailProperties
<1>2. ts \o Tail(todo) \in Seq(Task)
  BY <1>1, ConcatProperties
<1> QED BY <1>2 DEF Then

\* The task at the head of a running call is a task of an existing handle.
LEMMA HeadType ==
  ASSUME todo \in Seq(Task), todo # <<>>
  PROVE  /\ Head(todo) \in Task
         /\ Actor \in Actors
         /\ Head(todo).h \in Actors
         /\ Head(todo).n \in FileNames
         /\ Head(todo).k \in Nat
         /\ Tail(todo) \in Seq(Task)
<1>1. Head(todo) \in Task /\ Tail(todo) \in Seq(Task)
  BY HeadTailProperties
<1> QED BY <1>1 DEF Task, Actor

LEMMA DoingType ==
  ASSUME NEW t, todo \in Seq(Task), Doing(t)
  PROVE  todo # <<>>
BY DEF Doing

(***************************************************************************)
(* Inodes and handles.                                                     *)
(***************************************************************************)
LEMMA CutType ==
  ASSUME NEW S, NEW s \in Seq(S), NEW n \in Nat
  PROVE  Cut(s, n) \in Seq(S)
<1>1. CASE n < Len(s)
  <2>1. \A i \in 1 .. n : s[i] \in S
    BY <1>1, ElementOfSeq, LenProperties
  <2> QED BY <2>1, <1>1, SubSeqProperties DEF Cut
<1>2. CASE ~(n < Len(s))
  BY <1>2 DEF Cut
<1> QED BY <1>1, <1>2

LEMMA PagesTypes ==
  /\ \A i \in Inode : PagesOf(i) \subseteq DataPages
  /\ \A f \in Handle : HandlePages(f) \subseteq DataPages
<1>1. ASSUME NEW i \in Inode
      PROVE  PagesOf(i) \subseteq DataPages
  <2>1. i.ids \in Seq(DataPages) /\ i.extra \subseteq DataPages
    BY DEF Inode
  <2>2. \A k \in DOMAIN i.ids : i.ids[k] \in DataPages
    BY <2>1, ElementOfSeq, LenProperties
  <2> QED BY <2>1, <2>2 DEF PagesOf
<1>2. ASSUME NEW f \in Handle
      PROVE  HandlePages(f) \subseteq DataPages
  <2>1. f.dp \in Seq(Entry) /\ f.del \subseteq DataPages
    BY DEF Handle
  <2>2. \A k \in DOMAIN f.dp : f.dp[k] \in Entry
    BY <2>1, ElementOfSeq, LenProperties
  <2> QED BY <2>1, <2>2 DEF HandlePages, Entry
<1> QED BY <1>1, <1>2

LEMMA EntryAt ==
  ASSUME NEW f \in Handle, NEW k \in 1 .. Len(f.dp)
  PROVE  f.dp[k] \in Entry /\ f.dp[k].id \in DataPages
<1>1. f.dp \in Seq(Entry)
  BY DEF Handle
<1>2. f.dp[k] \in Entry
  BY <1>1, ElementOfSeq
<1> QED BY <1>2 DEF Entry

\* inode2page() of a handle gives an inode.
LEMMA SerialisedType ==
  ASSUME NEW f \in Handle
  PROVE  Serialised(f) \in Inode
<1>1. /\ f.dp \in Seq(Entry) /\ f.del \subseteq DataPages /\ f.ino \in Nat
      /\ f.ver \in Nat /\ f.name \in FileNames /\ f.len \in Nat
  BY DEF Handle
<1>2. Len(f.dp) \in Nat /\ \A k \in 1 .. Len(f.dp) : f.dp[k].id \in DataPages
  <2>1. \A k \in 1 .. Len(f.dp) : f.dp[k] \in Entry
    BY <1>1, ElementOfSeq
  <2> QED BY <1>1, <2>1, LenProperties DEF Entry
<1>3. [k \in 1 .. Len(f.dp) |-> f.dp[k].id] \in Seq(DataPages)
  BY <1>2
<1> QED BY <1>1, <1>3 DEF Serialised, Inode

\* get_inode() of a valid page gives a handle.
LEMMA LoadedType ==
  ASSUME inodeArea \in [InodePages -> Inode \cup {Blank, Torn}],
         NEW p \in InodePages, Valid(p)
  PROVE  /\ inodeArea[p] \in Inode
         /\ Loaded(p) \in Handle
         /\ Loaded(p).ino = inodeArea[p].ino
<1> DEFINE ids == Cut(inodeArea[p].ids, inodeArea[p].len)
           dp  == [k \in 1 .. Len(ids) |-> [id |-> ids[k], new |-> FALSE]]
<1>1. inodeArea[p] \in Inode
  BY DEF Valid
<1>2. /\ inodeArea[p].ids \in Seq(DataPages) /\ inodeArea[p].len \in Nat
      /\ inodeArea[p].ino \in Nat /\ inodeArea[p].ver \in Nat
      /\ inodeArea[p].name \in FileNames
  BY <1>1 DEF Inode
<1>3. ids \in Seq(DataPages)
  BY <1>2, CutType
<1>4. OverLong(inodeArea[p]) \in BOOLEAN
  BY DEF OverLong
<1>5. Loaded(p) = [open |-> TRUE, ino |-> inodeArea[p].ino, ver |-> inodeArea[p].ver,
                   name |-> inodeArea[p].name, len |-> inodeArea[p].len, dp |-> dp,
                   del |-> {}, page |-> p, mod |-> OverLong(inodeArea[p])]
  BY DEF Loaded
<1> HIDE DEF ids
<1>6. dp \in Seq(Entry)
  <2>1. Len(ids) \in Nat /\ \A k \in 1 .. Len(ids) : ids[k] \in DataPages
    BY <1>3, ElementOfSeq, LenProperties
  <2> QED BY <2>1 DEF Entry
<1> HIDE DEF dp
<1> QED BY <1>1, <1>2, <1>4, <1>5, <1>6 DEF Handle

LEMMA NoHandleType == NoHandle \in Handle
BY PageRanges, EmptySeq DEF NoHandle, Handle, FileNames

(***************************************************************************)
(* Allocation.                                                             *)
(***************************************************************************)
LEMMA InodePageChoicesType == InodePageChoices \subseteq InodePages \cup {NoPage}
<1>1. FreeInodePages \subseteq InodePages
  BY DEF FreeInodePages
<1>2. ASSUME FreeInodePages \ {MaxInodes - 1} # {}
      PROVE  Least(FreeInodePages \ {MaxInodes - 1}) \in InodePages
  BY <1>1, <1>2, LeastExists, PageRanges
<1> QED BY <1>1, <1>2 DEF InodePageChoices

LEMMA DataPageChoicesType ==
  ASSUME freeData \in SUBSET DataPages, NEW f
  PROVE  /\ LowestDataPage \ {NoPage} \subseteq freeData
         /\ DataPageChoices(f) \ {NoPage} \subseteq freeData
<1>1. ASSUME freeData # {}
      PROVE  Least(freeData) \in freeData
  BY <1>1, LeastExists, PageRanges
<1>2. LowestDataPage \ {NoPage} \subseteq freeData
  BY <1>1 DEF LowestDataPage
<1> QED BY <1>2 DEF DataPageChoices

(***************************************************************************)
(* Loops over inodes.                                                      *)
(***************************************************************************)
LEMMA FirstOfExists ==
  ASSUME NEW visits \in SUBSET (InodePages \X InodePages), visits # {}
  PROVE  FirstOf(visits) \in visits
<1> DEFINE firsts == {v[1] : v \in visits}
<1>1. firsts \in SUBSET Nat /\ firsts # {}
  BY PageRanges
<1>2. PICK n \in firsts : \A m \in firsts : n <= m
  <2> HIDE DEF firsts
  <2> QED BY <1>1, LeastExists
<1>3. \E v \in visits : \A w \in visits : v[1] <= w[1]
  BY <1>2
<1> QED BY <1>3 DEF FirstOf

\* max_inode_number after base_init(): no valid page holds a higher number.
LEMMA HighestNumberBounds ==
  ASSUME inodeArea \in [InodePages -> Inode \cup {Blank, Torn}]
  PROVE  /\ HighestNumber \in Nat
         /\ \A p \in ValidPages : inodeArea[p].ino <= HighestNumber
<1> DEFINE numbers == {inodeArea[p].ino : p \in ValidPages}
           f == [p \in InodePages |-> inodeArea[p].ino]
<1>1. \A p \in ValidPages : inodeArea[p] \in Inode /\ inodeArea[p].ino \in Nat
  BY DEF ValidPages, Valid, Inode
<1>2. CASE ValidPages = {}
  BY <1>2 DEF HighestNumber
<1>3. CASE ValidPages # {}
  <2>1. numbers \in SUBSET Nat /\ numbers # {}
    BY <1>1, <1>3
  <2>2. ValidPages \subseteq InodePages /\ MaxInodes \in Nat
    BY LayoutAssumption DEF ValidPages
  <2>3. \A p \in (0 .. MaxInodes - 1) \cap ValidPages : f[p] \in Nat
    BY <1>1, <2>2
  <2>4. PICK m \in Nat : \A p \in (0 .. MaxInodes - 1) \cap ValidPages : f[p] <= m
    <3> HIDE DEF f
    <3> QED BY <2>2, <2>3, BoundExists
  <2>5. \A p \in ValidPages : inodeArea[p].ino <= m
    BY <2>2, <2>4 DEF InodePages
  <2>6. \A y \in numbers : y <= m
    BY <2>5
  <2>7. Greatest(numbers) \in numbers /\ \A y \in numbers : Greatest(numbers) >= y
    <3> HIDE DEF numbers
    <3> QED BY <2>1, <2>6, GreatestExists
  <2>8. HighestNumber = Greatest(numbers)
    BY <1>3 DEF HighestNumber
  <2> HIDE DEF f
  <2>9. \A p \in ValidPages : inodeArea[p].ino \in numbers
    OBVIOUS
  <2> HIDE DEF numbers
  <2>10. HighestNumber \in Nat
    BY <2>1, <2>7, <2>8
  <2>11. ASSUME NEW p \in ValidPages
         PROVE  inodeArea[p].ino <= HighestNumber
    <3>1. inodeArea[p].ino \in numbers /\ inodeArea[p].ino \in Nat
      BY <1>1, <2>9
    <3>2. HighestNumber >= inodeArea[p].ino
      BY <3>1, <2>7, <2>8
    <3> QED BY <3>1, <3>2, <2>10
  <2> QED BY <2>10, <2>11
<1> QED BY <1>2, <1>3

\* Of the versions of one inode there is an oldest one.
LEMMA OldestExists ==
  ASSUME inodeArea \in [InodePages -> Inode \cup {Blank, Torn}],
         NEW all \in SUBSET ValidPages, all # {},
         \A p, q \in all : inodeArea[p].ino = inodeArea[q].ino
  PROVE  \E p \in all : \A q \in all \ {p} : Older(p, q)
<1> DEFINE versions == {inodeArea[p].ver : p \in all}
           lowest == {p \in all : inodeArea[p].ver = Least(versions)}
<1>1. \A p \in all : p \in Nat /\ inodeArea[p].ver \in Nat
  BY PageRanges DEF ValidPages, Valid, Inode
<1>2. versions \in SUBSET Nat /\ versions # {}
  BY <1>1
<1>3. Least(versions) \in versions /\ \A y \in versions : Least(versions) <= y
  <2> HIDE DEF versions
  <2> QED BY <1>2, LeastExists
<1>4. \A p \in all : Least(versions) <= inodeArea[p].ver
  BY <1>3
<1>5. lowest \in SUBSET Nat /\ lowest # {}
  BY <1>1, <1>3
<1>6. PICK p \in lowest : \A q \in lowest : p <= q
  <2> HIDE DEF lowest
  <2> QED BY <1>5, LeastExists
<1>7. p \in all /\ inodeArea[p].ver = Least(versions)
  BY <1>6
<1>8. ASSUME NEW q \in all \ {p}
      PROVE  Older(p, q)
  <2>1. inodeArea[p].ver <= inodeArea[q].ver /\ p \in Nat /\ q \in Nat
        /\ inodeArea[p].ver \in Nat /\ inodeArea[q].ver \in Nat
        /\ inodeArea[p].ino = inodeArea[q].ino
    BY <1>1, <1>4, <1>7
  <2>2. CASE inodeArea[p].ver = inodeArea[q].ver
    <3>1. q \in lowest
      BY <1>7, <2>2
    <3>2. p <= q
      BY <1>6, <3>1
    <3> QED BY <2>1, <2>2, <3>2 DEF Older
  <2>3. CASE inodeArea[p].ver # inodeArea[q].ver
    <3> HIDE DEF versions, lowest
    <3>1. inodeArea[p].ver < inodeArea[q].ver
      BY <2>1, <2>3
    <3> QED BY <2>1, <3>1 DEF Older
  <2> QED BY <2>2, <2>3
<1> QED BY <1>7, <1>8

(***************************************************************************)
(* Types.                                                                  *)
(***************************************************************************)
LEMMA InitType == Init => TypeOK
BY PageRanges, NoHandleType, EmptySeq, LayoutAssumption
   DEF Init, TypeOK, AllPages

\* g is what a write makes of the handle f: another list of pages
Relisted(f, g) ==
  /\ g \in Handle
  /\ g.open = f.open /\ g.ino = f.ino /\ g.ver = f.ver
  /\ g.name = f.name /\ g.page = f.page

\* A page of content written for handle h, whose list is the one of f.
LEMMA PutWrites ==
  ASSUME TypeOK, NEW h \in Actors, NEW f \in Handle, NEW k \in 1 .. Len(f.dp),
         NEW page \in DataPages, NEW v \in Vals, Put(h, f, k, page, v)
  PROVE  /\ dataArea' \in [DataPages -> Vals \cup {Blank}]
         /\ \E g : Relisted(f, g) /\ hs' = [hs EXCEPT ![h] = g]
         /\ todo' = <<>> \/ (k < MaxLen /\ todo' = <<OnSize("write", h, k + 1)>>)
<1> DEFINE e == [id |-> page, new |-> FALSE]
           p == [f EXCEPT !.dp[k] = e]
           g == [p EXCEPT !.len = IF k > @ THEN k ELSE @, !.mod = TRUE]
<1>1. /\ f.dp \in Seq(Entry) /\ f.len \in Nat /\ k \in Nat
      /\ dataArea \in [DataPages -> Vals \cup {Blank}]
  BY DEF Handle, TypeOK
<1>2. e \in Entry
  BY DEF Entry
<1>3. [f.dp EXCEPT ![k] = e] \in Seq(Entry)
  BY <1>1, <1>2, ExceptSeq
<1>4. Relisted(f, p) /\ p.len = f.len
  <2>1. p = [f EXCEPT !.dp = [f.dp EXCEPT ![k] = e]]
    BY DEF Handle
  <2> HIDE DEF e, p
  <2> QED BY <1>3, <2>1 DEF Handle, Relisted
<1>5. Relisted(f, g)
  <2>1. (IF k > p.len THEN k ELSE p.len) \in Nat
    BY <1>1, <1>4
  <2> HIDE DEF e, p
  <2> QED BY <1>4, <2>1 DEF Handle, Relisted
<1>6. Relisted(f, f)
  BY DEF Relisted
<1>7. /\ \/ dataArea' = [dataArea EXCEPT ![page] = v]
         \/ dataArea' = dataArea
      /\ \/ hs' = [hs EXCEPT ![h] = g]
         \/ hs' = [hs EXCEPT ![h] = p]
         \/ hs' = [hs EXCEPT ![h] = f]
      /\ todo' = <<>> \/ (k < MaxLen /\ todo' = <<OnSize("write", h, k + 1)>>)
  BY DEF Put, GoesOn
<1> HIDE DEF e, g, p
<1> QED BY <1>1, <1>4, <1>5, <1>6, <1>7

LEMMA AppendedType ==
  ASSUME NEW f \in Handle, NEW page \in DataPages
  PROVE  LET g == [f EXCEPT !.dp = Append(@, [id |-> page, new |-> TRUE])]
         IN  /\ g \in Handle
             /\ Len(g.dp) = Len(f.dp) + 1
<1>1. f.dp \in Seq(Entry) /\ Len(f.dp) \in Nat
  BY LenProperties DEF Handle
<1>2. [id |-> page, new |-> TRUE] \in Entry
  BY DEF Entry
<1> DEFINE dp == Append(f.dp, [id |-> page, new |-> TRUE])
<1>3. dp \in Seq(Entry) /\ Len(dp) = Len(f.dp) + 1
  BY <1>1, <1>2, AppendProperties
<1> HIDE DEF dp
<1>4. [f EXCEPT !.dp = dp] \in Handle
  BY <1>3 DEF Handle
<1>5. [f EXCEPT !.dp = dp].dp = dp
  BY DEF Handle
<1> QED BY <1>3, <1>4, <1>5 DEF dp

LEMMA ReplacedType ==
  ASSUME NEW f \in Handle, NEW k \in 1 .. Len(f.dp), NEW page \in DataPages
  PROVE  /\ ReplacedEntry(f, k, page) \in Handle
         /\ k \in 1 .. Len(ReplacedEntry(f, k, page).dp)
<1> DEFINE e == [id |-> page, new |-> TRUE]
           dp == [f.dp EXCEPT ![k] = e]
           del == f.del \cup {f.dp[k].id}
<1>1. f.dp \in Seq(Entry) /\ f.del \subseteq DataPages
  BY DEF Handle
<1>2. e \in Entry /\ f.dp[k].id \in DataPages
  BY EntryAt DEF Entry
<1>3. dp \in Seq(Entry) /\ Len(dp) = Len(f.dp)
  BY <1>1, <1>2, ExceptSeq
<1>4. del \subseteq DataPages
  BY <1>1, <1>2
<1>5. ReplacedEntry(f, k, page) = [f EXCEPT !.del = del, !.dp = dp]
  BY DEF ReplacedEntry, Handle
<1> HIDE DEF dp, del
<1> QED BY <1>3, <1>4, <1>5 DEF Handle

\* A page of write(), the first one or a later one.
LEMMA PageWritten ==
  ASSUME TypeOK, NEW h \in Actors, NEW k \in Nat, NEW v \in Vals, WritePage(h, k, v)
  PROVE  /\ UNCHANGED <<inodeArea, up, reserved, maxIno, scan, old, doomed>>
         /\ dataArea' \in [DataPages -> Vals \cup {Blank}]
         /\ freeData' \in SUBSET DataPages
         /\ \E g : Relisted(hs[h], g) /\ hs' = [hs EXCEPT ![h] = g]
         /\ todo' = <<>> \/ (k < MaxLen /\ todo' = <<OnSize("write", h, k + 1)>>)
<1> DEFINE f == hs[h]
           Written == /\ dataArea' \in [DataPages -> Vals \cup {Blank}]
                      /\ freeData' \in SUBSET DataPages
                      /\ \E g : Relisted(f, g) /\ hs' = [hs EXCEPT ![h] = g]
                      /\ \/ todo' = <<>>
                         \/ k < MaxLen /\ todo' = <<OnSize("write", h, k + 1)>>
<1>7. UNCHANGED <<inodeArea, up, reserved, maxIno, scan, old, doomed>>
  BY DEF WritePage, WriteFresh, WriteWhole, WritePart, locals
<1> SUFFICES Written
  BY <1>7
<1> HIDE DEF Written
<1>1. /\ f \in Handle /\ f.dp \in Seq(Entry) /\ Len(f.dp) \in Nat
      /\ DOMAIN f.dp = 1 .. Len(f.dp) /\ freeData \subseteq DataPages
  BY LenProperties DEF Handle, TypeOK
<1>2. /\ LowestDataPage \ {NoPage} \subseteq DataPages
      /\ DataPageChoices(f) \ {NoPage} \subseteq DataPages
  BY DataPageChoicesType DEF TypeOK
<1>3. ASSUME NEW e \in Handle, Relisted(f, e), k \in 1 .. Len(e.dp),
             NEW page \in DataPages, Put(h, e, k, page, v),
             freeData' \in SUBSET DataPages
      PROVE  Written
  <2>1. /\ dataArea' \in [DataPages -> Vals \cup {Blank}]
        /\ \E g : Relisted(e, g) /\ hs' = [hs EXCEPT ![h] = g]
        /\ todo' = <<>> \/ (k < MaxLen /\ todo' = <<OnSize("write", h, k + 1)>>)
    BY <1>3, PutWrites
  <2>2. \A g : Relisted(e, g) => Relisted(f, g)
    BY <1>3 DEF Relisted
  <2> QED BY <1>3, <2>1, <2>2 DEF Written
<1>4. CASE WriteFresh(h, k, v)
  <2>1. CASE k \in DOMAIN f.dp /\ f.dp[k].new /\ Put(h, f, k, f.dp[k].id, v)
             /\ UNCHANGED freeData
    <3>1. k \in 1 .. Len(f.dp) /\ f.dp[k].id \in DataPages
      BY <1>1, <2>1, EntryAt
    <3>2. Relisted(f, f) /\ freeData' \in SUBSET DataPages
      BY <1>1, <2>1 DEF Relisted
    <3> QED BY <1>1, <1>3, <2>1, <3>1, <3>2
  <2>2. ASSUME NEW page \in DataPageChoices(f) \ {NoPage}, k = Len(f.dp) + 1,
               Put(h, [f EXCEPT !.dp = Append(@, [id |-> page, new |-> TRUE])],
                   k, page, v),
               freeData' = freeData \ {page}
        PROVE  Written
    <3> DEFINE g == [f EXCEPT !.dp = Append(@, [id |-> page, new |-> TRUE])]
    <3>1. page \in DataPages
      BY <1>2
    <3>2. g \in Handle /\ Len(g.dp) = Len(f.dp) + 1
      BY <1>1, <3>1, AppendedType
    <3>3. Relisted(f, g)
      BY <1>1, <3>2 DEF Relisted, Handle
    <3>4. Put(h, g, k, page, v)
      BY <2>2
    <3> HIDE DEF g
    <3>5. k \in 1 .. Len(g.dp) /\ freeData' \in SUBSET DataPages
      BY <1>1, <2>2, <3>2
    <3> QED BY <1>3, <3>1, <3>2, <3>3, <3>4, <3>5
  <2> QED BY <1>4, <2>1, <2>2 DEF WriteFresh
<1>5. CASE WriteWhole(h, k, v)
  <2>1. PICK page \in LowestDataPage \ {NoPage} :
          Put(h, f, k, page, v) /\ freeData' = freeData \ {page}
    BY <1>5 DEF WriteWhole
  <2>2. k \in 1 .. Len(f.dp) /\ page \in DataPages
    BY <1>1, <1>2, <1>5 DEF WriteWhole, Stored
  <2>3. Relisted(f, f) /\ freeData' \in SUBSET DataPages
    BY <1>1, <2>1 DEF Relisted
  <2> QED BY <1>1, <1>3, <2>1, <2>2, <2>3
<1>6. CASE WritePart(h, k, v)
  <2>1. PICK page \in DataPageChoices(f) \ {NoPage} :
          /\ Put(h, ReplacedEntry(f, k, page), k, page, v)
          /\ freeData' = freeData \ {page}
    BY <1>6 DEF WritePart
  <2>2. k \in 1 .. Len(f.dp) /\ page \in DataPages
    BY <1>1, <1>2, <1>6 DEF WritePart, Stored
  <2> DEFINE r == ReplacedEntry(f, k, page)
  <2>3. r \in Handle /\ k \in 1 .. Len(r.dp)
    BY <1>1, <2>2, ReplacedType
  <2>4. Relisted(f, r)
    BY <1>1, <2>3 DEF Relisted, ReplacedEntry, Handle
  <2>5. Put(h, r, k, page, v) /\ freeData' \in SUBSET DataPages
    BY <1>1, <2>1
  <2> HIDE DEF r
  <2> QED BY <1>3, <2>2, <2>3, <2>4, <2>5
<1> QED BY <1>4, <1>5, <1>6 DEF WritePage

\* The first page of a write().
LEMMA WriteCall ==
  ASSUME TypeOK, NEW h \in Handles, NEW k \in 1 .. MaxLen, NEW v \in Vals, Write(h, k, v)
  PROVE  /\ todo = <<>> /\ h \in Actors /\ hs[h].open
         /\ UNCHANGED <<inodeArea, up, reserved, maxIno, scan, old, doomed>>
         /\ \E g : Relisted(hs[h], g) /\ hs' = [hs EXCEPT ![h] = g]
         /\ todo' = <<>> \/ (k < MaxLen /\ todo' = <<OnSize("write", h, k + 1)>>)
<1>1. /\ WritePage(h, k, v) /\ todo = <<>> /\ hs[h].open
      /\ h \in Actors /\ k \in Nat
  BY BoundAssumption DEF Write, Idle, Actors
<1> QED BY <1>1, PageWritten

\* the pages of a write() after the first one
WriteWork == WriteRefused \/ \E v \in Vals : WriteOn(v)

\* The later pages of a write(): the step after which nothing is left to do,
\* or the next page.
LEMMA WriteSteps ==
  ASSUME TypeOK, WriteWork
  PROVE  LET h == Head(todo).h
             k == Head(todo).k
         IN  /\ todo # <<>> /\ Head(todo).t = "write" /\ h \in Actors /\ k \in Nat
             /\ UNCHANGED <<inodeArea, up, reserved, maxIno, scan, old, doomed>>
             /\ dataArea' \in [DataPages -> Vals \cup {Blank}]
             /\ freeData' \in SUBSET DataPages
             /\ \E g : Relisted(hs[h], g) /\ hs' = [hs EXCEPT ![h] = g]
             /\ todo' = <<>> \/ (k < MaxLen /\ todo' = <<OnSize("write", h, k + 1)>>)
<1> DEFINE h == Head(todo).h
           k == Head(todo).k
<1>1. todo # <<>> /\ Head(todo).t = "write" /\ Actor = h
  BY DEF WriteWork, WriteRefused, WriteOn, Doing, Actor
<1>2. h \in Actors /\ k \in Nat /\ hs \in [Actors -> Handle]
  BY <1>1, HeadType DEF TypeOK, Task
<1> HIDE DEF h, k
<1>3. CASE WriteRefused
  <2>1. /\ UNCHANGED <<inodeArea, up, reserved, maxIno, scan, old, doomed>>
        /\ dataArea' \in [DataPages -> Vals \cup {Blank}]
        /\ freeData' \in SUBSET DataPages
        /\ hs' = hs /\ todo' = <<>>
    BY <1>3 DEF WriteRefused, flash, alloc, locals, TypeOK
  <2>2. Relisted(hs[h], hs[h]) /\ hs' = [hs EXCEPT ![h] = hs[h]]
    BY <1>2, <2>1 DEF Relisted
  <2> QED BY <1>1, <1>2, <2>1, <2>2 DEF h, k
<1>4. ASSUME NEW v \in Vals, WriteOn(v)
      PROVE  WritePage(h, k, v)
  BY <1>1, <1>4 DEF WriteOn, h, k
<1>5. CASE \E v \in Vals : WritePage(h, k, v)
  BY <1>1, <1>2, <1>5, PageWritten DEF h, k
<1> QED BY <1>3, <1>4, <1>5 DEF WriteWork

\* The type of the list of tasks that a page of write() leaves.
LEMMA WriteTask ==
  ASSUME NEW h \in Actors, NEW k \in Nat,
         todo' = <<>> \/ (k < MaxLen /\ todo' = <<OnSize("write", h, k + 1)>>)
  PROVE  todo' \in Seq(Task)
<1>1. k + 1 \in Nat /\ NoName \in FileNames
  BY DEF FileNames
<1>2. OnSize("write", h, k + 1) \in Task
  BY <1>1, TaskTypes DEF TaskKinds
<1> QED BY <1>2, ShortSequences, EmptySeq

\* The calls of the user.
LEMMA CallType == TypeOK /\ Call => TypeOK'
<1> SUFFICES ASSUME TypeOK, Call PROVE TypeOK'
  OBVIOUS
<1> USE DEF TypeOK
<1>0. Handles \subseteq Actors /\ Tmp \in Actors /\ Names \subseteq FileNames /\ NoName \in FileNames
  BY DEF Actors, FileNames
<1>1. ASSUME NEW h \in Handles, NEW n \in Names,
             NEW mode \in {"openIn", "openOut", "openTrunc"}, Open(h, n, mode)
      PROVE  TypeOK'
  <2>1. OnName("find", Tmp, n) \in Task /\ OnName(mode, h, n) \in Task
    BY <1>0, TaskTypes DEF TaskKinds
  <2> QED BY <1>1, <2>1, ShortSequences DEF Open, Start, flash, alloc, locals
<1>2. ASSUME NEW h \in Handles, NEW n \in Names, Rename(h, n)
      PROVE  TypeOK'
  <2>1. OnName("find", Tmp, n) \in Task /\ OnName("removeOther", h, n) \in Task
    BY <1>0, TaskTypes DEF TaskKinds
  <2> QED BY <1>2, <2>1, ShortSequences DEF Rename, Start, flash, alloc, locals
<1>3. ASSUME NEW h \in Handles, Flush(h)
      PROVE  TypeOK'
  <2>1. On("flush", h) \in Task
    BY <1>0, TaskTypes DEF TaskKinds
  <2> QED BY <1>3, <2>1, ShortSequences DEF Flush, Start, flash, alloc, locals
<1>4. ASSUME NEW h \in Handles, Close(h)
      PROVE  TypeOK'
  <2>1. On("flush", h) \in Task /\ On("drop", h) \in Task
    BY <1>0, TaskTypes DEF TaskKinds
  <2> QED BY <1>4, <2>1, ShortSequences DEF Close, Start, flash, alloc, locals
<1>5. ASSUME NEW h \in Handles, Delete(h)
      PROVE  TypeOK'
  <2>1. On("flush", h) \in Task /\ On("deleted", h) \in Task
    BY <1>0, TaskTypes DEF TaskKinds
  <2>2. hs[h] \in Handle
    BY <1>0
  <2>3. Emptied(hs[h]) \in Handle
    BY <1>0, <2>2, EmptySeq DEF Emptied, Handle
  <2> QED BY <1>5, <2>1, <2>3, ShortSequences DEF Delete, Start, flash, alloc, locals
<1>6. ASSUME NEW h \in Handles, NEW k \in 1 .. MaxLen, NEW v \in Vals, Write(h, k, v)
      PROVE  TypeOK'
  BY <1>0, <1>6, BoundAssumption, PageWritten, WriteTask DEF Write, Relisted
<1>9. ASSUME NEW h \in Handles, NEW n \in 0 .. MaxLen, Truncate(h, n)
      PROVE  TypeOK'
  <2>1. hs[h] \in Handle /\ n \in Nat
    BY <1>0, BoundAssumption
  <2>2. Cut(hs[h].dp, n) \in Seq(Entry)
    BY <2>1, CutType DEF Handle
  <2>3. [hs[h] EXCEPT !.len = n, !.dp = Cut(@, n), !.del = {}, !.mod = TRUE] \in Handle
    BY <2>1, <2>2 DEF Handle
  <2>4. hs' = [hs EXCEPT ![h] =
                 [hs[h] EXCEPT !.len = n, !.dp = Cut(@, n), !.del = {}, !.mod = TRUE]]
    BY <1>9, <1>0 DEF Truncate, Handle
  <2> QED BY <1>9, <2>3, <2>4 DEF Truncate, flash, alloc, locals
<1>10. ASSUME NEW h \in Handles, NEW n \in 0 .. MaxLen, NEW how \in {"grow", "seek"},
              Enlarge(h, n, how)
       PROVE  TypeOK'
  <2>1. OnSize(how, h, n) \in Task
    BY <1>0, TaskTypes, BoundAssumption DEF TaskKinds
  <2> QED BY <1>10, <2>1, ShortSequences DEF Enlarge, Start, flash, alloc, locals
<1>11. Survey \in SUBSET (InodePages \X InodePages)
  BY DEF Survey, ValidPages
<1>12. CASE Cleanup
  <2>1. On("clean", Tmp) \in Task /\ On("correct", Tmp) \in Task
    BY <1>0, TaskTypes DEF TaskKinds
  <2> QED BY <1>11, <1>12, <2>1, ShortSequences DEF Cleanup, Start, flash, alloc
<1>13. CASE ListFiles
  <2>1. On("correct", Tmp) \in Task
    BY <1>0, TaskTypes DEF TaskKinds
  <2> QED BY <1>11, <1>13, <2>1, ShortSequences DEF ListFiles, Start, flash, alloc
<1> QED
  BY <1>1, <1>2, <1>3, <1>4, <1>5, <1>6, <1>9, <1>10, <1>12, <1>13 DEF Call

\* The steps of flush() and of the destructor of a handle.
LEMMA FlushType ==
  ASSUME TypeOK,
         \/ EnlargeStep \/ FlushNumber \/ FlushVersion \/ WriteZeroPage
         \/ WriteMeta \/ WriteMetaFails \/ ErasePage \/ Drop \/ Deleted
  PROVE  TypeOK'
<1> USE DEF TypeOK
<1>0. todo # <<>>
  BY DEF EnlargeStep, FlushNumber, FlushVersion, WriteZeroPage, WriteMeta,
         WriteMetaFails, ErasePage, Drop, Deleted, Doing
<1> DEFINE h == Head(todo).h
           f == hs[h]
<1>1. /\ h = Actor /\ h \in Actors /\ f \in Handle
      /\ Head(todo).k \in Nat /\ Tail(todo) \in Seq(Task)
  BY <1>0, HeadType DEF Actor
<1>2. f.dp \in Seq(Entry) /\ Len(f.dp) \in Nat /\ f.page \in InodePages
      /\ HandlePages(f) \subseteq DataPages
  BY <1>1, LenProperties, PagesTypes DEF Handle
<1>3. /\ On("zero", h) \in Task /\ On("metaNew", h) \in Task
      /\ On("meta", h) \in Task /\ On("erase", h) \in Task
  BY <1>1, TaskTypes DEF TaskKinds, FileNames
<1>4. \A ts \in Seq(Task) : Then(ts) => todo' \in Seq(Task)
  BY <1>0, ThenType
<1>5. <<>> \in Seq(Task)
  BY ShortSequences
<1> HIDE DEF h
<1>6. CASE EnlargeStep
  <2>1. ASSUME NEW page \in DataPageChoices(f), page # NoPage,
               hs' = [hs EXCEPT ![h].dp = Append(@, [id |-> page, new |-> TRUE])]
        PROVE  hs' \in [Actors -> Handle]
    <3> DEFINE g == [f EXCEPT !.dp = Append(@, [id |-> page, new |-> TRUE])]
    <3>1. g \in Handle
      BY <1>1, <2>1, DataPageChoicesType, AppendedType
    <3>2. hs' = [hs EXCEPT ![h] = g]
      BY <2>1
    <3> HIDE DEF g
    <3> QED BY <1>1, <3>1, <3>2
  <2>2. ASSUME hs' = [hs EXCEPT ![h].len = Head(todo).k, ![h].mod = TRUE]
        PROVE  hs' \in [Actors -> Handle]
    <3>1. [f EXCEPT !.len = Head(todo).k, !.mod = TRUE] \in Handle
      BY <1>1 DEF Handle
    <3>2. hs' = [hs EXCEPT ![h] = [f EXCEPT !.len = Head(todo).k, !.mod = TRUE]]
      BY <2>2, <1>1
    <3> QED BY <1>1, <3>1, <3>2
  <2>3. /\ UNCHANGED <<inodeArea, dataArea, up, reserved, maxIno, scan, old, doomed>>
        /\ freeData' \in SUBSET DataPages
        /\ todo' \in Seq(Task)
    BY <1>1, <1>6 DEF EnlargeStep, flash, locals, h
  <2>4. hs' \in [Actors -> Handle]
    BY <1>6, <2>1, <2>2 DEF EnlargeStep, h
  <2> QED BY <2>3, <2>4
<1>7. CASE FlushNumber
  <2>1. <<On("zero", h), On("metaNew", h)>> \in Seq(Task)
    BY <1>3, ShortSequences
  <2>2. ASSUME NEW i \in Nat PROVE [f EXCEPT !.ino = i] \in Handle
    <3> HIDE DEF f, TypeOK
    <3> QED BY <1>1 DEF Handle
  <2>3. \/ hs' = hs /\ maxIno' = maxIno /\ Then(<<>>)
        \/ /\ hs' = [hs EXCEPT ![h] = [f EXCEPT !.ino = maxIno + 1]]
           /\ maxIno' = maxIno + 1
           /\ Then(<<On("zero", h), On("metaNew", h)>>)
    BY <1>1, <1>7 DEF FlushNumber
  <2>4. todo' \in Seq(Task)
    BY <1>4, <1>5, <2>1, <2>3
  <2>5. UNCHANGED <<inodeArea, dataArea, up, freeData, reserved, scan, old, doomed>>
    BY <1>7 DEF FlushNumber, flash, locals
  <2>6. maxIno + 1 \in Nat
    OBVIOUS
  <2> HIDE DEF f
  <2>7. maxIno' \in Nat /\ hs' \in [Actors -> Handle]
    BY <1>1, <2>2, <2>3, <2>6
  <2> QED BY <2>4, <2>5, <2>7
<1>8. CASE FlushVersion
  <2>1. PICK page \in InodePageChoices :
          IF page = NoPage
          THEN Then(<<>>) /\ UNCHANGED <<hs, reserved, old>>
          ELSE /\ reserved' = reserved \cup {page}
               /\ old' = [page |-> f.page, ids |-> HandlePages(f)]
               /\ hs' = [hs EXCEPT ![h].page = page, ![h].ver = NextVersion(@),
                                   ![h].del = {}]
               /\ Then(<<On("zero", h), On("meta", h)>>)
    BY <1>1, <1>8 DEF FlushVersion
  <2>2. UNCHANGED <<inodeArea, dataArea, up, freeData, maxIno, scan, doomed>>
    BY <1>8 DEF FlushVersion, flash
  <2>3. CASE page = NoPage
    BY <1>4, <1>5, <2>1, <2>2, <2>3
  <2>4. CASE page # NoPage
    <3>1. page \in InodePages
      BY <2>4, InodePageChoicesType
    <3> DEFINE g == [f EXCEPT !.page = page, !.ver = NextVersion(@), !.del = {}]
    <3>2. g \in Handle
      <4>1. f.ver + 1 \in Nat
        BY <1>1 DEF Handle
      <4> HIDE DEF f, TypeOK
      <4> QED BY <1>1, <3>1, <4>1 DEF Handle, NextVersion
    <3>3. hs' = [hs EXCEPT ![h] = g]
      BY <1>1, <2>1, <2>4
    <3>4. <<On("zero", h), On("meta", h)>> \in Seq(Task)
      BY <1>3, ShortSequences
    <3>5. todo' \in Seq(Task)
      BY <1>4, <2>1, <2>4, <3>4
    <3>6. reserved' = reserved \cup {page}
          /\ old' = [page |-> f.page, ids |-> HandlePages(f)]
      BY <2>1, <2>4
    <3> HIDE DEF g, f
    <3> QED BY <1>1, <1>2, <2>2, <3>1, <3>2, <3>3, <3>5, <3>6
  <2> QED BY <2>3, <2>4
<1>9. CASE WriteZeroPage
  <2> DEFINE new == {k \in DOMAIN f.dp : f.dp[k].new}
  <2>1. ASSUME new # {},
               dataArea' = [dataArea EXCEPT ![f.dp[Least(new)].id] = Zero],
               hs' = [hs EXCEPT ![h].dp[Least(new)].new = FALSE],
               UNCHANGED todo
        PROVE  /\ dataArea' \in [DataPages -> Vals \cup {Blank}]
               /\ hs' \in [Actors -> Handle]
    <3>1. new \in SUBSET Nat /\ DOMAIN f.dp = 1 .. Len(f.dp)
      BY <1>2, LenProperties
    <3>2. PICK k \in 1 .. Len(f.dp) : k = Least(new)
      BY <2>1, <3>1, LeastExists
    <3> HIDE DEF new
    <3>3. f.dp[k] \in Entry /\ f.dp[k].id \in DataPages
      BY <1>1, EntryAt
    <3> DEFINE e == [f.dp[k] EXCEPT !.new = FALSE]
               dp == [f.dp EXCEPT ![k] = e]
    <3>4. e \in Entry
      BY <3>3 DEF Entry
    <3>5. dp \in Seq(Entry)
      BY <3>4, <1>2, ExceptSeq
    <3>6. hs' = [hs EXCEPT ![h] = [f EXCEPT !.dp = dp]]
      BY <2>1, <3>2
    <3> HIDE DEF dp
    <3>7. [f EXCEPT !.dp = dp] \in Handle
      BY <3>5, <1>1 DEF Handle
    <3> HIDE DEF f
    <3> QED BY <2>1, <3>2, <3>3, <3>6, <3>7, <1>1, ValueAssumption, ZenonT(40)
  <2>2. \/ /\ new # {}
           /\ dataArea' = [dataArea EXCEPT ![f.dp[Least(new)].id] = Zero]
           /\ hs' = [hs EXCEPT ![h].dp[Least(new)].new = FALSE]
           /\ UNCHANGED todo
        \/ Then(<<>>) /\ UNCHANGED <<dataArea, hs>>
    BY <1>1, <1>9 DEF WriteZeroPage
  <2>3. UNCHANGED <<inodeArea, up, freeData, reserved, maxIno, scan, old, doomed>>
    BY <1>9 DEF WriteZeroPage, alloc, locals
  <2> HIDE DEF new
  <2>4. CASE Then(<<>>) /\ UNCHANGED <<dataArea, hs>>
    BY <1>4, <1>5, <2>3, <2>4
  <2> QED BY <2>1, <2>2, <2>3, <2>4
<1>10. CASE WriteMeta
  <2>1. Serialised(f) \in Inode
    BY <1>1, SerialisedType
  <2>2. [f EXCEPT !.mod = FALSE] \in Handle
    BY <1>1 DEF Handle
  <2>3. /\ inodeArea' = [inodeArea EXCEPT ![f.page] = Serialised(f)]
        /\ hs' = [hs EXCEPT ![h] = [f EXCEPT !.mod = FALSE]]
        /\ UNCHANGED <<dataArea, up, freeData, reserved, maxIno, scan, old>>
    BY <1>1, <1>10 DEF WriteMeta, alloc
  <2>4. \/ doomed' = UnusedPages(old.page, old.ids, HandlePages(f))
           /\ Then(<<On("erase", h)>>)
        \/ Then(<<>>) /\ UNCHANGED doomed
    BY <1>1, <1>10 DEF WriteMeta
  <2>5. UnusedPages(old.page, old.ids, HandlePages(f)) \in SUBSET AllPages
    BY DEF UnusedPages, AllPages
  <2>6. <<On("erase", h)>> \in Seq(Task)
    BY <1>3, ShortSequences
  <2>7. todo' \in Seq(Task) /\ doomed' \in SUBSET AllPages
    BY <2>4, <2>5, <2>6, <1>4, <1>5
  <2> HIDE DEF f
  <2> QED BY <1>1, <1>2, <2>1, <2>2, <2>3, <2>7
<1>11. CASE WriteMetaFails
  <2>1. /\ inodeArea' \in {inodeArea, [inodeArea EXCEPT ![f.page] = Torn]}
        /\ Then(<<>>)
        /\ UNCHANGED <<dataArea, up, freeData, reserved, maxIno, hs, scan, old, doomed>>
    BY <1>1, <1>11 DEF WriteMetaFails, alloc, locals
  <2> QED BY <1>2, <1>4, <1>5, <2>1
<1>12. CASE ErasePage
  <2>1. UNCHANGED <<up, maxIno, hs, scan, old>>
    BY <1>12 DEF ErasePage
  <2>2. CASE doomed = {}
    BY <1>4, <1>5, <1>12, <2>1, <2>2 DEF ErasePage, flash
  <2>3. CASE doomed # {}
    <3> DEFINE page == Least(doomed)
    <3>1. page \in AllPages
      BY <2>3, LeastExists, PageRanges DEF AllPages
    <3>2. /\ doomed' = doomed \ {page}
          /\ IF page \in InodePages
             THEN /\ inodeArea' = [inodeArea EXCEPT ![page] = Blank]
                  /\ UNCHANGED dataArea
             ELSE /\ dataArea' = [dataArea EXCEPT ![page] = Blank]
                  /\ UNCHANGED inodeArea
          /\ IF ReturnsToFree(page)
             THEN freeData' = freeData \cup {page} /\ UNCHANGED reserved
             ELSE reserved' = reserved \ {page} /\ UNCHANGED freeData
          /\ UNCHANGED todo
      BY <1>12, <2>3 DEF ErasePage, FreeUnwritten
    <3> HIDE DEF page
    <3>3. ReturnsToFree(page) => page \in DataPages
      BY <3>1, LayoutAssumption
         DEF ReturnsToFree, AllPages, InodePages, DataPages
    <3> QED BY <2>1, <3>1, <3>2, <3>3 DEF AllPages
  <2> QED BY <2>2, <2>3
<1>13. CASE Drop
  <2>1. /\ reserved' \subseteq reserved
        /\ hs' = [hs EXCEPT ![h] = NoHandle]
        /\ Then(<<>>)
        /\ UNCHANGED <<inodeArea, dataArea, up, freeData, maxIno, scan, old, doomed>>
    BY <1>1, <1>13 DEF Drop, FreeUnwritten, flash, locals
  <2> QED BY <1>4, <1>5, <2>1, NoHandleType
<1>14. CASE Deleted
  <2>1. /\ hs' = hs \/ hs' = [hs EXCEPT ![h] = NoHandle]
        /\ Then(<<>>)
        /\ UNCHANGED <<inodeArea, dataArea, up, freeData, reserved, maxIno, scan, old, doomed>>
    BY <1>1, <1>14 DEF Deleted, flash, alloc, locals
  <2> QED BY <1>4, <1>5, <2>1, NoHandleType
<1> QED
  BY <1>6, <1>7, <1>8, <1>9, <1>10, <1>11, <1>12, <1>13, <1>14

\* The steps of find_file(), open() and rename_file().
LEMMA FindType ==
  ASSUME TypeOK,
         \/ FindScan \/ Visit \/ OpenMissing \/ OpenFound \/ OpenTrunc
         \/ RemoveOther \/ RenameSelf
  PROVE  TypeOK'
<1> USE DEF TypeOK
<1>0. todo # <<>>
  BY DEF FindScan, Visit, OpenMissing, OpenFound, OpenTrunc, RemoveOther,
         RenameSelf, Doing
<1> DEFINE h == Head(todo).h
           n == Head(todo).n
<1>1. /\ h = Actor /\ h \in Actors /\ n \in FileNames /\ Tmp \in Actors
      /\ hs[h] \in Handle /\ hs[Tmp] \in Handle
  BY <1>0, HeadType DEF Actor, Actors
<1>2. /\ OnName("visit", Tmp, n) \in Task /\ On("flush", Tmp) \in Task
      /\ On("drop", Tmp) \in Task /\ On("deleted", Tmp) \in Task
      /\ OnName("renameSelf", h, n) \in Task /\ On("flush", h) \in Task
  BY <1>1, TaskTypes DEF TaskKinds, FileNames
<1>3. \A ts \in Seq(Task) : Then(ts) => todo' \in Seq(Task)
  BY <1>0, ThenType
<1>4. /\ <<>> \in Seq(Task)
      /\ <<On("flush", Tmp), On("drop", Tmp)>> \in Seq(Task)
      /\ <<On("flush", Tmp), On("deleted", Tmp)>> \in Seq(Task)
      /\ <<OnName("visit", Tmp, n)>> \in Seq(Task)
      /\ <<OnName("renameSelf", h, n)>> \in Seq(Task)
      /\ <<On("flush", h), On("flush", Tmp), On("drop", Tmp)>> \in Seq(Task)
  BY <1>2, ShortSequences
<1> HIDE DEF h, n
<1>5. CASE FindScan
  <2>1. VersionStore \in SUBSET (InodePages \X InodePages)
    <3>1. ASSUME NEW p \in InodePages, Latest(p)
          PROVE  FirstPage(p) \in InodePages
      <4>1. {q \in ValidPages : inodeArea[q].ino = inodeArea[p].ino} # {}
        BY <3>1 DEF Latest, ValidPages
      <4>2. {q \in ValidPages : inodeArea[q].ino = inodeArea[p].ino} \in SUBSET InodePages
        BY DEF ValidPages
      <4> QED BY <4>1, <4>2, LeastExists, PageRanges DEF FirstPage
    <3> QED BY <3>1 DEF VersionStore
  <2>2. /\ scan' = VersionStore
        /\ reserved' = reserved \ ValidPages
        /\ Then(<<OnName("visit", Tmp, n)>>)
        /\ UNCHANGED <<inodeArea, dataArea, up, freeData, maxIno, hs, old, doomed>>
    BY <1>5 DEF FindScan, flash, n
  <2> QED BY <1>3, <1>4, <2>1, <2>2
<1>6. CASE Visit
  <2> DEFINE next == {v \in scan : Matters(v[2], n)}
             v == FirstOf(next)
  <2>1. UNCHANGED <<inodeArea, dataArea, up, freeData, reserved, maxIno, old, doomed>>
    BY <1>6 DEF Visit, flash, alloc
  <2>2. CASE next = {}
    <3>1. scan' = {} /\ Then(<<>>) /\ UNCHANGED hs
      BY <1>6, <2>2 DEF Visit, n
    <3> QED BY <1>3, <1>4, <2>1, <3>1
  <2>3. CASE next # {}
    <3>1. next \in SUBSET (InodePages \X InodePages) /\ next \subseteq scan
      OBVIOUS
    <3>2. v \in next
      <4> HIDE DEF next
      <4> QED BY <2>3, <3>1, FirstOfExists
    <3>3. v[2] \in InodePages /\ Valid(v[2])
      BY <3>2 DEF Matters
    <3>4. Loaded(v[2]) \in Handle
      BY <3>3, LoadedType
    <3>5. /\ hs' = [hs EXCEPT ![Tmp] = Loaded(v[2])]
          /\ scan' \subseteq scan
          /\ \/ Then(<<>>)
             \/ todo' = <<On("flush", Tmp), On("drop", Tmp)>> \o todo
      <4>1. /\ hs' = [hs EXCEPT ![Tmp] = Loaded(v[2])]
            /\ IF inodeArea[v[2]].name = n
               THEN scan' = {} /\ Then(<<>>)
               ELSE /\ scan' = {w \in scan : w[1] > v[1]}
                    /\ todo' = <<On("flush", Tmp), On("drop", Tmp)>> \o todo
        BY <1>6, <2>3 DEF Visit, n
      <4> HIDE DEF v, next
      <4> QED BY <4>1
    <3>6. todo' \in Seq(Task)
      <4>1. <<On("flush", Tmp), On("drop", Tmp)>> \o todo \in Seq(Task)
        BY <1>4, ConcatProperties
      <4> HIDE DEF v, next, TypeOK
      <4> QED BY <1>3, <1>4, <3>5, <4>1
    <3> HIDE DEF v, next
    <3> QED BY <2>1, <3>4, <3>5, <3>6, <1>1
  <2> QED BY <2>2, <2>3
<1>7. ASSUME NEW a \in Actors, NEW f \in Handle, NEW page \in InodePageChoices,
             page # NoPage, NewHandle(a, f, page)
      PROVE  hs' \in [Actors -> Handle] /\ reserved' \in SUBSET InodePages
  <2>1. page \in InodePages
    BY <1>7, InodePageChoicesType
  <2>2. [f EXCEPT !.open = TRUE, !.page = page] \in Handle
    BY <2>1 DEF Handle
  <2> QED BY <1>7, <2>1, <2>2 DEF NewHandle
<1>8. CASE OpenMissing
  <2>1. /\ Then(<<>>)
        /\ UNCHANGED <<inodeArea, dataArea, up, freeData, maxIno, scan, old, doomed>>
    BY <1>8 DEF OpenMissing, flash, locals
  <2>2. [NoHandle EXCEPT !.name = n, !.mod = TRUE] \in Handle
    BY <1>1, NoHandleType DEF Handle
  <2>3. \/ UNCHANGED <<hs, reserved>>
        \/ \E page \in InodePageChoices \ {NoPage} :
             NewHandle(h, [NoHandle EXCEPT !.name = n, !.mod = TRUE], page)
    BY <1>8 DEF OpenMissing, h, n
  <2>4. hs' \in [Actors -> Handle] /\ reserved' \in SUBSET InodePages
    BY <1>1, <1>7, <2>2, <2>3
  <2> QED BY <1>3, <1>4, <2>1, <2>4
<1>9. CASE OpenFound
  <2>1. /\ hs' = [hs EXCEPT ![h] = hs[Tmp], ![Tmp] = NoHandle]
        /\ Then(<<>>)
        /\ UNCHANGED <<inodeArea, dataArea, up, freeData, reserved, maxIno, scan, old, doomed>>
    BY <1>1, <1>9 DEF OpenFound, flash, alloc, locals
  <2> QED BY <1>1, <1>3, <1>4, <2>1, NoHandleType
<1>10. CASE OpenTrunc
  <2> DEFINE f == hs[Tmp]
             g == [NoHandle EXCEPT !.ino = f.ino, !.ver = f.ver, !.name = f.name]
  <2>1. /\ Then(<<On("flush", Tmp), On("drop", Tmp)>>)
        /\ UNCHANGED <<inodeArea, dataArea, up, freeData, maxIno, scan, old, doomed>>
    BY <1>10 DEF OpenTrunc, flash, locals
  <2>2. g \in Handle
    <3>1. f.ino \in Nat /\ f.ver \in Nat /\ f.name \in FileNames
      BY <1>1 DEF Handle
    <3> HIDE DEF f
    <3> QED BY <3>1, NoHandleType DEF Handle
  <2>3. \/ UNCHANGED <<hs, reserved>>
        \/ \E page \in InodePageChoices \ {NoPage} : NewHandle(h, g, page)
    BY <1>1, <1>10 DEF OpenTrunc
  <2> HIDE DEF g
  <2>4. hs' \in [Actors -> Handle] /\ reserved' \in SUBSET InodePages
    BY <1>1, <1>7, <2>2, <2>3
  <2> QED BY <1>3, <1>4, <2>1, <2>4
<1>11. CASE RemoveOther
  <2>1. UNCHANGED <<inodeArea, dataArea, up, freeData, reserved, maxIno, scan, old, doomed>>
    BY <1>11 DEF RemoveOther, flash, alloc, locals
  <2>2. Emptied(hs[Tmp]) \in Handle
    BY <1>1, EmptySeq DEF Emptied, Handle, FileNames
  <2>3. <<On("flush", Tmp), On("deleted", Tmp)>> \o <<OnName("renameSelf", h, n)>> \in Seq(Task)
    BY <1>4, ConcatProperties
  <2>4. \/ /\ hs' = [hs EXCEPT ![Tmp] = Emptied(@)]
           /\ Then(<<On("flush", Tmp), On("deleted", Tmp)>> \o <<OnName("renameSelf", h, n)>>)
        \/ Then(<<OnName("renameSelf", h, n)>>) /\ UNCHANGED hs
    BY <1>11 DEF RemoveOther, h, n
  <2>5. todo' \in Seq(Task)
    BY <1>3, <1>4, <2>3, <2>4
  <2> QED BY <1>1, <2>1, <2>2, <2>4, <2>5
<1>12. CASE RenameSelf
  <2>1. [hs[h] EXCEPT !.name = n, !.mod = TRUE] \in Handle
    BY <1>1 DEF Handle
  <2>2. /\ hs' = [hs EXCEPT ![h] = [hs[h] EXCEPT !.name = n, !.mod = TRUE]]
        /\ Then(<<On("flush", h), On("flush", Tmp), On("drop", Tmp)>>)
        /\ UNCHANGED <<inodeArea, dataArea, up, freeData, reserved, maxIno, scan, old, doomed>>
    BY <1>1, <1>12 DEF RenameSelf, flash, alloc, locals, h, n
  <2> QED BY <1>1, <1>3, <1>4, <2>1, <2>2
<1> QED
  BY <1>5, <1>6, <1>8, <1>9, <1>10, <1>11, <1>12

\* The steps of cleanup(), list_files() and init(), and the power.
LEMMA SweepType ==
  ASSUME TypeOK,
         \/ Clean \/ Correct \/ EraseOutdated \/ MountDone
         \/ PowerLoss \/ MountScan
  PROVE  TypeOK'
<1> USE DEF TypeOK
<1>1. Tmp \in Actors
  BY DEF Actors
<1>2. /\ On("flush", Tmp) \in Task /\ On("drop", Tmp) \in Task
      /\ On("erase", Tmp) \in Task /\ On("mount", Tmp) \in Task
  BY <1>1, TaskTypes DEF TaskKinds, FileNames
<1>3. /\ <<>> \in Seq(Task)
      /\ <<On("flush", Tmp), On("drop", Tmp)>> \in Seq(Task)
      /\ <<On("erase", Tmp)>> \in Seq(Task)
      /\ <<On("mount", Tmp)>> \in Seq(Task)
  BY <1>2, ShortSequences
<1>4. todo # <<>> /\ Then(<<>>) => todo' \in Seq(Task)
  BY <1>3, ThenType
<1>5. CASE Clean
  <2>1. /\ todo # <<>>
        /\ \/ Then(<<>>) /\ UNCHANGED inodeArea
           \/ /\ Tombstones # {}
              /\ inodeArea' = [inodeArea EXCEPT ![FirstOf(Tombstones)[1]] = Blank]
              /\ UNCHANGED todo
        /\ UNCHANGED <<dataArea, up, freeData, reserved, maxIno, hs, scan, old, doomed>>
    BY <1>5 DEF Clean, Doing, alloc, locals
  <2>2. todo' \in Seq(Task)
    BY <1>4, <2>1
  <2>3. inodeArea' \in [InodePages -> Inode \cup {Blank, Torn}]
    BY <2>1
  <2> QED BY <2>1, <2>2, <2>3
<1>6. CASE Correct
  <2> DEFINE next == {v \in scan : Valid(v[1]) /\ OverLong(inodeArea[v[1]])}
  <2>1. todo # <<>> /\ UNCHANGED <<inodeArea, dataArea, up, freeData, maxIno, old, doomed>>
    BY <1>6 DEF Correct, Doing, flash
  <2>2. CASE next = {}
    <3>1. reserved' \subseteq reserved /\ scan' = {} /\ Then(<<>>) /\ UNCHANGED hs
      BY <1>6, <2>2 DEF Correct
    <3> QED BY <1>4, <2>1, <3>1
  <2>3. CASE next # {}
    <3>1. /\ hs' = [hs EXCEPT ![Tmp] = Loaded(FirstOf(next)[1])]
          /\ scan' \subseteq scan
          /\ todo' = <<On("flush", Tmp), On("drop", Tmp)>> \o todo
          /\ UNCHANGED reserved
      BY <1>6, <2>3 DEF Correct
    <3>2. next \in SUBSET (InodePages \X InodePages)
      OBVIOUS
    <3>3. FirstOf(next) \in next
      <4> HIDE DEF next
      <4> QED BY <2>3, <3>2, FirstOfExists
    <3>4. Loaded(FirstOf(next)[1]) \in Handle
      BY <3>3, LoadedType
    <3>5. todo' \in Seq(Task)
      BY <1>3, <3>1, ConcatProperties
    <3> HIDE DEF next
    <3> QED BY <1>1, <2>1, <3>1, <3>4, <3>5
  <2> QED BY <2>2, <2>3
<1>7. CASE EraseOutdated
  <2> DEFINE inos == {inodeArea[p].ino : p \in Outdated}
             all  == {p \in ValidPages : inodeArea[p].ino = Least(inos)}
             a    == CHOOSE p \in all : \A q \in all \ {p} : Older(p, q)
             rest == all \ {a}
             b    == CHOOSE p \in rest : \A q \in rest \ {p} : Older(p, q)
  <2>1. /\ Outdated # {}
        /\ doomed' = UnusedPages(a, PagesOf(inodeArea[a]), PagesOf(inodeArea[b]))
        /\ todo' = <<On("erase", Tmp)>> \o todo
        /\ UNCHANGED <<inodeArea, dataArea, up, freeData, reserved, maxIno, hs, scan, old>>
    BY <1>7 DEF EraseOutdated, flash, alloc
  <2>2. \A p \in ValidPages : p \in InodePages /\ inodeArea[p] \in Inode
    BY DEF ValidPages, Valid
  <2>3. all # {} /\ all \in SUBSET ValidPages
    <3>1. inos \in SUBSET Nat /\ inos # {}
      <4>1. \A p \in ValidPages : inodeArea[p].ino \in Nat
        BY <2>2 DEF Inode
      <4>2. Outdated \subseteq ValidPages
        BY DEF Outdated
      <4> HIDE DEF TypeOK
      <4> QED BY <2>1, <4>1, <4>2
    <3>2. Least(inos) \in inos
      <4> HIDE DEF inos
      <4> QED BY <3>1, LeastExists
    <3> QED BY <3>2 DEF Outdated
  <2>4. \A p, q \in all : inodeArea[p].ino = inodeArea[q].ino
    OBVIOUS
  <2>5. a \in all
    <3> HIDE DEF all
    <3> QED BY <2>3, <2>4, OldestExists
  <2>6. a \in InodePages /\ PagesOf(inodeArea[a]) \subseteq DataPages
    <3> HIDE DEF a
    <3> QED BY <2>5, <2>2, PagesTypes
  <2> HIDE DEF a, b
  <2>7. doomed' \in SUBSET AllPages
    BY <2>1, <2>6 DEF UnusedPages, AllPages
  <2>8. todo' \in Seq(Task)
    BY <1>3, <2>1, ConcatProperties
  <2> QED BY <2>1, <2>7, <2>8
<1>8. CASE MountDone
  <2>1. /\ todo # <<>> /\ Then(<<>>)
        /\ freeData' \subseteq freeData
        /\ up' = "up"
        /\ UNCHANGED <<inodeArea, dataArea, reserved, maxIno, hs, scan, old, doomed>>
    BY <1>8 DEF MountDone, Doing, flash, locals
  <2> QED BY <1>4, <2>1
<1>9. CASE PowerLoss
  <2>1. inodeArea' \in [InodePages -> Inode \cup {Blank, Torn}]
    BY <1>9 DEF PowerLoss
  <2>2. hs' \in [Actors -> Handle]
    BY <1>9, NoHandleType DEF PowerLoss
  <2>3. old' \in [page : InodePages, ids : SUBSET DataPages]
    BY <1>9, PageRanges DEF PowerLoss
  <2> QED BY <1>3, <1>9, <2>1, <2>2, <2>3 DEF PowerLoss
<1>10. CASE MountScan
  <2>1. HighestNumber \in Nat
    BY HighestNumberBounds
  <2> QED BY <1>3, <1>10, <2>1 DEF MountScan, flash, locals
<1> QED
  BY <1>5, <1>6, <1>7, <1>8, <1>9, <1>10

LEMMA NextType ==
  ASSUME TypeOK, [Next]_vars
  PROVE  TypeOK'
<1>1. CASE Call
  BY <1>1, CallType
<1>2. CASE Work
  <2>1. CASE WriteWork
    BY <2>1, WriteSteps, WriteTask DEF TypeOK, Relisted
  <2> QED BY <1>2, <2>1, FlushType, FindType, SweepType DEF Work, WriteWork
<1>3. CASE PowerLoss \/ MountScan
  BY <1>3, SweepType
<1>4. CASE UNCHANGED vars
  BY <1>4 DEF vars, TypeOK
<1> QED BY <1>1, <1>2, <1>3, <1>4 DEF Next

\* Every variable keeps its type, whatever fails: in particular a page list
\* holds data pages only, a handle's page is an inode page, and the erase
\* loop (erase_inode_and_unused_pages) and the sets of free and reserved
\* pages never mix the two areas.
THEOREM TypeCorrect == Spec => []TypeOK
<1>1. TypeOK /\ [Next]_vars => TypeOK'
  BY NextType
<1> QED BY InitType, <1>1, PTL DEF Spec

(***************************************************************************)
(* Numbers.  NumbersBounded alone is not inductive: after init() it holds  *)
(* because a handle does not outlive the power, so that every number in    *)
(* use was read from the flash again.                                      *)
(***************************************************************************)
PoweredOff == up = "off" => todo = <<>> /\ \A h \in Actors : hs[h].ino = 0

NumbersInv == TypeOK /\ PoweredOff /\ NumbersBounded

\* A call starts on a mounted file system; it neither writes an inode page
\* nor hands out a number.
LEMMA CallFrame ==
  ASSUME Call
  PROVE  up = "up" /\ UNCHANGED <<up, inodeArea, maxIno>>
<1> DEFINE Framed == up = "up" /\ UNCHANGED <<up, inodeArea, maxIno>>
<1>1. \A h, n, mode : Open(h, n, mode) => Framed
  BY DEF Open, Idle, flash, alloc
<1>2. \A h, n : Rename(h, n) => Framed
  BY DEF Rename, Idle, flash, alloc
<1>3. \A h : Flush(h) \/ Close(h) \/ Delete(h) => Framed
  BY DEF Flush, Close, Delete, Idle, flash, alloc
<1>4. \A h, k, v : Write(h, k, v) => Framed
  BY DEF Write, WritePage, WriteFresh, WriteWhole, WritePart, Idle
<1>5. \A h, n, how : Truncate(h, n) \/ Enlarge(h, n, how) => Framed
  BY DEF Truncate, Enlarge, Idle, flash, alloc
<1>6. Cleanup \/ ListFiles => Framed
  BY DEF Cleanup, ListFiles, Idle, flash, alloc
<1> HIDE DEF Framed
<1>7. Framed
  BY <1>1, <1>2, <1>3, <1>4, <1>5, <1>6 DEF Call
<1> QED BY <1>7 DEF Framed

\* Calls and their steps need the power.
LEMMA Running ==
  ASSUME PoweredOff, Call \/ Work
  PROVE  up # "off" /\ up' # "off"
<1>1. CASE Call
  BY <1>1, CallFrame
<1>2. CASE Work
  <2>1. todo # <<>>
    BY <1>2 DEF Work, EnlargeStep, FlushNumber, FlushVersion, WriteZeroPage,
       WriteMeta, WriteMetaFails, WriteOn, WriteRefused, ErasePage, Drop, Deleted, FindScan, Visit,
       OpenMissing, OpenFound, OpenTrunc, RemoveOther, RenameSelf, Clean,
       Correct, EraseOutdated, MountDone, Doing
  <2>2. up' = up \/ up' = "up"
    BY <1>2 DEF Work, EnlargeStep, FlushNumber, FlushVersion, WriteZeroPage,
       WriteMeta, WriteMetaFails, WriteOn, WriteRefused, ErasePage, Drop, Deleted, FindScan, Visit,
       OpenMissing, OpenFound, OpenTrunc, RemoveOther, RenameSelf, Clean,
       Correct, EraseOutdated, MountDone, WritePage, WriteFresh, WriteWhole, WritePart,
       flash
  <2> QED BY <2>1, <2>2 DEF PoweredOff
<1> QED BY <1>1, <1>2

\* No new number comes into play when every number a step leaves on flash or
\* in a handle was on flash or in a handle before.
LEMMA NumbersInherited ==
  ASSUME TypeOK, TypeOK', NumbersBounded, up # "off", maxIno' = maxIno,
         \A p \in InodePages : Valid(p)' =>
           \/ Valid(p) /\ inodeArea'[p].ino = inodeArea[p].ino
           \/ \E g \in Actors : inodeArea'[p].ino = hs[g].ino,
         \A h \in Actors :
           \/ hs'[h].ino = 0
           \/ \E g \in Actors : hs'[h].ino = hs[g].ino
           \/ \E q \in ValidPages : hs'[h].ino = inodeArea[q].ino
  PROVE  NumbersBounded'
<1>1. /\ \A p \in ValidPages : inodeArea[p].ino <= maxIno
      /\ \A h \in Actors : hs[h].ino <= maxIno
  BY DEF NumbersBounded
<1>2. 0 <= maxIno
  BY DEF TypeOK
<1>3. \A p \in ValidPages' : inodeArea'[p].ino <= maxIno
  BY <1>1 DEF ValidPages
<1>4. \A h \in Actors : hs'[h].ino <= maxIno
  BY <1>1, <1>2
<1> QED BY <1>3, <1>4 DEF NumbersBounded

\* Most steps leave the inode pages and the numbers of the handles alone.
LEMMA NumbersUntouched ==
  ASSUME TypeOK, TypeOK', NumbersBounded, up # "off", maxIno' = maxIno,
         inodeArea' = inodeArea, \A h \in Actors : hs'[h].ino = hs[h].ino
  PROVE  NumbersBounded'
<1>1. \A p \in InodePages : Valid(p)' => Valid(p)
  BY DEF Valid
<1> QED BY <1>1, NumbersInherited

LEMMA CallNumbers ==
  ASSUME NumbersInv, TypeOK', Call
  PROVE  NumbersBounded'
<1>1. up # "off"
  BY Running DEF NumbersInv
<1>2. maxIno' = maxIno /\ inodeArea' = inodeArea
  BY CallFrame
<1>3. hs \in [Actors -> Handle] /\ Handles \subseteq Actors
  BY DEF NumbersInv, TypeOK, Actors
<1>4. ASSUME NEW h \in Handles, NEW f, hs' = [hs EXCEPT ![h] = f],
             f.ino = hs[h].ino
      PROVE  \A g \in Actors : hs'[g].ino = hs[g].ino
  BY <1>3, <1>4
<1>6. ASSUME NEW h \in Handles
      PROVE  hs[h] \in Handle
  BY <1>3
<1>7. CASE hs' = hs
  BY <1>1, <1>2, <1>7, NumbersUntouched DEF NumbersInv
<1>8. ASSUME NEW h \in Handles, Delete(h)
      PROVE  \A g \in Actors : hs'[g].ino = hs[g].ino
  <2>1. Emptied(hs[h]).ino = hs[h].ino
    BY <1>6 DEF Emptied, Handle
  <2> QED BY <1>4, <1>8, <2>1 DEF Delete
<1>9. ASSUME NEW h \in Handles, NEW n \in 0 .. MaxLen, Truncate(h, n)
      PROVE  \A g \in Actors : hs'[g].ino = hs[g].ino
  BY <1>3, <1>9 DEF Truncate, Handle
<1>10. ASSUME NEW h \in Handles, NEW k \in 1 .. MaxLen, NEW v \in Vals, Write(h, k, v)
       PROVE  \A g \in Actors : hs'[g].ino = hs[g].ino
  <2>1. h \in Actors /\ k \in Nat /\ WritePage(h, k, v) /\ TypeOK
    BY <1>3, <1>10, BoundAssumption DEF Write, NumbersInv
  <2>2. PICK f : Relisted(hs[h], f) /\ hs' = [hs EXCEPT ![h] = f]
    BY <2>1, PageWritten
  <2> QED BY <1>4, <2>2 DEF Relisted
<1>11. hs' = hs \/ \A g \in Actors : hs'[g].ino = hs[g].ino
  BY <1>8, <1>9, <1>10
     DEF Call, Open, Rename, Flush, Close, Enlarge, Cleanup, ListFiles
<1> QED BY <1>1, <1>2, <1>7, <1>11, NumbersUntouched DEF NumbersInv

LEMMA WorkNumbers ==
  ASSUME NumbersInv, TypeOK', Work
  PROVE  NumbersBounded'
<1>1. up # "off" /\ todo # <<>>
  <2>1. todo # <<>>
    BY DEF Work, WriteOn, WriteRefused, EnlargeStep, FlushNumber, FlushVersion, WriteZeroPage,
       WriteMeta, WriteMetaFails, ErasePage, Drop, Deleted, FindScan, Visit,
       OpenMissing, OpenFound, OpenTrunc, RemoveOther, RenameSelf, Clean,
       Correct, EraseOutdated, MountDone, Doing
  <2> QED BY <2>1, Running DEF NumbersInv
<1>2. /\ TypeOK /\ NumbersBounded
      /\ hs \in [Actors -> Handle] /\ Tmp \in Actors
      /\ Head(todo).h = Actor /\ Actor \in Actors
  BY <1>1, HeadType DEF NumbersInv, TypeOK, Actors, Actor
<1> DEFINE h == Actor
           f == hs[h]
<1>3. f \in Handle /\ hs[Tmp] \in Handle
  BY <1>2
<1>4. /\ \A p \in ValidPages : inodeArea[p].ino <= maxIno /\ inodeArea[p].ino \in Nat
      /\ \A g \in Actors : hs[g].ino <= maxIno /\ hs[g].ino \in Nat
      /\ maxIno \in Nat
  BY <1>1, <1>2 DEF NumbersBounded, TypeOK, ValidPages, Valid, Inode, Handle
<1>5. ASSUME NEW a \in Actors, NEW g, hs' = [hs EXCEPT ![a] = g], g.ino = hs[a].ino
      PROVE  \A b \in Actors : hs'[b].ino = hs[b].ino
  BY <1>2, <1>5
<1> HIDE DEF h
\* steps that change neither the inode pages nor a number
<1>6. ASSUME maxIno' = maxIno, inodeArea' = inodeArea,
             hs' = hs \/ \A b \in Actors : hs'[b].ino = hs[b].ino
      PROVE  NumbersBounded'
  BY <1>1, <1>2, <1>6, NumbersUntouched
\* steps that only take inode pages away
<1>7. ASSUME maxIno' = maxIno, hs' = hs,
             \A p \in InodePages : inodeArea'[p] = inodeArea[p]
                                   \/ inodeArea'[p] \in {Blank, Torn}
      PROVE  NumbersBounded'
  <2>1. \A p \in InodePages : Valid(p)' => inodeArea'[p] = inodeArea[p] /\ Valid(p)
    BY <1>7 DEF Valid
  <2> QED BY <1>1, <1>2, <1>7, <2>1, NumbersInherited
\* steps that give one handle a number that is in use
<1>8. ASSUME maxIno' = maxIno, inodeArea' = inodeArea, NEW a \in Actors, NEW g,
             hs' = [hs EXCEPT ![a] = g],
             \/ g.ino = 0
             \/ \E b \in Actors : g.ino = hs[b].ino
             \/ \E q \in ValidPages : g.ino = inodeArea[q].ino
      PROVE  NumbersBounded'
  <2>1. \A p \in InodePages : Valid(p)' => Valid(p)
    BY <1>8 DEF Valid
  <2>2. hs'[a] = g /\ \A b \in Actors \ {a} : hs'[b] = hs[b]
    BY <1>2, <1>8
  <2>3. ASSUME NEW b \in Actors
        PROVE  \/ hs'[b].ino = 0
               \/ \E c \in Actors : hs'[b].ino = hs[c].ino
               \/ \E q \in ValidPages : hs'[b].ino = inodeArea[q].ino
    BY <1>8, <2>2
  <2> QED BY <1>1, <1>2, <1>8, <2>1, <2>3, NumbersInherited
<1>9. CASE EnlargeStep
  <2>1. maxIno' = maxIno /\ inodeArea' = inodeArea
    BY <1>9 DEF EnlargeStep, flash
  <2> DEFINE g(page) == [f EXCEPT !.dp = Append(@, [id |-> page, new |-> TRUE])]
             e == [f EXCEPT !.len = Head(todo).k, !.mod = TRUE]
  <2>2. h \in Actors /\ h = Head(todo).h
    BY <1>2 DEF h
  <2>3. \/ hs' = hs
        \/ \E page : hs' = [hs EXCEPT ![h] = g(page)]
        \/ hs' = [hs EXCEPT ![h] = e]
    <3>1. \/ hs' = hs
          \/ \E page : hs' = [hs EXCEPT ![h].dp = Append(@, [id |-> page, new |-> TRUE])]
          \/ hs' = [hs EXCEPT ![h].len = Head(todo).k, ![h].mod = TRUE]
      BY <1>9, <2>2 DEF EnlargeStep
    <3> QED BY <1>2, <2>2, <3>1
  <2>4. e.ino = hs[h].ino /\ \A page : g(page).ino = hs[h].ino
    BY <1>3 DEF Handle
  <2> HIDE DEF g, e
  <2>5. hs' = hs \/ \A b \in Actors : hs'[b].ino = hs[b].ino
    BY <1>5, <2>2, <2>3, <2>4
  <2> QED BY <1>6, <2>1, <2>5
<1>10. CASE FlushNumber
  <2>1. CASE hs' = hs /\ maxIno' = maxIno /\ inodeArea' = inodeArea
    BY <1>6, <2>1
  <2>2. CASE /\ hs' = [hs EXCEPT ![h].ino = maxIno + 1]
             /\ maxIno' = maxIno + 1
             /\ inodeArea' = inodeArea
    <3>1. \A b \in Actors : hs'[b].ino = hs[b].ino \/ hs'[b].ino = maxIno + 1
      BY <1>2, <1>3, <2>2 DEF Handle
    <3>2. \A b \in Actors : hs'[b].ino <= maxIno'
      BY <1>4, <2>2, <3>1
    <3>3. \A p \in ValidPages' : inodeArea'[p].ino <= maxIno'
      BY <1>4, <2>2 DEF ValidPages, Valid
    <3> QED BY <3>2, <3>3 DEF NumbersBounded
  <2> QED BY <1>10, <2>1, <2>2 DEF FlushNumber, flash, h
<1>11. CASE FlushVersion
  <2>1. maxIno' = maxIno /\ inodeArea' = inodeArea
    BY <1>11 DEF FlushVersion, flash
  <2>2. \/ hs' = hs
        \/ \E page : hs' = [hs EXCEPT ![h].page = page, ![h].ver = NextVersion(@),
                                      ![h].del = {}]
    BY <1>11 DEF FlushVersion, h
  <2> DEFINE g(page) == [f EXCEPT !.page = page, !.ver = NextVersion(@), !.del = {}]
  <2>3. h \in Actors
    BY <1>2 DEF h
  <2>4. hs' = hs \/ \E page : hs' = [hs EXCEPT ![h] = g(page)]
    BY <1>2, <2>2, <2>3
  <2>5. \A page : g(page).ino = hs[h].ino
    BY <1>3 DEF Handle
  <2> HIDE DEF g
  <2>6. hs' = hs \/ \A b \in Actors : hs'[b].ino = hs[b].ino
    BY <1>5, <2>3, <2>4, <2>5
  <2> QED BY <1>6, <2>1, <2>6
<1>12. CASE WriteZeroPage
  <2>1. maxIno' = maxIno /\ inodeArea' = inodeArea
    BY <1>12 DEF WriteZeroPage, alloc
  <2>2. hs' = hs \/ \E k : hs' = [hs EXCEPT ![h].dp[k].new = FALSE]
    BY <1>12 DEF WriteZeroPage, h
  <2> DEFINE g(k) == [f EXCEPT !.dp[k].new = FALSE]
  <2>3. h \in Actors
    BY <1>2 DEF h
  <2>4. hs' = hs \/ \E k : hs' = [hs EXCEPT ![h] = g(k)]
    BY <1>2, <2>2, <2>3
  <2>5. \A k : g(k).ino = hs[h].ino
    BY <1>3 DEF Handle
  <2> HIDE DEF g
  <2>6. hs' = hs \/ \A b \in Actors : hs'[b].ino = hs[b].ino
    BY <1>5, <2>3, <2>4, <2>5
  <2> QED BY <1>6, <2>1, <2>6
<1>13. CASE WriteMeta
  <2>1. /\ inodeArea' = [inodeArea EXCEPT ![f.page] = Serialised(f)]
        /\ hs' = [hs EXCEPT ![h] = [f EXCEPT !.mod = FALSE]]
        /\ maxIno' = maxIno
    BY <1>13 DEF WriteMeta, alloc, h
  <2>2. Serialised(f).ino = f.ino
    BY DEF Serialised
  <2>3. [f EXCEPT !.mod = FALSE].ino = hs[h].ino
    BY <1>3 DEF Handle
  <2>4. \A b \in Actors : hs'[b].ino = hs[b].ino
    BY <1>2, <1>5, <2>1, <2>3 DEF h
  <2>5. inodeArea \in [InodePages -> Inode \cup {Blank, Torn}] /\ h \in Actors
    BY <1>2 DEF TypeOK, h
  <2>6. ASSUME NEW p \in InodePages, Valid(p)'
        PROVE  \/ Valid(p) /\ inodeArea'[p].ino = inodeArea[p].ino
               \/ \E g \in Actors : inodeArea'[p].ino = hs[g].ino
    <3>1. CASE p = f.page
      <4>1. inodeArea'[p].ino = hs[h].ino
        BY <2>1, <2>2, <2>5, <3>1
      <4> QED BY <2>5, <4>1
    <3>2. CASE p # f.page
      <4>1. inodeArea'[p] = inodeArea[p]
        BY <2>1, <2>5, <3>2
      <4> QED BY <2>6, <4>1 DEF Valid
    <3> QED BY <3>1, <3>2
  <2> QED BY <1>1, <1>2, <2>1, <2>4, <2>6, NumbersInherited
<1>14. CASE WriteMetaFails
  <2>1. /\ inodeArea' \in {inodeArea, [inodeArea EXCEPT ![f.page] = Torn]}
        /\ hs' = hs /\ maxIno' = maxIno
    BY <1>14 DEF WriteMetaFails, alloc, h
  <2>2. \A p \in InodePages : inodeArea'[p] = inodeArea[p] \/ inodeArea'[p] \in {Blank, Torn}
    BY <1>2, <2>1 DEF TypeOK
  <2> QED BY <1>7, <2>1, <2>2
<1>15. CASE ErasePage \/ Clean
  <2>1. /\ inodeArea' = inodeArea \/ \E q : inodeArea' = [inodeArea EXCEPT ![q] = Blank]
        /\ hs' = hs /\ maxIno' = maxIno
    BY <1>15 DEF ErasePage, Clean, flash, alloc
  <2>2. \A p \in InodePages : inodeArea'[p] = inodeArea[p] \/ inodeArea'[p] \in {Blank, Torn}
    BY <1>2, <2>1 DEF TypeOK
  <2> QED BY <1>7, <2>1, <2>2
<1>16. CASE Drop \/ Deleted
  <2>1. /\ hs' = hs \/ hs' = [hs EXCEPT ![h] = NoHandle]
        /\ maxIno' = maxIno /\ inodeArea' = inodeArea
    BY <1>16 DEF Drop, Deleted, flash, alloc, h
  <2>2. NoHandle.ino = 0 /\ h \in Actors
    BY <1>2 DEF NoHandle, h
  <2> QED BY <1>6, <1>8, <2>1, <2>2
<1>17. CASE FindScan \/ EraseOutdated \/ MountDone
  <2>1. hs' = hs /\ maxIno' = maxIno /\ inodeArea' = inodeArea
    BY <1>17 DEF FindScan, EraseOutdated, MountDone, flash, alloc
  <2> QED BY <1>6, <2>1
<1>18. CASE Visit
  <2> DEFINE next == {v \in scan : Matters(v[2], Head(todo).n)}
             v == FirstOf(next)
  <2>1. maxIno' = maxIno /\ inodeArea' = inodeArea
    BY <1>18 DEF Visit, flash, alloc
  <2>2. CASE next = {}
    BY <1>6, <1>18, <2>1, <2>2 DEF Visit
  <2>3. CASE next # {}
    <3>1. next \in SUBSET (InodePages \X InodePages)
      BY <1>2 DEF TypeOK
    <3>2. v \in next
      <4> HIDE DEF next
      <4> QED BY <2>3, <3>1, FirstOfExists
    <3>3. v[2] \in InodePages /\ Valid(v[2])
      BY <3>1, <3>2 DEF Matters
    <3>4. Loaded(v[2]).ino = inodeArea[v[2]].ino /\ v[2] \in ValidPages
      BY <1>2, <3>3, LoadedType DEF TypeOK, ValidPages
    <3>5. hs' = [hs EXCEPT ![Tmp] = Loaded(v[2])]
      BY <1>18, <2>3 DEF Visit
    <3> HIDE DEF v
    <3> QED BY <1>2, <1>8, <2>1, <3>4, <3>5
  <2> QED BY <2>2, <2>3
<1>19. CASE Correct
  <2> DEFINE next == {v \in scan : Valid(v[1]) /\ OverLong(inodeArea[v[1]])}
             v == FirstOf(next)
  <2>1. maxIno' = maxIno /\ inodeArea' = inodeArea
    BY <1>19 DEF Correct, flash
  <2>2. CASE next = {}
    BY <1>6, <1>19, <2>1, <2>2 DEF Correct
  <2>3. CASE next # {}
    <3>1. next \in SUBSET (InodePages \X InodePages)
      BY <1>2 DEF TypeOK
    <3>2. v \in next
      <4> HIDE DEF next
      <4> QED BY <2>3, <3>1, FirstOfExists
    <3>3. v[1] \in InodePages /\ Valid(v[1])
      BY <3>1, <3>2
    <3>4. Loaded(v[1]).ino = inodeArea[v[1]].ino /\ v[1] \in ValidPages
      BY <1>2, <3>3, LoadedType DEF TypeOK, ValidPages
    <3>5. hs' = [hs EXCEPT ![Tmp] = Loaded(v[1])]
      BY <1>19, <2>3 DEF Correct
    <3> HIDE DEF v
    <3> QED BY <1>2, <1>8, <2>1, <3>4, <3>5
  <2> QED BY <2>2, <2>3
<1>20. CASE OpenMissing
  <2>1. maxIno' = maxIno /\ inodeArea' = inodeArea
    BY <1>20 DEF OpenMissing, flash
  <2>2. \/ hs' = hs
        \/ \E n, page : hs' = [hs EXCEPT ![h] =
             [[NoHandle EXCEPT !.name = n, !.mod = TRUE] EXCEPT !.open = TRUE, !.page = page]]
    BY <1>20 DEF OpenMissing, NewHandle, h, Actor
  <2>3. \A n, page :
          [[NoHandle EXCEPT !.name = n, !.mod = TRUE] EXCEPT !.open = TRUE, !.page = page].ino = 0
    BY DEF NoHandle
  <2>4. h \in Actors
    BY <1>2 DEF h
  <2> QED BY <1>6, <1>8, <2>1, <2>2, <2>3, <2>4
<1>21. CASE OpenTrunc
  <2> DEFINE t == hs[Tmp]
             g(page) == [[NoHandle EXCEPT !.ino = t.ino, !.ver = t.ver, !.name = t.name]
                           EXCEPT !.open = TRUE, !.page = page]
  <2>1. maxIno' = maxIno /\ inodeArea' = inodeArea
    BY <1>21 DEF OpenTrunc, flash
  <2>2. hs' = hs \/ \E page : hs' = [hs EXCEPT ![h] = g(page)]
    BY <1>21 DEF OpenTrunc, NewHandle, h
  <2>3. \A page : g(page).ino = hs[Tmp].ino
    BY DEF NoHandle
  <2>4. h \in Actors
    BY <1>2 DEF h
  <2> HIDE DEF g
  <2> QED BY <1>2, <1>6, <1>8, <2>1, <2>2, <2>3, <2>4
<1>22. CASE OpenFound
  <2>1. /\ hs' = [hs EXCEPT ![h] = hs[Tmp], ![Tmp] = NoHandle]
        /\ maxIno' = maxIno /\ inodeArea' = inodeArea
    BY <1>22 DEF OpenFound, flash, alloc, h
  <2>2. \A b \in Actors : hs'[b] = hs[b] \/ hs'[b] = hs[Tmp] \/ hs'[b] = NoHandle
    BY <1>2, <2>1 DEF h
  <2>3. NoHandle.ino = 0
    BY DEF NoHandle
  <2>4. \A p \in InodePages : Valid(p)' => Valid(p)
    BY <2>1 DEF Valid
  <2>5. ASSUME NEW b \in Actors
        PROVE  hs'[b].ino = 0 \/ \E c \in Actors : hs'[b].ino = hs[c].ino
    BY <1>2, <2>2, <2>3
  <2> QED BY <1>1, <1>2, <2>1, <2>4, <2>5, NumbersInherited
<1>23. CASE RemoveOther
  <2>1. Emptied(hs[Tmp]).ino = hs[Tmp].ino
    BY <1>3 DEF Emptied, Handle
  <2>2. /\ hs' = hs \/ hs' = [hs EXCEPT ![Tmp] = Emptied(hs[Tmp])]
        /\ maxIno' = maxIno /\ inodeArea' = inodeArea
    BY <1>23 DEF RemoveOther, flash, alloc
  <2> QED BY <1>2, <1>5, <1>6, <2>1, <2>2
<1>24. CASE RenameSelf
  <2> DEFINE g == [f EXCEPT !.name = Head(todo).n, !.mod = TRUE]
  <2>1. g.ino = hs[h].ino
    BY <1>3 DEF Handle
  <2>2. /\ hs' = [hs EXCEPT ![h] = g]
        /\ maxIno' = maxIno /\ inodeArea' = inodeArea
    BY <1>2, <1>24 DEF RenameSelf, flash, alloc, h
  <2>3. h \in Actors
    BY <1>2 DEF h
  <2> HIDE DEF g
  <2> QED BY <1>5, <1>6, <2>1, <2>2, <2>3
<1>25. CASE WriteWork
  <2>1. PICK g : Relisted(hs[h], g) /\ hs' = [hs EXCEPT ![h] = g]
    BY <1>2, <1>25, WriteSteps DEF h
  <2>2. maxIno' = maxIno /\ inodeArea' = inodeArea
    BY <1>2, <1>25, WriteSteps
  <2> QED BY <1>2, <1>5, <1>6, <2>1, <2>2 DEF Relisted, h
<1> QED
  BY <1>25, <1>9, <1>10, <1>11, <1>12, <1>13, <1>14, <1>15, <1>16, <1>17, <1>18,
     <1>19, <1>20, <1>21, <1>22, <1>23, <1>24 DEF Work, WriteWork

LEMMA NumbersInit == Init => NumbersInv
<1>1. Init => up # "off"
  BY DEF Init
<1>2. Init => NumbersBounded
  BY DEF Init, NumbersBounded, ValidPages, Valid, NoHandle
<1> QED BY <1>1, <1>2, InitType DEF NumbersInv, PoweredOff

LEMMA NumbersNext == NumbersInv /\ [Next]_vars => NumbersInv'
<1> SUFFICES ASSUME NumbersInv, [Next]_vars PROVE NumbersInv'
  OBVIOUS
<1>1. TypeOK'
  BY NextType DEF NumbersInv
<1>2. CASE Call \/ Work
  BY <1>1, <1>2, Running, CallNumbers, WorkNumbers DEF NumbersInv, PoweredOff
<1>3. CASE PowerLoss
  BY <1>1, <1>3 DEF PowerLoss, NumbersInv, PoweredOff, NumbersBounded, NoHandle
<1>4. CASE MountScan
  <2>1. /\ HighestNumber \in Nat
        /\ \A p \in ValidPages : inodeArea[p].ino <= HighestNumber
    BY HighestNumberBounds DEF NumbersInv, TypeOK
  <2>2. /\ up' = "mounting" /\ maxIno' = HighestNumber
        /\ hs' = hs /\ inodeArea' = inodeArea /\ up = "off"
    BY <1>4 DEF MountScan, flash
  <2>3. \A p \in ValidPages' : inodeArea'[p].ino <= maxIno'
    BY <2>1, <2>2 DEF ValidPages, Valid
  <2>4. \A h \in Actors : hs'[h].ino <= maxIno'
    BY <2>1, <2>2 DEF NumbersInv, PoweredOff
  <2> QED BY <1>1, <2>2, <2>3, <2>4 DEF NumbersInv, PoweredOff, NumbersBounded
<1>5. CASE UNCHANGED vars
  BY <1>1, <1>5
     DEF vars, NumbersInv, PoweredOff, NumbersBounded, ValidPages, Valid
<1> QED BY <1>2, <1>3, <1>4, <1>5 DEF Next

\* max_inode_number is an upper bound of every number in use, on flash and in
\* the handles, whatever is deleted, cleaned up, lost or restarted: what
\* flush() takes next, max_inode_number + 1, is the number of no other file.
THEOREM NumbersStayBounded == Spec => []NumbersBounded
<1>1. NumbersInv => NumbersBounded
  BY DEF NumbersInv
<1> QED BY <1>1, NumbersInit, NumbersNext, PTL DEF Spec

(***************************************************************************)
(* Lists of tasks, numbers, and what a mount leaves behind.                *)
(***************************************************************************)
\* Lists of tasks: what the first step of one leaves behind.
LEMMA Stacks ==
  ASSUME NEW S, NEW x \in S, NEW y \in S, NEW r \in Seq(S)
  PROVE  /\ <<>> \o r = r
         /\ <<x>> \o r \in Seq(S) /\ <<x>> \o r # <<>>
         /\ Head(<<x>> \o r) = x /\ Tail(<<x>> \o r) = r
         /\ <<x, y>> \o r \in Seq(S) /\ <<x, y>> \o r # <<>>
         /\ Head(<<x, y>> \o r) = x /\ Tail(<<x, y>> \o r) = <<y>> \o r
         /\ (<<x, y>> \o r)[2] = y
OBVIOUS

LEMMA Tuples ==
  ASSUME NEW x, NEW y, NEW z
  PROVE  /\ <<x>> # <<>> /\ Head(<<x>>) = x /\ Tail(<<x>>) = <<>>
         /\ <<x, y>> # <<>> /\ Head(<<x, y>>) = x /\ Tail(<<x, y>>) = <<y>>
         /\ <<x, y, z>> # <<>> /\ Head(<<x, y, z>>) = x /\ Tail(<<x, y, z>>) = <<y, z>>
<1>1. <<x>> # <<>> /\ Head(<<x>>) = x /\ Tail(<<x>>) = <<>>
  OBVIOUS
<1>2. <<x, y>> # <<>> /\ Head(<<x, y>>) = x
  OBVIOUS
<1>3. Tail(<<x, y>>) = <<y>>
  OBVIOUS
<1>4. <<x, y, z>> # <<>> /\ Head(<<x, y, z>>) = x
  OBVIOUS
<1>5. Tail(<<x, y, z>>) = <<y, z>>
  OBVIOUS
<1> QED BY <1>1, <1>2, <1>3, <1>4, <1>5

LEMMA Tuple1 ==
  ASSUME NEW x
  PROVE  <<x>> # <<>> /\ Head(<<x>>) = x /\ Tail(<<x>>) = <<>>
BY Tuples

LEMMA Tuple2 ==
  ASSUME NEW x, NEW y
  PROVE  <<x, y>> # <<>> /\ Head(<<x, y>>) = x /\ Tail(<<x, y>>) = <<y>>
BY Tuples

LEMMA Tuple3 ==
  ASSUME NEW x, NEW y, NEW z
  PROVE  <<x, y, z>> # <<>> /\ Head(<<x, y, z>>) = x /\ Tail(<<x, y, z>>) = <<y, z>>
BY Tuples

LEMMA Join11 ==
  ASSUME NEW x, NEW y
  PROVE  <<x>> \o <<y>> = <<x, y>>
<1> DEFINE S == {x, y}
           s == <<x>> \o <<y>>
           t == <<x, y>>
<1>1. <<x>> \in Seq(S) /\ Len(<<x>>) = 1 /\ <<x>>[1] = x
  OBVIOUS
<1>2. <<y>> \in Seq(S) /\ Len(<<y>>) = 1 /\ <<y>>[1] = y
  OBVIOUS
<1>3. t \in Seq(S) /\ Len(t) = 2 /\ t[1] = x /\ t[2] = y
  OBVIOUS
<1>4. s \in Seq(S) /\ Len(s) = 2 /\ s[1] = x /\ s[2] = y
  BY <1>1, <1>2, ConcatProperties
<1> HIDE DEF s, t
<1>5. \A i \in 1 .. Len(s) : s[i] = t[i]
  BY <1>3, <1>4
<1> QED BY <1>3, <1>4, <1>5, SeqEqual DEF s, t

LEMMA Join12 ==
  ASSUME NEW x, NEW y, NEW z
  PROVE  <<x>> \o <<y, z>> = <<x, y, z>>
<1> DEFINE S == {x, y, z}
           s == <<x>> \o <<y, z>>
           t == <<x, y, z>>
<1>1. <<x>> \in Seq(S) /\ Len(<<x>>) = 1 /\ <<x>>[1] = x
  OBVIOUS
<1>2. <<y, z>> \in Seq(S) /\ Len(<<y, z>>) = 2 /\ <<y, z>>[1] = y /\ <<y, z>>[2] = z
  OBVIOUS
<1>3. t \in Seq(S) /\ Len(t) = 3 /\ t[1] = x /\ t[2] = y /\ t[3] = z
  OBVIOUS
<1>4. s \in Seq(S) /\ Len(s) = 3 /\ s[1] = x /\ s[2] = y /\ s[3] = z
  BY <1>1, <1>2, ConcatProperties
<1> HIDE DEF s, t
<1>5. \A i \in 1 .. Len(s) : s[i] = t[i]
  BY <1>3, <1>4
<1> QED BY <1>3, <1>4, <1>5, SeqEqual DEF s, t

LEMMA Join13 ==
  ASSUME NEW x, NEW y, NEW z, NEW w
  PROVE  <<x>> \o <<y, z, w>> = <<x, y, z, w>>
<1> DEFINE S == {x, y, z, w}
           s == <<x>> \o <<y, z, w>>
           t == <<x, y, z, w>>
<1>1. <<x>> \in Seq(S) /\ Len(<<x>>) = 1 /\ <<x>>[1] = x
  OBVIOUS
<1>2. <<y, z, w>> \in Seq(S) /\ Len(<<y, z, w>>) = 3 /\ <<y, z, w>>[1] = y /\ <<y, z, w>>[2] = z /\ <<y, z, w>>[3] = w
  OBVIOUS
<1>3. t \in Seq(S) /\ Len(t) = 4 /\ t[1] = x /\ t[2] = y /\ t[3] = z /\ t[4] = w
  OBVIOUS
<1>4. s \in Seq(S) /\ Len(s) = 4 /\ s[1] = x /\ s[2] = y /\ s[3] = z /\ s[4] = w
  BY <1>1, <1>2, ConcatProperties
<1> HIDE DEF s, t
<1>5. \A i \in 1 .. Len(s) : s[i] = t[i]
  BY <1>3, <1>4
<1> QED BY <1>3, <1>4, <1>5, SeqEqual DEF s, t

LEMMA Join21 ==
  ASSUME NEW x, NEW y, NEW z
  PROVE  <<x, y>> \o <<z>> = <<x, y, z>>
<1> DEFINE S == {x, y, z}
           s == <<x, y>> \o <<z>>
           t == <<x, y, z>>
<1>1. <<x, y>> \in Seq(S) /\ Len(<<x, y>>) = 2 /\ <<x, y>>[1] = x /\ <<x, y>>[2] = y
  OBVIOUS
<1>2. <<z>> \in Seq(S) /\ Len(<<z>>) = 1 /\ <<z>>[1] = z
  OBVIOUS
<1>3. t \in Seq(S) /\ Len(t) = 3 /\ t[1] = x /\ t[2] = y /\ t[3] = z
  OBVIOUS
<1>4. s \in Seq(S) /\ Len(s) = 3 /\ s[1] = x /\ s[2] = y /\ s[3] = z
  BY <1>1, <1>2, ConcatProperties
<1> HIDE DEF s, t
<1>5. \A i \in 1 .. Len(s) : s[i] = t[i]
  BY <1>3, <1>4
<1> QED BY <1>3, <1>4, <1>5, SeqEqual DEF s, t

LEMMA Join22 ==
  ASSUME NEW x, NEW y, NEW z, NEW w
  PROVE  <<x, y>> \o <<z, w>> = <<x, y, z, w>>
<1> DEFINE S == {x, y, z, w}
           s == <<x, y>> \o <<z, w>>
           t == <<x, y, z, w>>
<1>1. <<x, y>> \in Seq(S) /\ Len(<<x, y>>) = 2 /\ <<x, y>>[1] = x /\ <<x, y>>[2] = y
  OBVIOUS
<1>2. <<z, w>> \in Seq(S) /\ Len(<<z, w>>) = 2 /\ <<z, w>>[1] = z /\ <<z, w>>[2] = w
  OBVIOUS
<1>3. t \in Seq(S) /\ Len(t) = 4 /\ t[1] = x /\ t[2] = y /\ t[3] = z /\ t[4] = w
  OBVIOUS
<1>4. s \in Seq(S) /\ Len(s) = 4 /\ s[1] = x /\ s[2] = y /\ s[3] = z /\ s[4] = w
  BY <1>1, <1>2, ConcatProperties
<1> HIDE DEF s, t
<1>5. \A i \in 1 .. Len(s) : s[i] = t[i]
  BY <1>3, <1>4
<1> QED BY <1>3, <1>4, <1>5, SeqEqual DEF s, t

LEMMA JoinNone ==
  ASSUME NEW x, NEW y
  PROVE  <<x>> \o <<>> = <<x>> /\ <<x, y>> \o <<>> = <<x, y>>
OBVIOUS

LEMMA Popped ==
  ASSUME todo \in Seq(Task), todo # <<>>, Then(<<>>)
  PROVE  todo' = Tail(todo)
<1>1. Tail(todo) \in Seq(Task)
  BY HeadTailProperties
<1> QED BY <1>1, ConcatEmptySeq DEF Then

(***************************************************************************)
(* The tasks of a call.                                                    *)
(***************************************************************************)
FlushKinds == {"flush", "zero", "meta", "metaNew", "erase"}

\* The steps of flush().
FlushWork ==
  \/ FlushNumber \/ FlushVersion \/ WriteZeroPage
  \/ WriteMeta \/ WriteMetaFails \/ ErasePage

LEMMA FlushingTasks ==
  ASSUME NEW a \in Actors, NEW r \in Seq(Task)
  PROVE  /\ \A t \in TaskKinds : On(t, a) \in Task /\ On(t, a).t = t /\ On(t, a).h = a
         /\ r \in Flushing(a, r)
         /\ <<On("flush", a)>> \o r \in Flushing(a, r)
         /\ <<On("zero", a), On("meta", a)>> \o r \in Flushing(a, r)
         /\ <<On("zero", a), On("metaNew", a)>> \o r \in Flushing(a, r)
         /\ <<On("meta", a)>> \o r \in Flushing(a, r)
         /\ <<On("metaNew", a)>> \o r \in Flushing(a, r)
         /\ <<On("erase", a)>> \o r \in Flushing(a, r)
<1>1. 0 \in Nat /\ NoName \in FileNames
  BY DEF FileNames
<1>2. \A t \in TaskKinds : On(t, a) \in Task
  BY <1>1, TaskTypes
<1>3. \A t \in TaskKinds : On(t, a).t = t /\ On(t, a).h = a
  BY DEF On
<1> QED BY <1>2, <1>3 DEF Flushing

\* The head of a running flush, and what is behind it.
LEMMA FlushingShape ==
  ASSUME NEW a \in Actors, NEW r \in Seq(Task), todo \in Flushing(a, r), todo # r
  PROVE  /\ todo # <<>>
         /\ Head(todo).h = a
         /\ \/ /\ Head(todo).t \in {"flush", "meta", "metaNew", "erase"}
               /\ Tail(todo) = r
            \/ /\ Head(todo).t = "zero"
               /\ \/ Tail(todo) = <<On("meta", a)>> \o r /\ todo[2].t = "meta"
                  \/ Tail(todo) = <<On("metaNew", a)>> \o r /\ todo[2].t = "metaNew"
<1>1. \A t \in TaskKinds : On(t, a) \in Task /\ On(t, a).t = t /\ On(t, a).h = a
  BY FlushingTasks
<1>2. FlushKinds \subseteq TaskKinds
  BY DEF FlushKinds, TaskKinds
<1>3. ASSUME NEW t \in FlushKinds \ {"zero"}, todo = <<On(t, a)>> \o r
      PROVE  todo # <<>> /\ Head(todo).h = a /\ Head(todo).t = t /\ Tail(todo) = r
  <2>1. On(t, a) \in Task
    BY <1>1, <1>2
  <2>2. todo # <<>> /\ Head(todo) = On(t, a) /\ Tail(todo) = r
    BY <1>3, <2>1, Stacks
  <2> QED BY <1>1, <1>2, <2>2
<1>4. ASSUME NEW t \in {"meta", "metaNew"}, todo = <<On("zero", a), On(t, a)>> \o r
      PROVE  /\ todo # <<>> /\ Head(todo).h = a /\ Head(todo).t = "zero"
             /\ Tail(todo) = <<On(t, a)>> \o r /\ todo[2].t = t
  <2>1. On(t, a) \in Task /\ On("zero", a) \in Task
    BY <1>1, <1>2 DEF FlushKinds
  <2>2. /\ todo # <<>> /\ Head(todo) = On("zero", a)
        /\ Tail(todo) = <<On(t, a)>> \o r /\ todo[2] = On(t, a)
    BY <1>4, <2>1, Stacks
  <2>3. "zero" \in TaskKinds /\ t \in TaskKinds
    BY DEF TaskKinds
  <2> QED BY <1>1, <2>2, <2>3
<1> QED BY <1>3, <1>4 DEF Flushing, FlushKinds

\* A step of flush() works on the head of the list and leaves a list of the
\* same kind.
LEMMA FlushingSteps ==
  ASSUME NEW a \in Actors, NEW r \in Seq(Task), todo \in Flushing(a, r), todo # r,
         FlushWork
  PROVE  todo' \in Flushing(a, r)
<1>1. /\ todo # <<>> /\ Actor = a
      /\ \/ /\ Head(todo).t \in {"flush", "meta", "metaNew", "erase"}
            /\ Tail(todo) = r
         \/ /\ Head(todo).t = "zero"
            /\ Tail(todo) \in {<<On("meta", a)>> \o r, <<On("metaNew", a)>> \o r}
  BY FlushingShape DEF Actor
<1>2. /\ r \in Flushing(a, r)
      /\ <<On("zero", a), On("meta", a)>> \o r \in Flushing(a, r)
      /\ <<On("zero", a), On("metaNew", a)>> \o r \in Flushing(a, r)
      /\ <<On("meta", a)>> \o r \in Flushing(a, r)
      /\ <<On("metaNew", a)>> \o r \in Flushing(a, r)
      /\ <<On("erase", a)>> \o r \in Flushing(a, r)
      /\ On("meta", a) \in Task /\ On("metaNew", a) \in Task
  BY FlushingTasks, ZenonT(40) DEF TaskKinds
<1>3. \A s \in Seq(Task) : <<>> \o s = s
  OBVIOUS
<1>4. <<>> \o r = r
      /\ <<>> \o (<<On("meta", a)>> \o r) = <<On("meta", a)>> \o r
      /\ <<>> \o (<<On("metaNew", a)>> \o r) = <<On("metaNew", a)>> \o r
  BY <1>2, <1>3, Stacks
<1>5. CASE FlushNumber \/ FlushVersion
  <2>1. Tail(todo) = r
    BY <1>1, <1>5 DEF FlushNumber, FlushVersion, Doing
  <2>2. \/ Then(<<>>)
        \/ Then(<<On("zero", a), On("metaNew", a)>>)
        \/ Then(<<On("zero", a), On("meta", a)>>)
    BY <1>1, <1>5 DEF FlushNumber, FlushVersion
  <2> QED BY <1>2, <1>4, <2>1, <2>2 DEF Then
<1>6. CASE WriteZeroPage
  <2>1. Tail(todo) \in {<<On("meta", a)>> \o r, <<On("metaNew", a)>> \o r}
    BY <1>1, <1>6 DEF WriteZeroPage, Doing
  <2>2. UNCHANGED todo \/ Then(<<>>)
    BY <1>6 DEF WriteZeroPage
  <2> QED BY <1>2, <1>4, <2>1, <2>2 DEF Then
<1>7. CASE WriteMeta \/ WriteMetaFails
  <2>1. Tail(todo) = r
    BY <1>1, <1>7 DEF WriteMeta, WriteMetaFails, Doing
  <2>2. Then(<<>>) \/ Then(<<On("erase", a)>>)
    BY <1>1, <1>7 DEF WriteMeta, WriteMetaFails
  <2> QED BY <1>2, <1>4, <2>1, <2>2 DEF Then
<1>8. CASE ErasePage
  <2>1. Tail(todo) = r
    BY <1>1, <1>8 DEF ErasePage, Doing
  <2>2. Then(<<>>) \/ UNCHANGED todo
    BY <1>8 DEF ErasePage
  <2> QED BY <1>2, <1>4, <2>1, <2>2 DEF Then
<1> QED BY <1>5, <1>6, <1>7, <1>8 DEF FlushWork

\* The lists that a call runs through besides those of a flush.
LEMMA CallTasks ==
  ASSUME NEW h \in Handles, NEW n \in Names, NEW how \in OpenModes \cup {"removeOther"}
  PROVE  /\ On("drop", h) \in Task /\ On("deleted", h) \in Task /\ On("flush", h) \in Task
         /\ On("drop", Tmp) \in Task /\ On("deleted", Tmp) \in Task
         /\ On("flush", Tmp) \in Task /\ On("correct", Tmp) \in Task
         /\ On("clean", Tmp) \in Task
         /\ OnName("find", Tmp, n) \in Task /\ OnName("visit", Tmp, n) \in Task
         /\ OnName(how, h, n) \in Task /\ OnName("renameSelf", h, n) \in Task
<1>1. h \in Actors /\ Tmp \in Actors /\ n \in FileNames /\ 0 \in Nat
  BY DEF Actors, FileNames
<1> QED BY <1>1, TaskTypes DEF TaskKinds, OpenModes

LEMMA MountTasks ==
  /\ On("mount", Tmp) \in Task /\ On("erase", Tmp) \in Task
  /\ On("drop", Tmp) \in Task /\ On("flush", Tmp) \in Task
  /\ On("correct", Tmp) \in Task /\ On("clean", Tmp) \in Task
<1>1. Tmp \in Actors /\ NoName \in FileNames /\ 0 \in Nat
  BY DEF Actors, FileNames
<1> QED BY <1>1, TaskTypes DEF TaskKinds

\* What can follow a flush.
LEMMA RestTypes ==
  /\ \A h \in Handles : \A r \in AfterFlush(h) : r \in Seq(Task)
  /\ \A h \in Handles, n \in Names, how \in OpenModes \cup {"removeOther"} :
       /\ <<On("drop", Tmp), OnName("visit", Tmp, n), OnName(how, h, n)>> \in Seq(Task)
       /\ <<On("deleted", Tmp), OnName("renameSelf", h, n)>> \in Seq(Task)
  /\ <<On("drop", Tmp)>> \in Seq(Task)
  /\ <<On("flush", Tmp), On("drop", Tmp)>> \in Seq(Task)
  /\ <<On("drop", Tmp), On("correct", Tmp)>> \in Seq(Task)
<1>1. ASSUME NEW h \in Handles
      PROVE  \A r \in AfterFlush(h) : r \in Seq(Task)
  <2>1. h \in Actors /\ NoName \in FileNames /\ 0 \in Nat
    BY DEF Actors, FileNames
  <2>2. On("drop", h) \in Task /\ On("deleted", h) \in Task
    BY <2>1, TaskTypes DEF TaskKinds
  <2> QED BY <2>2, ShortSequences DEF AfterFlush
<1>2. ASSUME NEW h \in Handles, NEW n \in Names, NEW how \in OpenModes \cup {"removeOther"}
      PROVE  /\ <<On("drop", Tmp), OnName("visit", Tmp, n), OnName(how, h, n)>> \in Seq(Task)
             /\ <<On("deleted", Tmp), OnName("renameSelf", h, n)>> \in Seq(Task)
  BY CallTasks, ShortSequences
<1> QED BY <1>1, <1>2, MountTasks, ShortSequences

\* The tasks that are not part of a flush, and where they occur.
LEMMA OtherTasks ==
  ASSUME Control, todo # <<>>, Head(todo).t \notin FlushKinds
  PROVE  \/ /\ up = "up" /\ ~hs[Tmp].open
            /\ \/ todo \in {<<On("clean", Tmp), On("correct", Tmp)>>, <<On("correct", Tmp)>>}
               \/ \E h \in Handles, how \in {"write", "grow", "seek"}, k \in 0 .. MaxLen :
                    todo = <<OnSize(how, h, k)>>
               \/ \E h \in Handles : todo \in {<<On("drop", h)>>, <<On("deleted", h)>>}
         \/ /\ up = "up"
            /\ \E h \in Handles, n \in Names, how \in OpenModes \cup {"removeOther"} :
                 /\ hs[h].open <=> how = "removeOther"
                 /\ \/ /\ ~hs[Tmp].open
                       /\ todo \in {<<OnName("find", Tmp, n), OnName(how, h, n)>>,
                                    <<OnName("visit", Tmp, n), OnName(how, h, n)>>}
                    \/ todo = <<OnName(how, h, n)>>
                    \/ todo = <<On("drop", Tmp), OnName("visit", Tmp, n), OnName(how, h, n)>>
         \/ /\ up = "up"
            /\ \E h \in Handles, n \in Names :
                 /\ hs[h].open
                 /\ todo \in {<<On("deleted", Tmp), OnName("renameSelf", h, n)>>,
                              <<OnName("renameSelf", h, n)>>}
         \/ /\ up = "up"
            /\ todo \in {<<On("drop", Tmp)>>, <<On("drop", Tmp), On("correct", Tmp)>>}
         \/ up = "mounting" /\ todo = <<On("mount", Tmp)>> /\ AllClosed
<1>1. \A a \in Actors : \A r \in Seq(Task) : todo \in Flushing(a, r) => todo = r
  BY FlushingShape DEF FlushKinds
<1>2. Tmp \in Actors /\ Handles \subseteq Actors
  BY DEF Actors
<1>3. todo # <<On("erase", Tmp), On("mount", Tmp)>>
  BY MountTasks, Tuples DEF On, FlushKinds
<1>4. todo # <<On("flush", Tmp), On("drop", Tmp)>>
  BY MountTasks, Tuples DEF On, FlushKinds
<1>5. CASE up = "mounting" /\ MountStack /\ AllClosed
  BY <1>3, <1>5 DEF MountStack
<1>6. CASE up = "up" /\ OwnStack
  <2>1. ASSUME NEW h \in Handles, NEW r \in AfterFlush(h), todo \in Flushing(h, r)
        PROVE  todo \in {<<On("drop", h)>>, <<On("deleted", h)>>}
    BY <1>1, <1>2, <2>1, RestTypes DEF AfterFlush
  <2> QED BY <1>6, <2>1 DEF OwnStack
<1>7. CASE up = "up" /\ SearchStack
  <2>1. ASSUME NEW h \in Handles, NEW n \in Names, NEW how \in OpenModes \cup {"removeOther"},
               todo \in Flushing(Tmp, <<On("drop", Tmp), OnName("visit", Tmp, n),
                                        OnName(how, h, n)>>)
        PROVE  todo = <<On("drop", Tmp), OnName("visit", Tmp, n), OnName(how, h, n)>>
    BY <1>1, <1>2, <2>1, RestTypes
  <2> QED BY <1>7, <2>1 DEF SearchStack
<1>8. CASE up = "up" /\ RenameStack
  <2>1. ASSUME NEW h \in Handles, NEW n \in Names,
               todo \in Flushing(Tmp, <<On("deleted", Tmp), OnName("renameSelf", h, n)>>)
        PROVE  todo = <<On("deleted", Tmp), OnName("renameSelf", h, n)>>
    <3>1. "removeOther" \in OpenModes \cup {"removeOther"}
      OBVIOUS
    <3> QED BY <1>1, <1>2, <2>1, <3>1, RestTypes
  <2> QED BY <1>8, <2>1 DEF RenameStack
<1>9. CASE up = "up" /\ LastStack
  <2>1. ASSUME NEW h \in Handles, todo \in Flushing(h, <<On("flush", Tmp), On("drop", Tmp)>>)
        PROVE  FALSE
    BY <1>1, <1>2, <1>4, <2>1, RestTypes
  <2>2. ASSUME todo \in Flushing(Tmp, <<On("drop", Tmp)>>)
        PROVE  todo = <<On("drop", Tmp)>>
    BY <1>1, <1>2, <2>2, RestTypes
  <2>3. ASSUME todo \in Flushing(Tmp, <<On("drop", Tmp), On("correct", Tmp)>>)
        PROVE  todo = <<On("drop", Tmp), On("correct", Tmp)>>
    BY <1>1, <1>2, <2>3, RestTypes
  <2> QED BY <1>9, <2>1, <2>2, <2>3 DEF LastStack
<1> QED BY <1>5, <1>6, <1>7, <1>8, <1>9 DEF Control

\* Between calls the handle of the file system itself is closed.
LEMMA IdleStack ==
  ASSUME Control, todo = <<>>
  PROVE  up = "off" \/ (up = "up" /\ ~hs[Tmp].open)
<1>1. \A a \in Actors : \A r \in Seq(Task) : todo \in Flushing(a, r) => todo = r
  BY FlushingShape
<1>2. Tmp \in Actors /\ Handles \subseteq Actors
  BY DEF Actors
<1>3. ~MountStack
  BY MountTasks, Tuples DEF MountStack
<1>4. ~SearchStack
  BY <1>1, <1>2, RestTypes, CallTasks, Tuples DEF SearchStack
<1>5. ~RenameStack
  <2>1. "removeOther" \in OpenModes \cup {"removeOther"}
    OBVIOUS
  <2> QED BY <1>1, <1>2, <2>1, RestTypes, CallTasks, Tuples DEF RenameStack
<1>6. ~LastStack
  BY <1>1, <1>2, RestTypes, MountTasks, Tuples DEF LastStack
<1> QED BY <1>3, <1>4, <1>5, <1>6 DEF Control, OwnStack

\* A flush opens and closes no handle.
LEMMA FlushFrame ==
  ASSUME TypeOK, FlushWork
  PROVE  /\ todo # <<>> /\ Head(todo).t \in FlushKinds /\ up' = up
         /\ Actor \in Actors
         /\ \A a \in Actors : hs'[a].open = hs[a].open
         /\ \A a \in Actors \ {Actor} : hs'[a] = hs[a]
<1>1. todo # <<>> /\ Head(todo).t \in FlushKinds /\ up' = up
  BY DEF FlushWork, FlushNumber, FlushVersion, WriteZeroPage, WriteMeta,
         WriteMetaFails, ErasePage, Doing, FlushKinds
<1>2. Actor \in Actors /\ hs[Actor] \in Handle /\ hs \in [Actors -> Handle]
  BY <1>1, HeadType DEF TypeOK
<1> DEFINE h == Actor
           f == hs[h]
<1> HIDE DEF h
<1>3. \E g : /\ g.open = f.open
             /\ hs' = hs \/ hs' = [hs EXCEPT ![h] = g]
  <2>1. \/ hs' = hs
        \/ hs' = [hs EXCEPT ![h] = [f EXCEPT !.ino = maxIno + 1]]
        \/ \E page : hs' = [hs EXCEPT ![h] =
             [f EXCEPT !.page = page, !.ver = NextVersion(@), !.del = {}]]
        \/ \E k : hs' = [hs EXCEPT ![h] = [f EXCEPT !.dp[k].new = FALSE]]
        \/ hs' = [hs EXCEPT ![h] = [f EXCEPT !.mod = FALSE]]
    <3>1. CASE FlushNumber
      BY <3>1, <1>2 DEF FlushNumber, h
    <3>2. CASE FlushVersion
      <4>1. \/ hs' = hs
            \/ \E page : hs' = [hs EXCEPT ![h].page = page, ![h].ver = NextVersion(@),
                                          ![h].del = {}]
        BY <3>2 DEF FlushVersion, h
      <4> QED BY <4>1, <1>2 DEF h
    <3>3. CASE WriteZeroPage
      BY <3>3, <1>2 DEF WriteZeroPage, h
    <3>4. CASE WriteMeta \/ WriteMetaFails \/ ErasePage
      BY <3>4, <1>2 DEF WriteMeta, WriteMetaFails, ErasePage, locals, h
    <3> QED BY <3>1, <3>2, <3>3, <3>4 DEF FlushWork
  <2>2. /\ [f EXCEPT !.ino = maxIno + 1].open = f.open
        /\ \A page : [f EXCEPT !.page = page, !.ver = NextVersion(@), !.del = {}].open = f.open
        /\ \A k : [f EXCEPT !.dp[k].new = FALSE].open = f.open
        /\ [f EXCEPT !.mod = FALSE].open = f.open
    BY <1>2 DEF Handle
  <2> HIDE DEF f
  <2> QED BY <2>1, <2>2
<1> QED BY <1>1, <1>2, <1>3 DEF h

LEMMA ControlFlush ==
  ASSUME TypeOK, Control, FlushWork
  PROVE  Control'
<1>1. /\ todo # <<>> /\ Head(todo).t \in FlushKinds /\ up' = up
      /\ \A a \in Actors : hs'[a].open = hs[a].open
      /\ Tmp \in Actors /\ Handles \subseteq Actors
  BY FlushFrame DEF Actors
<1>2. \A a \in Actors : \A r \in Seq(Task) :
        todo \in Flushing(a, r) /\ todo # r => todo' \in Flushing(a, r)
  BY FlushingSteps
<1>3. CASE up = "mounting" /\ MountStack /\ AllClosed
  <2>1. todo = <<On("erase", Tmp), On("mount", Tmp)>>
    BY <1>1, <1>3, MountTasks, Tuples DEF MountStack, On, FlushKinds
  <2>2. Head(todo).t = "erase" /\ Tail(todo) = <<On("mount", Tmp)>>
    BY <2>1, MountTasks, Tuples DEF On
  <2>3. ErasePage
    BY <2>2 DEF FlushWork, FlushNumber, FlushVersion, WriteZeroPage, WriteMeta,
       WriteMetaFails, Doing
  <2>4. todo' = todo \/ todo' = Tail(todo)
    BY <1>1, <2>3, Popped DEF ErasePage, TypeOK
  <2>5. todo' = todo \/ todo' = <<On("mount", Tmp)>>
    BY <2>2, <2>4
  <2> QED BY <1>1, <1>3, <2>5 DEF Control, MountStack, AllClosed
<1>4. CASE up = "up" /\ OwnStack
  <2>0. PICK h \in Handles : \E r \in AfterFlush(h) : todo \in Flushing(h, r)
    BY <1>1, <1>4, MountTasks, Tuples DEF OwnStack, On, OnSize, FlushKinds
  <2>1. PICK r \in AfterFlush(h) : todo \in Flushing(h, r)
    BY <2>0
  <2>2. r \in Seq(Task) /\ h \in Actors
    BY <1>1, RestTypes
  <2>3. todo # r
    <3>1. On("drop", h) \in Task /\ On("deleted", h) \in Task
      BY <2>2, TaskTypes DEF TaskKinds, FileNames
    <3> QED BY <1>1, <3>1, Tuples DEF AfterFlush, On, FlushKinds
  <2> QED BY <1>1, <1>2, <1>4, <2>1, <2>2, <2>3 DEF Control, OwnStack
<1>5. CASE up = "up" /\ SearchStack
  <2>0. ASSUME NEW h \in Handles, NEW n \in Names,
               NEW how \in OpenModes \cup {"removeOther"}
        PROVE  /\ todo # <<OnName("find", Tmp, n), OnName(how, h, n)>>
               /\ todo # <<OnName("visit", Tmp, n), OnName(how, h, n)>>
               /\ todo # <<OnName(how, h, n)>>
    <3>1. how \notin FlushKinds /\ OnName(how, h, n).t = how
      BY DEF OnName, FlushKinds, OpenModes
    <3>2. /\ OnName("find", Tmp, n).t \notin FlushKinds
          /\ OnName("visit", Tmp, n).t \notin FlushKinds
      BY DEF OnName, FlushKinds
    <3> QED BY <1>1, <3>1, <3>2, Tuples
  <2>1. PICK h \in Handles, n \in Names, how \in OpenModes \cup {"removeOther"} :
          /\ hs[h].open <=> how = "removeOther"
          /\ todo \in Flushing(Tmp, <<On("drop", Tmp), OnName("visit", Tmp, n),
                                      OnName(how, h, n)>>)
    BY <1>5, <2>0 DEF SearchStack
  <2> DEFINE r == <<On("drop", Tmp), OnName("visit", Tmp, n), OnName(how, h, n)>>
  <2>2. r \in Seq(Task)
    BY RestTypes
  <2>3. todo # r
    BY <1>1, CallTasks, Tuples DEF On, FlushKinds
  <2>4. todo' \in Flushing(Tmp, r)
    BY <1>1, <1>2, <2>1, <2>2, <2>3
  <2>5. hs'[h].open <=> how = "removeOther"
    BY <1>1, <2>1
  <2> HIDE DEF r
  <2>6. SearchStack'
    BY <2>4, <2>5 DEF SearchStack, r
  <2> QED BY <1>1, <1>5, <2>6 DEF Control
<1>6. CASE up = "up" /\ RenameStack
  <2>0. "removeOther" \in OpenModes \cup {"removeOther"}
    OBVIOUS
  <2>1. PICK h \in Handles, n \in Names :
          /\ hs[h].open
          /\ todo \in Flushing(Tmp, <<On("deleted", Tmp), OnName("renameSelf", h, n)>>)
    BY <1>1, <1>6, <2>0, CallTasks, Tuples DEF RenameStack, OnName, FlushKinds
  <2> DEFINE r == <<On("deleted", Tmp), OnName("renameSelf", h, n)>>
  <2>2. r \in Seq(Task)
    BY <2>0, RestTypes
  <2>3. todo # r
    BY <1>1, <2>0, CallTasks, Tuples DEF On, FlushKinds
  <2>4. todo' \in Flushing(Tmp, r)
    BY <1>1, <1>2, <2>1, <2>2, <2>3
  <2>5. hs'[h].open
    BY <1>1, <2>1
  <2> HIDE DEF r
  <2>6. RenameStack'
    BY <2>4, <2>5 DEF RenameStack, r
  <2> QED BY <1>1, <1>6, <2>6 DEF Control
<1>7. CASE up = "up" /\ LastStack
  <2>1. CASE todo \in Flushing(Tmp, <<On("drop", Tmp)>>)
    <3>1. todo # <<On("drop", Tmp)>>
      BY <1>1, MountTasks, Tuples DEF On, FlushKinds
    <3> QED BY <1>1, <1>2, <1>7, <2>1, <3>1, RestTypes DEF Control, LastStack
  <2>2. CASE todo \in Flushing(Tmp, <<On("drop", Tmp), On("correct", Tmp)>>)
    <3>1. todo # <<On("drop", Tmp), On("correct", Tmp)>>
      BY <1>1, MountTasks, Tuples DEF On, FlushKinds
    <3> QED BY <1>1, <1>2, <1>7, <2>2, <3>1, RestTypes DEF Control, LastStack
  <2>3. ASSUME NEW h \in Handles,
               todo \in Flushing(h, <<On("flush", Tmp), On("drop", Tmp)>>)
        PROVE  Control'
    <3>1. CASE todo = <<On("flush", Tmp), On("drop", Tmp)>>
      <4>1. todo = <<On("flush", Tmp)>> \o <<On("drop", Tmp)>>
        BY <3>1, Join11
      <4>2. todo \in Flushing(Tmp, <<On("drop", Tmp)>>)
        BY <1>1, <4>1, RestTypes, FlushingTasks
      <4> QED BY <2>1, <4>2
    <3>2. CASE todo # <<On("flush", Tmp), On("drop", Tmp)>>
      BY <1>1, <1>2, <1>7, <2>3, <3>2, RestTypes DEF Control, LastStack
    <3> QED BY <3>1, <3>2
  <2> QED BY <1>7, <2>1, <2>2, <2>3 DEF LastStack
<1> QED BY <1>1, <1>3, <1>4, <1>5, <1>6, <1>7 DEF Control

\* A call starts when no other one runs.
LEMMA CallIdle ==
  ASSUME Call
  PROVE  todo = <<>>
<1>1. \A h, n, mode : Open(h, n, mode) \/ Rename(h, n) => todo = <<>>
  BY DEF Open, Rename, Idle
<1>2. \A h : Flush(h) \/ Close(h) \/ Delete(h) => todo = <<>>
  BY DEF Flush, Close, Delete, Idle
<1>3. \A h, k, v : Write(h, k, v) => todo = <<>>
  BY DEF Write, Idle
<1>4. \A h, n, how : Truncate(h, n) \/ Enlarge(h, n, how) => todo = <<>>
  BY DEF Truncate, Enlarge, Idle
<1>5. Cleanup \/ ListFiles => todo = <<>>
  BY DEF Cleanup, ListFiles, Idle
<1> QED BY <1>1, <1>2, <1>3, <1>4, <1>5 DEF Call

\* A page of write() leaves nothing to do, or the next page.
LEMMA WriteStack ==
  ASSUME up' = "up", ~hs'[Tmp].open, NEW h \in Handles, NEW k \in 0 .. MaxLen,
         todo' = <<>> \/ (k < MaxLen /\ todo' = <<OnSize("write", h, k + 1)>>)
  PROVE  Control'
<1>1. CASE todo' = <<>>
  BY <1>1 DEF Control, OwnStack
<1>2. CASE k < MaxLen /\ todo' = <<OnSize("write", h, k + 1)>>
  <2>1. k + 1 \in 0 .. MaxLen
    BY <1>2, BoundAssumption
  <2> DEFINE j == k + 1
  <2>2. j \in 0 .. MaxLen /\ todo' = <<OnSize("write", h, j)>>
    BY <1>2, <2>1
  <2> HIDE DEF j
  <2> QED BY <2>2 DEF Control, OwnStack
<1> QED BY <1>1, <1>2

LEMMA ControlCall ==
  ASSUME TypeOK, Control, Call
  PROVE  Control'
<1>1. up = "up" /\ todo = <<>> /\ up' = up
  BY CallFrame, CallIdle
<1>2. ~hs[Tmp].open /\ Tmp \in Actors /\ Handles \subseteq Actors /\ Tmp \notin Handles
  BY <1>1, IdleStack, HandleAssumption DEF Actors
<1>3. ASSUME todo' = <<>>, NEW h \in Handles, NEW g, hs' = hs \/ hs' = [hs EXCEPT ![h] = g]
      PROVE  Control'
  <2>1. ~hs'[Tmp].open
    BY <1>2, <1>3 DEF TypeOK
  <2> QED BY <1>1, <1>3, <2>1 DEF Control, OwnStack
<1>4. ASSUME NEW h \in Handles, NEW r \in AfterFlush(h), todo' = <<On("flush", h)>> \o r,
             hs' = hs \/ hs' = [hs EXCEPT ![h] = Emptied(@)]
      PROVE  Control'
  <2>1. ~hs'[Tmp].open
    BY <1>2, <1>4 DEF TypeOK
  <2>2. r \in Seq(Task) /\ h \in Actors
    BY <1>2, RestTypes
  <2>3. todo' \in Flushing(h, r)
    BY <1>4, <2>2, FlushingTasks
  <2>4. OwnStack'
    BY <2>1, <2>3 DEF OwnStack
  <2> QED BY <1>1, <2>4 DEF Control
<1>5. ASSUME NEW h \in Handles, NEW n \in Names,
             NEW how \in OpenModes \cup {"removeOther"},
             hs[h].open <=> how = "removeOther", hs' = hs,
             todo' = <<OnName("find", Tmp, n), OnName(how, h, n)>>
      PROVE  Control'
  <2>1. SearchStack'
    BY <1>2, <1>5 DEF SearchStack
  <2> QED BY <1>1, <2>1 DEF Control
<1>6. ASSUME NEW h \in Handles, NEW n \in Names, NEW mode \in {"openIn", "openOut", "openTrunc"},
             Open(h, n, mode)
      PROVE  Control'
  <2>1. mode \in OpenModes /\ mode # "removeOther"
    BY DEF OpenModes
  <2> QED BY <1>5, <1>6, <2>1 DEF Open, Start
<1>7. ASSUME NEW h \in Handles, NEW n \in Names, Rename(h, n)
      PROVE  Control'
  BY <1>5, <1>7 DEF Rename, Start
<1>8. ASSUME NEW h \in Handles, Flush(h) \/ Close(h) \/ Delete(h)
      PROVE  Control'
  <2>1. /\ <<>> \in AfterFlush(h)
        /\ <<On("drop", h)>> \in AfterFlush(h)
        /\ <<On("deleted", h)>> \in AfterFlush(h)
    BY DEF AfterFlush
  <2>2. /\ <<On("flush", h)>> = <<On("flush", h)>> \o <<>>
        /\ <<On("flush", h), On("drop", h)>> = <<On("flush", h)>> \o <<On("drop", h)>>
        /\ <<On("flush", h), On("deleted", h)>> = <<On("flush", h)>> \o <<On("deleted", h)>>
    BY Join11, JoinNone
  <2>3. CASE Flush(h)
    <3>1. todo' = <<On("flush", h)>> \o <<>> /\ hs' = hs
      BY <2>2, <2>3 DEF Flush, Start
    <3> QED BY <1>4, <2>1, <3>1
  <2>4. CASE Close(h)
    <3>1. todo' = <<On("flush", h)>> \o <<On("drop", h)>> /\ hs' = hs
      BY <2>2, <2>4 DEF Close, Start
    <3> QED BY <1>4, <2>1, <3>1
  <2>5. CASE Delete(h)
    <3>1. /\ todo' = <<On("flush", h)>> \o <<On("deleted", h)>>
          /\ hs' = [hs EXCEPT ![h] = Emptied(@)]
      BY <2>2, <2>5 DEF Delete, Start
    <3> QED BY <1>4, <2>1, <3>1
  <2> QED BY <1>8, <2>3, <2>4, <2>5
<1>9. ASSUME NEW h \in Handles, NEW k \in 1 .. MaxLen, NEW v \in Vals, Write(h, k, v)
      PROVE  Control'
  <2>1. h \in Actors /\ k \in Nat /\ k \in 1 .. MaxLen /\ WritePage(h, k, v)
    BY <1>2, <1>9, BoundAssumption DEF Write
  <2>2. /\ \E g : hs' = [hs EXCEPT ![h] = g]
        /\ todo' = <<>> \/ (k < MaxLen /\ todo' = <<OnSize("write", h, k + 1)>>)
    BY <2>1, PageWritten
  <2>3. ~hs'[Tmp].open
    BY <1>2, <2>2 DEF TypeOK
  <2> QED BY <1>1, <2>1, <2>2, <2>3, WriteStack
<1>10. ASSUME NEW h \in Handles, NEW n \in 0 .. MaxLen, Truncate(h, n)
       PROVE  Control'
  <2>1. todo' = <<>>
    BY <1>1, <1>10 DEF Truncate
  <2>2. hs' = [hs EXCEPT ![h] = [hs[h] EXCEPT !.len = n, !.dp = Cut(@, n), !.del = {},
                                              !.mod = TRUE]]
    <3>1. hs[h] \in Handle
      BY <1>2 DEF TypeOK
    <3> QED BY <3>1, <1>2, <1>10 DEF Truncate, TypeOK, Handle
  <2>3. \E g : hs' = [hs EXCEPT ![h] = g]
    BY <2>2
  <2> QED BY <1>3, <2>1, <2>3
<1>11. ASSUME NEW h \in Handles, NEW n \in 0 .. MaxLen, NEW how \in {"grow", "seek"},
              Enlarge(h, n, how)
       PROVE  Control'
  <2>1. OwnStack'
    BY <1>2, <1>11 DEF Enlarge, Start, OwnStack
  <2> QED BY <1>1, <2>1 DEF Control
<1>12. CASE Cleanup \/ ListFiles
  <2>1. OwnStack'
    BY <1>2, <1>12 DEF Cleanup, ListFiles, Start, OwnStack
  <2> QED BY <1>1, <2>1 DEF Control
<1> QED BY <1>6, <1>7, <1>8, <1>9, <1>10, <1>11, <1>12 DEF Call

\* The first task of these lists.
LEMMA CallHeads ==
  ASSUME NEW h, NEW n, NEW how, NEW k
  PROVE  /\ Head(<<On("clean", Tmp), On("correct", Tmp)>>).t = "clean"
         /\ Head(<<On("correct", Tmp)>>).t = "correct"
         /\ Head(<<OnSize(how, h, k)>>).t = how
         /\ Head(<<On("drop", h)>>).t = "drop"
         /\ Head(<<On("deleted", h)>>).t = "deleted"
         /\ Head(<<OnName("find", Tmp, n), OnName(how, h, n)>>).t = "find"
         /\ Head(<<OnName("visit", Tmp, n), OnName(how, h, n)>>).t = "visit"
         /\ Head(<<OnName(how, h, n)>>).t = how
         /\ Head(<<On("drop", Tmp), OnName("visit", Tmp, n), OnName(how, h, n)>>).t = "drop"
         /\ Head(<<On("deleted", Tmp), OnName("renameSelf", h, n)>>).t = "deleted"
         /\ Head(<<OnName("renameSelf", h, n)>>).t = "renameSelf"
         /\ Head(<<On("drop", Tmp)>>).t = "drop"
         /\ Head(<<On("drop", Tmp), On("correct", Tmp)>>).t = "drop"
         /\ Head(<<On("mount", Tmp)>>).t = "mount"
BY Tuples DEF On, OnName, OnSize

\* Where the tasks of a call stand when they are next.
LEMMA TaskPlaces ==
  ASSUME Control, todo # <<>>, NEW t, t = Head(todo).t
  PROVE  /\ t = "clean" =>
              up = "up" /\ ~hs[Tmp].open /\ todo = <<On("clean", Tmp), On("correct", Tmp)>>
         /\ t = "correct" => up = "up" /\ ~hs[Tmp].open /\ todo = <<On("correct", Tmp)>>
         /\ t \in {"write", "grow", "seek"} =>
              /\ up = "up" /\ ~hs[Tmp].open
              /\ \E h \in Handles, k \in 0 .. MaxLen : todo = <<OnSize(t, h, k)>>
         /\ t = "drop" =>
              /\ up = "up"
              /\ \/ todo = <<On("drop", Tmp)>>
                 \/ todo = <<On("drop", Tmp), On("correct", Tmp)>>
                 \/ \E h \in Handles : todo = <<On("drop", h)>> /\ ~hs[Tmp].open
                 \/ \E h \in Handles, n \in Names, how \in OpenModes \cup {"removeOther"} :
                      /\ hs[h].open <=> how = "removeOther"
                      /\ todo = <<On("drop", Tmp), OnName("visit", Tmp, n), OnName(how, h, n)>>
         /\ t = "deleted" =>
              /\ up = "up"
              /\ \/ \E h \in Handles : todo = <<On("deleted", h)>> /\ ~hs[Tmp].open
                 \/ \E h \in Handles, n \in Names :
                      /\ hs[h].open
                      /\ todo = <<On("deleted", Tmp), OnName("renameSelf", h, n)>>
         /\ t \in {"find", "visit"} =>
              /\ up = "up" /\ ~hs[Tmp].open
              /\ \E h \in Handles, n \in Names, how \in OpenModes \cup {"removeOther"} :
                   /\ hs[h].open <=> how = "removeOther"
                   /\ todo = <<OnName(t, Tmp, n), OnName(how, h, n)>>
         /\ t \in OpenModes \cup {"removeOther"} =>
              /\ up = "up"
              /\ \E h \in Handles, n \in Names :
                   (hs[h].open <=> t = "removeOther") /\ todo = <<OnName(t, h, n)>>
         /\ t = "renameSelf" =>
              /\ up = "up"
              /\ \E h \in Handles, n \in Names :
                   hs[h].open /\ todo = <<OnName("renameSelf", h, n)>>
         /\ t = "mount" => up = "mounting" /\ todo = <<On("mount", Tmp)>> /\ AllClosed
<1>1. OpenModes = {"openIn", "openOut", "openTrunc"}
  BY DEF OpenModes
<1>2. CASE t \in FlushKinds
  BY <1>1, <1>2 DEF FlushKinds
<1>3. CASE /\ t \notin FlushKinds /\ up = "up" /\ ~hs[Tmp].open
           /\ todo \in {<<On("clean", Tmp), On("correct", Tmp)>>, <<On("correct", Tmp)>>}
  <2>1. CASE todo = <<On("clean", Tmp), On("correct", Tmp)>>
    <3>1. t = "clean"
      BY <2>1, CallHeads
    <3> QED BY <1>1, <1>3, <2>1, <3>1
  <2>2. CASE todo = <<On("correct", Tmp)>>
    <3>1. t = "correct"
      BY <2>2, CallHeads
    <3> QED BY <1>1, <1>3, <2>2, <3>1
  <2> QED BY <1>3, <2>1, <2>2
<1>4. ASSUME up = "up", ~hs[Tmp].open, NEW h \in Handles, NEW how \in {"write", "grow", "seek"},
             NEW k \in 0 .. MaxLen, todo = <<OnSize(how, h, k)>>
      PROVE  /\ t \in {"write", "grow", "seek"}
             /\ \E g \in Handles, j \in 0 .. MaxLen : todo = <<OnSize(t, g, j)>>
  <2>1. t = how
    BY <1>4, CallHeads
  <2> QED BY <1>4, <2>1
<1>5. ASSUME NEW h \in Handles, todo \in {<<On("drop", h)>>, <<On("deleted", h)>>}
      PROVE  \/ t = "drop" /\ todo = <<On("drop", h)>>
             \/ t = "deleted" /\ todo = <<On("deleted", h)>>
  BY <1>5, CallHeads
<1>6. ASSUME NEW h \in Handles, NEW n \in Names, NEW how \in OpenModes \cup {"removeOther"}
      PROVE  /\ todo = <<OnName("find", Tmp, n), OnName(how, h, n)>> => t = "find"
             /\ todo = <<OnName("visit", Tmp, n), OnName(how, h, n)>> => t = "visit"
             /\ todo = <<OnName(how, h, n)>> => t = how
             /\ todo = <<On("drop", Tmp), OnName("visit", Tmp, n), OnName(how, h, n)>>
                  => t = "drop"
             /\ todo = <<On("deleted", Tmp), OnName("renameSelf", h, n)>> => t = "deleted"
             /\ todo = <<OnName("renameSelf", h, n)>> => t = "renameSelf"
  BY Tuples DEF On, OnName
<1>7. /\ todo = <<On("drop", Tmp)>> => t = "drop"
      /\ todo = <<On("drop", Tmp), On("correct", Tmp)>> => t = "drop"
      /\ todo = <<On("mount", Tmp)>> => t = "mount"
  BY CallHeads
<1>8. CASE /\ t \notin FlushKinds /\ up = "up" /\ ~hs[Tmp].open
           /\ \E h \in Handles, how \in {"write", "grow", "seek"}, k \in 0 .. MaxLen :
                todo = <<OnSize(how, h, k)>>
  BY <1>1, <1>4, <1>8
<1>9. CASE /\ t \notin FlushKinds /\ up = "up" /\ ~hs[Tmp].open
           /\ \E h \in Handles : todo \in {<<On("drop", h)>>, <<On("deleted", h)>>}
  BY <1>1, <1>5, <1>9
<1>10. ASSUME up = "up", NEW h \in Handles, NEW n \in Names,
              NEW how \in OpenModes \cup {"removeOther"},
              hs[h].open <=> how = "removeOther",
              \/ /\ ~hs[Tmp].open
                 /\ todo \in {<<OnName("find", Tmp, n), OnName(how, h, n)>>,
                              <<OnName("visit", Tmp, n), OnName(how, h, n)>>}
              \/ todo = <<OnName(how, h, n)>>
              \/ todo = <<On("drop", Tmp), OnName("visit", Tmp, n), OnName(how, h, n)>>
       PROVE  \/ /\ t \in {"find", "visit"} /\ ~hs[Tmp].open
                 /\ todo = <<OnName(t, Tmp, n), OnName(how, h, n)>>
              \/ t \in OpenModes \cup {"removeOther"} /\ t = how /\ todo = <<OnName(t, h, n)>>
              \/ /\ t = "drop"
                 /\ todo = <<On("drop", Tmp), OnName("visit", Tmp, n), OnName(how, h, n)>>
  BY <1>6, <1>10
<1>11. CASE /\ t \notin FlushKinds /\ up = "up"
            /\ \E h \in Handles, n \in Names, how \in OpenModes \cup {"removeOther"} :
                 /\ hs[h].open <=> how = "removeOther"
                 /\ \/ /\ ~hs[Tmp].open
                       /\ todo \in {<<OnName("find", Tmp, n), OnName(how, h, n)>>,
                                    <<OnName("visit", Tmp, n), OnName(how, h, n)>>}
                    \/ todo = <<OnName(how, h, n)>>
                    \/ todo = <<On("drop", Tmp), OnName("visit", Tmp, n), OnName(how, h, n)>>
  <2>1. PICK h \in Handles, n \in Names, how \in OpenModes \cup {"removeOther"} :
          /\ hs[h].open <=> how = "removeOther"
          /\ \/ /\ ~hs[Tmp].open
                /\ todo \in {<<OnName("find", Tmp, n), OnName(how, h, n)>>,
                             <<OnName("visit", Tmp, n), OnName(how, h, n)>>}
             \/ todo = <<OnName(how, h, n)>>
             \/ todo = <<On("drop", Tmp), OnName("visit", Tmp, n), OnName(how, h, n)>>
    BY <1>11
  <2>2. CASE /\ t \in {"find", "visit"} /\ ~hs[Tmp].open
             /\ todo = <<OnName(t, Tmp, n), OnName(how, h, n)>>
    BY <1>1, <1>11, <2>1, <2>2
  <2>3. CASE t \in OpenModes \cup {"removeOther"} /\ t = how /\ todo = <<OnName(t, h, n)>>
    BY <1>1, <1>11, <2>1, <2>3
  <2>4. CASE /\ t = "drop"
             /\ todo = <<On("drop", Tmp), OnName("visit", Tmp, n), OnName(how, h, n)>>
    BY <1>1, <1>11, <2>1, <2>4
  <2> QED BY <1>10, <1>11, <2>1, <2>2, <2>3, <2>4
<1>12. ASSUME NEW h \in Handles, NEW n \in Names,
              todo \in {<<On("deleted", Tmp), OnName("renameSelf", h, n)>>,
                       <<OnName("renameSelf", h, n)>>}
       PROVE  \/ /\ t = "deleted"
                 /\ todo = <<On("deleted", Tmp), OnName("renameSelf", h, n)>>
              \/ t = "renameSelf" /\ todo = <<OnName("renameSelf", h, n)>>
  BY <1>12, Tuples DEF On, OnName
<1>13. CASE /\ t \notin FlushKinds /\ up = "up"
            /\ \E h \in Handles, n \in Names :
                 /\ hs[h].open
                 /\ todo \in {<<On("deleted", Tmp), OnName("renameSelf", h, n)>>,
                              <<OnName("renameSelf", h, n)>>}
  BY <1>1, <1>12, <1>13
<1>14. CASE /\ t \notin FlushKinds /\ up = "up"
            /\ todo \in {<<On("drop", Tmp)>>, <<On("drop", Tmp), On("correct", Tmp)>>}
  BY <1>1, <1>7, <1>14
<1>15. CASE t \notin FlushKinds /\ up = "mounting" /\ todo = <<On("mount", Tmp)>> /\ AllClosed
  BY <1>1, <1>7, <1>15
<1> QED BY <1>2, <1>3, <1>8, <1>9, <1>11, <1>13, <1>14, <1>15, OtherTasks

\* The steps of a call between its flushes.
LEMMA ControlOther ==
  ASSUME TypeOK, Control,
         \/ EnlargeStep \/ Drop \/ Deleted \/ FindScan \/ Visit
         \/ OpenMissing \/ OpenFound \/ OpenTrunc \/ RemoveOther \/ RenameSelf
         \/ Clean \/ Correct \/ EraseOutdated \/ MountDone
  PROVE  Control'
<1>1. /\ todo # <<>> /\ Head(todo).t \notin FlushKinds
      /\ todo \in Seq(Task) /\ Actor = Head(todo).h
      /\ hs \in [Actors -> Handle] /\ Tmp \in Actors /\ Handles \subseteq Actors
      /\ Tmp \notin Handles
  BY HandleAssumption
     DEF EnlargeStep, Drop, Deleted, FindScan, Visit, OpenMissing, OpenFound,
       OpenTrunc, RemoveOther, RenameSelf, Clean, Correct, EraseOutdated, MountDone,
       Doing, FlushKinds, Actors, Actor, TypeOK
<1>2. /\ NoHandle.open = FALSE
      /\ \A f \in Handle : Emptied(f).open = f.open
  BY DEF NoHandle, Emptied, Handle
<1>3. ASSUME NEW h \in Handles, NEW n \in Names, NEW how \in OpenModes \cup {"removeOther"}
      PROVE  /\ OnName(how, h, n).t = how /\ OnName(how, h, n).h = h
             /\ OnName(how, h, n).n = n
             /\ how \in {"openIn", "openOut", "openTrunc", "removeOther"}
  BY DEF OnName, OpenModes
<1>4. CASE EnlargeStep
  <2>0. Head(todo).t \in {"grow", "seek"}
    BY <1>4 DEF EnlargeStep
  <2>1. PICK h \in Handles, how \in {"write", "grow", "seek"}, k \in 0 .. MaxLen :
          /\ up = "up" /\ ~hs[Tmp].open
          /\ todo = <<OnSize(how, h, k)>>
    BY <1>1, <2>0, TaskPlaces
  <2>2. Head(todo).h = h /\ Tail(todo) = <<>>
    BY <2>1, Tuples DEF OnSize
  <2>3. up' = up /\ (todo' = todo \/ todo' = <<>>)
    BY <1>4, <2>2 DEF EnlargeStep, flash
  <2>4. \E g : hs' = hs \/ hs' = [hs EXCEPT ![h] = g]
    <3>1. \/ hs' = hs
          \/ \E page : hs' = [hs EXCEPT ![h].dp = Append(@, [id |-> page, new |-> TRUE])]
          \/ hs' = [hs EXCEPT ![h].len = Head(todo).k, ![h].mod = TRUE]
      BY <1>4, <2>2 DEF EnlargeStep
    <3>2. \/ hs' = hs
          \/ \E page : hs' = [hs EXCEPT ![h] =
               [hs[h] EXCEPT !.dp = Append(@, [id |-> page, new |-> TRUE])]]
          \/ hs' = [hs EXCEPT ![h] = [hs[h] EXCEPT !.len = Head(todo).k, !.mod = TRUE]]
      BY <1>1, <3>1
    <3> QED BY <3>2
  <2>5. ~hs'[Tmp].open
    BY <1>1, <2>1, <2>4
  <2> QED BY <2>1, <2>3, <2>5 DEF Control, OwnStack
<1>5. CASE Drop
  <2>1. Head(todo).t = "drop" /\ todo' = Tail(todo) /\ up' = up
        /\ hs' = [hs EXCEPT ![Actor] = NoHandle]
    BY <1>1, <1>5, Popped DEF Drop, Doing, flash
  <2>2. CASE \E h \in Handles : todo = <<On("drop", h)>> /\ up = "up" /\ ~hs[Tmp].open
    <3>1. todo' = <<>> /\ Actor \in Handles
      BY <1>1, <2>1, <2>2, Tuples DEF On
    <3>2. ~hs'[Tmp].open
      BY <1>1, <2>1, <2>2, <3>1
    <3> QED BY <2>1, <2>2, <3>1, <3>2 DEF Control, OwnStack
  <2>3. ASSUME NEW h \in Handles, NEW n \in Names,
               NEW how \in OpenModes \cup {"removeOther"},
               up = "up", hs[h].open <=> how = "removeOther",
               todo = <<On("drop", Tmp), OnName("visit", Tmp, n), OnName(how, h, n)>>
        PROVE  Control'
    <3>1. todo' = <<OnName("visit", Tmp, n), OnName(how, h, n)>> /\ Actor = Tmp
      BY <1>1, <2>1, <2>3, Tuples DEF On
    <3>2. ~hs'[Tmp].open /\ hs'[h] = hs[h]
      BY <1>1, <1>2, <2>1, <3>1
    <3>3. SearchStack'
      BY <2>3, <3>1, <3>2 DEF SearchStack
    <3> QED BY <2>1, <2>3, <3>3 DEF Control
  <2>4. CASE /\ up = "up"
             /\ todo \in {<<On("drop", Tmp)>>, <<On("drop", Tmp), On("correct", Tmp)>>}
    <3>4. todo = <<On("drop", Tmp)>> =>
            Tail(todo) = <<>> /\ Head(todo) = On("drop", Tmp)
      BY Tuples
    <3>5. todo = <<On("drop", Tmp), On("correct", Tmp)>> =>
            Tail(todo) = <<On("correct", Tmp)>> /\ Head(todo) = On("drop", Tmp)
      BY Tuples
    <3>1. /\ Tail(todo) = <<>> \/ Tail(todo) = <<On("correct", Tmp)>>
          /\ Head(todo) = On("drop", Tmp)
      BY <2>4, <3>4, <3>5
    <3>3. (todo' = <<>> \/ todo' = <<On("correct", Tmp)>>) /\ Actor = Tmp
      BY <1>1, <2>1, <3>1 DEF On
    <3>2. ~hs'[Tmp].open
      BY <1>1, <1>2, <2>1, <3>3
    <3> QED BY <2>1, <2>4, <3>3, <3>2 DEF Control, OwnStack
  <2> QED BY <1>1, <2>1, <2>2, <2>3, <2>4, TaskPlaces
<1>6. CASE Deleted
  <2>1. Head(todo).t = "deleted" /\ todo' = Tail(todo) /\ up' = up
        /\ (hs' = hs \/ hs' = [hs EXCEPT ![Actor] = NoHandle])
    BY <1>1, <1>6, Popped DEF Deleted, Doing, flash
  <2>2. CASE \E h \in Handles : todo = <<On("deleted", h)>> /\ up = "up" /\ ~hs[Tmp].open
    <3>1. todo' = <<>> /\ Actor \in Handles
      BY <1>1, <2>1, <2>2, Tuples DEF On
    <3>2. ~hs'[Tmp].open
      BY <1>1, <2>1, <2>2, <3>1
    <3> QED BY <2>1, <2>2, <3>1, <3>2 DEF Control, OwnStack
  <2>3. ASSUME NEW h \in Handles, NEW n \in Names, up = "up", hs[h].open,
               todo = <<On("deleted", Tmp), OnName("renameSelf", h, n)>>
        PROVE  Control'
    <3>1. todo' = <<OnName("renameSelf", h, n)>> /\ Actor = Tmp
      BY <1>1, <2>1, <2>3, Tuples DEF On
    <3>2. hs'[h] = hs[h]
      BY <1>1, <2>1, <3>1
    <3>3. RenameStack'
      BY <2>3, <3>1, <3>2 DEF RenameStack
    <3> QED BY <2>1, <2>3, <3>3 DEF Control
  <2> QED BY <1>1, <2>1, <2>2, <2>3, TaskPlaces
<1>7. CASE FindScan
  <2>1. Head(todo).t = "find" /\ up' = up /\ hs' = hs
        /\ Then(<<OnName("visit", Tmp, Head(todo).n)>>)
    BY <1>7 DEF FindScan, Doing, flash
  <2>2. PICK h \in Handles, n \in Names, how \in OpenModes \cup {"removeOther"} :
          /\ up = "up" /\ ~hs[Tmp].open
          /\ hs[h].open <=> how = "removeOther"
          /\ todo = <<OnName("find", Tmp, n), OnName(how, h, n)>>
    BY <1>1, <2>1, TaskPlaces
  <2>3. Head(todo).n = n /\ Tail(todo) = <<OnName(how, h, n)>>
    BY <2>2, Tuples DEF OnName
  <2>7. <<OnName("visit", Tmp, n)>> \o <<OnName(how, h, n)>>
          = <<OnName("visit", Tmp, n), OnName(how, h, n)>>
    BY Join11
  <2>4. todo' = <<OnName("visit", Tmp, n), OnName(how, h, n)>>
    BY <2>1, <2>3, <2>7 DEF Then
  <2>5. SearchStack'
    BY <2>1, <2>2, <2>4 DEF SearchStack
  <2> QED BY <2>1, <2>2, <2>5 DEF Control
<1>8. ASSUME NEW t, t \in OpenModes \cup {"removeOther"}, Head(todo).t = t
      PROVE  \E h \in Handles, n \in Names :
               /\ up = "up"
               /\ hs[h].open <=> t = "removeOther"
               /\ todo = <<OnName(t, h, n)>>
               /\ Head(todo).h = h /\ Actor = h /\ Head(todo).n = n /\ Tail(todo) = <<>>
  <2>1. t \in {"openIn", "openOut", "openTrunc", "removeOther"}
    BY <1>8 DEF OpenModes
  <2>2. PICK h \in Handles, n \in Names :
          /\ up = "up"
          /\ hs[h].open <=> t = "removeOther"
          /\ todo = <<OnName(t, h, n)>>
    BY <1>1, <1>8, TaskPlaces
  <2>3. Head(todo) = OnName(t, h, n) /\ Tail(todo) = <<>>
    BY <2>2, Tuples
  <2> QED BY <1>1, <1>3, <1>8, <2>2, <2>3
<1>9. CASE Visit
  <2>1. PICK h \in Handles, n \in Names, how \in OpenModes \cup {"removeOther"} :
          /\ up = "up" /\ ~hs[Tmp].open
          /\ hs[h].open <=> how = "removeOther"
          /\ todo = <<OnName("visit", Tmp, n), OnName(how, h, n)>>
    <3>1. Head(todo).t = "visit"
      BY <1>9 DEF Visit, Doing
    <3> QED BY <1>1, <3>1, TaskPlaces
  <2>2. Tail(todo) = <<OnName(how, h, n)>> /\ up' = up
    BY <1>9, <2>1, Tuples DEF Visit, flash
  <2>3. \/ hs' = hs /\ Then(<<>>)
        \/ /\ \E f : hs' = [hs EXCEPT ![Tmp] = f]
           /\ \/ Then(<<>>)
              \/ todo' = <<On("flush", Tmp), On("drop", Tmp)>> \o todo
    BY <1>9 DEF Visit
  <2>4. hs'[h] = hs[h]
    BY <1>1, <2>3
  <2>5. CASE Then(<<>>)
    <3>1. todo' = <<OnName(how, h, n)>>
      BY <1>1, <2>2, <2>5, Popped
    <3>2. SearchStack'
      BY <2>1, <2>4, <3>1 DEF SearchStack
    <3> QED BY <2>1, <2>2, <3>2 DEF Control
  <2>6. CASE todo' = <<On("flush", Tmp), On("drop", Tmp)>> \o todo
    <3> DEFINE r == <<On("drop", Tmp), OnName("visit", Tmp, n), OnName(how, h, n)>>
    <3>5. /\ On("flush", Tmp) \in Task /\ On("drop", Tmp) \in Task
          /\ OnName("visit", Tmp, n) \in Task /\ OnName(how, h, n) \in Task
      BY CallTasks
    <3>6. <<On("flush", Tmp), On("drop", Tmp)>>
            \o <<OnName("visit", Tmp, n), OnName(how, h, n)>> = <<On("flush", Tmp)>> \o r
      BY Join22, Join13
    <3>1. todo' = <<On("flush", Tmp)>> \o r
      BY <2>1, <2>6, <3>6
    <3>2. r \in Seq(Task)
      BY RestTypes
    <3> HIDE DEF r
    <3>3. todo' \in Flushing(Tmp, r)
      BY <1>1, <3>1, <3>2, FlushingTasks
    <3>4. SearchStack'
      BY <2>1, <2>4, <3>3 DEF SearchStack, r
    <3> QED BY <2>1, <2>2, <3>4 DEF Control
  <2> QED BY <2>3, <2>5, <2>6
<1>10. CASE OpenMissing
  <2>1. PICK h \in Handles : up = "up" /\ Actor = h /\ Tail(todo) = <<>> /\ Head(todo).h = h
    BY <1>8, <1>10 DEF OpenMissing, Doing, OpenModes
  <2>2. todo' = <<>> /\ up' = up
    BY <1>1, <1>10, <2>1, Popped DEF OpenMissing, flash
  <2>3. hs' = hs \/ \E g : hs' = [hs EXCEPT ![h] = g]
    BY <1>10, <2>1 DEF OpenMissing, NewHandle
  <2>4. ~hs'[Tmp].open
    BY <1>1, <1>10, <2>3 DEF OpenMissing
  <2> QED BY <2>1, <2>2, <2>4 DEF Control, OwnStack
<1>11. CASE OpenFound
  <2>1. PICK h \in Handles : up = "up" /\ Actor = h /\ Tail(todo) = <<>>
    BY <1>8, <1>11 DEF OpenFound, Doing, OpenModes
  <2>2. todo' = <<>> /\ up' = up
    BY <1>1, <1>11, <2>1, Popped DEF OpenFound, flash
  <2>3. hs' = [hs EXCEPT ![h] = hs[Tmp], ![Tmp] = NoHandle]
    BY <1>11, <2>1 DEF OpenFound
  <2>4. ~hs'[Tmp].open
    BY <1>1, <1>2, <2>3
  <2> QED BY <2>1, <2>2, <2>4 DEF Control, OwnStack
<1>12. CASE OpenTrunc
  <2>1. up = "up" /\ Tail(todo) = <<>>
    BY <1>8, <1>12 DEF OpenTrunc, Doing, OpenModes
  <2>2. todo' = <<On("flush", Tmp), On("drop", Tmp)>> \o <<>> /\ up' = up
    BY <1>12, <2>1 DEF OpenTrunc, flash, Then
  <2>3. todo' = <<On("flush", Tmp)>> \o <<On("drop", Tmp)>>
    BY <2>2, JoinNone, Join11
  <2>4. LastStack'
    BY <1>1, <2>3, RestTypes, FlushingTasks DEF LastStack
  <2> QED BY <2>1, <2>2, <2>4 DEF Control
<1>13. CASE RemoveOther
  <2>1. PICK h \in Handles, n \in Names :
          /\ up = "up" /\ hs[h].open
          /\ Head(todo).h = h /\ Head(todo).n = n /\ Tail(todo) = <<>>
    BY <1>8, <1>13 DEF RemoveOther, Doing
  <2> DEFINE self == <<OnName("renameSelf", h, n)>>
             r == <<On("deleted", Tmp), OnName("renameSelf", h, n)>>
  <2>2. /\ up' = up
        /\ \/ hs' = hs /\ todo' = self \o <<>>
           \/ /\ hs' = [hs EXCEPT ![Tmp] = Emptied(@)]
              /\ todo' = (<<On("flush", Tmp), On("deleted", Tmp)>> \o self) \o <<>>
    BY <1>13, <2>1 DEF RemoveOther, flash, Then
  <2>3. hs'[h] = hs[h]
    BY <1>1, <2>2
  <2>4. "removeOther" \in OpenModes \cup {"removeOther"}
    OBVIOUS
  <2>5. /\ r \in Seq(Task) /\ self \in Seq(Task)
        /\ <<On("flush", Tmp), On("deleted", Tmp)>> \in Seq(Task)
    BY <2>4, RestTypes, CallTasks, ShortSequences
  <2>6. <<On("flush", Tmp), On("deleted", Tmp)>> \o self = <<On("flush", Tmp)>> \o r
    BY Join21, Join12
  <2>7. <<On("flush", Tmp)>> \o r \in Flushing(Tmp, r)
    BY <1>1, <2>5, FlushingTasks
  <2>8. <<On("flush", Tmp), On("deleted", Tmp)>> \o self \in Seq(Task)
    BY <2>5, ConcatProperties
  <2> HIDE DEF self, r
  <2>9. todo' = self \/ todo' \in Flushing(Tmp, r)
    BY <2>2, <2>5, <2>6, <2>7, <2>8, ConcatEmptySeq
  <2>10. RenameStack'
    BY <2>1, <2>3, <2>9 DEF RenameStack, self, r
  <2> QED BY <2>1, <2>2, <2>10 DEF Control
<1>14. CASE RenameSelf
  <2>1. PICK h \in Handles, n \in Names :
          /\ up = "up" /\ hs[h].open
          /\ todo = <<OnName("renameSelf", h, n)>>
    <3>1. Head(todo).t = "renameSelf"
      BY <1>14 DEF RenameSelf, Doing
    <3> QED BY <1>1, <3>1, TaskPlaces
  <2>2. Head(todo).h = h /\ Tail(todo) = <<>>
    BY <2>1, Tuples DEF OnName
  <2>3. /\ up' = up
        /\ todo' = <<On("flush", h), On("flush", Tmp), On("drop", Tmp)>> \o <<>>
    BY <1>14, <2>2 DEF RenameSelf, flash, Then
  <2> DEFINE r == <<On("flush", Tmp), On("drop", Tmp)>>
  <2>4. "removeOther" \in OpenModes \cup {"removeOther"} /\ h \in Actors
    BY <1>1
  <2>5. On("flush", h) \in Task /\ On("flush", Tmp) \in Task /\ On("drop", Tmp) \in Task
    BY <2>4, CallTasks
  <2>6. <<On("flush", h), On("flush", Tmp), On("drop", Tmp)>> = <<On("flush", h)>> \o r
    BY Join12
  <2>7. r \in Seq(Task)
    BY RestTypes
  <2>8. todo' = <<On("flush", h)>> \o r
    BY <2>3, <2>5, <2>6, ShortSequences, ConcatEmptySeq
  <2> HIDE DEF r
  <2>9. todo' \in Flushing(h, r)
    BY <2>4, <2>7, <2>8, FlushingTasks
  <2>10. LastStack'
    BY <2>9 DEF LastStack, r
  <2> QED BY <2>1, <2>3, <2>10 DEF Control
<1>15. CASE Clean
  <2>1. /\ up = "up" /\ ~hs[Tmp].open
        /\ todo = <<On("clean", Tmp), On("correct", Tmp)>>
    <3>1. Head(todo).t = "clean"
      BY <1>15 DEF Clean, Doing
    <3> QED BY <1>1, <3>1, TaskPlaces
  <2>2. Tail(todo) = <<On("correct", Tmp)>>
    BY <2>1, Tuples
  <2>3. (todo' = todo \/ todo' = <<On("correct", Tmp)>>) /\ up' = up /\ hs' = hs
    BY <1>1, <1>15, <2>2, Popped DEF Clean
  <2> QED BY <2>1, <2>3 DEF Control, OwnStack
<1>16. CASE Correct
  <2>0. Head(todo).t = "correct"
    BY <1>16 DEF Correct, Doing
  <2>1. up = "up" /\ todo = <<On("correct", Tmp)>>
    BY <1>1, <2>0, TaskPlaces
  <2>2. ~hs[Tmp].open
    BY <1>1, <2>0, TaskPlaces
  <2>3. Tail(todo) = <<>> /\ up' = up
    BY <1>16, <2>1, Tuples DEF Correct, flash
  <2>4. \/ Then(<<>>) /\ hs' = hs
        \/ todo' = <<On("flush", Tmp), On("drop", Tmp)>> \o todo
    BY <1>16 DEF Correct
  <2>5. CASE Then(<<>>) /\ hs' = hs
    BY <1>1, <2>1, <2>2, <2>3, <2>5, Popped DEF Control, OwnStack
  <2>6. CASE todo' = <<On("flush", Tmp), On("drop", Tmp)>> \o todo
    <3>3. <<On("flush", Tmp), On("drop", Tmp)>> \o <<On("correct", Tmp)>>
            = <<On("flush", Tmp)>> \o <<On("drop", Tmp), On("correct", Tmp)>>
      BY Join21, Join12
    <3>1. todo' = <<On("flush", Tmp)>> \o <<On("drop", Tmp), On("correct", Tmp)>>
      BY <2>1, <2>6, <3>3
    <3>2. LastStack'
      BY <1>1, <3>1, RestTypes, FlushingTasks DEF LastStack
    <3> QED BY <2>1, <2>3, <3>2 DEF Control
  <2> QED BY <2>4, <2>5, <2>6
<1>17. CASE EraseOutdated \/ MountDone
  <2>1. up = "mounting" /\ todo = <<On("mount", Tmp)>> /\ AllClosed
    <3>1. Head(todo).t = "mount"
      BY <1>17 DEF EraseOutdated, MountDone, Doing
    <3> QED BY <1>1, <3>1, TaskPlaces
  <2>2. Tail(todo) = <<>>
    BY <2>1, Tuples
  <2>3. hs' = hs
    BY <1>17 DEF EraseOutdated, MountDone
  <2>4. CASE EraseOutdated
    <3>2. <<On("erase", Tmp)>> \o <<On("mount", Tmp)>> = <<On("erase", Tmp), On("mount", Tmp)>>
      BY Join11
    <3>1. todo' = <<On("erase", Tmp), On("mount", Tmp)>> /\ up' = up
      BY <2>1, <2>4, <3>2 DEF EraseOutdated, flash
    <3> QED BY <2>1, <2>3, <3>1 DEF Control, MountStack, AllClosed
  <2>5. CASE MountDone
    <3>1. todo' = <<>> /\ up' = "up"
      BY <1>1, <2>2, <2>5, Popped DEF MountDone
    <3> QED BY <1>1, <2>1, <2>3, <3>1 DEF Control, OwnStack, AllClosed
  <2> QED BY <1>17, <2>4, <2>5
<1> QED
  BY <1>4, <1>5, <1>6, <1>7, <1>9, <1>10, <1>11, <1>12, <1>13, <1>14, <1>15,
     <1>16, <1>17

LEMMA ControlWrite ==
  ASSUME TypeOK, Control, WriteWork
  PROVE  Control'
<1>1. todo # <<>> /\ Head(todo).t = "write" /\ up' = up
      /\ \E g : hs' = [hs EXCEPT ![Head(todo).h] = g]
      /\ \/ todo' = <<>>
         \/ /\ Head(todo).k < MaxLen
            /\ todo' = <<OnSize("write", Head(todo).h, Head(todo).k + 1)>>
  BY WriteSteps
<1>2. PICK h \in Handles, k \in 0 .. MaxLen :
        up = "up" /\ ~hs[Tmp].open /\ todo = <<OnSize("write", h, k)>>
  BY <1>1, TaskPlaces
<1>3. Head(todo).h = h /\ Head(todo).k = k
  BY <1>2, Tuples DEF OnSize
<1>4. ~hs'[Tmp].open
  <2>1. Tmp \in Actors /\ Tmp # h
    BY HandleAssumption DEF Actors
  <2> QED BY <1>1, <1>2, <1>3, <2>1 DEF TypeOK
<1> QED BY <1>1, <1>2, <1>3, <1>4, WriteStack

LEMMA ControlNext ==
  ASSUME TypeOK, PoweredOff, Control, [Next]_vars
  PROVE  Control'
<1>1. CASE Call
  BY <1>1, ControlCall
<1>2. CASE Work
  <2>1. FlushWork \/ EnlargeStep \/ Drop \/ Deleted \/ FindScan \/ Visit
        \/ OpenMissing \/ OpenFound \/ OpenTrunc \/ RemoveOther \/ RenameSelf
        \/ Clean \/ Correct \/ EraseOutdated \/ MountDone
        \/ WriteWork
    BY <1>2 DEF Work, WriteWork, FlushWork
  <2> QED BY <2>1, ControlFlush, ControlOther, ControlWrite
<1>3. CASE PowerLoss
  BY <1>3 DEF PowerLoss, Control, AllClosed, NoHandle
<1>4. CASE MountScan
  <2>1. up = "off" /\ up' = "mounting" /\ todo' = <<On("mount", Tmp)>> /\ hs' = hs
    BY <1>4 DEF MountScan
  <2>2. AllClosed
    BY <2>1 DEF Control
  <2> QED BY <2>1, <2>2 DEF Control, MountStack, AllClosed
<1>5. CASE UNCHANGED vars
  BY <1>5 DEF vars, Control, OwnStack, SearchStack, RenameStack, LastStack, MountStack,
              AllClosed
<1> QED BY <1>1, <1>2, <1>3, <1>4, <1>5 DEF Next

(***************************************************************************)
(* Numbers.                                                                *)
(***************************************************************************)
\* How an open handle has come by its number: it had it before, it is a handle
\* of the user that was closed, it is the handle that find_file() has loaded
\* from a page, or it is given the next number.
InoFrom(b) ==
  \/ hs[b].open /\ hs'[b].ino = hs[b].ino
  \/ ~hs[b].open /\ b \in Handles
  \/ ~hs[b].open /\ b = Tmp /\ \E p \in ValidPages : hs'[b].ino = inodeArea[p].ino
  \/ hs[b].open /\ hs[b].ino = 0 /\ hs'[b].ino = maxIno + 1

LEMMA CallInos ==
  ASSUME TypeOK, Call
  PROVE  \A b \in Actors : hs'[b].open = hs[b].open /\ hs'[b].ino = hs[b].ino
<1>1. hs \in [Actors -> Handle] /\ Handles \subseteq Actors
  BY DEF TypeOK, Actors
<1>2. ASSUME NEW h \in Handles, NEW g, g.open = hs[h].open, g.ino = hs[h].ino,
             hs' = [hs EXCEPT ![h] = g]
      PROVE  \A b \in Actors : hs'[b].open = hs[b].open /\ hs'[b].ino = hs[b].ino
  BY <1>1, <1>2
<1>4. ASSUME NEW h \in Handles, NEW k \in 1 .. MaxLen, NEW v \in Vals, Write(h, k, v)
      PROVE  \A b \in Actors : hs'[b].open = hs[b].open /\ hs'[b].ino = hs[b].ino
  <2>1. h \in Actors /\ k \in Nat /\ WritePage(h, k, v)
    BY <1>1, <1>4, BoundAssumption DEF Write
  <2>2. PICK g : Relisted(hs[h], g) /\ hs' = [hs EXCEPT ![h] = g]
    BY <2>1, PageWritten
  <2> QED BY <1>2, <2>2 DEF Relisted
<1>5. ASSUME NEW h \in Handles, NEW n \in 0 .. MaxLen, Truncate(h, n)
      PROVE  \A b \in Actors : hs'[b].open = hs[b].open /\ hs'[b].ino = hs[b].ino
  <2> DEFINE g == [hs[h] EXCEPT !.len = n, !.dp = Cut(@, n), !.del = {}, !.mod = TRUE]
  <2>1. hs' = [hs EXCEPT ![h] = g]
    BY <1>1, <1>5 DEF Truncate
  <2>2. g.open = hs[h].open /\ g.ino = hs[h].ino
    BY <1>1 DEF Handle
  <2> HIDE DEF g
  <2> QED BY <1>2, <2>1, <2>2
<1>6. ASSUME NEW h \in Handles, Delete(h)
      PROVE  \A b \in Actors : hs'[b].open = hs[b].open /\ hs'[b].ino = hs[b].ino
  <2>1. Emptied(hs[h]).open = hs[h].open /\ Emptied(hs[h]).ino = hs[h].ino
    BY <1>1 DEF Emptied, Handle
  <2>2. hs' = [hs EXCEPT ![h] = Emptied(hs[h])]
    BY <1>6 DEF Delete
  <2> QED BY <1>2, <2>1, <2>2
<1>7. \/ hs' = hs
      \/ \E h \in Handles : Delete(h)
      \/ \E h \in Handles, n \in 0 .. MaxLen : Truncate(h, n)
      \/ \E h \in Handles, k \in 1 .. MaxLen, v \in Vals : Write(h, k, v)
  BY DEF Call, Open, Rename, Flush, Close, Enlarge, Cleanup, ListFiles
<1> QED BY <1>4, <1>5, <1>6, <1>7

LEMMA WorkInos ==
  ASSUME TypeOK, Control, Work
  PROVE  \A b \in Actors : hs'[b].open => InoFrom(b)
<1>1. todo # <<>>
  BY DEF Work, WriteOn, WriteRefused, EnlargeStep, FlushNumber, FlushVersion, WriteZeroPage,
     WriteMeta, WriteMetaFails, ErasePage, Drop, Deleted, FindScan, Visit,
     OpenMissing, OpenFound, OpenTrunc, RemoveOther, RenameSelf, Clean,
     Correct, EraseOutdated, MountDone, Doing
<1>2. /\ hs \in [Actors -> Handle] /\ Tmp \in Actors /\ Handles \subseteq Actors
      /\ Head(todo).h = Actor /\ Actor \in Actors /\ Tmp \notin Handles
  BY <1>1, HeadType, HandleAssumption DEF TypeOK, Actors, Actor
<1> DEFINE h == Actor
           f == hs[h]
<1>3. f \in Handle /\ hs[Tmp] \in Handle
  BY <1>2
<1> HIDE DEF h
<1>4. CASE hs' = hs
  BY <1>4 DEF InoFrom
<1>5. ASSUME NEW a \in Actors, NEW g, hs' = [hs EXCEPT ![a] = g],
             g.open => g.ino = hs[a].ino /\ hs[a].open
      PROVE  \A b \in Actors : hs'[b].open => InoFrom(b)
  BY <1>2, <1>5 DEF InoFrom
<1>6. CASE EnlargeStep
  <2> DEFINE g(page) == [f EXCEPT !.dp = Append(@, [id |-> page, new |-> TRUE])]
             e == [f EXCEPT !.len = Head(todo).k, !.mod = TRUE]
  <2>1. h \in Actors /\ h = Head(todo).h
    BY <1>2 DEF h
  <2>2. \/ hs' = hs
        \/ \E page : hs' = [hs EXCEPT ![h].dp = Append(@, [id |-> page, new |-> TRUE])]
        \/ hs' = [hs EXCEPT ![h].len = Head(todo).k, ![h].mod = TRUE]
    BY <1>6, <2>1 DEF EnlargeStep
  <2>3. \/ hs' = hs
        \/ \E page : hs' = [hs EXCEPT ![h] = g(page)]
        \/ hs' = [hs EXCEPT ![h] = e]
    BY <1>2, <2>1, <2>2
  <2>4. /\ e.ino = hs[h].ino /\ e.open = hs[h].open
        /\ \A page : g(page).ino = hs[h].ino /\ g(page).open = hs[h].open
    BY <1>3 DEF Handle
  <2> HIDE DEF g, e
  <2> QED BY <1>4, <1>5, <2>1, <2>3, <2>4
<1>7. CASE FlushNumber
  <2>1. CASE hs' = hs
    BY <1>4, <2>1
  <2>2. CASE hs' = [hs EXCEPT ![h].ino = maxIno + 1] /\ f.ino = 0
    <3> DEFINE g == [f EXCEPT !.ino = maxIno + 1]
    <3>1. hs' = [hs EXCEPT ![h] = g] /\ g.ino = maxIno + 1 /\ g.open = f.open
      BY <1>2, <1>3, <2>2 DEF Handle, h
    <3> HIDE DEF g
    <3> QED BY <1>2, <2>2, <3>1 DEF InoFrom, h
  <2> QED BY <1>7, <2>1, <2>2 DEF FlushNumber, h
<1>8. CASE FlushVersion
  <2> DEFINE g(page) == [f EXCEPT !.page = page, !.ver = NextVersion(@), !.del = {}]
  <2>1. \/ hs' = hs
        \/ \E page : hs' = [hs EXCEPT ![h].page = page, ![h].ver = NextVersion(@),
                                      ![h].del = {}]
    BY <1>8 DEF FlushVersion, h
  <2>2. h \in Actors
    BY <1>2 DEF h
  <2>3. hs' = hs \/ \E page : hs' = [hs EXCEPT ![h] = g(page)]
    BY <1>2, <2>1, <2>2
  <2>4. \A page : g(page).ino = hs[h].ino /\ g(page).open = hs[h].open
    BY <1>3 DEF Handle
  <2> HIDE DEF g
  <2> QED BY <1>4, <1>5, <2>2, <2>3, <2>4
<1>9. CASE WriteZeroPage
  <2> DEFINE g(k) == [f EXCEPT !.dp[k].new = FALSE]
  <2>1. hs' = hs \/ \E k : hs' = [hs EXCEPT ![h].dp[k].new = FALSE]
    BY <1>9 DEF WriteZeroPage, h
  <2>2. h \in Actors
    BY <1>2 DEF h
  <2>3. hs' = hs \/ \E k : hs' = [hs EXCEPT ![h] = g(k)]
    BY <1>2, <2>1, <2>2
  <2>4. \A k : g(k).ino = hs[h].ino /\ g(k).open = hs[h].open
    BY <1>3 DEF Handle
  <2> HIDE DEF g
  <2> QED BY <1>4, <1>5, <2>2, <2>3, <2>4
<1>10. CASE WriteMeta
  <2>1. hs' = [hs EXCEPT ![h] = [f EXCEPT !.mod = FALSE]]
    BY <1>10 DEF WriteMeta, h
  <2>2. [f EXCEPT !.mod = FALSE].ino = hs[h].ino /\ [f EXCEPT !.mod = FALSE].open = hs[h].open
    BY <1>3 DEF Handle
  <2> QED BY <1>2, <1>5, <2>1, <2>2 DEF h
<1>11. CASE WriteMetaFails \/ ErasePage \/ FindScan \/ Clean \/ EraseOutdated \/ MountDone
  BY <1>4, <1>11 DEF WriteMetaFails, ErasePage, FindScan, Clean, EraseOutdated, MountDone
<1>12. CASE Drop \/ Deleted
  <2>1. hs' = hs \/ hs' = [hs EXCEPT ![h] = NoHandle]
    BY <1>12 DEF Drop, Deleted, h
  <2> QED BY <1>2, <1>4, <1>5, <2>1 DEF NoHandle, h
<1>13. ASSUME NEW p \in ValidPages, hs' = [hs EXCEPT ![Tmp] = Loaded(p)], ~hs[Tmp].open
       PROVE  \A b \in Actors : hs'[b].open => InoFrom(b)
  <2>1. Loaded(p).ino = inodeArea[p].ino
    BY LoadedType DEF TypeOK, ValidPages
  <2> QED BY <1>2, <1>13, <2>1 DEF InoFrom
<1>14. CASE Visit
  <2> DEFINE next == {v \in scan : Matters(v[2], Head(todo).n)}
  <2>1. CASE next = {}
    BY <1>4, <1>14, <2>1 DEF Visit
  <2>2. CASE next # {}
    <3>1. next \in SUBSET (InodePages \X InodePages)
      BY DEF TypeOK
    <3>2. FirstOf(next) \in next
      <4> HIDE DEF next
      <4> QED BY <2>2, <3>1, FirstOfExists
    <3>3. FirstOf(next)[2] \in ValidPages
      BY <3>1, <3>2 DEF Matters, ValidPages
    <3>4. hs' = [hs EXCEPT ![Tmp] = Loaded(FirstOf(next)[2])]
      BY <1>14, <2>2 DEF Visit
    <3>5. Head(todo).t = "visit"
      BY <1>14 DEF Visit, Doing
    <3>6. ~hs[Tmp].open
      BY <1>1, <3>5, TaskPlaces
    <3> HIDE DEF next
    <3> QED BY <1>13, <3>3, <3>4, <3>6
  <2> QED BY <2>1, <2>2
<1>15. CASE Correct
  <2> DEFINE next == {v \in scan : Valid(v[1]) /\ OverLong(inodeArea[v[1]])}
  <2>1. CASE next = {}
    BY <1>4, <1>15, <2>1 DEF Correct
  <2>2. CASE next # {}
    <3>1. next \in SUBSET (InodePages \X InodePages)
      BY DEF TypeOK
    <3>2. FirstOf(next) \in next
      <4> HIDE DEF next
      <4> QED BY <2>2, <3>1, FirstOfExists
    <3>3. FirstOf(next)[1] \in ValidPages
      BY <3>1, <3>2 DEF ValidPages
    <3>4. hs' = [hs EXCEPT ![Tmp] = Loaded(FirstOf(next)[1])]
      BY <1>15, <2>2 DEF Correct
    <3>5. Head(todo).t = "correct"
      BY <1>15 DEF Correct, Doing
    <3>6. ~hs[Tmp].open
      BY <1>1, <3>5, TaskPlaces
    <3> HIDE DEF next
    <3> QED BY <1>13, <3>3, <3>4, <3>6
  <2> QED BY <2>1, <2>2
<1>16. ASSUME NEW t, t \in OpenModes, Head(todo).t = t
       PROVE  h \in Handles /\ ~hs[h].open
  <2>1. PICK n \in Names, g \in Handles :
          (hs[g].open <=> t = "removeOther") /\ todo = <<OnName(t, g, n)>>
    BY <1>1, <1>16, TaskPlaces
  <2>2. Head(todo).h = g
    BY <2>1, Tuples DEF OnName
  <2>3. t # "removeOther"
    BY <1>16 DEF OpenModes
  <2> QED BY <1>2, <2>1, <2>2, <2>3 DEF h
<1>17. ASSUME h \in Handles, ~hs[h].open, NEW g, hs' = hs \/ hs' = [hs EXCEPT ![h] = g]
       PROVE  \A b \in Actors : hs'[b].open => InoFrom(b)
  BY <1>2, <1>17 DEF InoFrom
<1>18. CASE OpenMissing \/ OpenTrunc
  <2>1. h \in Handles /\ ~hs[h].open
    BY <1>16, <1>18 DEF OpenMissing, OpenTrunc, Doing, OpenModes
  <2>2. \E g : hs' = hs \/ hs' = [hs EXCEPT ![h] = g]
    BY <1>18 DEF OpenMissing, OpenTrunc, NewHandle, h, Actor
  <2> QED BY <1>17, <2>1, <2>2
<1>19. CASE OpenFound
  <2>1. h \in Handles /\ ~hs[h].open
    BY <1>16, <1>19 DEF OpenFound, Doing, OpenModes
  <2>2. hs' = [hs EXCEPT ![h] = hs[Tmp], ![Tmp] = NoHandle]
    BY <1>19 DEF OpenFound, h
  <2> QED BY <1>2, <2>1, <2>2 DEF InoFrom, NoHandle
<1>20. CASE RemoveOther
  <2>1. /\ Emptied(hs[Tmp]).ino = hs[Tmp].ino
        /\ Emptied(hs[Tmp]).open = hs[Tmp].open
    BY <1>3 DEF Emptied, Handle
  <2>2. hs' = hs \/ hs' = [hs EXCEPT ![Tmp] = Emptied(hs[Tmp])]
    BY <1>20 DEF RemoveOther
  <2> QED BY <1>2, <1>4, <1>5, <2>1, <2>2
<1>21. CASE RenameSelf
  <2> DEFINE g == [f EXCEPT !.name = Head(todo).n, !.mod = TRUE]
  <2>1. g.ino = hs[h].ino /\ g.open = hs[h].open
    BY <1>3 DEF Handle
  <2>2. hs' = [hs EXCEPT ![h] = g]
    BY <1>2, <1>21 DEF RenameSelf, h
  <2>3. h \in Actors
    BY <1>2 DEF h
  <2> HIDE DEF g
  <2> QED BY <1>5, <2>1, <2>2, <2>3
<1>22. CASE WriteWork
  <2>1. PICK g : Relisted(hs[h], g) /\ hs' = [hs EXCEPT ![h] = g]
    BY <1>2, <1>22, WriteSteps DEF h
  <2> QED BY <1>2, <1>5, <2>1 DEF Relisted, h
<1> QED
  BY <1>22, <1>6, <1>7, <1>8, <1>9, <1>10, <1>11, <1>12, <1>14, <1>15, <1>18, <1>19,
     <1>20, <1>21 DEF Work, WriteWork

\* Where a flush stands: whose it is and what follows it.
FlushRest(a, r) ==
  \/ a \in Handles /\ ~hs[Tmp].open /\ r \in AfterFlush(a)
  \/ a \in Handles /\ r = <<On("flush", Tmp), On("drop", Tmp)>>
  \/ a = Tmp /\ r \in {<<On("drop", Tmp)>>, <<On("drop", Tmp), On("correct", Tmp)>>}
  \/ /\ a = Tmp
     /\ \E h \in Handles, n \in Names, how \in OpenModes \cup {"removeOther"} :
          /\ hs[h].open <=> how = "removeOther"
          /\ r = <<On("drop", Tmp), OnName("visit", Tmp, n), OnName(how, h, n)>>
  \/ /\ a = Tmp
     /\ \E h \in Handles, n \in Names :
          /\ hs[h].open
          /\ r = <<On("deleted", Tmp), OnName("renameSelf", h, n)>>

LEMMA FlushPlaces ==
  ASSUME Control, todo # <<>>, Head(todo).t \in FlushKinds
  PROVE  \/ /\ up = "mounting" /\ AllClosed
            /\ todo = <<On("erase", Tmp), On("mount", Tmp)>>
         \/ /\ up = "up"
            /\ \E r \in Seq(Task) :
                 /\ todo \in Flushing(Head(todo).h, r) /\ todo # r
                 /\ FlushRest(Head(todo).h, r)
<1>1. Tmp \in Actors /\ Handles \subseteq Actors
  BY DEF Actors
<1>2. \A a \in Actors : \A r \in Seq(Task) :
        todo \in Flushing(a, r) /\ todo # r => Head(todo).h = a
  BY FlushingShape
<1>3. ASSUME up = "up", NEW a \in Actors, NEW r \in Seq(Task), todo \in Flushing(a, r),
             todo # r, FlushRest(a, r)
      PROVE  \E s \in Seq(Task) : /\ todo \in Flushing(Head(todo).h, s) /\ todo # s
                                  /\ FlushRest(Head(todo).h, s)
  BY <1>2, <1>3
<1>4. CASE up = "mounting" /\ MountStack /\ AllClosed
  BY <1>4, CallHeads DEF MountStack, FlushKinds
<1>5. CASE up = "up" /\ OwnStack
  <2>1. PICK h \in Handles : \E r \in AfterFlush(h) : todo \in Flushing(h, r)
    BY <1>5, MountTasks, Tuples DEF OwnStack, On, OnSize, FlushKinds
  <2>2. PICK r \in AfterFlush(h) : todo \in Flushing(h, r)
    BY <2>1
  <2>3. r \in Seq(Task) /\ h \in Actors
    BY <1>1, RestTypes
  <2>4. todo # r
    BY Tuples DEF AfterFlush, On, FlushKinds
  <2>5. FlushRest(h, r)
    BY <1>5 DEF OwnStack, FlushRest
  <2> QED BY <1>3, <1>5, <2>2, <2>3, <2>4, <2>5
<1>6. CASE up = "up" /\ SearchStack
  <2>1. ASSUME NEW h \in Handles, NEW n \in Names,
               NEW how \in OpenModes \cup {"removeOther"}
        PROVE  /\ todo # <<OnName("find", Tmp, n), OnName(how, h, n)>>
               /\ todo # <<OnName("visit", Tmp, n), OnName(how, h, n)>>
               /\ todo # <<OnName(how, h, n)>>
    <3>1. how \notin FlushKinds /\ OnName(how, h, n).t = how
      BY DEF OnName, FlushKinds, OpenModes
    <3>2. /\ OnName("find", Tmp, n).t \notin FlushKinds
          /\ OnName("visit", Tmp, n).t \notin FlushKinds
      BY DEF OnName, FlushKinds
    <3> QED BY <3>1, <3>2, Tuples
  <2>2. PICK h \in Handles, n \in Names, how \in OpenModes \cup {"removeOther"} :
          /\ hs[h].open <=> how = "removeOther"
          /\ todo \in Flushing(Tmp, <<On("drop", Tmp), OnName("visit", Tmp, n),
                                      OnName(how, h, n)>>)
    BY <1>6, <2>1 DEF SearchStack
  <2> DEFINE r == <<On("drop", Tmp), OnName("visit", Tmp, n), OnName(how, h, n)>>
  <2>3. r \in Seq(Task)
    BY RestTypes
  <2>4. todo # r
    BY Tuples DEF On, FlushKinds
  <2>5. FlushRest(Tmp, r)
    BY <2>2 DEF FlushRest
  <2>6. todo \in Flushing(Tmp, r)
    BY <2>2
  <2> HIDE DEF r
  <2> QED BY <1>1, <1>3, <1>6, <2>3, <2>4, <2>5, <2>6
<1>7. CASE up = "up" /\ RenameStack
  <2>1. "removeOther" \in OpenModes \cup {"removeOther"}
    OBVIOUS
  <2>2. PICK h \in Handles, n \in Names :
          /\ hs[h].open
          /\ todo \in Flushing(Tmp, <<On("deleted", Tmp), OnName("renameSelf", h, n)>>)
    BY <1>7, Tuples DEF RenameStack, OnName, FlushKinds
  <2> DEFINE r == <<On("deleted", Tmp), OnName("renameSelf", h, n)>>
  <2>3. r \in Seq(Task)
    BY <2>1, RestTypes
  <2>4. todo # r
    BY Tuples DEF On, FlushKinds
  <2>5. FlushRest(Tmp, r)
    BY <2>2 DEF FlushRest
  <2>6. todo \in Flushing(Tmp, r)
    BY <2>2
  <2> HIDE DEF r
  <2> QED BY <1>1, <1>3, <1>7, <2>3, <2>4, <2>5, <2>6
<1>8. CASE up = "up" /\ LastStack
  <2>1. ASSUME NEW r \in {<<On("drop", Tmp)>>, <<On("drop", Tmp), On("correct", Tmp)>>},
               todo \in Flushing(Tmp, r)
        PROVE  \E s \in Seq(Task) : /\ todo \in Flushing(Head(todo).h, s) /\ todo # s
                                    /\ FlushRest(Head(todo).h, s)
    <3>1. todo # r
      BY Tuples DEF On, FlushKinds
    <3>2. r \in Seq(Task)
      BY RestTypes
    <3>3. FlushRest(Tmp, r)
      BY DEF FlushRest
    <3> QED BY <1>1, <1>3, <1>8, <2>1, <3>1, <3>2, <3>3
  <2>2. ASSUME NEW h \in Handles,
               todo \in Flushing(h, <<On("flush", Tmp), On("drop", Tmp)>>)
        PROVE  \E s \in Seq(Task) : /\ todo \in Flushing(Head(todo).h, s) /\ todo # s
                                    /\ FlushRest(Head(todo).h, s)
    <3>1. CASE todo = <<On("flush", Tmp), On("drop", Tmp)>>
      <4>1. todo = <<On("flush", Tmp)>> \o <<On("drop", Tmp)>>
        BY <3>1, Join11
      <4>2. todo \in Flushing(Tmp, <<On("drop", Tmp)>>)
        BY <1>1, <4>1, RestTypes, FlushingTasks
      <4> QED BY <2>1, <4>2
    <3>2. CASE todo # <<On("flush", Tmp), On("drop", Tmp)>>
      <4> DEFINE r == <<On("flush", Tmp), On("drop", Tmp)>>
      <4>1. FlushRest(h, r) /\ r \in Seq(Task) /\ todo # r /\ todo \in Flushing(h, r)
        BY <2>2, <3>2, RestTypes DEF FlushRest
      <4> HIDE DEF r
      <4> QED BY <1>1, <1>3, <1>8, <4>1
    <3> QED BY <3>1, <3>2
  <2> QED BY <1>8, <2>1, <2>2 DEF LastStack
<1> QED BY <1>4, <1>5, <1>6, <1>7, <1>8 DEF Control

LEMMA Second ==
  ASSUME todo \in Seq(Task), Tail(todo) # <<>>, todo # <<>>
  PROVE  todo[2] = Head(Tail(todo)) /\ Len(todo) > 1
OBVIOUS

\* What follows a task that is done.
LEMMA AfterTask ==
  ASSUME Control, todo # <<>>, NEW t, t = Head(todo).t, NEW r, r = Tail(todo),
         NEW a, a = Head(todo).h
  PROVE  /\ t = "zero" => /\ r # <<>> /\ Head(r).h = a
                          /\ Head(r).t \in {"meta", "metaNew"}
         /\ t \in FlushKinds \ {"zero"} =>
              \/ r = <<>>
              \/ Head(r).t \in {"drop", "mount"}
              \/ Head(r).t = "deleted" /\ Head(r).h = a
              \/ r = <<On("flush", Tmp), On("drop", Tmp)>>
         /\ t \notin FlushKinds =>
              r = <<>> \/ Head(r).t \in OpenModes \cup {"removeOther", "visit", "correct", "renameSelf"}
<1> DEFINE Flushed == /\ t = "zero" => /\ r # <<>> /\ Head(r).h = a
                                       /\ Head(r).t \in {"meta", "metaNew"}
                      /\ t \in FlushKinds \ {"zero"} =>
                           \/ r = <<>>
                           \/ Head(r).t \in {"drop", "mount"}
                           \/ Head(r).t = "deleted" /\ Head(r).h = a
                           \/ r = <<On("flush", Tmp), On("drop", Tmp)>>
<1> HIDE DEF Flushed
<1>1. ASSUME NEW s \in Seq(Task), todo \in Flushing(a, s), todo # s, FlushRest(a, s)
      PROVE  Flushed
  <2>1. a \in Actors
    BY <1>1 DEF FlushRest, Actors
  <2>2. \/ t \in {"flush", "meta", "metaNew", "erase"} /\ r = s
        \/ t = "zero" /\ (r = <<On("meta", a)>> \o s \/ r = <<On("metaNew", a)>> \o s)
    BY <1>1, <2>1, FlushingShape
  <2>3. CASE t = "zero"
    <3>1. On("meta", a) \in Task /\ On("metaNew", a) \in Task
      BY <2>1, FlushingTasks DEF TaskKinds
    <3>2. /\ <<On("meta", a)>> \o s # <<>> /\ Head(<<On("meta", a)>> \o s) = On("meta", a)
          /\ <<On("metaNew", a)>> \o s # <<>>
          /\ Head(<<On("metaNew", a)>> \o s) = On("metaNew", a)
      BY <1>1, <3>1, Stacks
    <3>3. /\ On("meta", a).t = "meta" /\ On("metaNew", a).t = "metaNew"
          /\ On("meta", a).h = a /\ On("metaNew", a).h = a
      BY DEF On
    <3>4. \/ r # <<>> /\ Head(r) = On("meta", a)
          \/ r # <<>> /\ Head(r) = On("metaNew", a)
      BY <2>2, <2>3, <3>2
    <3> QED BY <2>3, <3>3, <3>4 DEF Flushed
  <2>4. CASE r = s /\ t # "zero"
    <3>1. \A k, x : On(k, x).t = k /\ On(k, x).h = x
      BY DEF On
    <3>2. ASSUME r \in AfterFlush(a)
          PROVE  Flushed
      <4>1. /\ r = <<On("drop", a)>> => Head(r).t = "drop"
            /\ r = <<On("deleted", a)>> => Head(r).t = "deleted" /\ Head(r).h = a
        <5>1. /\ r = <<On("drop", a)>> => Head(r) = On("drop", a)
              /\ r = <<On("deleted", a)>> => Head(r) = On("deleted", a)
          BY Tuple1
        <5> QED BY <3>1, <5>1
      <4> QED BY <2>4, <3>2, <4>1 DEF AfterFlush, Flushed
    <3>3. CASE r = <<On("flush", Tmp), On("drop", Tmp)>>
      BY <2>4, <3>3 DEF Flushed
    <3>4. ASSUME r \in {<<On("drop", Tmp)>>, <<On("drop", Tmp), On("correct", Tmp)>>}
          PROVE  Flushed
      <4>1. Head(r).t = "drop"
        BY <3>4, CallHeads
      <4> QED BY <2>4, <4>1 DEF Flushed
    <3>5. ASSUME NEW y, NEW z, r = <<On("drop", Tmp), y, z>>
          PROVE  Flushed
      BY <2>4, <3>1, <3>5, Tuple1, Tuple2, Tuple3 DEF Flushed
    <3>6. ASSUME NEW y, r = <<On("deleted", Tmp), y>>
          PROVE  a = Tmp => Flushed
      BY <2>4, <3>1, <3>6, Tuple1, Tuple2, Tuple3 DEF Flushed
    <3>7. \/ r \in AfterFlush(a)
          \/ r = <<On("flush", Tmp), On("drop", Tmp)>>
          \/ a = Tmp /\ r \in {<<On("drop", Tmp)>>, <<On("drop", Tmp), On("correct", Tmp)>>}
          \/ \E y, z : r = <<On("drop", Tmp), y, z>>
          \/ a = Tmp /\ \E y : r = <<On("deleted", Tmp), y>>
      BY <1>1, <2>4 DEF FlushRest
    <3> QED BY <2>4, <3>2, <3>3, <3>4, <3>5, <3>6, <3>7
  <2> QED BY <2>2, <2>3, <2>4
<1>2. CASE t \in FlushKinds
  <2>1. ASSUME todo = <<On("erase", Tmp), On("mount", Tmp)>>
        PROVE  Flushed
    <3>1. Head(todo) = On("erase", Tmp) /\ Tail(todo) = <<On("mount", Tmp)>>
      BY <2>1, Tuple1, Tuple2, Tuple3
    <3>2. Head(<<On("mount", Tmp)>>).t = "mount" /\ On("erase", Tmp).t = "erase"
      BY CallHeads DEF On
    <3> QED BY <3>1, <3>2 DEF Flushed, FlushKinds
  <2> QED BY <1>1, <1>2, <2>1, FlushPlaces DEF FlushKinds, Flushed
<1>3. CASE t \notin FlushKinds
  <2> DEFINE Next1 == r = <<>> \/ Head(r).t \in OpenModes \cup {"removeOther", "visit", "correct", "renameSelf"}
  <2>1. ASSUME NEW x, todo = <<x>> PROVE Next1
    BY <2>1, Tuple1, Tuple2, Tuple3
  <2>2. ASSUME NEW x, NEW y, todo = <<x, y>>,
               y.t \in OpenModes \cup {"removeOther", "visit", "correct", "renameSelf"}
        PROVE  Next1
    BY <2>2, Tuple1, Tuple2, Tuple3
  <2>3. ASSUME NEW x, NEW y, NEW z, todo = <<x, y, z>>, y.t = "visit" PROVE Next1
    BY <2>3, Tuple1, Tuple2, Tuple3
  <2>4. /\ \A k, x : On(k, x).t = k
        /\ \A k, x, n : OnName(k, x, n).t = k
    BY DEF On, OnName
  <2> HIDE DEF Next1
  <2>5. ASSUME /\ up = "up" /\ ~hs[Tmp].open
             /\ \/ todo \in {<<On("clean", Tmp), On("correct", Tmp)>>, <<On("correct", Tmp)>>}
                \/ \E h \in Handles, how \in {"write", "grow", "seek"}, k \in 0 .. MaxLen :
                     todo = <<OnSize(how, h, k)>>
                \/ \E h \in Handles : todo \in {<<On("drop", h)>>, <<On("deleted", h)>>}
       PROVE  Next1
    BY <2>1, <2>2, <2>4, <2>5
  <2>6. ASSUME \E h \in Handles, n \in Names, how \in OpenModes \cup {"removeOther"} :
               \/ todo \in {<<OnName("find", Tmp, n), OnName(how, h, n)>>,
                            <<OnName("visit", Tmp, n), OnName(how, h, n)>>}
               \/ todo = <<OnName(how, h, n)>>
               \/ todo = <<On("drop", Tmp), OnName("visit", Tmp, n), OnName(how, h, n)>>
       PROVE  Next1
    BY <2>1, <2>2, <2>3, <2>4, <2>6
  <2>7. ASSUME \E h \in Handles, n \in Names :
               todo \in {<<On("deleted", Tmp), OnName("renameSelf", h, n)>>,
                        <<OnName("renameSelf", h, n)>>}
       PROVE  Next1
    BY <2>1, <2>2, <2>4, <2>7
  <2>8. ASSUME \/ todo \in {<<On("drop", Tmp)>>, <<On("drop", Tmp), On("correct", Tmp)>>}
             \/ todo = <<On("mount", Tmp)>>
       PROVE  Next1
    BY <2>1, <2>2, <2>4, <2>8
  <2>9. Next1
    BY <1>3, <2>5, <2>6, <2>7, <2>8, OtherTasks
  <2> QED BY <1>3, <2>9 DEF Next1, FlushKinds
<1> QED BY <1>2, <1>3

LEMMA ThenHead ==
  ASSUME todo \in Seq(Task), todo # <<>>, NEW ts \in Seq(Task), ts # <<>>, Then(ts)
  PROVE  todo' # <<>> /\ Head(todo') = Head(ts) /\ todo' \in Seq(Task)
<1>1. Tail(todo) \in Seq(Task)
  BY HeadTailProperties
<1>2. todo' = ts \o Tail(todo)
  BY DEF Then
<1> QED BY <1>1, <1>2

\* The list after a step of a running call.
LEMMA WorkTodo ==
  ASSUME TypeOK, Work
  PROVE  /\ todo # <<>> /\ todo \in Seq(Task)
         /\ \/ todo' = todo
            \/ todo' = Tail(todo)
            \/ FlushNumber /\ todo' = <<On("zero", Actor), On("metaNew", Actor)>> \o Tail(todo)
            \/ FlushVersion /\ todo' = <<On("zero", Actor), On("meta", Actor)>> \o Tail(todo)
            \/ todo' = <<>>
            \/ /\ todo' # <<>>
               /\ Head(todo').t \in {"erase", "visit", "flush", "renameSelf", "write"}
<1>1. todo # <<>> /\ todo \in Seq(Task)
  BY DEF Work, WriteOn, WriteRefused, EnlargeStep, FlushNumber, FlushVersion, WriteZeroPage,
     WriteMeta, WriteMetaFails, ErasePage, Drop, Deleted, FindScan, Visit,
     OpenMissing, OpenFound, OpenTrunc, RemoveOther, RenameSelf, Clean,
     Correct, EraseOutdated, MountDone, Doing, TypeOK
<1>2. Head(todo) \in Task /\ Actor \in Actors /\ Head(todo).h \in Actors
      /\ Head(todo).n \in FileNames /\ Tmp \in Actors
  BY <1>1, HeadType DEF Actors
<1>3. ASSUME NEW ts \in Seq(Task), ts # <<>>, Then(ts),
             Head(ts).t \in {"erase", "visit", "flush", "renameSelf"}
      PROVE  todo' # <<>> /\ Head(todo').t \in {"erase", "visit", "flush", "renameSelf"}
  BY <1>1, <1>3, ThenHead
<1>4. \A t \in TaskKinds : \A x \in Actors : \A n \in FileNames :
        On(t, x) \in Task /\ OnName(t, x, n) \in Task
  <2>1. 0 \in Nat
    OBVIOUS
  <2> QED BY <2>1, TaskTypes
<1>5. /\ \A t, x : On(t, x).t = t
      /\ \A t, x, n : OnName(t, x, n).t = t
  BY DEF On, OnName
<1>6. {"erase", "visit", "flush", "renameSelf", "drop", "deleted"} \subseteq TaskKinds
  BY DEF TaskKinds
<1> DEFINE Starts == todo' # <<>> /\ Head(todo').t \in {"erase", "visit", "flush", "renameSelf"}
<1> HIDE DEF Starts
<1>7. CASE Then(<<>>)
  BY <1>1, <1>7, Popped
<1>8. CASE todo' = todo
  BY <1>1, <1>8
<1>9. CASE FlushNumber \/ FlushVersion
  BY <1>1, <1>7, <1>9 DEF FlushNumber, FlushVersion, Then
<1>10. ASSUME NEW x \in Task, Then(<<x>>), x.t \in {"erase", "visit", "flush", "renameSelf"}
       PROVE  Starts
  <2>1. <<x>> \in Seq(Task) /\ <<x>> # <<>> /\ Head(<<x>>) = x
    OBVIOUS
  <2> QED BY <1>3, <1>10, <2>1 DEF Starts
<1>11. ASSUME NEW x \in Task, NEW y \in Task, Then(<<x, y>>),
              x.t \in {"erase", "visit", "flush", "renameSelf"}
       PROVE  Starts
  <2>1. <<x, y>> \in Seq(Task) /\ <<x, y>> # <<>> /\ Head(<<x, y>>) = x
    OBVIOUS
  <2> QED BY <1>3, <1>11, <2>1 DEF Starts
<1>12. ASSUME NEW x \in Task, NEW y \in Task, NEW z \in Task, Then(<<x, y, z>>),
              x.t \in {"erase", "visit", "flush", "renameSelf"}
       PROVE  Starts
  <2>1. <<x, y, z>> \in Seq(Task) /\ <<x, y, z>> # <<>> /\ Head(<<x, y, z>>) = x
    OBVIOUS
  <2> QED BY <1>3, <1>12, <2>1 DEF Starts
<1>13. ASSUME NEW x \in Task, NEW y \in Task, todo' = <<x, y>> \o todo,
              x.t \in {"erase", "visit", "flush", "renameSelf"}
       PROVE  Starts
  <2>1. todo' # <<>> /\ Head(todo') = x
    BY <1>1, <1>13
  <2> QED BY <1>13, <2>1 DEF Starts
<1>14. CASE EnlargeStep
  <2>1. todo' = todo \/ todo' = Tail(todo)
    BY <1>14 DEF EnlargeStep
  <2> QED BY <1>1, <2>1
<1>15. CASE WriteMeta
  BY <1>2, <1>4, <1>5, <1>6, <1>7, <1>10, <1>1, <1>15 DEF WriteMeta, Starts
<1>16. CASE FindScan
  BY <1>1, <1>2, <1>4, <1>5, <1>6, <1>10, <1>16 DEF FindScan, Starts
<1>17. CASE Visit \/ Correct
  <2>1. Then(<<>>) \/ todo' = <<On("flush", Tmp), On("drop", Tmp)>> \o todo
    BY <1>17 DEF Visit, Correct
  <2> QED BY <1>1, <1>2, <1>4, <1>5, <1>6, <1>7, <1>13, <2>1 DEF Starts
<1>18. CASE OpenTrunc
  BY <1>1, <1>2, <1>4, <1>5, <1>6, <1>11, <1>18 DEF OpenTrunc, Starts
<1>19. CASE RemoveOther
  <2> DEFINE self == OnName("renameSelf", Head(todo).h, Head(todo).n)
  <2>1. Then(<<self>>) \/ Then(<<On("flush", Tmp), On("deleted", Tmp)>> \o <<self>>)
    BY <1>19 DEF RemoveOther
  <2>2. self \in Task /\ self.t = "renameSelf"
    BY <1>2, <1>4, <1>5, <1>6
  <2> HIDE DEF self
  <2>3. <<On("flush", Tmp), On("deleted", Tmp)>> \o <<self>>
          = <<On("flush", Tmp), On("deleted", Tmp), self>>
    BY Join21
  <2>4. CASE Then(<<self>>)
    BY <1>1, <1>10, <2>2, <2>4 DEF Starts
  <2>5. CASE Then(<<On("flush", Tmp), On("deleted", Tmp), self>>)
    <3>1. On("flush", Tmp) \in Task /\ On("deleted", Tmp) \in Task /\ On("flush", Tmp).t = "flush"
      BY <1>2, <1>4, <1>5, <1>6
    <3> QED BY <1>1, <1>12, <2>2, <2>5, <3>1 DEF Starts
  <2> QED BY <2>1, <2>3, <2>4, <2>5
<1>20. CASE RenameSelf
  <2>1. Then(<<On("flush", Head(todo).h), On("flush", Tmp), On("drop", Tmp)>>)
    BY <1>20 DEF RenameSelf
  <2> QED BY <1>1, <1>2, <1>4, <1>5, <1>6, <1>12, <2>1 DEF Starts
<1>21. CASE EraseOutdated
  <2>1. On("erase", Tmp) \in Task /\ todo' = <<On("erase", Tmp)>> \o todo
    BY <1>2, <1>4, <1>6, <1>21 DEF EraseOutdated
  <2>2. todo' # <<>> /\ Head(todo') = On("erase", Tmp)
    BY <1>1, <2>1, Stacks
  <2> QED BY <1>1, <1>5, <2>2
<1>22. CASE WriteZeroPage \/ WriteMetaFails \/ ErasePage \/ Drop \/ Deleted \/ OpenMissing
            \/ OpenFound \/ Clean \/ MountDone
  <2>1. Then(<<>>) \/ todo' = todo
    BY <1>22 DEF WriteZeroPage, WriteMetaFails, ErasePage, Drop, Deleted, OpenMissing,
                 OpenFound, Clean, MountDone
  <2> QED BY <1>7, <1>8, <2>1
<1>23. CASE WriteWork
  <2>1. \/ todo' = <<>>
        \/ \E h, k : todo' = <<OnSize("write", h, k)>>
    BY <1>23, WriteSteps
  <2>2. \A h, k : /\ Head(<<OnSize("write", h, k)>>) = OnSize("write", h, k)
                  /\ OnSize("write", h, k).t = "write"
    BY Tuple1 DEF OnSize
  <2> QED BY <1>1, <2>1, <2>2
<1> QED
  BY <1>23, <1>9, <1>14, <1>15, <1>16, <1>17, <1>18, <1>19, <1>20, <1>21, <1>22 DEF Work, WriteWork

\* A flush that has to be written comes from a flush that is running.
LEMMA CommittingSteps ==
  ASSUME TypeOK, Control, [Next]_vars, NEW a \in Actors, Committing(a)'
  PROVE  \/ Committing(a) /\ hs'[a].ino = hs[a].ino
         \/ Doing("flush") /\ Actor = a /\ hs'[a].ino \in {hs[a].ino, maxIno + 1} \ {0}
<1>1. todo' # <<>> /\ Head(todo').t \in {"zero", "meta", "metaNew"} /\ Head(todo').h = a
  BY DEF Committing
<1>2. CASE Call
  <2>1. todo' = <<>> \/ \E x, y : todo' \in {<<x>>, <<x, y>>}
                                  /\ x.t \in {"find", "flush", "write", "grow", "seek", "clean", "correct"}
    <3>1. /\ \A k, x : On(k, x).t = k
          /\ \A k, x, n : OnName(k, x, n).t = k
          /\ \A k, x, n : OnSize(k, x, n).t = k
      BY DEF On, OnName, OnSize
    <3>2. \A n, mode : \A h \in Handles : Open(h, n, mode) \/ Rename(h, n) =>
            \E y : todo' = <<OnName("find", Tmp, n), y>>
      BY DEF Open, Rename, Start
    <3>3. \A h : Flush(h) \/ Close(h) \/ Delete(h) =>
            \E y : todo' \in {<<On("flush", h)>>, <<On("flush", h), y>>}
      BY DEF Flush, Close, Delete, Start
    <3>4. \A h \in Handles, k \in 1 .. MaxLen, v \in Vals : Write(h, k, v) =>
            todo' = <<>> \/ todo' = <<OnSize("write", h, k + 1)>>
      <4>1. Handles \subseteq Actors /\ 1 .. MaxLen \subseteq Nat
        BY BoundAssumption DEF Actors
      <4> QED BY <4>1, PageWritten DEF Write
    <3>5. \A h, n : /\ Truncate(h, n) => todo' = todo
                    /\ Enlarge(h, n, "grow") => todo' = <<OnSize("grow", h, n)>>
                    /\ Enlarge(h, n, "seek") => todo' = <<OnSize("seek", h, n)>>
      BY DEF Truncate, Enlarge, Start
    <3>6. Cleanup \/ ListFiles => \/ \E y : todo' = <<On("clean", Tmp), y>>
                                  \/ todo' = <<On("correct", Tmp)>>
      BY DEF Cleanup, ListFiles, Start
    <3>7. todo = <<>>
      BY <1>2, CallIdle
    <3>8. ASSUME NEW h \in Handles, NEW k \in 1 .. MaxLen, NEW v \in Vals, Write(h, k, v)
          PROVE  todo' = <<>> \/ \E x : todo' = <<x>> /\ x.t = "write"
      BY <3>1, <3>4, <3>8
    <3>9. CASE \E h \in Handles, k \in 1 .. MaxLen, v \in Vals : Write(h, k, v)
      BY <3>8, <3>9
    <3>10. CASE ~\E h \in Handles, k \in 1 .. MaxLen, v \in Vals : Write(h, k, v)
      BY <1>2, <3>1, <3>2, <3>3, <3>5, <3>6, <3>7, <3>10 DEF Call
    <3> QED BY <3>9, <3>10
  <2> QED BY <1>1, <2>1, Tuple1, Tuple2
<1>3. CASE Work
  <2>1. /\ todo # <<>> /\ todo \in Seq(Task)
        /\ \/ todo' = todo
           \/ todo' = Tail(todo)
           \/ FlushNumber /\ todo' = <<On("zero", Actor), On("metaNew", Actor)>> \o Tail(todo)
           \/ FlushVersion /\ todo' = <<On("zero", Actor), On("meta", Actor)>> \o Tail(todo)
    BY <1>1, <1>3, WorkTodo
  <2>2. /\ Actor \in Actors /\ hs \in [Actors -> Handle] /\ maxIno \in Nat
        /\ Tail(todo) \in Seq(Task) /\ Actor = Head(todo).h
    BY <2>1, HeadType, HeadTailProperties DEF TypeOK, Actor
  <2>3. CASE todo' = todo \/ todo' = Tail(todo)
    <3>1. Head(todo).t \in {"zero", "meta", "metaNew"} /\ Actor = a
      <4>1. CASE todo' = todo
        BY <1>1, <4>1 DEF Actor
      <4>2. CASE todo' = Tail(todo)
        <5>1. Head(todo).t = "zero" /\ Head(Tail(todo)).h = Head(todo).h
          <6>1. Head(<<On("flush", Tmp), On("drop", Tmp)>>).t = "flush"
            BY Tuple2 DEF On
          <6> QED BY <1>1, <2>1, <4>2, <6>1, AfterTask DEF FlushKinds, OpenModes
        <5> QED BY <1>1, <4>2, <5>1 DEF Actor
      <4> QED BY <2>3, <4>1, <4>2
    <3>2. Committing(a)
      BY <2>1, <2>2, <3>1 DEF Committing
    <3>3. WriteZeroPage \/ WriteMeta \/ WriteMetaFails
      BY <1>3, <3>1 DEF Work, WriteOn, WriteRefused, EnlargeStep, FlushNumber, FlushVersion, ErasePage, Drop,
         Deleted, FindScan, Visit, OpenMissing, OpenFound, OpenTrunc, RemoveOther,
         RenameSelf, Clean, Correct, EraseOutdated, MountDone, Doing
    <3>4. hs'[a].ino = hs[a].ino
      <4> DEFINE f == hs[a]
      <4>1. f \in Handle
        BY <2>2
      <4>2. \/ hs' = hs
            \/ \E k : hs' = [hs EXCEPT ![a] = [f EXCEPT !.dp[k].new = FALSE]]
            \/ hs' = [hs EXCEPT ![a] = [f EXCEPT !.mod = FALSE]]
        BY <2>2, <3>1, <3>3 DEF WriteZeroPage, WriteMeta, WriteMetaFails
      <4>3. /\ \A k : [f EXCEPT !.dp[k].new = FALSE].ino = f.ino
            /\ [f EXCEPT !.mod = FALSE].ino = f.ino
        BY <4>1 DEF Handle
      <4> QED BY <2>2, <4>2, <4>3, ZenonT(40)
    <3> QED BY <3>2, <3>4
  <2>4. ASSUME NEW t \in {"meta", "metaNew"}, FlushNumber \/ FlushVersion,
               todo' = <<On("zero", Actor), On(t, Actor)>> \o Tail(todo),
               hs'[Actor].ino \in {hs[Actor].ino, maxIno + 1} \ {0}
        PROVE  Doing("flush") /\ Actor = a /\ hs'[a].ino \in {hs[a].ino, maxIno + 1} \ {0}
    <3>1. On("zero", Actor) \in Task /\ On(t, Actor) \in Task
      BY <2>2, FlushingTasks, ZenonT(40) DEF TaskKinds
    <3>2. Head(todo') = On("zero", Actor)
      BY <2>2, <2>4, <3>1, Stacks
    <3>3. On("zero", Actor).h = Actor
      BY DEF On
    <3>4. Actor = a
      BY <1>1, <3>2, <3>3
    <3>5. Doing("flush")
      BY <2>4 DEF FlushNumber, FlushVersion
    <3> QED BY <2>4, <3>4, <3>5
  <2>5. CASE FlushNumber /\ todo' = <<On("zero", Actor), On("metaNew", Actor)>> \o Tail(todo)
    <3>1. hs' = [hs EXCEPT ![Actor].ino = maxIno + 1]
      <4>1. CASE Then(<<>>)
        <5>1. Tail(todo) = <<On("zero", Actor), On("metaNew", Actor)>> \o Tail(todo)
          BY <2>1, <2>5, <4>1, Popped
        <5>2. On("zero", Actor) \in Task /\ On("metaNew", Actor) \in Task
          BY <2>2, FlushingTasks DEF TaskKinds
        <5>3. \A r \in Seq(Task) : Len(<<On("zero", Actor), On("metaNew", Actor)>> \o r) = Len(r) + 2
                                   /\ Len(r) \in Nat
          <6> DEFINE s == <<On("zero", Actor), On("metaNew", Actor)>>
          <6>1. s \in Seq(Task) /\ Len(s) = 2
            BY <5>2
          <6> HIDE DEF s
          <6> QED BY <6>1, ConcatProperties, LenProperties
        <5>4. Len(Tail(todo)) = Len(Tail(todo)) + 2 /\ Len(Tail(todo)) \in Nat
          BY <2>2, <5>1, <5>3
        <5> QED BY <5>4
      <4> QED BY <2>5, <4>1 DEF FlushNumber
    <3>2. hs'[Actor].ino = maxIno + 1
      BY <2>2, <3>1 DEF Handle
    <3> QED BY <2>2, <2>4, <2>5, <3>2
  <2>6. CASE FlushVersion /\ todo' = <<On("zero", Actor), On("meta", Actor)>> \o Tail(todo)
    <3>1. \/ hs' = hs
          \/ \E page : hs' = [hs EXCEPT ![Actor].page = page, ![Actor].ver = NextVersion(@),
                                        ![Actor].del = {}]
      BY <2>6 DEF FlushVersion
    <3>2. hs'[Actor].ino = hs[Actor].ino
      <4> DEFINE x == Actor
                 f == hs[x]
                 g(page) == [f EXCEPT !.page = page, !.ver = NextVersion(@), !.del = {}]
      <4>1. x \in Actors /\ f \in Handle
        BY <2>2
      <4>4. \/ hs' = hs
            \/ \E page : hs' = [hs EXCEPT ![x].page = page, ![x].ver = NextVersion(@),
                                          ![x].del = {}]
        BY <3>1
      <4> HIDE DEF x
      <4>2. hs' = hs \/ \E page : hs' = [hs EXCEPT ![x] = g(page)]
        BY <2>2, <4>1, <4>4
      <4>3. \A page : g(page).ino = f.ino
        BY <4>1 DEF Handle
      <4> HIDE DEF g
      <4> QED BY <2>2, <4>1, <4>2, <4>3 DEF x
    <3>3. hs[Actor].ino # 0
      BY <2>6 DEF FlushVersion
    <3> QED BY <2>4, <2>6, <3>2, <3>3
  <2> QED BY <2>1, <2>3, <2>5, <2>6
<1>4. CASE PowerLoss
  BY <1>1, <1>4 DEF PowerLoss
<1>5. CASE MountScan
  <2>1. todo' = <<On("mount", Tmp)>>
    BY <1>5 DEF MountScan
  <2> QED BY <1>1, <2>1, Tuple1 DEF On
<1>6. CASE UNCHANGED vars
  BY <1>6 DEF vars, Committing
<1> QED BY <1>2, <1>3, <1>4, <1>5, <1>6 DEF Next

(***************************************************************************)
(* Every number in use is a number that was handed out.                    *)
(***************************************************************************)
LEMMA InoSteps ==
  ASSUME TypeOK, PoweredOff, Control, [Next]_vars, NEW b \in Actors, hs'[b].open
  PROVE  InoFrom(b)
<1>1. CASE Call
  BY <1>1, CallInos DEF InoFrom
<1>2. CASE Work
  BY <1>2, WorkInos
<1>3. CASE PowerLoss
  BY <1>3 DEF PowerLoss, NoHandle
<1>4. CASE MountScan \/ UNCHANGED vars
  BY <1>4 DEF MountScan, vars, InoFrom
<1> QED BY <1>1, <1>2, <1>3, <1>4 DEF Next

LEMMA NumberedNext ==
  ASSUME NumbersInv, Control, Numbered, [Next]_vars
  PROVE  Numbered'
<1>1. TypeOK /\ TypeOK' /\ PoweredOff /\ Tmp \in Actors /\ Tmp \notin Handles /\ maxIno \in Nat
  BY NextType, HandleAssumption DEF NumbersInv, Actors, TypeOK
<1>2. ASSUME NEW a \in Actors, Committing(a)'
      PROVE  hs'[a].ino # 0
  BY <1>1, <1>2, CommittingSteps DEF Numbered
<1>3. ASSUME hs'[Tmp].open
      PROVE  hs'[Tmp].ino # 0
  BY <1>1, <1>3, InoSteps DEF InoFrom, Numbered
<1>4. ASSUME NEW p \in ValidPages'
      PROVE  inodeArea'[p].ino # 0
  <2>1. p \in InodePages /\ inodeArea'[p] \notin {Blank, Torn}
    BY DEF ValidPages, Valid
  <2>2. CASE inodeArea'[p] = inodeArea[p]
    BY <2>1, <2>2 DEF Numbered, ValidPages, Valid
  <2>3. CASE inodeArea'[p] # inodeArea[p]
    <3>1. /\ WriteMeta
          /\ inodeArea' = [inodeArea EXCEPT ![hs[Actor].page] = Serialised(hs[Actor])]
      <4>1. inodeArea \in [InodePages -> Inode \cup {Blank, Torn}]
        BY <1>1 DEF TypeOK
      <4>2. CASE Call
        BY <2>3, <4>2, CallFrame
      <4>3. CASE Work
        <5>1. CASE WriteMetaFails \/ ErasePage \/ Clean
          <6>1. \/ inodeArea' = inodeArea
                \/ \E q : inodeArea' = [inodeArea EXCEPT ![q] = Torn]
                \/ \E q : inodeArea' = [inodeArea EXCEPT ![q] = Blank]
            BY <5>1 DEF WriteMetaFails, ErasePage, Clean, flash
          <6> QED BY <2>1, <2>3, <4>1, <6>1
        <5>2. CASE WriteMeta
          BY <5>2 DEF WriteMeta
        <5>4. WriteWork => inodeArea' = inodeArea
          BY <1>1, WriteSteps
        <5>3. \/ WriteMetaFails \/ ErasePage \/ Clean \/ WriteMeta \/ inodeArea' = inodeArea
          BY <4>3, <5>4 DEF Work, WriteWork, EnlargeStep, FlushNumber, FlushVersion, WriteZeroPage, Drop,
             Deleted, FindScan, Visit, OpenMissing, OpenFound, OpenTrunc, RemoveOther,
             RenameSelf, Correct, EraseOutdated, MountDone, flash
        <5> QED BY <2>3, <5>1, <5>2, <5>3
      <4>4. CASE PowerLoss
        <5>1. inodeArea' = inodeArea \/ \E q : inodeArea' = [inodeArea EXCEPT ![q] = Torn]
          BY <4>4 DEF PowerLoss
        <5> QED BY <2>1, <2>3, <4>1, <5>1
      <4>5. CASE MountScan \/ UNCHANGED vars
        BY <2>3, <4>5 DEF MountScan, flash, vars
      <4> QED BY <4>2, <4>3, <4>4, <4>5 DEF Next
    <3>2. inodeArea'[p] = Serialised(hs[Actor])
      BY <1>1, <2>1, <2>3, <3>1 DEF TypeOK
    <3>3. Actor \in Actors /\ Committing(Actor)
      <4>1. todo # <<>> /\ Head(todo).t \in {"meta", "metaNew"}
        BY <3>1 DEF WriteMeta, Doing
      <4> QED BY <1>1, <4>1, HeadType DEF TypeOK, Committing, Actor
    <3> QED BY <3>2, <3>3 DEF Numbered, Serialised
  <2> QED BY <2>2, <2>3
<1> QED BY <1>2, <1>3, <1>4 DEF Numbered

\* What every instance keeps: the types, the numbers, the list of tasks.
BaseInv == NumbersInv /\ Control /\ Numbered

LEMMA BaseInit == Init => BaseInv
<1> SUFFICES ASSUME Init PROVE BaseInv
  OBVIOUS
<1>1. Control
  BY DEF Init, Control, OwnStack, NoHandle, Actors
<1>2. Numbered
  BY DEF Init, Numbered, ValidPages, Valid, Committing, NoHandle, Actors
<1> QED BY <1>1, <1>2, NumbersInit DEF BaseInv

LEMMA BaseNext == BaseInv /\ [Next]_vars => BaseInv'
<1> SUFFICES ASSUME BaseInv, [Next]_vars PROVE BaseInv'
  OBVIOUS
<1> QED BY NumbersNext, ControlNext, NumberedNext DEF BaseInv, NumbersInv

LEMMA BaseAlways == Spec => []BaseInv
BY BaseInit, BaseNext, PTL DEF Spec

\* The number that flush() gives to a new file is on no inode page and in no
\* other handle, whatever was deleted, cleaned up or lost before: a file is
\* never written as a version of another one.
THEOREM NumbersAreFresh == Spec => FreshNumbers
<1> DEFINE Fresh ==
      \A h \in Actors :
        hs[h].open /\ hs[h].ino = 0 /\ hs'[h].open /\ hs'[h].ino # 0 =>
          /\ \A p \in ValidPages : inodeArea[p].ino # hs'[h].ino
          /\ \A g \in Actors \ {h} : hs[g].ino # hs'[h].ino
<1>1. ASSUME BaseInv, [Next]_vars
      PROVE  [Fresh]_vars
  <2>1. ASSUME NEW h \in Actors, hs[h].open, hs[h].ino = 0, hs'[h].open, hs'[h].ino # 0
        PROVE  /\ \A p \in ValidPages : inodeArea[p].ino # hs'[h].ino
               /\ \A g \in Actors \ {h} : hs[g].ino # hs'[h].ino
    <3>1. hs'[h].ino = maxIno + 1 /\ up # "off"
      <4>1. InoFrom(h)
        BY <1>1, <2>1, InoSteps DEF BaseInv, NumbersInv
      <4>2. up # "off"
        BY <1>1, <2>1 DEF BaseInv, Control, AllClosed
      <4> QED BY <2>1, <4>1, <4>2 DEF InoFrom
    <3>2. /\ \A p \in ValidPages : inodeArea[p].ino <= maxIno /\ inodeArea[p].ino \in Nat
          /\ \A g \in Actors : hs[g].ino <= maxIno /\ hs[g].ino \in Nat
          /\ maxIno \in Nat
      BY <1>1, <3>1 DEF BaseInv, NumbersInv, NumbersBounded, TypeOK, ValidPages, Valid,
                        Inode, Handle
    <3> QED BY <3>1, <3>2
  <2> QED BY <2>1
<1> QED BY <1>1, BaseAlways, PTL DEF Spec, FreshNumbers

(***************************************************************************)
(* Mounting.                                                               *)
(***************************************************************************)
AllFree == up = "mounting" => freeData = DataPages

LEMMA AllFreeNext == BaseInv /\ AllFree /\ [Next]_vars => AllFree'
<1> SUFFICES ASSUME BaseInv, AllFree, [Next]_vars, up' = "mounting"
             PROVE  freeData' = DataPages
  BY DEF AllFree
<1>1. TypeOK /\ Control
  BY DEF BaseInv, NumbersInv
<1>2. CASE Call
  BY <1>2, CallFrame
<1>3. CASE PowerLoss \/ MountScan \/ UNCHANGED vars
  BY <1>3 DEF PowerLoss, MountScan, vars, AllFree
<1>4. CASE Work
  <2>1. todo # <<>>
    BY <1>1, <1>4, WorkTodo
  <2>2. up = "mounting" /\ Head(todo).t \in {"erase", "mount"}
    <3>1. up = "mounting"
      <4>1. CASE WriteWork
        BY <1>1, <4>1, WriteSteps
      <4> QED
        BY <1>1, <1>4, <4>1 DEF Work, WriteWork, EnlargeStep, FlushNumber, FlushVersion, WriteZeroPage,
         WriteMeta, WriteMetaFails, ErasePage, Drop, Deleted, FindScan, Visit,
         OpenMissing, OpenFound, OpenTrunc, RemoveOther, RenameSelf, Clean,
         Correct, EraseOutdated, MountDone, flash
    <3>2. MountStack
      BY <1>1, <3>1 DEF Control
    <3>3. Head(<<On("erase", Tmp), On("mount", Tmp)>>).t = "erase"
      BY Tuple2 DEF On
    <3> QED BY <3>1, <3>2, <3>3, CallHeads DEF MountStack
  <2>3. ErasePage \/ EraseOutdated \/ MountDone
    BY <1>4, <2>2 DEF Work, WriteOn, WriteRefused, EnlargeStep, FlushNumber, FlushVersion, WriteZeroPage,
       WriteMeta, WriteMetaFails, Drop, Deleted, FindScan, Visit, OpenMissing, OpenFound,
       OpenTrunc, RemoveOther, RenameSelf, Clean, Correct, Doing
  <2>4. CASE ErasePage
    <3>1. \/ freeData' = freeData
          \/ /\ doomed # {} /\ freeData' = freeData \cup {Least(doomed)}
             /\ Least(doomed) > MaxInodes
      BY <2>4 DEF ErasePage, ReturnsToFree
    <3>2. ASSUME doomed # {}, Least(doomed) > MaxInodes
          PROVE  Least(doomed) \in DataPages
      <4>1. doomed \in SUBSET Nat /\ doomed \subseteq AllPages
        BY <1>1, PageRanges DEF TypeOK, AllPages
      <4>2. Least(doomed) \in AllPages
        BY <3>2, <4>1, LeastExists
      <4> QED BY <3>2, <4>2, LayoutAssumption DEF AllPages, InodePages
    <3> QED BY <2>2, <3>1, <3>2 DEF AllFree
  <2>5. CASE EraseOutdated
    BY <2>2, <2>5 DEF EraseOutdated, AllFree, alloc
  <2>6. CASE MountDone
    BY <2>6 DEF MountDone
  <2> QED BY <2>3, <2>4, <2>5, <2>6
<1> QED BY <1>2, <1>3, <1>4 DEF Next

\* Without an outdated page every valid page is the latest of its file.
LEMMA NothingOutdated ==
  ASSUME TypeOK, Outdated = {}
  PROVE  ValidPages = LatestPages
<1>1. LatestPages \subseteq ValidPages
  BY DEF LatestPages, ValidPages, Latest
<1>2. ASSUME NEW p \in ValidPages, NEW q \in ValidPages
      PROVE  ~Supersedes(q, p)
  <2>1. ~Older(p, q) /\ ~Older(q, p)
    BY <1>2 DEF Outdated
  <2> QED BY <2>1 DEF Older, Supersedes
<1>3. ASSUME NEW p \in ValidPages
      PROVE  p \in LatestPages
  <2>1. p \in InodePages /\ Valid(p)
    BY DEF ValidPages
  <2> QED BY <1>2, <2>1 DEF LatestPages, Latest
<1> QED BY <1>1, <1>3

\* Where old versions are erased, init() ends with one page for every file:
\* whatever a power loss left behind is gone, and every data page is free or in
\* the list of a file.
THEOREM MountsReclaim == ASSUME Erasing PROVE Spec => MountReclaims
<1>1. Init => BaseInv /\ AllFree
  BY BaseInit DEF Init, AllFree
<1>2. BaseInv /\ AllFree /\ [Next]_vars => (BaseInv /\ AllFree)'
  BY BaseNext, AllFreeNext
<1> DEFINE Reclaims ==
      up = "mounting" /\ up' = "up" =>
        /\ freeData' = DataPages \ UNION {PagesOf(inodeArea[p]) : p \in LatestPages}
        /\ ValidPages = LatestPages
<1>3. ASSUME BaseInv, AllFree, [Next]_vars
      PROVE  [Reclaims]_vars
  <2>1. SUFFICES ASSUME up = "mounting", up' = "up"
                 PROVE  /\ freeData' = DataPages \ UNION {PagesOf(inodeArea[p]) : p \in LatestPages}
                        /\ ValidPages = LatestPages
    OBVIOUS
  <2>2. MountDone
    <3>1. ~Call /\ ~PowerLoss /\ ~MountScan /\ ~UNCHANGED vars
      BY <2>1, CallFrame DEF PowerLoss, MountScan, vars
    <3>2. Work
      BY <1>3, <3>1 DEF Next
    <3>3. ~WriteWork
      BY <1>3, <2>1, WriteSteps DEF BaseInv, NumbersInv
    <3> QED
      BY <2>1, <3>2, <3>3 DEF Work, WriteWork, EnlargeStep, FlushNumber, FlushVersion, WriteZeroPage,
         WriteMeta, WriteMetaFails, ErasePage, Drop, Deleted, FindScan, Visit,
         OpenMissing, OpenFound, OpenTrunc, RemoveOther, RenameSelf, Clean,
         Correct, EraseOutdated, flash
  <2>3. Outdated = {} /\ freeData' = freeData \ UsedPages
    BY <2>2 DEF MountDone
  <2>4. ValidPages = LatestPages
    BY <1>3, <2>3, NothingOutdated DEF BaseInv, NumbersInv
  <2>5. freeData = DataPages
    BY <1>3, <2>1 DEF AllFree
  <2> QED BY <2>3, <2>4, <2>5 DEF UsedPages
<1> QED BY <1>1, <1>2, <1>3, PTL DEF Spec, MountReclaims
=============================================================================
