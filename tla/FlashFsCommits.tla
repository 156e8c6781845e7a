---------------------------- MODULE FlashFsCommits ----------------------------
(***************************************************************************)
(* The steps that write and erase inode pages, hand out handles or lose    *)
(* the power keep PagesInv, too.                                           *)
(***************************************************************************)
EXTENDS FlashFsPages, FiniteSetTheorems

\* What write_meta_page() stores is what the handle holds.
LEMMA SerialisedParts ==
  ASSUME NEW f \in Handle
  PROVE  LET s == Serialised(f) IN
         /\ s \in Inode /\ s \notin {Blank, Torn}
         /\ s.ino = f.ino /\ s.ver = f.ver /\ s.name = f.name /\ s.len = f.len
         /\ s.extra = f.del
         /\ Len(s.ids) = Len(f.dp) /\ DOMAIN s.ids = DOMAIN f.dp
         /\ \A k \in DOMAIN f.dp : s.ids[k] = f.dp[k].id
         /\ PagesOf(s) = HandlePages(f)
<1> DEFINE s == Serialised(f)
<1>1. s \in Inode /\ s \notin {Blank, Torn}
  BY SerialisedType, MarkAssumption
<1>2. /\ s.ino = f.ino /\ s.ver = f.ver /\ s.name = f.name /\ s.len = f.len
      /\ s.extra = f.del /\ s.ids = [k \in 1 .. Len(f.dp) |-> f.dp[k].id]
  BY DEF Serialised
<1>3. f.dp \in Seq(Entry) /\ DOMAIN f.dp = 1 .. Len(f.dp) /\ Len(f.dp) \in Nat
  BY DEF Handle
<1>4. Len(s.ids) = Len(f.dp)
  BY <1>2, <1>3
<1> HIDE DEF s
<1>5. DOMAIN s.ids = DOMAIN f.dp /\ \A k \in DOMAIN f.dp : s.ids[k] = f.dp[k].id
  BY <1>2, <1>3
<1>6. PagesOf(s) = HandlePages(f)
  BY <1>2, <1>5 DEF PagesOf, HandlePages
<1>7. QED
  BY <1>1, <1>2, <1>4, <1>5, <1>6 DEF s

\* The inode s is written to the page p0, which was not valid.
LEMMA OneMore ==
  ASSUME TypeOK, NEW p0 \in InodePages, ~Valid(p0), NEW s, s \notin {Blank, Torn},
         inodeArea'[p0] = s, \A q \in InodePages \ {p0} : inodeArea'[q] = inodeArea[q]
  PROVE  /\ ValidPages' = ValidPages \cup {p0} /\ p0 \notin ValidPages
         /\ ValidPages \subseteq InodePages
         /\ \A q \in InodePages \ {p0} : /\ inodeArea'[q] = inodeArea[q]
                                         /\ Valid(q)' <=> Valid(q)
                                         /\ StoredPages(q)' = StoredPages(q)
         /\ inodeArea'[p0] = s /\ Valid(p0)' /\ StoredPages(p0)' = PagesOf(s)
BY DEF Valid, ValidPages, StoredPages

\* What holds just before write_meta_page(): the version is a new one of a
\* file that nobody else works on.
LEMMA BeforeCommit ==
  ASSUME TypeOK, Numbered, PagesInv, NEW a \in Actors, NEW f, f = hs[a],
         todo # <<>>, Head(todo).h = a, Head(todo).t \in {"meta", "metaNew"}
  PROVE  /\ f \in Handle /\ f.open /\ f.ino # 0 /\ f.page \in InodePages
         /\ ~Valid(f.page) /\ f.del = {} /\ up = "up" /\ doomed = {}
         /\ Replacing(a) <=> Head(todo).t = "meta"
         /\ \A b \in Actors : Committing(b) \/ Replacing(b) => b = a
         /\ \A q \in ValidPages : inodeArea[q].ino = f.ino => inodeArea[q].ver < f.ver
         /\ \A q \in ValidPages : HandlePages(f) \cap StoredPages(q) # {} =>
              inodeArea[q].ino = f.ino /\ (Erasing => Replacing(a) /\ q = old.page)
         /\ \A b \in Actors \ {a} : hs[b].open =>
              hs[b].page # f.page /\ hs[b].ino # f.ino
<1>1. Committing(a) /\ (Replacing(a) <=> Head(todo).t = "meta")
      /\ \A b \in Actors : Committing(b) \/ Replacing(b) => b = a
  BY DEF Committing, Replacing
<1>2. /\ f \in Handle /\ f.open /\ f.ino # 0 /\ f.page \in InodePages
      /\ ~Valid(f.page) /\ f.del = {} /\ up = "up"
  BY <1>1 DEF Numbered, PagesInv, CommitsToFresh, HandleLists, TypeOK, Handle
<1>3. doomed = {}
  BY NothingDoomed
<1>4. \A q \in ValidPages : inodeArea[q].ino = f.ino => inodeArea[q].ver < f.ver
  BY <1>1, <1>2 DEF PagesInv, HandleVersions
<1>5. \A q \in ValidPages : HandlePages(f) \cap StoredPages(q) # {} =>
        inodeArea[q].ino = f.ino /\ (Erasing => Replacing(a) /\ q = old.page)
  <2>1. \A q \in ValidPages : q # f.page
    BY <1>2 DEF ValidPages
  <2>2. QED
    BY <1>3, <2>1 DEF PagesInv, HandleShares
<1>6. ASSUME NEW b \in Actors \ {a}, hs[b].open
      PROVE  hs[b].page # f.page /\ hs[b].ino # f.ino
  <2>1. hs[b].page # f.page
    BY <1>2, <1>6 DEF PagesInv, HandlesApart
  <2>2. hs[b].ino # f.ino
    BY <1>2, <1>6, FlushedAlone
  <2>3. QED
    BY <2>1, <2>2
<1>7. QED
  BY <1>1, <1>2, <1>3, <1>4, <1>5, <1>6

\* The pages to erase after the commit: those of the old version that the
\* new one has not taken over.
LEMMA CommitErases ==
  ASSUME TypeOK, PagesInv, NEW a \in Actors, NEW f, f = hs[a], f \in Handle, f.open,
         Erasing, Replacing(a), doomed' = UnusedPages(old.page, old.ids, HandlePages(f))
  PROVE  /\ old.page \in InodePages /\ old.page # f.page
         /\ old.page \in doomed'
         /\ \A p \in InodePages : p \in doomed' => p = old.page
         /\ \A d \in DataPages : d \in doomed' => d \in old.ids /\ d \notin HandlePages(f)
         /\ \A q \in ValidPages : old.ids \cap StoredPages(q) # {} => q = old.page
         /\ \A b \in Actors \ {a} : old.ids \cap HandlePages(hs[b]) = {}
         /\ \A b \in Actors : hs[b].open => hs[b].page # old.page
         /\ Valid(old.page) => /\ inodeArea[old.page].ino = f.ino
                               /\ inodeArea[old.page].ver + 1 = f.ver
<1>1. doomed' = (old.ids \ HandlePages(f)) \cup {old.page}
  BY DEF UnusedPages
<1>2. old.page \in InodePages /\ old.ids \subseteq DataPages
  BY DEF TypeOK
<1>3. \A p \in InodePages : p \notin DataPages
  BY PageRanges
<1>4. QED
  BY <1>1, <1>2, <1>3 DEF PagesInv, ReplacesOld

\* write_meta_page() stores the handle f of a as s and leaves it as g
Commit(a, f, s, g) ==
  /\ f = hs[a]
  /\ s = Serialised(f)
  /\ g = [f EXCEPT !.mod = FALSE]
  /\ inodeArea' = [inodeArea EXCEPT ![f.page] = s]
  /\ hs' = [hs EXCEPT ![a] = g]
  /\ UNCHANGED <<dataArea, up, freeData, reserved, old>>
  /\ IF Head(todo).t = "meta"
     THEN /\ doomed' = UnusedPages(old.page, old.ids, HandlePages(f))
          /\ todo' # <<>> /\ Head(todo').t = "erase"
     ELSE doomed' = doomed

LEMMA CommitPages ==
  ASSUME TypeOK, TypeOK', Numbered, PagesInv, NEW a \in Actors, NEW f, NEW s, NEW g,
         todo # <<>>, Head(todo).h = a, Head(todo).t \in {"meta", "metaNew"},
         Commit(a, f, s, g),
         todo' = <<>> \/ Head(todo').t \notin {"zero", "meta", "metaNew"},
         PlainTasks', SearchesStored'
  PROVE  PagesInv'
<1> USE DEF Commit
<1> DEFINE p0 == f.page
           repl == Head(todo).t = "meta"
<1>1. /\ f \in Handle /\ f.open /\ f.ino # 0 /\ p0 \in InodePages
      /\ ~Valid(p0) /\ f.del = {} /\ up = "up" /\ doomed = {}
      /\ Replacing(a) <=> repl
      /\ \A b \in Actors : Committing(b) \/ Replacing(b) => b = a
      /\ \A q \in ValidPages : inodeArea[q].ino = f.ino => inodeArea[q].ver < f.ver
      /\ \A q \in ValidPages : HandlePages(f) \cap StoredPages(q) # {} =>
           inodeArea[q].ino = f.ino /\ (Erasing => repl /\ q = old.page)
      /\ \A b \in Actors \ {a} : hs[b].open =>
           hs[b].page # p0 /\ hs[b].ino # f.ino
  BY BeforeCommit
<1>2. /\ s \in Inode /\ s \notin {Blank, Torn}
      /\ s.ino = f.ino /\ s.ver = f.ver /\ s.name = f.name /\ s.len = f.len
      /\ s.extra = f.del
      /\ Len(s.ids) = Len(f.dp) /\ DOMAIN s.ids = DOMAIN f.dp
      /\ \A k \in DOMAIN f.dp : s.ids[k] = f.dp[k].id
      /\ PagesOf(s) = HandlePages(f)
  BY <1>1, SerialisedParts
<1>3. /\ ValidPages' = ValidPages \cup {p0} /\ p0 \notin ValidPages
      /\ ValidPages \subseteq InodePages
      /\ \A q \in InodePages \ {p0} : /\ inodeArea'[q] = inodeArea[q]
                                      /\ Valid(q)' <=> Valid(q)
                                      /\ StoredPages(q)' = StoredPages(q)
      /\ inodeArea'[p0] = s /\ Valid(p0)' /\ StoredPages(p0)' = HandlePages(f)
  <2>1. inodeArea'[p0] = s /\ \A q \in InodePages \ {p0} : inodeArea'[q] = inodeArea[q]
    BY <1>1 DEF TypeOK
  <2>2. p0 \in InodePages /\ ~Valid(p0) /\ s \notin {Blank, Torn}
    BY <1>1, <1>2
  <2> HIDE DEF p0
  <2>3. /\ ValidPages' = ValidPages \cup {p0} /\ p0 \notin ValidPages
        /\ ValidPages \subseteq InodePages
        /\ \A q \in InodePages \ {p0} : /\ inodeArea'[q] = inodeArea[q]
                                        /\ Valid(q)' <=> Valid(q)
                                        /\ StoredPages(q)' = StoredPages(q)
        /\ inodeArea'[p0] = s /\ Valid(p0)' /\ StoredPages(p0)' = PagesOf(s)
    BY <2>1, <2>2, OneMore
  <2>4. QED
    BY <1>2, <2>3
<1>4. /\ g.open = f.open /\ g.ino = f.ino /\ g.ver = f.ver /\ g.page = p0
      /\ g.dp = f.dp /\ g.len = f.len /\ g.del = f.del
      /\ HandlePages(g) = HandlePages(f)
  <2>1. /\ g.open = f.open /\ g.ino = f.ino /\ g.ver = f.ver /\ g.page = p0
        /\ g.dp = f.dp /\ g.len = f.len /\ g.del = f.del
    BY <1>1 DEF Handle
  <2>2. QED
    BY <2>1 DEF HandlePages
<1>5. hs'[a] = g /\ \A b \in Actors \ {a} : hs'[b] = hs[b]
  BY DEF TypeOK
<1>6. \A q \in ValidPages : inodeArea[q].ver \in Nat /\ f.ver \in Nat
                            /\ StoredPages(q) \subseteq DataPages
  <2>1. \A q \in ValidPages : inodeArea[q] \in Inode
    BY <1>3, LoadedType DEF TypeOK, ValidPages
  <2>2. QED
    BY <1>1, <2>1, PagesTypes DEF Inode, Handle, StoredPages
<1>7. Erasing /\ repl =>
         /\ old.page \in InodePages /\ old.page # p0
         /\ old.page \in doomed'
         /\ \A p \in InodePages : p \in doomed' => p = old.page
         /\ \A d \in DataPages : d \in doomed' => d \in old.ids /\ d \notin HandlePages(f)
         /\ \A q \in ValidPages : old.ids \cap StoredPages(q) # {} => q = old.page
         /\ \A b \in Actors \ {a} : old.ids \cap HandlePages(hs[b]) = {}
         /\ \A b \in Actors : hs[b].open => hs[b].page # old.page
         /\ Valid(old.page) => /\ inodeArea[old.page].ino = f.ino
                               /\ inodeArea[old.page].ver + 1 = f.ver
  BY <1>1, CommitErases
<1>8. ~(Erasing /\ repl) => doomed' = {}
  BY <1>1 DEF UnusedPages
<1> DEFINE same(p, q) == inodeArea'[p].ino = inodeArea'[q].ino
<1>9. \A p, q : SameFile(p, q)' <=> same(p, q)
  BY DEF SameFile
<1>10. StoredLists'
  <2>1. /\ s.extra = {}
        /\ Len(s.ids) = s.len
        /\ \A j, k \in DOMAIN s.ids : s.ids[j] = s.ids[k] => j = k
        /\ \A d \in HandlePages(f) : dataArea[d] # Blank
    BY <1>1, <1>2 DEF PagesInv, HandleLists, HandlePages
  <2>2. QED
    BY <1>3, <2>1 DEF PagesInv, StoredLists
<1>11. StoredVersions'
  <2>1. SUFFICES ASSUME NEW p \in ValidPages', NEW q \in ValidPages', p # q, same(p, q)
                 PROVE  inodeArea'[p].ver # inodeArea'[q].ver
    BY <1>9 DEF StoredVersions
  <2>2. \A r \in ValidPages : inodeArea[r].ino = f.ino => inodeArea[r].ver # f.ver
    BY <1>1, <1>6
  <2>3. CASE p = p0 \/ q = p0
    BY <1>2, <1>3, <2>1, <2>2, <2>3
  <2>4. CASE p # p0 /\ q # p0
    BY <1>3, <2>1, <2>4 DEF PagesInv, StoredVersions, SameFile
  <2>5. QED
    BY <2>3, <2>4
<1>12. StoredShares'
  <2>1. SUFFICES ASSUME NEW p \in ValidPages', NEW q \in ValidPages', p # q,
                        StoredPages(p)' \cap StoredPages(q)' # {}
                 PROVE  /\ same(p, q)
                        /\ Erasing => \A r \in ValidPages' :
                             same(p, r) => ~(inodeArea'[p].ver < inodeArea'[r].ver
                                             /\ inodeArea'[r].ver < inodeArea'[q].ver)
    BY <1>9 DEF StoredShares
  <2>2. CASE p = p0
    <3>1. q \in ValidPages /\ q # p0 /\ inodeArea[q].ino = f.ino
      BY <1>1, <1>3, <2>1, <2>2
    <3>2. \A r \in ValidPages' : same(p, r) => ~(inodeArea'[p].ver < inodeArea'[r].ver)
      <4>1. SUFFICES ASSUME NEW r \in ValidPages', same(p, r)
                     PROVE  ~(inodeArea'[p].ver < inodeArea'[r].ver)
        OBVIOUS
      <4>2. CASE r = p0
        BY <1>1, <1>2, <1>3, <1>6, <2>2, <3>1, <4>2
      <4>3. CASE r # p0
        <5>1. r \in ValidPages /\ inodeArea[r].ino = f.ino /\ inodeArea'[r] = inodeArea[r]
              /\ inodeArea'[p].ver = f.ver
          BY <1>2, <1>3, <2>2, <4>1, <4>3
        <5>2. inodeArea[r].ver < f.ver /\ inodeArea[r].ver \in Nat /\ f.ver \in Nat
          BY <5>1, <1>1, <1>6
        <5>3. QED
          BY <5>1, <5>2
      <4>4. QED
        BY <4>2, <4>3
    <3>3. same(p, q)
      BY <1>2, <1>3, <2>2, <3>1
    <3>4. QED
      BY <3>2, <3>3
  <2>3. CASE p # p0 /\ q = p0
    <3>1. p \in ValidPages /\ inodeArea[p].ino = f.ino
          /\ (Erasing => repl /\ p = old.page) /\ inodeArea'[p] = inodeArea[p]
      BY <1>1, <1>3, <2>1, <2>3
    <3>2. Erasing => inodeArea'[p].ver + 1 = inodeArea'[q].ver
      BY <1>2, <1>3, <1>7, <2>3, <3>1 DEF ValidPages
    <3>3. \A r \in ValidPages' : inodeArea'[r].ver \in Nat
      BY <1>1, <1>2, <1>3, <1>6, <3>1
    <3>4. same(p, q)
      BY <1>2, <1>3, <2>3, <3>1
    <3> HIDE DEF same
    <3>5. QED
      BY <2>1, <3>2, <3>3, <3>4
  <2>4. CASE p # p0 /\ q # p0
    <3>1. p \in ValidPages /\ q \in ValidPages /\ inodeArea'[p] = inodeArea[p]
          /\ inodeArea'[q] = inodeArea[q] /\ StoredPages(p) \cap StoredPages(q) # {}
      BY <1>3, <2>1, <2>4
    <3>2. inodeArea[p].ino = inodeArea[q].ino
      BY <2>1, <3>1 DEF PagesInv, StoredShares, SameFile
    <3>3. ASSUME Erasing, NEW r \in ValidPages', same(p, r)
          PROVE  ~(inodeArea'[p].ver < inodeArea'[r].ver
                   /\ inodeArea'[r].ver < inodeArea'[q].ver)
      <4>1. CASE r = p0
        <5>1. inodeArea[q].ino = f.ino /\ inodeArea'[r].ver = f.ver
          BY <1>2, <1>3, <3>1, <3>2, <3>3, <4>1
        <5>2. inodeArea[q].ver < f.ver /\ inodeArea[q].ver \in Nat /\ f.ver \in Nat
          BY <5>1, <3>1, <1>1, <1>6
        <5>3. QED
          BY <3>1, <5>1, <5>2
      <4>2. CASE r # p0
        <5>1. r \in ValidPages /\ inodeArea'[r] = inodeArea[r] /\ SameFile(p, r)
          BY <1>3, <3>1, <3>3, <4>2 DEF SameFile
        <5>2. QED
          BY <2>1, <3>1, <3>3, <5>1 DEF PagesInv, StoredShares
      <4>3. QED
        BY <4>1, <4>2
    <3>4. QED
      BY <3>1, <3>2, <3>3
  <2>5. QED
    BY <2>2, <2>3, <2>4
<1>13. SettledShares'
  <2>1. SUFFICES ASSUME Erasing, NEW p \in ValidPages', NEW q \in ValidPages', p # q,
                        p \notin doomed', q \notin doomed',
                        StoredPages(p)' \cap StoredPages(q)' # {}
                 PROVE  FALSE
    BY DEF SettledShares
  <2>2. \A r \in ValidPages : HandlePages(f) \cap StoredPages(r) # {} => r \in doomed'
    BY <1>1, <1>7, <2>1
  <2>3. CASE p = p0 \/ q = p0
    BY <1>3, <2>1, <2>2, <2>3
  <2>4. CASE p # p0 /\ q # p0
    BY <1>1, <1>3, <2>1, <2>4 DEF PagesInv, SettledShares
  <2>5. QED
    BY <2>3, <2>4
<1>14. \A b \in Actors :
         /\ HandlePages(hs'[b]) = HandlePages(hs[b])
         /\ hs'[b].open = hs[b].open /\ hs'[b].ino = hs[b].ino
         /\ hs'[b].ver = hs[b].ver /\ hs'[b].page = hs[b].page
         /\ HandlePages(hs[b]) \subseteq DataPages
         /\ hs[b].page \in InodePages
  <2>1. TAKE b \in Actors
  <2>2. hs[b] \in Handle /\ hs[b].page \in InodePages
    BY DEF TypeOK, Handle
  <2>3. HandlePages(hs[b]) \subseteq DataPages
    BY <2>2, PagesTypes
  <2>4. CASE b = a
    BY <2>2, <2>3, <2>4, <1>4, <1>5
  <2>5. CASE b # a
    BY <2>2, <2>3, <2>5, <1>5
  <2>6. QED
    BY <2>4, <2>5
<1>15. FreeIsUnused'
  <2>1. HandlePages(f) \cap freeData = {}
    BY DEF PagesInv, FreeIsUnused
  <2>2. \A b \in Actors : HandlePages(hs'[b]) \cap freeData = {}
    BY <1>14 DEF PagesInv, FreeIsUnused
  <2>3. \A p \in ValidPages' : StoredPages(p)' \cap freeData = {}
    BY <1>1, <1>3, <2>1 DEF PagesInv, FreeIsUnused
  <2>4. QED
    BY <2>2, <2>3 DEF FreeIsUnused
<1>16. DoomedIsOld'
  <2>1. CASE Erasing /\ repl
    <3>1. \A p \in ValidPages' : p \in InodePages /\ StoredPages(p)' \subseteq DataPages
      <4>1. HandlePages(f) \subseteq DataPages
        BY <1>14
      <4>2. QED
        BY <1>1, <1>3, <1>6, <4>1
    <3>2. ASSUME NEW p \in ValidPages' \cap doomed'
          PROVE  p0 \in ValidPages' \ doomed' /\ same(p, p0)
                 /\ inodeArea'[p].ver < inodeArea'[p0].ver
      <4>1. p = old.page /\ p # p0 /\ p \in ValidPages
        BY <1>3, <1>7, <2>1, <3>1
      <4>2. Valid(p) /\ inodeArea'[p] = inodeArea[p]
        BY <1>3, <4>1 DEF ValidPages
      <4>3. inodeArea[p].ino = f.ino /\ inodeArea[p].ver + 1 = f.ver
        BY <1>7, <2>1, <4>1, <4>2
      <4>4. inodeArea[p].ver < f.ver
        BY <1>6, <4>1, <4>3
      <4>5. p0 \notin doomed'
        BY <1>1, <1>7, <2>1
      <4>6. QED
        BY <1>2, <1>3, <4>2, <4>3, <4>4, <4>5
    <3>3. ASSUME NEW p \in ValidPages' \ doomed'
          PROVE  StoredPages(p)' \cap doomed' = {}
      <4>1. SUFFICES ASSUME NEW d \in StoredPages(p)', d \in doomed'
                     PROVE  FALSE
        OBVIOUS
      <4>2. d \in DataPages /\ d \in old.ids /\ d \notin HandlePages(f)
        BY <1>7, <2>1, <3>1, <4>1
      <4>3. p \in ValidPages /\ d \in StoredPages(p)
        BY <1>3, <4>1, <4>2
      <4>4. p = old.page
        BY <1>7, <2>1, <4>2, <4>3
      <4>5. QED
        BY <1>7, <2>1, <3>3, <4>4
    <3>4. ASSUME NEW b \in Actors
          PROVE  /\ HandlePages(hs[b]) \cap doomed' = {}
                 /\ hs[b].open => hs[b].page \notin doomed'
      <4>1. hs[b].open => hs[b].page \notin doomed'
        BY <1>7, <1>14, <2>1
      <4>2. HandlePages(hs[b]) \cap doomed' = {}
        <5>1. SUFFICES ASSUME NEW d \in HandlePages(hs[b]), d \in doomed'
                       PROVE  FALSE
          OBVIOUS
        <5>2. d \in DataPages /\ d \in old.ids /\ d \notin HandlePages(f)
          BY <1>7, <1>14, <2>1, <5>1
        <5>3. b # a
          BY <5>1, <5>2
        <5>4. QED
          BY <1>7, <2>1, <5>1, <5>2, <5>3
      <4>3. QED
        BY <4>1, <4>2
    <3> HIDE DEF same
    <3>5. QED
      BY <1>9, <1>14, <2>1, <3>2, <3>3, <3>4 DEF DoomedIsOld
  <2>2. CASE ~(Erasing /\ repl)
    BY <1>8, <2>2 DEF DoomedIsOld
  <2>3. QED
    BY <2>1, <2>2
<1>17. HandleLists'
  <2>1. FitsList(g)
    BY <1>1, <1>4 DEF PagesInv, HandleLists, FitsList
  <2>2. HandleLists
    BY DEF PagesInv
  <2>3. QED
    BY <1>5, <2>1, <2>2, ListFits
<1>18. HandlePlaces'
  <2>1. SUFFICES ASSUME NEW b \in Actors, hs[b].open
                 PROVE  IF Valid(hs[b].page)'
                        THEN inodeArea'[hs[b].page].ino = hs[b].ino
                             /\ inodeArea'[hs[b].page].ver = hs[b].ver
                        ELSE hs[b].page \in reserved
    BY <1>14 DEF HandlePlaces, Valid
  <2>2. CASE b = a
    BY <1>2, <1>3, <2>2
  <2>3. CASE b # a
    <3>1. hs[b].page \in InodePages \ {p0}
      BY <1>1, <1>14, <2>1, <2>3
    <3>2. inodeArea'[hs[b].page] = inodeArea[hs[b].page]
          /\ (Valid(hs[b].page)' <=> Valid(hs[b].page))
      BY <1>3, <3>1
    <3>3. QED
      BY <2>1, <3>2 DEF PagesInv, HandlePlaces
  <2>4. QED
    BY <2>2, <2>3
<1>19. HandlesApart'
  <2>1. ASSUME NEW b \in Actors, NEW c \in Actors, b # c, hs[b].open, hs[c].open,
               hs[b].ino = hs[c].ino, hs[b].ino # 0
        PROVE  FALSE
    <3>1. Head(todo).t \in {"flush", "zero", "meta", "metaNew", "erase"}
          /\ Head(todo).t # "flush"
      OBVIOUS
    <3>2. QED
      BY <2>1, <3>1, FlushedAlone
  <2>2. SUFFICES ASSUME NEW b \in Actors, NEW c \in Actors, b # c
                 PROVE  /\ HandlePages(hs'[b]) \cap HandlePages(hs'[c]) = {}
                        /\ hs'[b].open /\ hs'[c].open => hs'[b].page # hs'[c].page
                        /\ ~(/\ hs'[b].open /\ hs'[c].open
                             /\ hs'[b].ino = hs'[c].ino /\ hs'[b].ino # 0)
    BY DEF HandlesApart
  <2>3. ~(/\ hs'[b].open /\ hs'[c].open /\ hs'[b].ino = hs'[c].ino /\ hs'[b].ino # 0)
    BY <1>14, <2>1, <2>2
  <2>4. /\ HandlePages(hs[b]) \cap HandlePages(hs[c]) = {}
        /\ hs[b].open /\ hs[c].open => hs[b].page # hs[c].page
    BY <2>2 DEF PagesInv, HandlesApart
  <2>5. /\ HandlePages(hs'[b]) \cap HandlePages(hs'[c]) = {}
        /\ hs'[b].open /\ hs'[c].open => hs'[b].page # hs'[c].page
    BY <1>14, <2>4
  <2>6. QED
    BY <2>3, <2>5
<1>20. HandleShares'
  <2>1. SUFFICES ASSUME NEW b \in Actors, NEW q \in ValidPages',
                        HandlePages(hs[b]) \cap StoredPages(q)' # {}
                 PROVE  /\ inodeArea'[q].ino = hs[b].ino
                        /\ Erasing => q = hs[b].page \/ q \in doomed'
    BY <1>14 DEF HandleShares
  <2>2. CASE b = a /\ q = p0
    BY <1>2, <1>3, <2>2
  <2>3. CASE b = a /\ q # p0
    <3>1. q \in ValidPages /\ HandlePages(f) \cap StoredPages(q) # {}
          /\ inodeArea'[q] = inodeArea[q]
      BY <1>3, <2>1, <2>3
    <3>2. QED
      BY <1>1, <1>7, <2>3, <3>1
  <2>4. CASE b # a /\ q = p0
    BY <1>3, <2>1, <2>4 DEF PagesInv, HandlesApart
  <2>5. CASE b # a /\ q # p0
    <3>1. q \in ValidPages /\ HandlePages(hs[b]) \cap StoredPages(q) # {}
          /\ inodeArea'[q] = inodeArea[q]
      BY <1>3, <2>1, <2>5
    <3>2. QED
      BY <1>1, <2>5, <3>1 DEF PagesInv, HandleShares
  <2>6. QED
    BY <2>2, <2>3, <2>4, <2>5
<1>21. \A b : ~Committing(b)' /\ ~Replacing(b)'
  BY NothingToCommit
<1>22. HandleVersions'
  <2>1. SUFFICES ASSUME NEW b \in Actors, NEW q \in ValidPages',
                        hs[b].open, inodeArea'[q].ino = hs[b].ino
                 PROVE  inodeArea'[q].ver <= hs[b].ver
    BY <1>14, <1>21 DEF HandleVersions
  <2>2. hs[b].ver \in Nat
    BY DEF TypeOK, Handle
  <2>3. CASE q = p0
    <3>1. b = a
      BY <1>1, <1>2, <1>3, <2>1, <2>3
    <3>2. QED
      BY <1>2, <1>3, <2>2, <2>3, <3>1
  <2>4. CASE q # p0
    BY <1>3, <2>1, <2>4 DEF PagesInv, HandleVersions
  <2>5. QED
    BY <2>3, <2>4
<1>23. CommitsToFresh' /\ ReplacesOld'
  BY <1>21 DEF CommitsToFresh, ReplacesOld
<1>24. QED
  BY <1>10, <1>11, <1>12, <1>13, <1>15, <1>16, <1>17, <1>18, <1>19, <1>20, <1>22,
     <1>23 DEF PagesInv

LEMMA MetaPages ==
  ASSUME TypeOK, TypeOK', Control, Numbered, PagesInv, WriteMeta
  PROVE  PagesInv'
<1> DEFINE a == Actor
           f == hs[a]
           r == Tail(todo)
<1>1. /\ todo # <<>> /\ Head(todo).t \in {"meta", "metaNew"} /\ todo \in Seq(Task)
      /\ inodeArea' = [inodeArea EXCEPT ![f.page] = Serialised(f)]
      /\ hs' = [hs EXCEPT ![a].mod = FALSE]
      /\ IF Head(todo).t = "meta"
         THEN /\ doomed' = UnusedPages(old.page, old.ids, HandlePages(f))
              /\ todo' = <<On("erase", a)>> \o r
         ELSE Then(<<>>) /\ UNCHANGED doomed
      /\ UNCHANGED <<dataArea, up, freeData, reserved, old>>
  BY DEF WriteMeta, Doing, Then, alloc, TypeOK
<1>2. a \in Actors /\ a = Head(todo).h /\ PlainTasks
  BY <1>1, HeadType DEF PagesInv, Actor
<1> HIDE DEF a
<1>3. hs' = [hs EXCEPT ![a] = [f EXCEPT !.mod = FALSE]]
  BY <1>1, <1>2 DEF TypeOK
<1>4. /\ r \in Seq(Task)
      /\ \A k \in 1 .. Len(r) : r[k].t \notin Corrections \cup Searches
  BY <1>1, <1>2, PlainTail
<1>5. On("erase", a) \in Task /\ On("erase", a).t = "erase"
  BY <1>2, OnTypes, TaskParts DEF TaskKinds
<1>6. /\ IF Head(todo).t = "meta" THEN todo' # <<>> /\ Head(todo').t = "erase" ELSE TRUE
      /\ todo' = <<>> \/ Head(todo').t \notin {"zero", "meta", "metaNew"}
      /\ PlainTasks' /\ SearchesStored'
  <2>1. CASE Head(todo).t = "meta"
    <3>1. todo' = <<On("erase", a)>> \o r
      BY <1>1, <2>1
    <3> HIDE DEF r
    <3>2. todo' # <<>> /\ Head(todo') = On("erase", a)
      BY <1>4, <1>5, <3>1, Stacks
    <3>3. PlainTasks'
      BY <1>4, <1>5, <3>1, PlainPush1 DEF Corrections
    <3>4. SearchesStored'
      BY <1>5, <3>2, NoSearch
    <3>5. QED
      BY <1>5, <3>2, <3>3, <3>4
  <2>2. CASE Head(todo).t = "metaNew"
    <3>1. todo' = r
      BY <1>1, <2>2, Popped
    <3>2. \/ r = <<>>
          \/ Head(r).t \in {"drop", "mount", "deleted"}
          \/ r = <<On("flush", Tmp), On("drop", Tmp)>>
      BY <1>1, <2>2, AfterTask DEF FlushKinds
    <3>3. Head(<<On("flush", Tmp), On("drop", Tmp)>>).t = "flush"
      BY Tuple2, TaskParts
    <3>4. PlainTasks'
      BY <1>1, <1>2, <3>1, PlainPop
    <3>5. SearchesStored'
      BY <1>1, <2>2, <3>1, FlushedSearch DEF FlushKinds
    <3> HIDE DEF r
    <3>6. QED
      BY <2>2, <3>1, <3>2, <3>3, <3>4, <3>5
  <2>3. QED
    BY <1>1, <2>1, <2>2
<1>7. Commit(a, f, Serialised(f), [f EXCEPT !.mod = FALSE])
  BY <1>1, <1>3, <1>6 DEF Commit
<1> HIDE DEF f, r
<1>8. QED
  BY <1>1, <1>2, <1>6, <1>7, CommitPages

(***************************************************************************)
(* erase_inode_and_unused_pages().                                         *)
(***************************************************************************)
\* A page that nobody uses any more is gone.
LEMMA GonePages ==
  ASSUME TypeOK, TypeOK', PagesInv, NEW page \in doomed,
         ValidPages' = ValidPages \ {page},
         \A q \in ValidPages' : inodeArea'[q] = inodeArea[q] /\ page \notin StoredPages(q),
         \A q \in InodePages \ {page} : Valid(q)' <=> Valid(q),
         \A q \in InodePages \ {page} : inodeArea'[q] = inodeArea[q],
         \A d \in DataPages \ {page} : dataArea'[d] = dataArea[d],
         freeData' \subseteq freeData \cup {page}, reserved \ {page} \subseteq reserved',
         doomed' = doomed \ {page},
         UNCHANGED <<up, hs, todo, old>>
  PROVE  PagesInv'
<1>1. /\ todo # <<>> /\ Head(todo).t = "erase"
      /\ \A p \in ValidPages \cap doomed : \E q \in ValidPages \ doomed :
           SameFile(p, q) /\ inodeArea[p].ver < inodeArea[q].ver
      /\ \A p \in ValidPages \ doomed : StoredPages(p) \cap doomed = {}
      /\ \A a \in Actors : /\ HandlePages(hs[a]) \cap doomed = {}
                           /\ hs[a].open => hs[a].page \notin doomed
  BY DEF PagesInv, DoomedIsOld
<1>2. /\ \A q \in ValidPages' : q \in ValidPages /\ q # page
      /\ \A q \in ValidPages' : StoredPages(q)' = StoredPages(q)
      /\ \A p, q \in ValidPages' : SameFile(p, q)' <=> SameFile(p, q)
      /\ ValidPages' \subseteq ValidPages /\ ValidPages \subseteq InodePages
      /\ ValidPages' \ doomed' = ValidPages \ doomed
      /\ ValidPages' \cap doomed' \subseteq ValidPages \cap doomed
  BY DEF StoredPages, SameFile, ValidPages
<1>3. /\ \A p \in ValidPages : StoredPages(p) \subseteq DataPages
      /\ \A a \in Actors : HandlePages(hs[a]) \subseteq DataPages
  BY LoadedType, PagesTypes DEF TypeOK, ValidPages, StoredPages
<1>4. \A b : ~Committing(b)' /\ ~Replacing(b)' /\ ~Replacing(b)
  BY <1>1 DEF Committing, Replacing
<1>5. StoredLists'
  <2>1. \A q \in ValidPages' : \A d \in StoredPages(q) : dataArea'[d] # Blank
    <3>1. SUFFICES ASSUME NEW q \in ValidPages', NEW d \in StoredPages(q)
                   PROVE  dataArea'[d] # Blank
      OBVIOUS
    <3>2. dataArea[d] # Blank /\ d \in DataPages \ {page}
      BY <1>2, <1>3, <3>1 DEF PagesInv, StoredLists
    <3>3. QED
      BY <3>2
  <2>2. QED
    BY <1>2, <2>1 DEF PagesInv, StoredLists
<1>6. StoredVersions'
  BY <1>2 DEF PagesInv, StoredVersions
<1>7. StoredShares'
  BY <1>2 DEF PagesInv, StoredShares
<1>8. SettledShares'
  BY <1>2 DEF PagesInv, SettledShares
<1>9. FreeIsUnused'
  BY <1>1, <1>2 DEF PagesInv, FreeIsUnused
<1>10. DoomedIsOld'
  <2>1. \A p \in ValidPages' \cap doomed' : \E q \in ValidPages' \ doomed' :
          SameFile(p, q)' /\ inodeArea'[p].ver < inodeArea'[q].ver
    <3>1. TAKE p \in ValidPages' \cap doomed'
    <3>2. PICK q \in ValidPages \ doomed :
            SameFile(p, q) /\ inodeArea[p].ver < inodeArea[q].ver
      BY <1>1, <1>2
    <3>3. q \in ValidPages' \ doomed'
      BY <1>2
    <3>4. QED
      BY <1>2, <3>2, <3>3
  <2>2. \A p \in ValidPages' \ doomed' : StoredPages(p)' \cap doomed' = {}
    BY <1>1, <1>2
  <2>3. QED
    BY <1>1, <2>1, <2>2 DEF DoomedIsOld
<1>11. HandleLists'
  <2>1. SUFFICES ASSUME NEW a \in Actors, NEW k \in DOMAIN hs[a].dp
                 PROVE  dataArea'[hs[a].dp[k].id] # Blank
    BY DEF PagesInv, HandleLists
  <2>2. hs[a].dp[k].id \in HandlePages(hs[a])
    BY DEF HandlePages
  <2>3. hs[a].dp[k].id \in DataPages \ {page}
    BY <1>1, <1>3, <2>2
  <2>4. dataArea[hs[a].dp[k].id] # Blank
    BY DEF PagesInv, HandleLists
  <2>5. QED
    BY <2>3, <2>4
<1>12. HandlePlaces'
  <2>1. SUFFICES ASSUME NEW b \in Actors, hs[b].open
                 PROVE  IF Valid(hs[b].page)'
                        THEN inodeArea'[hs[b].page].ino = hs[b].ino
                             /\ inodeArea'[hs[b].page].ver = hs[b].ver
                        ELSE hs[b].page \in reserved'
    BY DEF HandlePlaces, Valid
  <2>2. hs[b].page \in InodePages \ {page}
    BY <1>1, <2>1 DEF TypeOK, Handle
  <2>3. inodeArea'[hs[b].page] = inodeArea[hs[b].page]
        /\ (Valid(hs[b].page)' <=> Valid(hs[b].page))
    BY <2>2
  <2>4. QED
    BY <2>1, <2>2, <2>3 DEF PagesInv, HandlePlaces
<1>13. HandlesApart'
  BY DEF PagesInv, HandlesApart
<1>14. HandleShares'
  <2>1. SUFFICES ASSUME NEW b \in Actors, NEW q \in ValidPages',
                        HandlePages(hs[b]) \cap StoredPages(q) # {}
                 PROVE  /\ inodeArea'[q].ino = hs[b].ino
                        /\ Erasing => q = hs[b].page \/ q \in doomed'
    BY <1>2 DEF HandleShares
  <2>2. q \in ValidPages /\ q # page /\ inodeArea'[q] = inodeArea[q]
    BY <1>2
  <2>3. QED
    BY <1>4, <2>1, <2>2 DEF PagesInv, HandleShares
<1>15. HandleVersions'
  <2>1. SUFFICES ASSUME NEW b \in Actors, NEW q \in ValidPages',
                        hs[b].open, inodeArea'[q].ino = hs[b].ino
                 PROVE  inodeArea'[q].ver <= hs[b].ver
    BY <1>4 DEF HandleVersions
  <2>2. q \in ValidPages /\ inodeArea'[q] = inodeArea[q]
    BY <1>2
  <2>3. QED
    BY <2>1, <2>2 DEF PagesInv, HandleVersions
<1>16. CommitsToFresh' /\ ReplacesOld'
  BY <1>4 DEF CommitsToFresh, ReplacesOld
<1>17. PlainTasks' /\ SearchesStored'
  BY <1>1, NoSearch DEF PagesInv, PlainTasks
<1>18. QED
  BY <1>5, <1>6, <1>7, <1>8, <1>9, <1>10, <1>11, <1>12, <1>13, <1>14, <1>15, <1>16,
     <1>17 DEF PagesInv

LEMMA ErasePages ==
  ASSUME TypeOK, TypeOK', PagesInv, ErasePage, doomed # {}
  PROVE  PagesInv'
<1>1. doomed \subseteq Nat /\ doomed \subseteq AllPages
  BY PageRanges DEF TypeOK, AllPages
<1>2. PICK page \in doomed : page = Least(doomed) /\ \A x \in doomed : page <= x
  BY <1>1, LeastExists
<1>3. /\ doomed' = doomed \ {page}
      /\ IF page \in InodePages
         THEN /\ inodeArea' = [inodeArea EXCEPT ![page] = Blank]
              /\ UNCHANGED dataArea
         ELSE /\ dataArea' = [dataArea EXCEPT ![page] = Blank]
              /\ UNCHANGED inodeArea
      /\ IF ReturnsToFree(page)
         THEN freeData' = freeData \cup {page} /\ UNCHANGED reserved
         ELSE reserved' = FreeUnwritten(page) /\ UNCHANGED freeData
      /\ UNCHANGED <<up, hs, todo, old>>
  BY <1>2 DEF ErasePage
<1>4. freeData' \subseteq freeData \cup {page} /\ reserved \ {page} \subseteq reserved'
  BY <1>3 DEF FreeUnwritten
<1>5. /\ \A q \in InodePages \ {page} : inodeArea'[q] = inodeArea[q]
      /\ \A d \in DataPages \ {page} : dataArea'[d] = dataArea[d]
      /\ page \in InodePages => inodeArea'[page] = Blank
  BY <1>3 DEF TypeOK
<1>6. /\ \A q \in InodePages \ {page} : Valid(q)' <=> Valid(q)
      /\ page \in InodePages => ~Valid(page)'
  <2>1. \A q \in InodePages \ {page} : Valid(q)' <=> Valid(q)
    BY <1>5 DEF Valid
  <2>2. page \in InodePages => ~Valid(page)'
    BY <1>5 DEF Valid
  <2>3. QED
    BY <2>1, <2>2
<1>7. ValidPages' = ValidPages \ {page}
  BY <1>6 DEF ValidPages
<1>8. ASSUME NEW q \in ValidPages, q # page
      PROVE  page \notin StoredPages(q)
  <2>1. CASE q \in doomed
    <3>1. q \in InodePages /\ page <= q /\ page \in AllPages
      BY <1>1, <1>2, <2>1 DEF ValidPages
    <3>2. page \notin DataPages
      BY <3>1, LayoutAssumption DEF InodePages, DataPages
    <3>3. StoredPages(q) \subseteq DataPages
      BY <1>8, LoadedType, PagesTypes DEF TypeOK, ValidPages, StoredPages
    <3>4. QED
      BY <3>2, <3>3
  <2>2. CASE q \notin doomed
    BY <1>2, <2>2 DEF PagesInv, DoomedIsOld
  <2>3. QED
    BY <2>1, <2>2
<1>9. \A q \in ValidPages' : inodeArea'[q] = inodeArea[q] /\ page \notin StoredPages(q)
  BY <1>5, <1>7, <1>8 DEF ValidPages
<1>10. QED
  BY <1>2, <1>3, <1>4, <1>5, <1>6, <1>7, <1>9, GonePages

(***************************************************************************)
(* find_file() has found the file.                                         *)
(***************************************************************************)
LEMMA OneLatest ==
  ASSUME TypeOK, NEW p \in InodePages, NEW q \in InodePages, Latest(p), Latest(q),
         inodeArea[p].ino = inodeArea[q].ino
  PROVE  p = q
<1>1. p \in ValidPages /\ q \in ValidPages /\ p \in Nat /\ q \in Nat
  BY PageRanges DEF Latest, ValidPages
<1>2. inodeArea[p].ver \in Nat /\ inodeArea[q].ver \in Nat
  BY LoadedType DEF Latest, TypeOK, Inode
<1>3. ~Supersedes(p, q) /\ ~Supersedes(q, p)
  BY <1>1 DEF Latest
<1>4. QED
  BY <1>1, <1>2, <1>3 DEF Supersedes

\* CommittedName finds the latest version of the file.
LEMMA NameOfLatest ==
  ASSUME TypeOK, NEW p \in InodePages, Latest(p)
  PROVE  CommittedName(inodeArea[p].ino) = inodeArea[p].name
<1> DEFINE i == inodeArea[p].ino
           x == CHOOSE q \in InodePages : Latest(q) /\ inodeArea[q].ino = i
<1>1. x \in InodePages /\ Latest(x) /\ inodeArea[x].ino = i
  OBVIOUS
<1> HIDE DEF x
<1>2. x = p
  BY <1>1, OneLatest
<1>3. CommittedName(i) = inodeArea[x].name
  BY DEF CommittedName, x
<1>4. QED
  BY <1>2, <1>3

\* get_inode() of a stored inode that has nothing to correct.
LEMMA LoadedParts ==
  ASSUME TypeOK, StoredLists, NEW p \in InodePages, Valid(p)
  PROVE  LET f == Loaded(p) IN
         /\ f.open /\ ~f.mod /\ f.ino = inodeArea[p].ino /\ f.ver = inodeArea[p].ver
         /\ f.page = p /\ f.del = {} /\ f.len = inodeArea[p].len
         /\ Len(f.dp) = f.len /\ DOMAIN f.dp = DOMAIN inodeArea[p].ids
         /\ \A k \in DOMAIN f.dp : f.dp[k].id = inodeArea[p].ids[k] /\ ~f.dp[k].new
         /\ HandlePages(f) = StoredPages(p)
<1> DEFINE i == inodeArea[p]
           f == Loaded(p)
<1>1. i \in Inode /\ p \in ValidPages
  BY LoadedType DEF TypeOK, ValidPages
<1>2. i.ids \in Seq(DataPages) /\ i.len \in Nat /\ Len(i.ids) = i.len /\ i.extra = {}
  BY <1>1 DEF Inode, StoredLists
<1>3. Cut(i.ids, i.len) = i.ids
  BY <1>2 DEF Cut
<1>4. OverLong(i) = FALSE
  BY <1>2 DEF OverLong
<1>5. f = [open |-> TRUE, ino |-> i.ino, ver |-> i.ver, name |-> i.name, len |-> i.len,
           dp |-> [k \in 1 .. Len(i.ids) |-> [id |-> i.ids[k], new |-> FALSE]],
           del |-> {}, page |-> p, mod |-> FALSE]
  BY <1>3, <1>4 DEF Loaded
<1> HIDE DEF f
<1>6. /\ f.open /\ ~f.mod /\ f.ino = i.ino /\ f.ver = i.ver
      /\ f.page = p /\ f.del = {} /\ f.len = i.len
      /\ f.dp = [k \in 1 .. Len(i.ids) |-> [id |-> i.ids[k], new |-> FALSE]]
  BY <1>5
<1>7. /\ Len(f.dp) = f.len /\ DOMAIN f.dp = DOMAIN i.ids
      /\ \A k \in DOMAIN f.dp : f.dp[k].id = i.ids[k] /\ ~f.dp[k].new
  BY <1>2, <1>6
<1>8. HandlePages(f) = StoredPages(p)
  <2>1. HandlePages(f) = {f.dp[k].id : k \in DOMAIN f.dp}
    BY <1>6 DEF HandlePages
  <2>2. StoredPages(p) = {i.ids[k] : k \in DOMAIN i.ids}
    BY <1>2 DEF StoredPages, PagesOf
  <2> HIDE DEF i
  <2>3. QED
    BY <1>7, <2>1, <2>2
<1>9. QED
  BY <1>6, <1>7, <1>8 DEF f

LEMMA FoundPages ==
  ASSUME TypeOK, TypeOK', Control, Numbered, PagesInv, todo # <<>>,
         Head(todo).t = "visit", todo' = Tail(todo),
         NEW p \in InodePages, Latest(p), inodeArea[p].name = Head(todo).n,
         hs' = [hs EXCEPT ![Tmp] = Loaded(p)],
         UNCHANGED <<inodeArea, dataArea, up, freeData, reserved, maxIno, old, doomed>>
  PROVE  PagesInv'
<1>1. PICK f \in Handle : f = Loaded(p)
  BY LoadedType DEF Latest, TypeOK
<1>2. /\ f.open /\ ~f.mod /\ f.ino = inodeArea[p].ino /\ f.ver = inodeArea[p].ver
      /\ f.page = p /\ f.del = {} /\ f.len = inodeArea[p].len
      /\ Len(f.dp) = f.len /\ DOMAIN f.dp = DOMAIN inodeArea[p].ids
      /\ \A k \in DOMAIN f.dp : f.dp[k].id = inodeArea[p].ids[k] /\ ~f.dp[k].new
      /\ HandlePages(f) = StoredPages(p)
  BY <1>1, LoadedParts DEF PagesInv, Latest
<1>3. p \in ValidPages /\ Valid(p) /\ inodeArea[p].ino # 0
  BY DEF Numbered, ValidPages, Latest
<1>4. doomed = {} /\ todo \in Seq(Task)
  BY NothingDoomed DEF TypeOK
<1>5. up = "up" /\ ~hs[Tmp].open
  BY TaskPlaces
<1>6. hs'[Tmp] = f /\ \A b \in Actors \ {Tmp} : hs'[b] = hs[b] /\ Tmp \in Actors
  BY <1>1 DEF TypeOK, Actors
<1>7. ASSUME NEW b \in Actors \ {Tmp}, hs[b].open
      PROVE  hs[b].ino # f.ino
  <2>1. b \in Handles
    BY DEF Actors
  <2>2. hs[b].ino # 0 => CommittedName(hs[b].ino) # Head(todo).n
    BY <1>7, <2>1 DEF PagesInv, SearchesStored
  <2>3. CommittedName(inodeArea[p].ino) = Head(todo).n
    BY NameOfLatest
  <2>4. QED
    BY <1>2, <1>3, <2>2, <2>3
<1>8. /\ StoredLists' /\ StoredVersions' /\ StoredShares' /\ SettledShares'
      /\ ValidPages' = ValidPages
      /\ \A q \in InodePages : (Valid(q)' <=> Valid(q))
      /\ \A q \in InodePages : StoredPages(q)' = StoredPages(q)
  BY StoredSame
<1>9. ValidPages \subseteq InodePages
  BY DEF ValidPages
<1>10. /\ PlainTasks'
       /\ todo' = <<>> \/ Head(todo').t \in OpenModes \cup {"removeOther", "visit", "correct", "renameSelf"}
  <2>1. PlainTasks'
    BY <1>4, PlainPop DEF PagesInv
  <2>2. Head(todo).t \notin FlushKinds
    BY DEF FlushKinds
  <2>3. QED
    BY <2>1, <2>2, AfterTask
<1>11. SearchesStored'
  BY <1>2, <1>6, SearchDone DEF PagesInv, FlushKinds
<1>12. \A b : ~Committing(b)' /\ ~Replacing(b)' /\ ~Replacing(b)
  BY <1>10, NothingToCommit DEF OpenModes
<1>13. HandleLists'
  <2>1. /\ \A j, k \in DOMAIN inodeArea[p].ids :
             inodeArea[p].ids[j] = inodeArea[p].ids[k] => j = k
        /\ \A d \in StoredPages(p) : dataArea[d] # Blank
        /\ HandleLists
    BY <1>3 DEF PagesInv, StoredLists
  <2>2. \A k \in DOMAIN f.dp : f.dp[k].id \in HandlePages(f)
    BY DEF HandlePages
  <2>3. FitsList(f)
    BY <1>2, <1>5, <2>1, <2>2 DEF FitsList
  <2>4. Tmp \in Actors /\ \A b \in Actors \ {Tmp} : hs'[b] = hs[b]
    BY <1>6 DEF Actors
  <2>5. FitsList(hs'[Tmp])
    BY <1>6, <2>3, <2>4 DEF TypeOK
  <2>6. QED
    BY <2>1, <2>4, <2>5, ListFits
<1>14. \A b \in Actors : b = Tmp \/ (b # Tmp /\ hs'[b] = hs[b])
  BY <1>6
<1>15. FreeIsUnused'
  <2>1. HandlePages(f) \cap freeData = {}
    BY <1>2, <1>3, <1>5 DEF PagesInv, FreeIsUnused
  <2>2. \A b \in Actors : HandlePages(hs'[b]) \cap freeData = {}
    BY <1>6, <1>14, <2>1 DEF PagesInv, FreeIsUnused
  <2>3. QED
    BY <1>8, <1>9, <2>2 DEF PagesInv, FreeIsUnused
<1>16. DoomedIsOld'
  BY <1>4 DEF DoomedIsOld
<1>17. HandlePlaces'
  <2>1. SUFFICES ASSUME NEW b \in Actors, hs'[b].open
                 PROVE  IF Valid(hs'[b].page)
                        THEN inodeArea[hs'[b].page].ino = hs'[b].ino
                             /\ inodeArea[hs'[b].page].ver = hs'[b].ver
                        ELSE hs'[b].page \in reserved
    BY DEF HandlePlaces, Valid
  <2>2. CASE b = Tmp
    BY <2>2, <1>2, <1>3, <1>6
  <2>3. CASE b # Tmp
    BY <2>1, <2>3, <1>6 DEF PagesInv, HandlePlaces
  <2>4. QED
    BY <2>2, <2>3
<1>18. ASSUME NEW b \in Actors \ {Tmp}
       PROVE  /\ HandlePages(f) \cap HandlePages(hs[b]) = {}
              /\ hs[b].open => hs[b].page # p /\ hs[b].ino # f.ino
  <2>1. HandlePages(hs[b]) \cap StoredPages(p) # {} => hs[b].ino = f.ino
    BY <1>2, <1>3 DEF PagesInv, HandleShares
  <2>2. ~hs[b].open => HandlePages(hs[b]) = {}
    BY NoHandleParts DEF PagesInv, HandleLists
  <2>3. hs[b].open => hs[b].page # p
    BY <1>2, <1>3, <1>7 DEF PagesInv, HandlePlaces
  <2>4. QED
    BY <1>2, <1>7, <2>1, <2>2, <2>3
<1>19. HandlesApart'
  <2>1. SUFFICES ASSUME NEW b \in Actors, NEW c \in Actors, b # c
                 PROVE  /\ HandlePages(hs'[b]) \cap HandlePages(hs'[c]) = {}
                        /\ hs'[b].open /\ hs'[c].open => hs'[b].page # hs'[c].page
                        /\ ~(/\ hs'[b].open /\ hs'[c].open
                             /\ hs'[b].ino = hs'[c].ino /\ hs'[b].ino # 0)
    BY DEF HandlesApart
  <2>2. CASE b = Tmp
    BY <2>1, <2>2, <1>2, <1>6, <1>18
  <2>3. CASE c = Tmp
    BY <2>1, <2>3, <1>2, <1>6, <1>18
  <2>4. CASE b # Tmp /\ c # Tmp
    <3>1. hs'[b] = hs[b] /\ hs'[c] = hs[c]
      BY <2>4, <1>6
    <3>2. /\ HandlePages(hs[b]) \cap HandlePages(hs[c]) = {}
          /\ hs[b].open /\ hs[c].open => hs[b].page # hs[c].page
      BY <2>1 DEF PagesInv, HandlesApart
    <3>3. ~(hs[b].open /\ hs[c].open /\ hs[b].ino = hs[c].ino /\ hs[b].ino # 0)
      BY <2>1, NothingShared
    <3>4. QED
      BY <3>1, <3>2, <3>3
  <2>5. QED
    BY <2>2, <2>3, <2>4
<1>20. HandleShares'
  <2>1. SUFFICES ASSUME NEW b \in Actors, NEW q \in ValidPages,
                        HandlePages(hs'[b]) \cap StoredPages(q) # {}
                 PROVE  /\ inodeArea[q].ino = hs'[b].ino
                        /\ Erasing => q = hs'[b].page
    BY <1>8, <1>9 DEF HandleShares
  <2>2. CASE b = Tmp
    <3>1. StoredPages(p) \cap StoredPages(q) # {}
      BY <1>2, <1>6, <2>1, <2>2
    <3>2. inodeArea[q].ino = inodeArea[p].ino
      BY <1>3, <3>1 DEF PagesInv, StoredShares, SameFile
    <3>3. Erasing => q = p
      BY <1>3, <1>4, <1>5, <3>1 DEF PagesInv, SettledShares
    <3>4. QED
      BY <1>2, <1>6, <2>2, <3>2, <3>3
  <2>3. CASE b # Tmp
    BY <1>4, <1>6, <1>12, <2>1, <2>3 DEF PagesInv, HandleShares
  <2>4. QED
    BY <2>2, <2>3
<1>21. HandleVersions'
  <2>1. SUFFICES ASSUME NEW b \in Actors, NEW q \in ValidPages,
                        hs'[b].open, inodeArea[q].ino = hs'[b].ino
                 PROVE  inodeArea[q].ver <= hs'[b].ver
    BY <1>8, <1>12 DEF HandleVersions
  <2>2. CASE b = Tmp
    <3>1. inodeArea[q].ino = inodeArea[p].ino
      BY <1>2, <1>6, <2>1, <2>2
    <3>2. ~(inodeArea[q].ver > inodeArea[p].ver)
      BY <3>1 DEF Latest, Supersedes
    <3>3. inodeArea[q].ver \in Nat /\ inodeArea[p].ver \in Nat
      BY <1>3, LoadedType DEF TypeOK, ValidPages, Inode
    <3>4. QED
      BY <1>2, <1>6, <2>2, <3>2, <3>3
  <2>3. CASE b # Tmp
    BY <1>6, <2>1, <2>3 DEF PagesInv, HandleVersions
  <2>4. QED
    BY <2>2, <2>3
<1>22. CommitsToFresh' /\ ReplacesOld'
  BY <1>12 DEF CommitsToFresh, ReplacesOld
<1>23. QED
  BY <1>8, <1>10, <1>11, <1>13, <1>15, <1>16, <1>17, <1>19, <1>20, <1>21, <1>22
     DEF PagesInv

LEMMA VisitPages ==
  ASSUME TypeOK, TypeOK', Control, Numbered, PagesInv, Visit
  PROVE  PagesInv'
<1>1. /\ Doing("visit") /\ Then(<<>>) /\ scan' = {}
      /\ UNCHANGED <<inodeArea, dataArea, up, freeData, reserved, maxIno, old, doomed>>
      /\ \/ UNCHANGED hs
         \/ \E p \in InodePages :
              /\ Latest(p)
              /\ inodeArea[p].name = Head(todo).n
              /\ Head(todo).n # NoName
              /\ hs' = [hs EXCEPT ![Tmp] = Loaded(p)]
  BY PlainVisit DEF PagesInv
<1>2. todo # <<>> /\ Head(todo).t = "visit" /\ todo \in Seq(Task)
  BY <1>1 DEF Doing, TypeOK
<1>3. todo' = Tail(todo)
  BY <1>1, <1>2, Popped
<1>4. CASE UNCHANGED hs
  BY <1>4, QuietSearch
<1>5. ASSUME NEW p \in InodePages, Latest(p), inodeArea[p].name = Head(todo).n,
             hs' = [hs EXCEPT ![Tmp] = Loaded(p)]
      PROVE  PagesInv'
  BY <1>1, <1>2, <1>3, <1>5, FoundPages
<1>6. QED
  BY <1>1, <1>4, <1>5

(***************************************************************************)
(* open() hands out a handle.                                              *)
(***************************************************************************)
\* A handle without content on a fresh page: of a new file, or of the one
\* that the handle of find_file() is on.
LEMMA NewHandlePages ==
  ASSUME TypeOK, TypeOK', Numbered, PagesInv, todo # <<>>, Head(todo).t \in OpenModes,
         NEW h \in Handles, ~hs[h].open, NEW page \in InodePageChoices, page # NoPage,
         NEW g, g.open, g.dp = <<>>, g.len = 0, g.del = {}, g.page = page,
         \/ g.ino = 0 /\ todo' = <<>>
         \/ /\ g.ino = hs[Tmp].ino /\ g.ver = hs[Tmp].ver
            /\ hs[Tmp].open /\ ~hs[Tmp].mod
            /\ todo' = <<On("flush", Tmp), On("drop", Tmp)>>,
         hs' = [hs EXCEPT ![h] = g], reserved' = reserved \cup {page}, up = "up",
         UNCHANGED <<inodeArea, dataArea, up, freeData, old, doomed>>
  PROVE  PagesInv'
<1>1. doomed = {} /\ h \in Actors /\ h # Tmp /\ Tmp \in Actors
  BY NothingDoomed, HandleAssumption DEF OpenModes, Actors
<1>2. hs'[h] = g /\ \A b \in Actors \ {h} : hs'[b] = hs[b]
  BY <1>1 DEF TypeOK
<1>3. HandlePages(g) = {} /\ Len(g.dp) = 0 /\ DOMAIN g.dp = {}
  <2>1. Len(<<>>) = 0 /\ DOMAIN <<>> = {}
    OBVIOUS
  <2>2. QED
    BY <2>1 DEF HandlePages
<1>4. /\ page \in InodePages /\ ~Valid(page) /\ page \notin reserved
      /\ \A a \in Actors : hs[a].open => hs[a].page # page
  BY FreshPage
<1>5. /\ StoredLists' /\ StoredVersions' /\ StoredShares' /\ SettledShares'
      /\ ValidPages' = ValidPages
      /\ \A q \in InodePages : (Valid(q)' <=> Valid(q))
      /\ \A q \in InodePages : StoredPages(q)' = StoredPages(q)
      /\ ValidPages \subseteq InodePages
  BY StoredSame DEF ValidPages
<1>6. /\ todo' = <<>> \/ todo' = <<On("flush", Tmp), On("drop", Tmp)>>
      /\ On("flush", Tmp) \in Task /\ On("drop", Tmp) \in Task
      /\ On("flush", Tmp).t = "flush" /\ On("drop", Tmp).t = "drop"
  BY MountTasks, TaskParts
<1>7. todo' = <<>> \/ Head(todo').t = "flush"
  BY <1>6, Tuple2
<1>8. PlainTasks'
  BY <1>6, PlainShort DEF Corrections, Searches
<1>9. SearchesStored'
  BY <1>7, NoSearch
<1>10. \A b : ~Committing(b)' /\ ~Replacing(b)' /\ ~Replacing(b)
  BY <1>7, NothingToCommit DEF OpenModes
<1>11. FreeIsUnused'
  <2>1. \A b \in Actors : HandlePages(hs'[b]) \cap freeData = {}
    BY <1>2, <1>3 DEF PagesInv, FreeIsUnused
  <2>2. QED
    BY <1>5, <2>1 DEF PagesInv, FreeIsUnused
<1>12. DoomedIsOld'
  BY <1>1 DEF DoomedIsOld
<1>13. HandleLists'
  <2>1. FitsList(g)
    BY <1>3 DEF FitsList
  <2>2. HandleLists
    BY DEF PagesInv
  <2>3. QED
    BY <1>1, <1>2, <2>1, <2>2, ListFits
<1>14. HandlePlaces'
  <2>1. SUFFICES ASSUME NEW b \in Actors, hs'[b].open
                 PROVE  IF Valid(hs'[b].page)
                        THEN inodeArea[hs'[b].page].ino = hs'[b].ino
                             /\ inodeArea[hs'[b].page].ver = hs'[b].ver
                        ELSE hs'[b].page \in reserved'
    BY DEF HandlePlaces, Valid
  <2>2. CASE b = h
    BY <2>2, <1>2, <1>4
  <2>3. CASE b # h
    BY <2>1, <2>3, <1>2 DEF PagesInv, HandlePlaces
  <2>4. QED
    BY <2>2, <2>3
<1>15. ASSUME NEW b \in Actors, b # h, hs[b].open
       PROVE  /\ hs[b].page # page
              /\ hs[b].ino = g.ino /\ g.ino # 0 =>
                   /\ b = Tmp /\ ~hs[Tmp].mod
                   /\ todo' = <<On("flush", Tmp), On("drop", Tmp)>>
  <2>1. hs[b].page # page
    BY <1>4, <1>15
  <2>2. ASSUME hs[b].ino = g.ino, g.ino # 0
        PROVE  b = Tmp
    <3>1. hs[Tmp].open /\ hs[Tmp].ino = hs[b].ino /\ hs[b].ino # 0
      BY <2>2
    <3>2. Head(todo).t \notin {"flush", "drop"}
      BY DEF OpenModes
    <3>3. QED
      BY <1>1, <1>15, <3>1, <3>2, NothingShared
  <2>3. QED
    BY <2>1, <2>2
<1>16. HandlesApart'
  <2>1. SUFFICES ASSUME NEW b \in Actors, NEW c \in Actors, b # c
                 PROVE  /\ HandlePages(hs'[b]) \cap HandlePages(hs'[c]) = {}
                        /\ hs'[b].open /\ hs'[c].open => hs'[b].page # hs'[c].page
                        /\ hs'[b].open /\ hs'[c].open /\ hs'[b].ino = hs'[c].ino
                             /\ hs'[b].ino # 0 =>
                             /\ ~hs'[Tmp].mod
                             /\ Tmp \in {b, c}
                             /\ todo' \in {<<On("flush", Tmp), On("drop", Tmp)>>,
                                           <<On("drop", Tmp)>>}
    BY DEF HandlesApart
  <2>2. hs'[Tmp] = hs[Tmp]
    BY <1>1, <1>2
  <2>3. CASE b = h
    BY <2>1, <2>2, <2>3, <1>2, <1>3, <1>15
  <2>4. CASE c = h
    BY <2>1, <2>2, <2>4, <1>2, <1>3, <1>15
  <2>5. CASE b # h /\ c # h
    <3>1. hs'[b] = hs[b] /\ hs'[c] = hs[c]
      BY <2>5, <1>2
    <3>2. /\ HandlePages(hs[b]) \cap HandlePages(hs[c]) = {}
          /\ hs[b].open /\ hs[c].open => hs[b].page # hs[c].page
      BY <2>1 DEF PagesInv, HandlesApart
    <3>3. Head(todo).t \notin {"flush", "drop"}
      BY DEF OpenModes
    <3>4. ~(hs[b].open /\ hs[c].open /\ hs[b].ino = hs[c].ino /\ hs[b].ino # 0)
      BY <2>1, <3>3, NothingShared
    <3>5. QED
      BY <3>1, <3>2, <3>4
  <2>6. QED
    BY <2>3, <2>4, <2>5
<1>17. HandleShares'
  <2>1. SUFFICES ASSUME NEW b \in Actors, NEW q \in ValidPages,
                        HandlePages(hs'[b]) \cap StoredPages(q) # {}
                 PROVE  /\ inodeArea[q].ino = hs'[b].ino
                        /\ Erasing => q = hs'[b].page
    BY <1>5 DEF HandleShares
  <2>2. b # h
    BY <1>2, <1>3, <2>1
  <2>3. QED
    BY <1>1, <1>2, <1>10, <2>1, <2>2 DEF PagesInv, HandleShares
<1>18. HandleVersions'
  <2>1. SUFFICES ASSUME NEW b \in Actors, NEW q \in ValidPages,
                        hs'[b].open, inodeArea[q].ino = hs'[b].ino
                 PROVE  inodeArea[q].ver <= hs'[b].ver
    BY <1>5, <1>10 DEF HandleVersions
  <2>2. CASE b = h
    <3>1. inodeArea[q].ino = g.ino /\ g.ino # 0
      BY <1>2, <2>1, <2>2 DEF Numbered
    <3>2. hs[Tmp].open /\ inodeArea[q].ino = hs[Tmp].ino /\ g.ver = hs[Tmp].ver
      BY <3>1
    <3>3. inodeArea[q].ver <= hs[Tmp].ver
      BY <1>1, <3>2 DEF PagesInv, HandleVersions
    <3>4. QED
      BY <1>2, <2>2, <3>2, <3>3
  <2>3. CASE b # h
    BY <1>2, <2>1, <2>3 DEF PagesInv, HandleVersions
  <2>4. QED
    BY <2>2, <2>3
<1>19. CommitsToFresh' /\ ReplacesOld'
  BY <1>10 DEF CommitsToFresh, ReplacesOld
<1>20. QED
  BY <1>5, <1>8, <1>9, <1>11, <1>12, <1>13, <1>14, <1>16, <1>17, <1>18, <1>19
     DEF PagesInv

LEMMA OpenNewPages ==
  ASSUME TypeOK, TypeOK', Control, Numbered, PagesInv, OpenMissing \/ OpenTrunc
  PROVE  PagesInv'
<1> DEFINE t == Head(todo).t
           h == Head(todo).h
<1>1. /\ todo # <<>> /\ t \in OpenModes /\ todo \in Seq(Task)
      /\ UNCHANGED <<inodeArea, dataArea, up, freeData, old, doomed>>
  BY DEF OpenMissing, OpenTrunc, Doing, OpenModes, TypeOK, flash, locals
<1>2. up = "up" /\ \E k \in Handles, n \in Names : ~hs[k].open /\ todo = <<OnName(t, k, n)>>
  BY <1>1, TaskPlaces DEF OpenModes
<1>3. h \in Handles /\ ~hs[h].open /\ Tail(todo) = <<>>
  <2>1. PICK k \in Handles, n \in Names : ~hs[k].open /\ todo = <<OnName(t, k, n)>>
    BY <1>2
  <2>2. Head(todo) = OnName(t, k, n) /\ Tail(todo) = <<>>
    BY <2>1, Tuple1
  <2>3. h = k
    BY <2>2, TaskParts
  <2>4. QED
    BY <2>1, <2>2, <2>3
<1>4. CASE OpenMissing
  <2>1. CASE UNCHANGED <<hs, reserved>>
    BY <1>4, <2>1, QuietOther
  <2>2. CASE ~UNCHANGED <<hs, reserved>>
    <3> DEFINE g(page) == [[NoHandle EXCEPT !.name = Head(todo).n, !.mod = TRUE]
                             EXCEPT !.open = TRUE, !.page = page]
    <3>1. \E page \in InodePageChoices :
            /\ page # NoPage
            /\ hs' = [hs EXCEPT ![h] = g(page)]
            /\ reserved' = reserved \cup {page}
      BY <1>4, <2>2 DEF OpenMissing, NewHandle
    <3>2. PICK page \in InodePageChoices :
            /\ page # NoPage
            /\ hs' = [hs EXCEPT ![h] = g(page)]
            /\ reserved' = reserved \cup {page}
      BY <3>1
    <3>3. /\ g(page).open /\ g(page).dp = <<>> /\ g(page).len = 0 /\ g(page).del = {}
          /\ g(page).page = page /\ g(page).ino = 0
      BY DEF NoHandle
    <3>4. todo' = <<>>
      <4>1. Then(<<>>)
        BY <1>4 DEF OpenMissing
      <4>2. QED
        BY <1>1, <1>3, <4>1, Popped
    <3> HIDE DEF g, h
    <3>5. QED
      BY <1>1, <1>2, <1>3, <3>2, <3>3, <3>4, NewHandlePages
  <2>3. QED
    BY <2>1, <2>2
<1>5. CASE OpenTrunc
  <2>1. CASE UNCHANGED <<hs, reserved>>
    BY <1>5, <2>1, QuietOther
  <2>2. CASE ~UNCHANGED <<hs, reserved>>
    <3> DEFINE f == hs[Tmp]
               g(page) == [[NoHandle EXCEPT !.ino = f.ino, !.ver = f.ver, !.name = f.name]
                             EXCEPT !.open = TRUE, !.page = page]
    <3>1. f.open /\ \E page \in InodePageChoices :
            /\ page # NoPage
            /\ hs' = [hs EXCEPT ![h] = g(page)]
            /\ reserved' = reserved \cup {page}
      BY <1>5, <2>2 DEF OpenTrunc, NewHandle, Actor
    <3>2. PICK page \in InodePageChoices :
            /\ page # NoPage
            /\ hs' = [hs EXCEPT ![h] = g(page)]
            /\ reserved' = reserved \cup {page}
      BY <3>1
    <3>3. /\ g(page).open /\ g(page).dp = <<>> /\ g(page).len = 0 /\ g(page).del = {}
          /\ g(page).page = page /\ g(page).ino = f.ino /\ g(page).ver = f.ver
      BY DEF NoHandle
    <3>4. todo' = <<On("flush", Tmp), On("drop", Tmp)>>
      <4>1. todo' = <<On("flush", Tmp), On("drop", Tmp)>> \o <<>>
        BY <1>3, <1>5 DEF OpenTrunc, Then
      <4>2. QED
        BY <4>1
    <3>5. ~hs[Tmp].mod
      BY <1>1 DEF PagesInv, SearchesStored
    <3> HIDE DEF g, h
    <3>6. QED
      BY <1>1, <1>2, <1>3, <3>1, <3>2, <3>3, <3>4, <3>5, NewHandlePages
  <2>3. QED
    BY <2>1, <2>2
<1>6. QED
  BY <1>4, <1>5

\* The handle of find_file() becomes the user's.
LEMMA FoundHandlePages ==
  ASSUME TypeOK, TypeOK', Control, PagesInv, OpenFound
  PROVE  PagesInv'
<1>1. PICK h \in Handles : h = Head(todo).h /\ ~hs[h].open /\ Tail(todo) = <<>>
  <2> DEFINE t == Head(todo).t
  <2>1. todo # <<>> /\ t \in {"openIn", "openOut"} /\ todo \in Seq(Task)
    BY DEF OpenFound, Doing, TypeOK
  <2>2. \E k \in Handles, n \in Names : ~hs[k].open /\ todo = <<OnName(t, k, n)>>
    BY <2>1, TaskPlaces DEF OpenModes
  <2>3. PICK k \in Handles, n \in Names : ~hs[k].open /\ todo = <<OnName(t, k, n)>>
    BY <2>2
  <2>4. Head(todo) = OnName(t, k, n) /\ Tail(todo) = <<>>
    BY <2>3, Tuple1
  <2>5. Head(todo).h = k
    BY <2>4, TaskParts
  <2>6. QED
    BY <2>3, <2>4, <2>5
<1>2. /\ todo # <<>> /\ Head(todo).t \in {"openIn", "openOut"} /\ todo \in Seq(Task)
      /\ hs' = [hs EXCEPT ![h] = hs[Tmp], ![Tmp] = NoHandle]
      /\ Then(<<>>)
      /\ UNCHANGED <<inodeArea, dataArea, up, freeData, reserved, old, doomed>>
  BY <1>1 DEF OpenFound, Doing, TypeOK, flash, alloc, locals, Actor
<1>3. todo' = <<>>
  BY <1>1, <1>2, Popped
<1>4. doomed = {} /\ h \in Actors /\ h # Tmp /\ Tmp \in Actors
  BY <1>2, NothingDoomed, HandleAssumption DEF Actors
<1>5. hs[h] = NoHandle
  BY <1>1, <1>4 DEF PagesInv, HandleLists
<1> DEFINE was(a) == IF a = h THEN Tmp ELSE IF a = Tmp THEN h ELSE a
<1>6. \A a \in Actors : was(a) \in Actors /\ hs'[a] = hs[was(a)]
  BY <1>2, <1>4, <1>5 DEF TypeOK
<1>7. \A a, b \in Actors : a # b => was(a) # was(b)
  OBVIOUS
<1>8. /\ StoredLists' /\ StoredVersions' /\ StoredShares' /\ SettledShares'
      /\ ValidPages' = ValidPages
      /\ \A q \in InodePages : (Valid(q)' <=> Valid(q))
      /\ \A q \in InodePages : StoredPages(q)' = StoredPages(q)
      /\ ValidPages \subseteq InodePages
  BY <1>2, StoredSame DEF ValidPages
<1>9. \A b : ~Committing(b)' /\ ~Replacing(b)' /\ ~Replacing(b)
  BY <1>2, <1>3, NothingToCommit
<1> HIDE DEF was
<1>10. FreeIsUnused'
  BY <1>2, <1>6, <1>8 DEF PagesInv, FreeIsUnused
<1>11. DoomedIsOld'
  BY <1>2, <1>4 DEF DoomedIsOld
<1>12. HandleLists'
  <2>1. SUFFICES ASSUME NEW b \in Actors
                 PROVE  FitsList(hs'[b])
    BY <1>2 DEF HandleLists, FitsList
  <2>2. PICK x \in Actors : hs'[b] = hs[x]
    BY <1>6
  <2>3. FitsList(hs[x])
    BY DEF PagesInv, HandleLists, FitsList
  <2>4. QED
    BY <2>2, <2>3
<1>13. HandlePlaces'
  <2>1. SUFFICES ASSUME NEW b \in Actors, hs'[b].open
                 PROVE  IF Valid(hs'[b].page)
                        THEN inodeArea[hs'[b].page].ino = hs'[b].ino
                             /\ inodeArea[hs'[b].page].ver = hs'[b].ver
                        ELSE hs'[b].page \in reserved
    BY <1>2 DEF HandlePlaces, Valid
  <2>2. PICK x \in Actors : hs'[b] = hs[x]
    BY <1>6
  <2>3. QED
    BY <2>1, <2>2 DEF PagesInv, HandlePlaces
<1>14. HandlesApart'
  <2>1. SUFFICES ASSUME NEW b \in Actors, NEW c \in Actors, b # c
                 PROVE  /\ HandlePages(hs'[b]) \cap HandlePages(hs'[c]) = {}
                        /\ hs'[b].open /\ hs'[c].open => hs'[b].page # hs'[c].page
                        /\ ~(/\ hs'[b].open /\ hs'[c].open
                             /\ hs'[b].ino = hs'[c].ino /\ hs'[b].ino # 0)
    BY DEF HandlesApart
  <2>2. PICK x \in Actors : x = was(b) /\ hs'[b] = hs[x]
    BY <1>6
  <2>3. PICK y \in Actors : y = was(c) /\ hs'[c] = hs[y]
    BY <1>6
  <2>4. x # y
    BY <1>7, <2>1, <2>2, <2>3
  <2>5. /\ HandlePages(hs[x]) \cap HandlePages(hs[y]) = {}
        /\ hs[x].open /\ hs[y].open => hs[x].page # hs[y].page
    BY <2>4 DEF PagesInv, HandlesApart
  <2>6. ~(hs[x].open /\ hs[y].open /\ hs[x].ino = hs[y].ino /\ hs[x].ino # 0)
    BY <1>2, <2>4, NothingShared
  <2>7. QED
    BY <2>2, <2>3, <2>5, <2>6
<1>15. HandleShares'
  <2>1. SUFFICES ASSUME NEW b \in Actors, NEW q \in ValidPages,
                        HandlePages(hs'[b]) \cap StoredPages(q) # {}
                 PROVE  /\ inodeArea[q].ino = hs'[b].ino
                        /\ Erasing => q = hs'[b].page
    BY <1>2, <1>8 DEF HandleShares
  <2>2. PICK x \in Actors : hs'[b] = hs[x]
    BY <1>6
  <2>3. QED
    BY <1>4, <1>9, <2>1, <2>2 DEF PagesInv, HandleShares
<1>16. HandleVersions'
  <2>1. SUFFICES ASSUME NEW b \in Actors, NEW q \in ValidPages,
                        hs'[b].open, inodeArea[q].ino = hs'[b].ino
                 PROVE  inodeArea[q].ver <= hs'[b].ver
    BY <1>2, <1>8, <1>9 DEF HandleVersions
  <2>2. PICK x \in Actors : hs'[b] = hs[x]
    BY <1>6
  <2>3. QED
    BY <2>1, <2>2 DEF PagesInv, HandleVersions
<1>17. CommitsToFresh' /\ ReplacesOld'
  BY <1>9 DEF CommitsToFresh, ReplacesOld
<1>18. PlainTasks' /\ SearchesStored'
  BY <1>3, NoSearch DEF PlainTasks
<1>19. QED
  BY <1>8, <1>10, <1>11, <1>12, <1>13, <1>14, <1>15, <1>16, <1>17, <1>18 DEF PagesInv

(***************************************************************************)
(* No file is open: power loss and mount.                                  *)
(***************************************************************************)
LEMMA ClosedPages ==
  ASSUME \A a \in Actors : hs'[a] = NoHandle,
         todo' = <<>> \/ todo' = <<On("mount", Tmp)>> \/ todo' = <<On("erase", Tmp), On("mount", Tmp)>>,
         StoredLists', StoredVersions', StoredShares', SettledShares',
         up' = "up" => \A p \in ValidPages' : StoredPages(p)' \cap freeData' = {},
         doomed' # {} => todo' # <<>> /\ Head(todo').t = "erase",
         \A p \in ValidPages' \cap doomed' : \E q \in ValidPages' \ doomed' :
           SameFile(p, q)' /\ inodeArea'[p].ver < inodeArea'[q].ver,
         \A p \in ValidPages' \ doomed' : StoredPages(p)' \cap doomed' = {}
  PROVE  PagesInv'
<1>1. /\ On("mount", Tmp) \in Task /\ On("erase", Tmp) \in Task
      /\ On("mount", Tmp).t = "mount" /\ On("erase", Tmp).t = "erase"
  BY MountTasks, TaskParts
<1>2. todo' = <<>> \/ Head(todo').t \in {"mount", "erase"}
  BY <1>1, Tuple1, Tuple2
<1>3. PlainTasks' /\ SearchesStored'
  BY <1>1, <1>2, PlainShort, NoSearch DEF Corrections, Searches
<1>4. \A b : ~Committing(b)' /\ ~Replacing(b)'
  BY <1>2, NothingToCommit
<1>5. /\ NoHandle.open = FALSE /\ NoHandle.len = 0 /\ NoHandle.del = {}
      /\ HandlePages(NoHandle) = {} /\ Len(NoHandle.dp) = 0 /\ DOMAIN NoHandle.dp = {}
  <2>1. Len(<<>>) = 0 /\ DOMAIN <<>> = {}
    OBVIOUS
  <2>2. QED
    BY <2>1, NoHandleParts
<1>6. \A a \in Actors : HandlePages(hs'[a]) = {} /\ ~hs'[a].open
  BY <1>5
<1>7. FreeIsUnused' /\ DoomedIsOld'
  BY <1>6 DEF FreeIsUnused, DoomedIsOld
<1>8. HandleLists'
  BY <1>5 DEF HandleLists
<1>9. HandlePlaces' /\ HandlesApart' /\ HandleShares' /\ HandleVersions'
  BY <1>6 DEF HandlePlaces, HandlesApart, HandleShares, HandleVersions
<1>10. CommitsToFresh' /\ ReplacesOld'
  BY <1>4 DEF CommitsToFresh, ReplacesOld
<1>11. QED
  BY <1>3, <1>7, <1>8, <1>9, <1>10 DEF PagesInv

\* The valid inodes and the content stay what they are.
LEMMA StoredKept ==
  ASSUME PagesInv, ValidPages' = ValidPages, UNCHANGED dataArea,
         \A p \in ValidPages : inodeArea'[p] = inodeArea[p]
  PROVE  /\ StoredLists' /\ StoredVersions' /\ StoredShares'
         /\ \A p \in ValidPages : StoredPages(p)' = StoredPages(p)
         /\ \A p, q \in ValidPages : SameFile(p, q)' <=> SameFile(p, q)
<1>1. /\ \A p \in ValidPages : StoredPages(p)' = StoredPages(p)
      /\ \A p, q \in ValidPages : SameFile(p, q)' <=> SameFile(p, q)
  BY DEF StoredPages, SameFile
<1>2. StoredLists'
  BY <1>1 DEF PagesInv, StoredLists
<1>3. StoredVersions'
  BY <1>1 DEF PagesInv, StoredVersions
<1>4. StoredShares'
  BY <1>1 DEF PagesInv, StoredShares
<1>5. QED
  BY <1>1, <1>2, <1>3, <1>4

\* The inode page that is torn was not valid before.
LEMMA LossPages ==
  ASSUME TypeOK, PagesInv, PowerLoss
  PROVE  PagesInv'
<1>1. /\ up' = "off" /\ hs' = [h \in Actors |-> NoHandle] /\ todo' = <<>>
      /\ freeData' = {} /\ doomed' = {} /\ dataArea' = dataArea
      /\ \/ inodeArea' = inodeArea
         \/ \E p \in InodePages : ~Valid(p) /\ inodeArea' = [inodeArea EXCEPT ![p] = Torn]
  <2>1. ASSUME Doing("meta") \/ Doing("metaNew")
        PROVE  hs[Actor].page \in InodePages /\ ~Valid(hs[Actor].page)
    <3>1. todo # <<>> /\ Head(todo).t \in {"meta", "metaNew"} /\ Actor \in Actors
      BY <2>1, HeadType DEF Doing, TypeOK
    <3>2. Committing(Actor)
      BY <3>1 DEF Committing, Actor
    <3>3. QED
      BY <3>1, <3>2 DEF PagesInv, CommitsToFresh, TypeOK, Handle
  <2>2. QED
    BY <2>1 DEF PowerLoss
<1>2. \A p \in InodePages : (Valid(p)' <=> Valid(p)) /\ (Valid(p) => inodeArea'[p] = inodeArea[p])
  <2>1. CASE inodeArea' = inodeArea
    BY <2>1 DEF Valid
  <2>2. ASSUME NEW p \in InodePages, ~Valid(p), inodeArea' = [inodeArea EXCEPT ![p] = Torn]
        PROVE  \A q \in InodePages :
                 (Valid(q)' <=> Valid(q)) /\ (Valid(q) => inodeArea'[q] = inodeArea[q])
    <3>1. \A q \in InodePages \ {p} : inodeArea'[q] = inodeArea[q]
      BY <2>2 DEF TypeOK
    <3>2. inodeArea'[p] = Torn
      BY <2>2 DEF TypeOK
    <3>3. QED
      BY <2>2, <3>1, <3>2 DEF Valid
  <2>3. QED
    BY <1>1, <2>1, <2>2
<1>3. ValidPages' = ValidPages /\ \A p \in ValidPages : inodeArea'[p] = inodeArea[p]
  BY <1>2 DEF ValidPages
<1>4. StoredLists' /\ StoredVersions' /\ StoredShares'
  BY <1>1, <1>3, StoredKept
<1>5. SettledShares'
  BY <1>1 DEF SettledShares
<1>6. QED
  BY <1>1, <1>4, <1>5, ClosedPages

\* Between power loss and init() no page is to be erased.
LEMMA ScanPages ==
  ASSUME PagesInv, Control, MountScan
  PROVE  PagesInv'
<1>1. /\ up = "off" /\ up' = "mounting" /\ todo' = <<On("mount", Tmp)>>
      /\ UNCHANGED <<inodeArea, dataArea, hs, doomed>>
  BY DEF MountScan, flash, locals
<1>2. todo = <<>> /\ doomed = {} /\ \A a \in Actors : hs'[a] = NoHandle
  BY <1>1, NothingDoomed DEF Control, AllClosed, PagesInv, HandleLists
<1>3. ValidPages' = ValidPages
  BY <1>1 DEF ValidPages, Valid
<1>4. StoredLists' /\ StoredVersions' /\ StoredShares'
  BY <1>1, <1>3, StoredKept
<1>5. SettledShares'
  BY <1>1 DEF SettledShares
<1>6. QED
  BY <1>1, <1>2, <1>4, <1>5, ClosedPages

\* The oldest version of a file and the one after it.
OldestOf(S) == CHOOSE p \in S : \A q \in S \ {p} : Older(p, q)

VersionsOf(ino) == {p \in ValidPages : inodeArea[p].ino = ino}

LEMMA OldestPages ==
  ASSUME TypeOK, NEW ino, NEW S \in SUBSET VersionsOf(ino), S # {}
  PROVE  OldestOf(S) \in S /\ \A q \in S \ {OldestOf(S)} : Older(OldestOf(S), q)
<1>1. inodeArea \in [InodePages -> Inode \cup {Blank, Torn}]
  BY DEF TypeOK
<1>2. S \in SUBSET ValidPages /\ \A p, q \in S : inodeArea[p].ino = inodeArea[q].ino
  BY DEF VersionsOf
<1>3. \E x \in S : \A y \in S \ {x} : Older(x, y)
  BY <1>1, <1>2, OldestExists
<1>4. QED
  BY <1>3 DEF OldestOf

LEMMA SeveralVersions ==
  ASSUME TypeOK, Outdated # {}
  PROVE  LET ino == Least({inodeArea[p].ino : p \in Outdated})
         IN \E p, q \in VersionsOf(ino) : p # q
<1> DEFINE S == {inodeArea[p].ino : p \in Outdated}
<1>1. S \subseteq Nat /\ S # {}
  <2>1. \A p \in ValidPages : inodeArea[p] \in Inode
    BY LoadedType DEF TypeOK, ValidPages
  <2>2. \A p \in ValidPages : inodeArea[p].ino \in Nat
    BY <2>1 DEF Inode
  <2> QED BY <2>2 DEF Outdated
<1>2. Least(S) \in S
  BY <1>1, LeastExists
<1>3. PICK p \in Outdated : inodeArea[p].ino = Least(S)
  BY <1>2
<1>4. PICK q \in ValidPages : Older(p, q)
  BY DEF Outdated
<1>5. p \in VersionsOf(Least(S)) /\ q \in VersionsOf(Least(S))
  BY <1>3, <1>4 DEF Outdated, Older, VersionsOf
<1>6. p # q
  <2>1. p \in Nat /\ inodeArea[p].ver \in Nat
    BY LoadedType, PageRanges DEF Outdated, ValidPages, TypeOK, Inode
  <2>2. QED
    BY <1>4, <2>1 DEF Older
<1>7. QED
  BY <1>5, <1>6

\* init() erases what the second oldest version does not hold, and by
\* StoredShares no other version can hold it.
LEMMA OutdatedPages ==
  ASSUME TypeOK, Control, PagesInv, EraseOutdated
  PROVE  PagesInv'
<1> DEFINE least == Least({inodeArea[p].ino : p \in Outdated})
<1>1. PICK all, a, b :
        /\ all = VersionsOf(least) /\ a = OldestOf(all) /\ b = OldestOf(all \ {a})
        /\ doomed' = UnusedPages(a, PagesOf(inodeArea[a]), PagesOf(inodeArea[b]))
  <2> DEFINE x == VersionsOf(least)
             y == OldestOf(x)
             z == OldestOf(x \ {y})
  <2>1. doomed' = UnusedPages(y, PagesOf(inodeArea[y]), PagesOf(inodeArea[z]))
    BY DEF EraseOutdated, OldestOf, VersionsOf
  <2> HIDE DEF least
  <2>2. QED
    BY <2>1
<1>2. /\ todo # <<>> /\ Head(todo).t = "mount"
      /\ Erasing /\ Outdated # {}
      /\ todo' = <<On("erase", Tmp)>> \o todo
      /\ UNCHANGED <<inodeArea, dataArea, up, hs>>
  BY DEF EraseOutdated, Doing, flash
<1>3. /\ a \in all /\ \A q \in all \ {a} : Older(a, q)
      /\ b \in all \ {a} /\ \A q \in (all \ {a}) \ {b} : Older(b, q)
  <2>1. \E p, q \in all : p # q
    BY <1>1, <1>2, SeveralVersions
  <2>2. all \in SUBSET VersionsOf(least) /\ all \ {a} \in SUBSET VersionsOf(least)
    BY <1>1
  <2>3. all # {} /\ all \ {a} # {}
    BY <2>1
  <2> HIDE DEF least
  <2>4. a \in all /\ \A q \in all \ {a} : Older(a, q)
    BY <1>1, <2>2, <2>3, OldestPages
  <2>5. b \in all \ {a} /\ \A q \in (all \ {a}) \ {b} : Older(b, q)
    BY <1>1, <2>2, <2>3, OldestPages
  <2>6. QED
    BY <2>4, <2>5
<1>4. /\ doomed' = (StoredPages(a) \ StoredPages(b)) \cup {a}
      /\ \A p : p \in all <=> p \in ValidPages /\ SameFile(a, p)
      /\ all \subseteq ValidPages /\ ValidPages \subseteq InodePages
  <2>1. doomed' = (StoredPages(a) \ StoredPages(b)) \cup {a}
    BY <1>1, <1>2 DEF UnusedPages, StoredPages
  <2> HIDE DEF least
  <2>2. \A p : p \in all <=> p \in ValidPages /\ inodeArea[p].ino = least
    BY <1>1 DEF VersionsOf
  <2>3. inodeArea[a].ino = least
    BY <1>3, <2>2
  <2>4. \A p : p \in all <=> p \in ValidPages /\ SameFile(a, p)
    BY <2>2, <2>3 DEF SameFile
  <2>5. QED
    BY <2>1, <2>2, <2>4 DEF ValidPages
<1> HIDE DEF least
<1>5. /\ up = "mounting" /\ todo = <<On("mount", Tmp)>>
      /\ \A x \in Actors : hs'[x] = NoHandle
  BY <1>2, TaskPlaces DEF AllClosed, PagesInv, HandleLists
<1>6. todo' = <<On("erase", Tmp), On("mount", Tmp)>> /\ Head(todo').t = "erase"
  <2>1. todo' = <<On("erase", Tmp), On("mount", Tmp)>>
    BY <1>2, <1>5, MountTasks, Join11
  <2>2. QED
    BY <2>1, Tuple2, TaskParts
<1>7. /\ ValidPages' = ValidPages
      /\ StoredLists' /\ StoredVersions' /\ StoredShares'
      /\ \A p \in ValidPages : StoredPages(p)' = StoredPages(p)
      /\ \A p, q \in ValidPages : SameFile(p, q)' <=> SameFile(p, q)
  <2>1. ValidPages' = ValidPages
    BY <1>2 DEF ValidPages, Valid
  <2>2. QED
    BY <1>2, <2>1, StoredKept
<1>8. ASSUME NEW p \in all, NEW q \in all, p # q, Older(p, q)
      PROVE  inodeArea[p].ver < inodeArea[q].ver
  <2>1. inodeArea[p].ver # inodeArea[q].ver
    BY <1>4, <1>8 DEF PagesInv, StoredVersions, SameFile
  <2>2. QED
    BY <1>8, <2>1 DEF Older
<1>9. \A p \in ValidPages : StoredPages(p) \subseteq DataPages
  BY LoadedType, PagesTypes DEF TypeOK, ValidPages, StoredPages
<1>10. \A p \in ValidPages \cap doomed' : p = a
  BY <1>3, <1>4, <1>9, PageRanges
<1>11. b \in ValidPages \ doomed' /\ SameFile(a, b) /\ inodeArea[a].ver < inodeArea[b].ver
  BY <1>3, <1>4, <1>8, <1>10
<1>12. ASSUME NEW p \in ValidPages \ doomed'
       PROVE  StoredPages(p) \cap doomed' = {}
  <2>1. SUFFICES ASSUME NEW d \in StoredPages(p) \cap doomed' PROVE FALSE
    OBVIOUS
  <2>2. d \in StoredPages(a) /\ d \notin StoredPages(b)
    BY <1>3, <1>4, <1>9, <2>1, PageRanges
  <2>3. p # a /\ p # b
    BY <1>4, <2>1, <2>2
  <2>4. SameFile(a, p) /\ ~(inodeArea[a].ver < inodeArea[b].ver
                            /\ inodeArea[b].ver < inodeArea[p].ver)
    BY <1>2, <1>3, <1>4, <1>11, <2>1, <2>2, <2>3 DEF PagesInv, StoredShares
  <2>5. p \in (all \ {a}) \ {b}
    BY <1>4, <2>3, <2>4
  <2>6. inodeArea[b].ver < inodeArea[p].ver
    BY <1>3, <1>8, <2>5
  <2>7. QED
    BY <1>11, <2>4, <2>6
<1>13. \A p \in ValidPages' \cap doomed' : \E q \in ValidPages' \ doomed' :
         SameFile(p, q)' /\ inodeArea'[p].ver < inodeArea'[q].ver
  <2>1. TAKE p \in ValidPages' \cap doomed'
  <2>2. p = a /\ b \in ValidPages' \ doomed' /\ p \in ValidPages
    BY <1>7, <1>10, <1>11
  <2>3. SameFile(p, b)' /\ inodeArea'[p].ver < inodeArea'[b].ver
    BY <1>2, <1>7, <1>11, <2>2
  <2>4. QED
    BY <2>2, <2>3
<1>14. \A p \in ValidPages' \ doomed' : StoredPages(p)' \cap doomed' = {}
  BY <1>7, <1>12
<1>15. SettledShares' /\ up' # "up"
  BY <1>2, <1>5 DEF SettledShares
<1>16. QED
  BY <1>5, <1>6, <1>7, <1>13, <1>14, <1>15, ClosedPages

\* The old versions are gone, and with them every page two inodes share.
LEMMA DonePages ==
  ASSUME TypeOK, Control, PagesInv, MountDone
  PROVE  PagesInv'
<1>1. /\ todo # <<>> /\ Head(todo).t = "mount" /\ todo \in Seq(Task)
      /\ Erasing => Outdated = {}
      /\ freeData' = freeData \ UsedPages
      /\ up' = "up" /\ Then(<<>>)
      /\ UNCHANGED <<inodeArea, dataArea, hs, doomed>>
  BY DEF MountDone, Doing, TypeOK, flash, locals
<1>2. /\ todo = <<On("mount", Tmp)>>
      /\ \A x \in Actors : hs'[x] = NoHandle
  BY <1>1, TaskPlaces DEF AllClosed, PagesInv, HandleLists
<1>3. todo' = <<>> /\ doomed = {}
  BY <1>1, <1>2, Popped, Tuple1, NothingDoomed
<1>4. /\ ValidPages' = ValidPages
      /\ StoredLists' /\ StoredVersions' /\ StoredShares'
      /\ \A p \in ValidPages : StoredPages(p)' = StoredPages(p)
  <2>1. ValidPages' = ValidPages
    BY <1>1 DEF ValidPages, Valid
  <2>2. QED
    BY <1>1, <2>1, StoredKept
<1>5. ASSUME Erasing, NEW p \in ValidPages, NEW q \in ValidPages, p # q
      PROVE  StoredPages(p) \cap StoredPages(q) = {}
  <2>1. ~Older(p, q) /\ ~Older(q, p)
    BY <1>1, <1>5 DEF Outdated
  <2>2. inodeArea[p].ver \in Nat /\ inodeArea[q].ver \in Nat
    BY LoadedType DEF ValidPages, TypeOK, Inode
  <2>3. SameFile(p, q) => inodeArea[p].ver # inodeArea[q].ver
    BY <1>5 DEF PagesInv, StoredVersions
  <2>4. ~SameFile(p, q)
    BY <2>1, <2>2, <2>3 DEF Older, SameFile
  <2>5. QED
    BY <1>5, <2>4 DEF PagesInv, StoredShares
<1>6. SettledShares'
  BY <1>4, <1>5 DEF SettledShares
<1>7. \A p \in ValidPages' : StoredPages(p)' \cap freeData' = {}
  <2>1. \A p \in ValidPages : StoredPages(p) \subseteq UsedPages
    BY DEF StoredPages, UsedPages
  <2>2. QED
    BY <1>1, <1>4, <2>1
<1>8. QED
  BY <1>1, <1>2, <1>3, <1>4, <1>6, <1>7, ClosedPages

(***************************************************************************)
(* Every step keeps PagesInv.                                              *)
(***************************************************************************)
LEMMA AllVersionPages ==
  ASSUME TypeOK, TypeOK', Control, PagesInv, FlushVersion
  PROVE  PagesInv'
<1>1. PICK page \in InodePageChoices :
        IF page = NoPage
        THEN Then(<<>>) /\ UNCHANGED <<hs, reserved, old>>
        ELSE /\ reserved' = reserved \cup {page}
             /\ old' = [page |-> hs[Actor].page, ids |-> HandlePages(hs[Actor])]
             /\ hs' = [hs EXCEPT ![Actor].page = page,
                                 ![Actor].ver = NextVersion(@),
                                 ![Actor].del = {}]
             /\ Then(<<On("zero", Actor), On("meta", Actor)>>)
  BY DEF FlushVersion
<1>2. CASE page = NoPage
  BY <1>1, <1>2, QuietFlush
<1>3. CASE page # NoPage
  <2>1. PICK f, g : f = hs[Actor] /\ g = NextHandle(f, page)
    OBVIOUS
  <2>2. Actor \in Actors /\ f \in Handle
    BY <2>1, HeadType DEF FlushVersion, Doing, TypeOK
  <2>3. hs' = [hs EXCEPT ![Actor] = g]
    BY <1>1, <1>3, <2>1, <2>2 DEF NextHandle, Handle, TypeOK
  <2>4. QED
    BY <1>1, <1>3, <2>1, <2>3, VersionPages
<1>4. QED
  BY <1>2, <1>3

LEMMA WorkPages ==
  ASSUME PlainUse, TypeOK, TypeOK', Control, Numbered, NumbersBounded, PagesInv, Work
  PROVE  PagesInv'
<1>1. ASSUME NEW t \in {"write", "grow", "seek", "clean"}
      PROVE  ~(todo # <<>> /\ Head(todo).t = t)
  <2>1. SUFFICES ASSUME todo # <<>>, Head(todo).t = t PROVE FALSE
    OBVIOUS
  <2>2. todo[1] = Head(todo) /\ 1 \in 1 .. Len(todo)
    BY <2>1 DEF TypeOK
  <2>3. QED
    BY <2>1, <2>2 DEF PagesInv, PlainTasks
<1>2. CASE WriteWork \/ EnlargeStep
  BY <1>1, <1>2 DEF WriteWork, WriteOn, WriteRefused, Doing, EnlargeStep
<1>3. CASE FlushNumber
  BY <1>3, NumberPages, QuietFlush
<1>4. CASE FlushVersion
  BY <1>4, AllVersionPages
<1>5. CASE WriteZeroPage
  BY <1>5, QuietFlush
<1>6. CASE WriteMeta
  BY <1>6, MetaPages
<1>7. CASE WriteMetaFails
  BY <1>7 DEF WriteMetaFails, PlainUse, Refusals
<1>8. CASE ErasePage
  BY <1>8, ErasePages, QuietFlush
<1>9. CASE Drop
  BY <1>9, HandleWork
<1>10. CASE Deleted
  BY <1>10, HandleWork, QuietOther
<1>11. CASE FindScan \/ Correct
  BY <1>11, QuietSearch
<1>12. CASE Visit
  BY <1>12, VisitPages
<1>13. CASE OpenMissing \/ OpenTrunc
  BY <1>13, OpenNewPages
<1>14. CASE OpenFound
  BY <1>14, FoundHandlePages
<1>15. CASE RemoveOther
  BY <1>15, HandleWork, QuietOther
<1>16. CASE RenameSelf
  BY <1>16, HandleWork
<1>17. CASE Clean
  BY <1>1, <1>17 DEF Clean, Doing
<1>18. CASE EraseOutdated
  BY <1>18, OutdatedPages
<1>19. CASE MountDone
  BY <1>19, DonePages
<1>20. QED
  BY <1>2, <1>3, <1>4, <1>5, <1>6, <1>7, <1>8, <1>9, <1>10, <1>11, <1>12, <1>13, <1>14,
     <1>15, <1>16, <1>17, <1>18, <1>19 DEF Work, WriteWork

LEMMA PagesNext ==
  ASSUME PlainUse, BaseInv, BaseInv', PagesInv, [Next]_vars
  PROVE  PagesInv'
<1>1. TypeOK /\ TypeOK' /\ Control /\ Numbered /\ NumbersBounded
  BY DEF BaseInv, NumbersInv
<1>2. CASE Call
  BY <1>1, <1>2, CallPages
<1>3. CASE Work
  BY <1>1, <1>3, WorkPages
<1>4. CASE PowerLoss
  BY <1>1, <1>4, LossPages
<1>5. CASE MountScan
  BY <1>1, <1>5, ScanPages
<1>6. CASE UNCHANGED vars
  BY <1>1, <1>6, StutterPages
<1>7. QED
  BY <1>2, <1>3, <1>4, <1>5, <1>6 DEF Next

LEMMA PagesInit == Init => PagesInv
<1>1. SUFFICES ASSUME Init PROVE PagesInv
  OBVIOUS
<1>2. /\ todo = <<>> /\ doomed = {} /\ \A a \in Actors : hs[a] = NoHandle
      /\ \A p \in InodePages : inodeArea[p] = Blank
  BY <1>1 DEF Init
<1>3. ValidPages = {}
  BY <1>2 DEF ValidPages, Valid
<1>4. \A b : ~Committing(b) /\ ~Replacing(b)
  BY <1>2, NothingToCommit
<1>5. /\ NoHandle.open = FALSE /\ NoHandle.len = 0 /\ NoHandle.del = {}
      /\ HandlePages(NoHandle) = {} /\ Len(NoHandle.dp) = 0 /\ DOMAIN NoHandle.dp = {}
  <2>1. Len(<<>>) = 0 /\ DOMAIN <<>> = {}
    OBVIOUS
  <2>2. QED
    BY <2>1, NoHandleParts
<1>6. \A a \in Actors : HandlePages(hs[a]) = {} /\ ~hs[a].open
  BY <1>2, <1>5
<1>7. StoredLists /\ StoredVersions /\ StoredShares /\ SettledShares
  BY <1>3 DEF StoredLists, StoredVersions, StoredShares, SettledShares
<1>8. FreeIsUnused /\ DoomedIsOld
  BY <1>2, <1>3, <1>6 DEF FreeIsUnused, DoomedIsOld
<1>9. HandleLists
  BY <1>2, <1>5 DEF HandleLists
<1>10. HandlePlaces /\ HandlesApart /\ HandleShares /\ HandleVersions
  BY <1>6 DEF HandlePlaces, HandlesApart, HandleShares, HandleVersions
<1>11. CommitsToFresh /\ ReplacesOld
  BY <1>4 DEF CommitsToFresh, ReplacesOld
<1>12. PlainTasks /\ SearchesStored
  BY <1>2 DEF PlainTasks, SearchesStored
<1>13. QED
  BY <1>7, <1>8, <1>9, <1>10, <1>11, <1>12 DEF PagesInv

LEMMA PagesAlways ==
  ASSUME PlainUse
  PROVE  Spec => [](BaseInv /\ PagesInv)
<1>1. Init => BaseInv /\ PagesInv
  BY BaseInit, PagesInit
<1>2. BaseInv /\ PagesInv /\ [Next]_vars => (BaseInv /\ PagesInv)'
  <2>1. SUFFICES ASSUME BaseInv, PagesInv, [Next]_vars
                 PROVE  BaseInv' /\ PagesInv'
    OBVIOUS
  <2>2. BaseInv'
    BY <2>1, BaseNext
  <2>3. PagesInv'
    BY <2>1, <2>2, PagesNext
  <2>4. QED
    BY <2>2, <2>3
<1>3. QED
  BY <1>1, <1>2, PTL DEF Spec

(***************************************************************************)
(* What PagesInv says about the files.                                     *)
(***************************************************************************)
\* A list without repetitions has as many pages as entries.
LEMMA ListSize ==
  ASSUME NEW S, NEW s \in Seq(S),
         \A j, k \in DOMAIN s : s[j] = s[k] => j = k
  PROVE  Cardinality({s[k] : k \in 1 .. Len(s)}) = Len(s)
<1> DEFINE T == {s[k] : k \in 1 .. Len(s)}
<1>1. Len(s) \in Nat /\ DOMAIN s = 1 .. Len(s) /\ s \in [1 .. Len(s) -> T]
  OBVIOUS
<1>2. s \in Bijection(1 .. Len(s), T)
  <2>1. \A t \in T : \E k \in 1 .. Len(s) : s[k] = t
    OBVIOUS
  <2> HIDE DEF T
  <2>2. IsInjective(s)
    BY DEF IsInjective
  <2>3. QED
    BY <1>1, <2>1, <2>2 DEF Bijection, Injection, Surjection
<1>3. QED
  BY <1>1, <1>2, FS_CountingElements DEF ExistsBijection

\* The pages of a stored file are the ones a reader gets to see.
LEMMA LiveIsStored ==
  ASSUME TypeOK, StoredLists, NEW p \in ValidPages
  PROVE  /\ LivePages(p) = StoredPages(p)
         /\ Cardinality(LivePages(p)) = inodeArea[p].len
<1> DEFINE i == inodeArea[p]
<1>1. i.ids \in Seq(DataPages) /\ i.len = Len(i.ids) /\ i.extra = {} /\ i.len \in Nat
  BY LoadedType DEF TypeOK, ValidPages, Inode, StoredLists
<1>2. DOMAIN i.ids = 1 .. Len(i.ids)
  BY <1>1
<1>3. LivePages(p) = {i.ids[k] : k \in 1 .. Len(i.ids)}
  BY <1>1 DEF LivePages
<1>4. StoredPages(p) = {i.ids[k] : k \in 1 .. Len(i.ids)}
  BY <1>1, <1>2 DEF StoredPages, PagesOf
<1>5. \A j, k \in DOMAIN i.ids : i.ids[j] = i.ids[k] => j = k
  BY DEF StoredLists
<1> HIDE DEF i
<1>6. Cardinality({i.ids[k] : k \in 1 .. Len(i.ids)}) = Len(i.ids)
  BY <1>1, <1>5, ListSize
<1>7. QED
  BY <1>1, <1>3, <1>4, <1>6 DEF i

LEMMA KeptPages ==
  ASSUME TypeOK, PagesInv
  PROVE  CommittedPagesKept
<1>1. SUFFICES ASSUME NEW p \in LatestPages
               PROVE  /\ Cardinality(LivePages(p)) = inodeArea[p].len
                      /\ \A d \in LivePages(p) : dataArea[d] # Blank
                      /\ up = "up" => LivePages(p) \cap freeData = {}
                      /\ doomed \cap (LivePages(p) \cup {p}) = {}
                      /\ \A q \in LatestPages \ {p} : LivePages(p) \cap LivePages(q) = {}
  BY DEF CommittedPagesKept
<1>2. LatestPages \subseteq ValidPages /\ LatestPages \subseteq InodePages
  BY DEF LatestPages, Latest, ValidPages
<1>3. \A q \in LatestPages : /\ LivePages(q) = StoredPages(q)
                             /\ Cardinality(LivePages(q)) = inodeArea[q].len
  BY <1>2, LiveIsStored DEF PagesInv
<1>4. \A d \in StoredPages(p) : dataArea[d] # Blank
  BY <1>2 DEF PagesInv, StoredLists
<1>5. up = "up" => StoredPages(p) \cap freeData = {}
  BY <1>2 DEF PagesInv, FreeIsUnused
<1>6. p \notin doomed
  <2>1. SUFFICES ASSUME p \in doomed PROVE FALSE
    OBVIOUS
  <2>2. PICK q \in ValidPages : SameFile(p, q) /\ inodeArea[p].ver < inodeArea[q].ver
    BY <1>2, <2>1 DEF PagesInv, DoomedIsOld
  <2>3. inodeArea[p].ver \in Nat /\ inodeArea[q].ver \in Nat
    BY <1>2, LoadedType DEF TypeOK, ValidPages, Inode
  <2>4. Supersedes(q, p)
    BY <2>2, <2>3 DEF Supersedes, SameFile
  <2>5. QED
    BY <2>4 DEF LatestPages, Latest
<1>7. StoredPages(p) \cap doomed = {}
  BY <1>2, <1>6 DEF PagesInv, DoomedIsOld
<1>8. ASSUME NEW q \in LatestPages \ {p}
      PROVE  StoredPages(p) \cap StoredPages(q) = {}
  <2>1. ~SameFile(p, q)
    BY <1>2, <1>8, OneLatest DEF SameFile, LatestPages
  <2>2. QED
    BY <1>2, <1>8, <2>1 DEF PagesInv, StoredShares
<1>9. QED
  BY <1>3, <1>4, <1>5, <1>6, <1>7, <1>8

\* "Powerloss safe" (Readme.md): whatever is called, and wherever the power is
\* lost, the pages of every committed file stay its own: allocate_free_data_
\* page() does not hand them out, erase_inode_and_unused_pages() and init() do
\* not erase them, and no other file has one of them.  Plain use: no write() of
\* several pages is refused after the first of them; after one that is, the
\* theorem is false (the run RefusedWrite).
THEOREM CommittedFilesKeepTheirPages ==
  ASSUME PlainUse
  PROVE  Spec => []CommittedPagesKept
<1>1. BaseInv /\ PagesInv => CommittedPagesKept
  BY KeptPages DEF BaseInv, NumbersInv
<1>2. QED
  BY <1>1, PagesAlways, PTL

\* The pages an open file works on are not free, and neither they nor the page
\* its inode will be written to belong to another open file: in plain use, where
\* no write() of several pages is refused after the first of them.
THEOREM OpenFilesKeepTheirPages ==
  ASSUME PlainUse
  PROVE  Spec => []DraftPagesKept
<1>1. PagesInv => DraftPagesKept
  BY DEF PagesInv, FreeIsUnused, HandlesApart, DraftPagesKept, Actors
<1>2. QED
  BY <1>1, PagesAlways, PTL
=============================================================================
