------------------------------ MODULE DataPath ------------------------------
(***************************************************************************)
(* Where the bytes of a file are: the data path of SimpleFlashFsBase.h,    *)
(* write(), read(), enlarge_file(), seek() and truncate().  A short file   *)
(* is kept in the space that its inode page has left, a longer one in      *)
(* data pages, and the calls decide by lengths and positions which of the  *)
(* two it is.  FlashFs has the pages and when they are written, erased and *)
(* lost; here a page is its bytes, the flash has room and does not fail.   *)
(***************************************************************************)
EXTENDS Integers, Sequences, FiniteSetsExt

CONSTANTS
  Bytes, Zero,
  PageSize,    \* header.page_size
  Spaces,      \* get_inode_data_space_size() of the names there are
  Longest,     \* bound: the longest file
  Careful      \* the callers keep out of the cases the Sound operators name

VARIABLES
  h,           \* the FileHandle
  want, at,    \* the file and the position the callers have made
  right        \* every read so far returned what is there

vars == <<h, want, at, right>>

Contents == UNION {[1 .. n -> Bytes] : n \in 0 .. Longest}

\* s with b written over it from the offset p
Patched(s, p, b) ==
  [i \in 1 .. Max({Len(s), p + Len(b)}) |->
     IF p < i /\ i <= p + Len(b) THEN b[i - p]
     ELSE IF i <= Len(s) THEN s[i] ELSE Zero]

\* a page that is allocated and not written holds zeros, and read() and
\* write() do not look at the flash for it
NewPage == [i \in 1 .. PageSize |-> Zero]

PagesFor(n) == (n + PageSize - 1) \div PageSize

(***************************************************************************)
(* The calls: h is [len, pos, inline (inode_data), pages (data_pages),     *)
(* space (what its name leaves in the inode page)].                        *)
(***************************************************************************)
\* the bytes from the offset p on that a reader gets
Stored(g) ==
  LET byte(i) == g.pages[(i \div PageSize) + 1][(i % PageSize) + 1]
  IN IF g.len < g.space /\ g.inline # <<>> THEN SubSeq(g.inline, 1, g.len)
     ELSE [i \in 1 .. Min({g.len, PageSize * Len(g.pages)}) |-> byte(i - 1)]

WithPages(s, n) == s \o [k \in 1 .. Max({0, n - Len(s)}) |-> NewPage]

\* unaligned start, whole pages, last partial page
InPages(g, b) ==
  LET end  == g.pos + Len(b)
      all  == WithPages(g.pages, PagesFor(end))
      byte(k, i) == LET o == (k - 1) * PageSize + i - g.pos IN
                    IF o \in DOMAIN b THEN b[o] ELSE all[k][i]
  IN [g EXCEPT !.pages = [k \in DOMAIN all |-> [i \in 1 .. PageSize |-> byte(k, i)]],
               !.pos = end, !.len = Max({@, end})]

InInode(g, b) ==
  [g EXCEPT !.inline = Patched(Patched(@, g.space, <<>>), g.pos, b),
            !.pos = @ + Len(b), !.len = Max({@, g.pos + Len(b)})]

\* what was in the inode up to the position goes to the first page, together
\* with what is written
Moved_Whole(g, b) ==  \* mutant: all of inode_data goes
  InPages([g EXCEPT !.inline = <<>>, !.pos = 0], g.inline \o b)

Moved(g, b) ==
  InPages([g EXCEPT !.inline = <<>>, !.pos = 0], SubSeq(g.inline, 1, g.pos) \o b)

AfterWrite(g, b) ==
  IF g.space > g.pos + Len(b) /\ g.len < g.space THEN InInode(g, b)
  ELSE IF g.inline # <<>> THEN Moved(g, b)
  ELSE InPages(g, b)

Enlarged(g, amount) ==
  LET target == g.len + amount
  IN IF g.space >= target
     THEN [g EXCEPT !.inline = Patched(@, g.space, <<>>), !.len = target]
     ELSE [g EXCEPT !.pages = WithPages(@, (target \div PageSize) + 1),
                    !.len = target]

\* one byte less than asked for
AfterSeek(g, p) ==
  IF p <= g.len THEN [g EXCEPT !.pos = p]
  ELSE [Enlarged(g, p - g.len - 1) EXCEPT !.pos = p]

AfterTruncate(g, n) ==
  IF n = g.len THEN g
  ELSE IF n > g.len THEN Enlarged(g, n - g.len)
  ELSE [g EXCEPT !.inline = IF g.pages = <<>> /\ Len(@) > n THEN SubSeq(@, 1, n) ELSE @,
                 !.pages = IF PagesFor(n) < Len(@) THEN SubSeq(@, 1, PagesFor(n)) ELSE @,
                 !.len = n, !.pos = Min({@, n})]

\* what inode_from_page() makes of the flushed inode
Reopened(g) ==
  [g EXCEPT !.inline = IF g.pages = <<>> /\ g.len > 0
                       THEN Patched(SubSeq(@, 1, g.len), g.space, <<>>) ELSE <<>>,
            !.pages = SubSeq(@, 1, Min({Len(@), PagesFor(g.len)})),
            !.pos = 0]

(***************************************************************************)
(* Where the two places are confused, or old bytes show up.                *)
(***************************************************************************)
\* nothing but zeros behind the end of the file
CleanTail(g) ==
  \A k \in DOMAIN g.pages, i \in 1 .. PageSize :
    (k - 1) * PageSize + i > g.len => g.pages[k][i] = Zero

\* write() takes a file as long as the space for one in pages, enlarge_file()
\* for one in the inode, and leaves there what is in the inode when it does
\* not fit any more; what was cut off is not overwritten
SoundGrow(g, target) ==
  /\ CleanTail(g)
  /\ IF g.pages = <<>>
     THEN target # g.space /\ (target > g.space => g.inline = <<>>)
     ELSE target > g.space

\* cut below the space, a file in pages is taken for one in the inode
SoundTruncate(g, n) ==
  IF n > g.len THEN SoundGrow(g, n)
  ELSE g.pages = <<>> \/ n = 0 \/ n >= g.space

\* inode2page() copies all of inode_data, and what a longer name has pushed
\* behind the end of the page, or to the length where read() and write() look
\* for it in pages, or a shorter one made room for, is looked for in the wrong
\* place
SoundRename(g, space) ==
  IF g.pages = <<>> THEN space >= Len(g.inline) /\ (g.len = 0 \/ space > g.len)
  ELSE space <= g.len

Write(b) ==
  /\ at + Len(b) <= Longest
  /\ h' = AfterWrite(h, b)
  /\ want' = Patched(want, at, b) /\ at' = at + Len(b)
  /\ UNCHANGED right

\* not from behind the end: file_len - pos is unsigned there
Read(n) ==
  /\ h.pos <= h.len
  /\ h' = [h EXCEPT !.pos = Min({@ + n, Len(Stored(h))})]
  /\ right' = (right /\ SubSeq(Stored(h), h.pos + 1, Min({h.pos + n, Len(Stored(h))}))
                        = SubSeq(want, at + 1, Min({at + n, Len(want)})))
  /\ at' = Min({at + n, Len(want)})
  /\ UNCHANGED want

Seek(p) ==
  /\ Careful /\ p > h.len => SoundGrow(h, p - 1)
  /\ h' = AfterSeek(h, p)
  /\ want' = IF p > Len(want) THEN Patched(want, p - 1, <<>>) ELSE want
  /\ at' = p
  /\ UNCHANGED right

Truncate(n) ==
  /\ Careful => SoundTruncate(h, n)
  /\ h' = AfterTruncate(h, n)
  /\ want' = Patched(SubSeq(want, 1, Min({n, Len(want)})), n, <<>>)
  /\ at' = IF n < Len(want) THEN Min({at, n}) ELSE at
  /\ UNCHANGED right

Rename(space) ==
  /\ Careful => SoundRename(h, space)
  /\ h' = [h EXCEPT !.space = space]
  /\ UNCHANGED <<want, at, right>>

\* flush, close, and open without trunc
Reopen ==
  /\ h' = Reopened(h)
  /\ at' = 0
  /\ UNCHANGED <<want, right>>

Init ==
  /\ h = [len |-> 0, pos |-> 0, inline |-> <<>>, pages |-> <<>>,
          space |-> Max(Spaces)]
  /\ want = <<>> /\ at = 0 /\ right = TRUE

Next ==
  \/ \E b \in Contents \ {<<>>} : Write(b)
  \/ \E n \in 1 .. Longest : Read(n)
  \/ \E p \in 0 .. Longest : Seek(p) \/ Truncate(p)
  \/ \E n \in Spaces : Rename(n)
  \/ Reopen

Spec == Init /\ [][Next]_vars

\* Wherever the bytes are, in the inode or in pages, and however often they
\* have moved from one to the other, the file is as its callers have made it,
\* and so is what they read (SimpleFlashFsBase.h write(), read(),
\* enlarge_file(), truncate(), seek()).
BytesAreKept ==
  /\ right
  /\ Stored(h) = want
  /\ h.len = Len(want)
  /\ h.pos = at
=============================================================================
