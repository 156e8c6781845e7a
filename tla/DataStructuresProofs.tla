------------------------ MODULE DataStructuresProofs ------------------------
(***************************************************************************)
(* The buffered file is a file: BufferIsFile; the bytes of a file are kept *)
(* wherever they are: BytesAreKept; both for every content, every size of  *)
(* the buffer, of the pages and of the space in an inode, and every        *)
(* sequence of calls that keeps out of the cases the Sound operators name. *)
(* The vector of pages is the set of them: ActsAsSet, for any number of    *)
(* pages and every sequence of calls.  And an ini file is a map from its   *)
(* keys to values and stays in whole lines: FileIsMap and LinesAreWhole,   *)
(* for every set of sections, keys and values, again with SoundWrite.      *)
(***************************************************************************)
EXTENDS DataStructures, WellFoundedInduction, FiniteSetTheorems, TLAPS

(***************************************************************************)
(* The buffered file.  g stands for the file w, with the position p.  What *)
(* is in the buffer lies over the file below; as long as it is not dirty,  *)
(* it is a part of it.                                                     *)
(***************************************************************************)
BufferedFile ==
  [data : Seq(Bytes), tell : Nat, buf : Seq(Bytes), start : Nat, pos : Nat,
   dirty : BOOLEAN]

Mirrors(g, w, p) ==
  /\ g \in BufferedFile /\ w \in Seq(Bytes) /\ p \in 0 .. Len(w)
  /\ g.start <= Len(g.data) /\ g.pos <= Len(g.buf) /\ Len(g.buf) <= Size
  /\ ~g.dirty => g.tell <= Len(g.data) /\ g.data = w
  /\ g.buf = <<>> => ~g.dirty /\ g.tell = p
  /\ g.buf # <<>> => /\ g.start + g.pos = p /\ w = B!Over(g.data, g.start, g.buf)
                     /\ ~g.dirty => g.start + Len(g.buf) <= Len(g.data)

BufferInv == right /\ Mirrors(buffered, content, at)

(***************************************************************************)
(* Sequences: parts of them, and one over another.                         *)
(***************************************************************************)
LEMMA SameSequence ==
  ASSUME NEW S, NEW s \in Seq(S), NEW t \in Seq(S), Len(s) = Len(t),
         \A i \in 1 .. Len(s) : s[i] = t[i]
  PROVE  s = t
OBVIOUS

LEMMA OfTwo ==
  ASSUME NEW a \in Int, NEW b \in Int
  PROVE  /\ B!Max({a, b}) = IF a >= b THEN a ELSE b
         /\ B!Min({a, b}) = IF a <= b THEN a ELSE b
BY DEF B!Max, B!Min

LEMMA OverIs ==
  ASSUME NEW s \in Seq(Bytes), NEW a \in Nat, NEW b \in Seq(Bytes)
  PROVE  /\ B!Over(s, a, b) \in Seq(Bytes)
         /\ Len(B!Over(s, a, b)) = IF Len(s) >= a + Len(b) THEN Len(s) ELSE a + Len(b)
         /\ \A i \in 1 .. Len(B!Over(s, a, b)) :
              B!Over(s, a, b)[i] = IF a < i /\ i <= a + Len(b) THEN b[i - a]
                                   ELSE IF i <= Len(s) THEN s[i] ELSE Zero
<1> DEFINE n == IF Len(s) >= a + Len(b) THEN Len(s) ELSE a + Len(b)
           v(i) == IF a < i /\ i <= a + Len(b) THEN b[i - a]
                   ELSE IF i <= Len(s) THEN s[i] ELSE Zero
<1>1. n \in Nat /\ B!Max({Len(s), a + Len(b)}) = n
  BY OfTwo
<1>2. B!Over(s, a, b) = [i \in 1 .. n |-> v(i)]
  BY <1>1 DEF B!Over
<1>3. \A i \in 1 .. n : v(i) \in Bytes
  BY BytesAssumption
<1> HIDE DEF v, n
<1>4. /\ [i \in 1 .. n |-> v(i)] \in Seq(Bytes) /\ Len([i \in 1 .. n |-> v(i)]) = n
      /\ \A j \in 1 .. n : [i \in 1 .. n |-> v(i)][j] = v(j)
  BY <1>1, <1>3
<1> QED BY <1>2, <1>4 DEF v, n

LEMMA CutIs ==
  ASSUME NEW s \in Seq(Bytes), NEW a \in 0 .. Len(s), NEW n \in Nat
  PROVE  /\ B!Cut(s, a, n) \in Seq(Bytes)
         /\ Len(B!Cut(s, a, n)) = IF a + n <= Len(s) THEN n ELSE Len(s) - a
         /\ \A i \in 1 .. Len(B!Cut(s, a, n)) : B!Cut(s, a, n)[i] = s[a + i]
<1> DEFINE m == IF a + n <= Len(s) THEN a + n ELSE Len(s)
<1>1. a \in Nat /\ a <= Len(s) /\ Len(s) \in Nat
  OBVIOUS
<1>2. B!Min({a + n, Len(s)}) = m
  <2> DEFINE k == a + n
  <2>1. k \in Int /\ Len(s) \in Int
    BY <1>1
  <2> HIDE DEF k
  <2>2. B!Min({k, Len(s)}) = IF k <= Len(s) THEN k ELSE Len(s)
    BY <2>1, OfTwo
  <2> QED BY <2>2 DEF k
<1>3. m \in a .. Len(s)
  BY <1>1
<1>4. B!Cut(s, a, n) = SubSeq(s, a + 1, m)
  BY <1>2 DEF B!Cut
<1>5. /\ SubSeq(s, a + 1, m) \in Seq(Bytes) /\ Len(SubSeq(s, a + 1, m)) = m - a
      /\ \A i \in 1 .. m - a : SubSeq(s, a + 1, m)[i] = s[a + i]
  <2> HIDE DEF m
  <2> QED BY <1>1, <1>3
<1> QED BY <1>1, <1>4, <1>5

\* The same, for a result that has a name.
IsOver(r, s, a, b) ==
  /\ r \in Seq(Bytes)
  /\ Len(r) = IF Len(s) >= a + Len(b) THEN Len(s) ELSE a + Len(b)
  /\ \A i \in 1 .. Len(r) :
       r[i] = IF a < i /\ i <= a + Len(b) THEN b[i - a]
              ELSE IF i <= Len(s) THEN s[i] ELSE Zero

IsCut(r, s, a, n) ==
  /\ r \in Seq(Bytes)
  /\ Len(r) = IF a + n <= Len(s) THEN n ELSE Len(s) - a
  /\ \A i \in 1 .. Len(r) : r[i] = s[a + i]

LEMMA OverSays ==
  ASSUME NEW s \in Seq(Bytes), NEW a \in Nat, NEW b \in Seq(Bytes)
  PROVE  IsOver(B!Over(s, a, b), s, a, b)
BY OverIs DEF IsOver

LEMMA CutSays ==
  ASSUME NEW s \in Seq(Bytes), NEW a \in 0 .. Len(s), NEW n \in Nat
  PROVE  IsCut(B!Cut(s, a, n), s, a, n)
BY CutIs DEF IsCut

LEMMA OverNothing ==
  ASSUME NEW s \in Seq(Bytes), NEW a \in 0 .. Len(s)
  PROVE  B!Over(s, a, <<>>) = s
<1> DEFINE l == B!Over(s, a, <<>>)
<1>1. a \in Nat /\ <<>> \in Seq(Bytes) /\ Len(<<>>) = 0 /\ a <= Len(s)
  OBVIOUS
<1>2. /\ l \in Seq(Bytes)
      /\ Len(l) = IF Len(s) >= a + Len(<<>>) THEN Len(s) ELSE a + Len(<<>>)
      /\ \A i \in 1 .. Len(l) :
           l[i] = IF a < i /\ i <= a + Len(<<>>) THEN <<>>[i - a]
                  ELSE IF i <= Len(s) THEN s[i] ELSE Zero
  BY <1>1, OverIs
<1> HIDE DEF l
<1>3. Len(l) = Len(s)
  BY <1>1, <1>2
<1>4. \A i \in 1 .. Len(l) : l[i] = s[i]
  BY <1>1, <1>2, <1>3
<1> QED BY <1>2, <1>3, <1>4, SameSequence DEF l

\* What lies over a sequence already changes nothing when it is written there
\* again, and is not shortened by enlarging the sequence below it.
LEMMA OverGrown ==
  ASSUME NEW s \in Seq(Bytes), NEW b \in Seq(Bytes), NEW a \in 0 .. Len(s),
         NEW q \in 0 .. a + Len(b), NEW g \in Seq(Bytes), g = B!Over(s, q, <<>>)
  PROVE  B!Over(g, a, b) = B!Over(s, a, b) /\ Len(g) >= Len(s)
<1> DEFINE l == B!Over(g, a, b)
           r == B!Over(s, a, b)
<1>1. a \in Nat /\ q \in Nat /\ a <= Len(s) /\ q <= a + Len(b) /\ Len(b) \in Nat
      /\ Len(s) \in Nat
  OBVIOUS
<1>2. /\ Len(g) = IF Len(s) >= q THEN Len(s) ELSE q
      /\ \A i \in 1 .. Len(g) : g[i] = IF i <= Len(s) THEN s[i] ELSE Zero
  <2> DEFINE e == <<>>
  <2>1. e \in Seq(Bytes) /\ Len(e) = 0 /\ g = B!Over(s, q, e)
    OBVIOUS
  <2> HIDE DEF e
  <2>2. q \in Nat /\ e \in Seq(Bytes)
    BY <1>1, <2>1
  <2>3. /\ Len(B!Over(s, q, e)) = IF Len(s) >= q + Len(e) THEN Len(s) ELSE q + Len(e)
        /\ \A i \in 1 .. Len(B!Over(s, q, e)) :
             B!Over(s, q, e)[i] = IF q < i /\ i <= q + Len(e) THEN e[i - q]
                                  ELSE IF i <= Len(s) THEN s[i] ELSE Zero
    BY <2>2, OverIs, Zenon
  <2> QED BY <1>1, <2>1, <2>3
<1>3. /\ l \in Seq(Bytes)
      /\ Len(l) = IF Len(g) >= a + Len(b) THEN Len(g) ELSE a + Len(b)
      /\ \A i \in 1 .. Len(l) :
           l[i] = IF a < i /\ i <= a + Len(b) THEN b[i - a]
                  ELSE IF i <= Len(g) THEN g[i] ELSE Zero
  BY <1>1, OverIs
<1>4. /\ r \in Seq(Bytes)
      /\ Len(r) = IF Len(s) >= a + Len(b) THEN Len(s) ELSE a + Len(b)
      /\ \A i \in 1 .. Len(r) :
           r[i] = IF a < i /\ i <= a + Len(b) THEN b[i - a]
                  ELSE IF i <= Len(s) THEN s[i] ELSE Zero
  BY <1>1, OverIs
<1> HIDE DEF l, r
<1>5. Len(l) = Len(r)
  BY <1>1, <1>2, <1>3, <1>4
<1>6. \A i \in 1 .. Len(l) : l[i] = r[i]
  BY <1>1, <1>2, <1>3, <1>4, <1>5
<1>7. l = r
  BY <1>3, <1>4, <1>5, <1>6, SameSequence
<1> QED BY <1>1, <1>2, <1>7 DEF l, r

LEMMA OverAgain ==
  ASSUME NEW s \in Seq(Bytes), NEW b \in Seq(Bytes), NEW a \in 0 .. Len(s),
         NEW r \in Seq(Bytes), r = B!Over(s, a, b)
  PROVE  B!Over(r, a, b) = r /\ a + Len(b) <= Len(r)
<1> DEFINE l == B!Over(r, a, b)
<1>1. a \in Nat /\ a <= Len(s) /\ Len(b) \in Nat /\ Len(s) \in Nat
  OBVIOUS
<1>2. /\ Len(r) = IF Len(s) >= a + Len(b) THEN Len(s) ELSE a + Len(b)
      /\ \A i \in 1 .. Len(r) :
           r[i] = IF a < i /\ i <= a + Len(b) THEN b[i - a]
                  ELSE IF i <= Len(s) THEN s[i] ELSE Zero
  BY <1>1, OverIs
<1>3. /\ l \in Seq(Bytes)
      /\ Len(l) = IF Len(r) >= a + Len(b) THEN Len(r) ELSE a + Len(b)
      /\ \A i \in 1 .. Len(l) :
           l[i] = IF a < i /\ i <= a + Len(b) THEN b[i - a]
                  ELSE IF i <= Len(r) THEN r[i] ELSE Zero
  BY <1>1, OverIs
<1> HIDE DEF l
<1>4. Len(l) = Len(r) /\ a + Len(b) <= Len(r)
  BY <1>1, <1>2, <1>3
<1>5. \A i \in 1 .. Len(l) : l[i] = r[i]
  BY <1>1, <1>2, <1>3, <1>4
<1> QED BY <1>3, <1>4, <1>5, SameSequence DEF l

\* Writing into what lies over a sequence is writing into the sequence.
LEMMA OverOver ==
  ASSUME NEW s \in Seq(Bytes), NEW b \in Seq(Bytes), NEW a \in 0 .. Len(s),
         NEW p \in 0 .. Len(b), NEW c \in Seq(Bytes),
         NEW r \in Seq(Bytes), r = B!Over(s, a, b),
         NEW n \in Seq(Bytes), n = B!Over(b, p, c)
  PROVE  B!Over(r, a + p, c) = B!Over(s, a, n)
<1> DEFINE l == B!Over(r, a + p, c)
           m == B!Over(s, a, n)
<1>1. a \in Nat /\ a <= Len(s) /\ Len(b) \in Nat /\ Len(s) \in Nat
      /\ p \in Nat /\ p <= Len(b) /\ a + p \in Nat /\ Len(c) \in Nat
  OBVIOUS
<1>2. /\ Len(r) = IF Len(s) >= a + Len(b) THEN Len(s) ELSE a + Len(b)
      /\ \A i \in 1 .. Len(r) :
           r[i] = IF a < i /\ i <= a + Len(b) THEN b[i - a]
                  ELSE IF i <= Len(s) THEN s[i] ELSE Zero
  BY <1>1, OverIs
<1>3. /\ Len(n) = IF Len(b) >= p + Len(c) THEN Len(b) ELSE p + Len(c)
      /\ \A i \in 1 .. Len(n) :
           n[i] = IF p < i /\ i <= p + Len(c) THEN c[i - p]
                  ELSE IF i <= Len(b) THEN b[i] ELSE Zero
  BY <1>1, OverIs, SMTT(30)
<1>4. /\ l \in Seq(Bytes)
      /\ Len(l) = IF Len(r) >= a + p + Len(c) THEN Len(r) ELSE a + p + Len(c)
      /\ \A i \in 1 .. Len(l) :
           l[i] = IF a + p < i /\ i <= a + p + Len(c) THEN c[i - (a + p)]
                  ELSE IF i <= Len(r) THEN r[i] ELSE Zero
  BY <1>1, OverIs, SMTT(30)
<1>5. /\ m \in Seq(Bytes)
      /\ Len(m) = IF Len(s) >= a + Len(n) THEN Len(s) ELSE a + Len(n)
      /\ \A i \in 1 .. Len(m) :
           m[i] = IF a < i /\ i <= a + Len(n) THEN n[i - a]
                  ELSE IF i <= Len(s) THEN s[i] ELSE Zero
  BY <1>1, OverIs, SMTT(30)
<1> HIDE DEF l, m
<1>6. Len(l) = Len(m)
  BY <1>1, <1>2, <1>3, <1>4, <1>5
<1>7. ASSUME NEW i \in 1 .. Len(l)
      PROVE  l[i] = m[i]
  <2>1. CASE i <= a
    BY <1>1, <1>2, <1>3, <1>4, <1>5, <1>6, <2>1, SMTT(30)
  <2>2. CASE a < i /\ i <= a + Len(n)
    <3> DEFINE j == i - a
    <3>1. j \in 1 .. Len(n) /\ i = a + j /\ i \in 1 .. Len(m)
      BY <1>1, <1>6, <2>2
    <3>2. m[i] = n[j]
      BY <1>1, <1>5, <2>2, <3>1
    <3>3. n[j] = IF p < j /\ j <= p + Len(c) THEN c[j - p]
                 ELSE IF j <= Len(b) THEN b[j] ELSE Zero
      BY <1>3, <3>1
    <3> HIDE DEF j
    <3>4. CASE p < j /\ j <= p + Len(c)
      BY <1>1, <1>4, <3>1, <3>2, <3>3, <3>4, SMTT(30)
    <3>5. CASE ~(p < j /\ j <= p + Len(c))
      <4>1. j <= Len(b)
        BY <1>1, <1>3, <3>1, <3>5
      <4>2. i \in 1 .. Len(r) /\ i - a = j /\ a < i /\ i <= a + Len(b)
        BY <1>1, <1>2, <2>2, <3>1, <4>1
      <4>3. r[i] = b[j]
        BY <1>2, <4>2
      <4>4. ~(a + p < i /\ i <= a + p + Len(c))
        BY <1>1, <3>1, <3>5
      <4>5. l[i] = r[i]
        BY <1>4, <4>2, <4>4
      <4> QED BY <3>2, <3>3, <3>5, <4>1, <4>3, <4>5
    <3> QED BY <3>4, <3>5
  <2>3. CASE i > a + Len(n)
    <3>1. /\ i > a + Len(b) /\ ~(a + p < i /\ i <= a + p + Len(c))
          /\ i \in 1 .. Len(m) /\ i > a
      BY <1>1, <1>3, <1>6, <2>3
    <3>2. m[i] = IF i <= Len(s) THEN s[i] ELSE Zero
      BY <1>5, <2>3, <3>1
    <3>3. i <= Len(r) => r[i] = IF i <= Len(s) THEN s[i] ELSE Zero
      BY <1>1, <1>2, <3>1
    <3>4. l[i] = IF i <= Len(r) THEN r[i] ELSE Zero
      BY <1>4, <3>1
    <3>5. i <= Len(s) => i <= Len(r)
      BY <1>1, <1>2
    <3> QED BY <3>2, <3>3, <3>4, <3>5
  <2> QED BY <2>1, <2>2, <2>3
<1>8. l = m
  BY <1>4, <1>5, <1>6, <1>7, SameSequence
<1> QED BY <1>8 DEF l, m

(***************************************************************************)
(* The calls of the buffered file.                                         *)
(***************************************************************************)

\* Seeking within the file below does not enlarge it.
LEMMA BaseSeekIs ==
  ASSUME NEW g \in BufferedFile, NEW q \in 0 .. Len(g.data)
  PROVE  B!BaseSeek(g, q) = [g EXCEPT !.tell = q]
         /\ B!BaseSeek(g, q) \in BufferedFile
<1>1. ~(q > Len(g.data)) /\ q \in Nat
  BY DEF BufferedFile
<1> QED BY <1>1 DEF B!BaseSeek, BufferedFile

LEMMA FlushMirrors ==
  ASSUME NEW g, NEW w, NEW p, Mirrors(g, w, p)
  PROVE  /\ Mirrors(B!flush_buffer(g), w, p)
         /\ ~B!flush_buffer(g).dirty /\ B!flush_buffer(g).data = w
         /\ B!flush_buffer(g).buf = g.buf /\ B!flush_buffer(g).start = g.start
         /\ B!flush_buffer(g).pos = g.pos
         /\ g.buf = <<>> => B!flush_buffer(g).tell = p
<1>1. CASE ~g.dirty
  BY <1>1 DEF Mirrors, B!flush_buffer
<1>2. CASE g.dirty
  <2> DEFINE h == B!BaseSeek(g, g.start)
             k == B!flush_buffer(g)
  <2>1. /\ g \in BufferedFile /\ w \in Seq(Bytes) /\ g.buf # <<>>
        /\ g.start \in 0 .. Len(g.data) /\ g.start \in Nat /\ g.buf \in Seq(Bytes)
        /\ g.data \in Seq(Bytes) /\ w = B!Over(g.data, g.start, g.buf)
    BY <1>2 DEF Mirrors, BufferedFile
  <2>2. h = [g EXCEPT !.tell = g.start]
    BY <2>1, BaseSeekIs
  <2>3. k = [h EXCEPT !.data = B!Over(@, h.tell, g.buf), !.tell = @ + Len(g.buf),
                      !.dirty = FALSE]
    BY <1>2 DEF B!flush_buffer, B!BaseWrite
  <2> HIDE DEF h, k
  <2>4. k = [g EXCEPT !.data = w, !.tell = g.start + Len(g.buf), !.dirty = FALSE]
    BY <2>1, <2>2, <2>3 DEF BufferedFile
  <2>5. B!Over(w, g.start, g.buf) = w /\ g.start + Len(g.buf) <= Len(w)
    BY <2>1, OverAgain
  <2>6. g.start + Len(g.buf) \in Nat /\ g.start <= Len(w)
    BY <2>1, <2>5
  <2>7. k \in BufferedFile
    BY <2>1, <2>4, <2>6 DEF BufferedFile
  <2>8. /\ k.data = w /\ k.tell = g.start + Len(g.buf) /\ ~k.dirty
        /\ k.buf = g.buf /\ k.start = g.start /\ k.pos = g.pos
    BY <2>1, <2>4 DEF BufferedFile
  <2>9. Mirrors(k, w, p)
    BY <2>1, <2>5, <2>6, <2>7, <2>8 DEF Mirrors
  <2> QED BY <2>1, <2>8, <2>9 DEF k
<1>3. g.dirty \in BOOLEAN
  BY DEF Mirrors, BufferedFile
<1> QED BY <1>1, <1>2, <1>3

LEMMA DiscardMirrors ==
  ASSUME NEW g, NEW w, NEW p, Mirrors(g, w, p)
  PROVE  /\ Mirrors(B!discard_buffer(g), w, B!discard_buffer(g).tell)
         /\ B!discard_buffer(g).buf = <<>> /\ B!discard_buffer(g).start = 0
         /\ B!discard_buffer(g).pos = 0 /\ B!discard_buffer(g).data = w
         /\ ~B!discard_buffer(g).dirty
         /\ g.buf = <<>> => B!discard_buffer(g).tell = p
<1> DEFINE k == B!flush_buffer(g)
           d == B!discard_buffer(g)
<1>1. /\ Mirrors(k, w, p) /\ ~k.dirty /\ k.data = w /\ (g.buf = <<>> => k.tell = p)
  BY FlushMirrors
<1>2. d = [k EXCEPT !.pos = 0, !.start = 0, !.buf = <<>>]
  BY DEF B!discard_buffer
<1> HIDE DEF k, d
<1>3. /\ k \in BufferedFile /\ k.tell \in Nat /\ k.tell <= Len(w) /\ w \in Seq(Bytes)
      /\ <<>> \in Seq(Bytes) /\ Len(<<>>) = 0
  BY <1>1 DEF Mirrors, BufferedFile
<1>4. /\ d \in BufferedFile /\ d.pos = 0 /\ d.start = 0 /\ d.buf = <<>>
      /\ d.data = w /\ ~d.dirty /\ d.tell = k.tell
  BY <1>1, <1>2, <1>3 DEF BufferedFile
<1>5. Mirrors(d, w, d.tell)
  BY <1>3, <1>4, BufferAssumption DEF Mirrors
<1> QED BY <1>1, <1>4, <1>5 DEF d

\* The position of the file below, where nothing is buffered.
LEMMA MovedMirrors ==
  ASSUME NEW g, NEW w, NEW p, Mirrors(g, w, p), g.buf = <<>>, NEW q \in 0 .. Len(w)
  PROVE  /\ Mirrors(B!BaseSeek(g, q), w, q)
         /\ B!BaseSeek(g, q) = [g EXCEPT !.tell = q]
<1>1. g \in BufferedFile /\ g.data = w /\ w \in Seq(Bytes) /\ ~g.dirty
  BY DEF Mirrors
<1>2. B!BaseSeek(g, q) = [g EXCEPT !.tell = q] /\ B!BaseSeek(g, q) \in BufferedFile
  BY <1>1, BaseSeekIs
<1>3. q \in Nat /\ q <= Len(w)
  BY <1>1
<1> QED BY <1>1, <1>2, <1>3 DEF Mirrors, BufferedFile

LEMMA SeekMirrors ==
  ASSUME NEW g, NEW w, NEW p, Mirrors(g, w, p), NEW q \in 0 .. Len(w),
         ~B!InBuffer(g, q) /\ g.tell = q /\ g.buf # <<>> /\ ~g.dirty => p = q
  PROVE  Mirrors(B!AfterSeek(g, q), w, q)
<1>1. /\ g \in BufferedFile /\ w \in Seq(Bytes) /\ q \in Nat /\ q <= Len(w)
      /\ g.data \in Seq(Bytes) /\ g.buf \in Seq(Bytes) /\ g.start \in Nat
      /\ Len(g.data) \in Nat
  BY DEF Mirrors, BufferedFile
<1>2. CASE B!InBuffer(g, q)
  <2> DEFINE h == B!BaseSeek(g, q)
             k == [h EXCEPT !.pos = q - g.start]
             s == IF q > Len(g.data) THEN B!Over(g.data, q - 1, <<>>) ELSE g.data
  <2>1. g.buf # <<>> /\ g.start <= q /\ q < g.start + Len(g.buf) /\ B!AfterSeek(g, q) = k
    BY <1>2 DEF B!InBuffer, B!AfterSeek
  <2>2. s \in Seq(Bytes) /\ Len(s) >= Len(g.data)
        /\ B!Over(s, g.start, g.buf) = B!Over(g.data, g.start, g.buf)
    <3>1. CASE q > Len(g.data)
      <4>1. q - 1 \in 0 .. g.start + Len(g.buf) /\ q - 1 \in Nat
            /\ g.start \in 0 .. Len(g.data) /\ <<>> \in Seq(Bytes)
        BY <1>1, <2>1, <3>1 DEF Mirrors
      <4>2. B!Over(g.data, q - 1, <<>>) \in Seq(Bytes)
        BY <1>1, <4>1, OverIs
      <4> QED BY <1>1, <3>1, <4>1, <4>2, OverGrown
    <3>2. CASE ~(q > Len(g.data))
      BY <1>1, <3>2
    <3> QED BY <3>1, <3>2
  <2>3. h = [g EXCEPT !.tell = q, !.data = s]
    BY DEF B!BaseSeek
  <2> HIDE DEF h, s
  <2>4. k = [g EXCEPT !.tell = q, !.data = s, !.pos = q - g.start]
    BY <1>1, <2>3 DEF BufferedFile
  <2>5. q - g.start \in Nat /\ q - g.start <= Len(g.buf)
    BY <1>1, <2>1
  <2> HIDE DEF k
  <2>6. /\ k \in BufferedFile /\ k.tell = q /\ k.data = s /\ k.pos = q - g.start
        /\ k.buf = g.buf /\ k.start = g.start /\ k.dirty = g.dirty
    BY <1>1, <2>2, <2>4, <2>5 DEF BufferedFile
  <2>7. ~g.dirty => s = g.data /\ q <= Len(g.data)
    BY <1>1, <2>1 DEF Mirrors, s
  <2>8. k.start + k.pos = q
    BY <1>1, <2>6
  <2>9. k.start <= Len(k.data)
    BY <1>1, <2>2, <2>6 DEF Mirrors
  <2>10. Mirrors(k, w, q)
    BY <1>1, <2>1, <2>2, <2>5, <2>6, <2>7, <2>8, <2>9 DEF Mirrors
  <2> QED BY <2>1, <2>10
<1>3. CASE ~B!InBuffer(g, q) /\ g.tell = q /\ (g.buf = <<>> \/ ~g.dirty)
  <2>1. B!AfterSeek(g, q) = g /\ p = q
    BY <1>3 DEF B!AfterSeek, Mirrors
  <2> QED BY <2>1
<1>4. CASE ~B!InBuffer(g, q) /\ ~(g.tell = q /\ (g.buf = <<>> \/ ~g.dirty))
  <2>1. B!AfterSeek(g, q) = B!BaseSeek(B!discard_buffer(g), q)
    BY <1>4 DEF B!AfterSeek
  <2> DEFINE d == B!discard_buffer(g)
  <2>2. Mirrors(d, w, d.tell) /\ d.buf = <<>>
    BY DiscardMirrors
  <2> HIDE DEF d
  <2>3. Mirrors(B!BaseSeek(d, q), w, q)
    BY <2>2, MovedMirrors
  <2> QED BY <2>1, <2>3 DEF d
<1> QED BY <1>2, <1>3, <1>4

\* A buffer of its own, at the position.
LEMMA NewBufferMirrors ==
  ASSUME NEW g, NEW w, NEW p, Mirrors(g, w, p), g.buf = <<>>,
         NEW b \in Seq(Bytes), b # <<>>, Len(b) <= Size
  PROVE  Mirrors(B!InNewBuffer(g, b), B!Over(w, p, b), p + Len(b))
<1> DEFINE k == B!InNewBuffer(g, b)
           v == B!Over(w, p, b)
<1>1. /\ g \in BufferedFile /\ g.data = w /\ g.tell = p /\ p \in Nat /\ p <= Len(w)
      /\ w \in Seq(Bytes) /\ Len(b) \in Nat
  BY DEF Mirrors, BufferedFile
<1>2. k = [g EXCEPT !.start = p, !.buf = b, !.dirty = TRUE, !.pos = Len(b)]
  BY <1>1 DEF B!InNewBuffer
<1> HIDE DEF k
<1>3. /\ k \in BufferedFile /\ k.data = w /\ k.start = p /\ k.buf = b
      /\ k.dirty /\ k.pos = Len(b)
  BY <1>1, <1>2 DEF BufferedFile
<1>4. v \in Seq(Bytes) /\ p + Len(b) \in 0 .. Len(v)
  BY <1>1, OverIs
<1> HIDE DEF v
<1>5. Mirrors(k, v, p + Len(b))
  BY <1>1, <1>3, <1>4 DEF Mirrors, v
<1> QED BY <1>5 DEF k, v

\* What is written into the buffer is kept, and with it what was dirty.
LEMMA InBufferMirrors ==
  ASSUME NEW g, NEW w, NEW p, Mirrors(g, w, p), g.buf # <<>>,
         NEW b \in Seq(Bytes), NEW n \in Seq(Bytes), n = B!Over(g.buf, g.pos, b),
         Len(n) <= Size, n # <<>>, NEW k,
         k = [g EXCEPT !.buf = n, !.dirty = TRUE, !.pos = @ + Len(b)]
  PROVE  Mirrors(k, B!Over(w, p, b), p + Len(b))
<1> DEFINE v == B!Over(w, p, b)
<1>1. /\ g \in BufferedFile /\ p \in Nat /\ p <= Len(w) /\ w \in Seq(Bytes)
      /\ Len(b) \in Nat /\ g.data \in Seq(Bytes) /\ g.buf \in Seq(Bytes)
      /\ g.start \in 0 .. Len(g.data) /\ g.pos \in 0 .. Len(g.buf)
      /\ g.start \in Nat /\ g.pos \in Nat
  BY DEF Mirrors, BufferedFile
<1>2. p = g.start + g.pos /\ w = B!Over(g.data, g.start, g.buf)
  BY DEF Mirrors
<1>3. IsOver(v, w, p, b)
  BY <1>1, OverSays, Zenon
<1>4. IsOver(n, g.buf, g.pos, b)
  BY <1>1, OverSays, Zenon
<1>5. v = B!Over(g.data, g.start, n)
  BY <1>1, <1>2, OverOver
<1> HIDE DEF v
<1>6. v \in Seq(Bytes) /\ p + Len(b) \in 0 .. Len(v)
  BY <1>1, <1>3 DEF IsOver
<1>7. g.pos + Len(b) \in Nat /\ g.pos + Len(b) <= Len(n)
  BY <1>1, <1>4 DEF IsOver
<1>8. /\ k \in BufferedFile /\ k.data = g.data /\ k.start = g.start /\ k.buf = n
      /\ k.dirty /\ k.pos = g.pos + Len(b)
  BY <1>1, <1>7 DEF BufferedFile
<1>9. k.start + k.pos = p + Len(b)
  BY <1>1, <1>2, <1>8
<1>10. Mirrors(k, v, p + Len(b))
  BY <1>1, <1>5, <1>6, <1>7, <1>8, <1>9 DEF Mirrors
<1> QED BY <1>10 DEF v

\* The rest of the buffer behind what is written is dropped where it is not
\* dirty: the file below has it.
LEMMA ShortenedMirrors ==
  ASSUME NEW g, NEW w, NEW p, Mirrors(g, w, p), g.buf # <<>>, ~g.dirty,
         NEW b \in Seq(Bytes), NEW n \in Seq(Bytes),
         n = B!Cut(B!Over(g.buf, g.pos, b), 0, g.pos + Len(b)),
         Len(n) <= Size, n # <<>>, NEW k,
         k = [g EXCEPT !.buf = n, !.dirty = TRUE, !.pos = @ + Len(b)]
  PROVE  Mirrors(k, B!Over(w, p, b), p + Len(b)) /\ Len(n) = g.pos + Len(b)
<1> DEFINE v == B!Over(w, p, b)
           o == B!Over(g.buf, g.pos, b)
           u == B!Over(w, g.start, n)
           l == g.pos + Len(b)
<1>1. /\ g \in BufferedFile /\ p \in Nat /\ p <= Len(w) /\ w \in Seq(Bytes)
      /\ Len(b) \in Nat /\ g.buf \in Seq(Bytes)
      /\ g.start \in Nat /\ g.pos \in Nat /\ Len(g.buf) \in Nat
      /\ g.pos <= Len(g.buf) /\ g.start <= Len(w) /\ Len(w) \in Nat
  BY DEF Mirrors, BufferedFile
<1>2. g.data = w /\ p = g.start + g.pos /\ g.start + Len(g.buf) <= Len(w)
  BY DEF Mirrors
<1>3. IsOver(w, w, g.start, g.buf)
  <2>1. w = B!Over(w, g.start, g.buf)
    BY <1>2 DEF Mirrors
  <2>2. IsOver(B!Over(w, g.start, g.buf), w, g.start, g.buf)
    BY <1>1, OverSays, Zenon
  <2> QED BY <2>1, <2>2
<1>4. IsOver(o, g.buf, g.pos, b)
  BY <1>1, OverSays, Zenon
<1>5. IsOver(v, w, p, b)
  BY <1>1, OverSays, Zenon
<1>6. IsOver(u, w, g.start, n)
  BY <1>1, OverSays, Zenon
<1>7. l \in Nat /\ o \in Seq(Bytes)
  BY <1>1, <1>4 DEF IsOver
<1>8. 0 \in 0 .. Len(o)
  <2> HIDE DEF o
  <2> QED BY <1>7
<1>9. IsCut(n, o, 0, l)
  <2>1. n = B!Cut(o, 0, l)
    OBVIOUS
  <2> HIDE DEF o, l
  <2>2. IsCut(B!Cut(o, 0, l), o, 0, l)
    BY <1>7, <1>8, CutSays, Zenon
  <2> QED BY <2>1, <2>2
<1> HIDE DEF o, u, v
<1>10. Len(n) = l /\ l <= Len(o)
  BY <1>1, <1>4, <1>7, <1>9 DEF IsOver, IsCut
<1>a. Len(n) \in Nat /\ Len(n) = g.pos + Len(b) /\ g.start + Len(n) = p + Len(b)
  <2>1. Len(n) = g.pos + Len(b)
    BY <1>10
  <2>2. g.start + (g.pos + Len(b)) = (g.start + g.pos) + Len(b) /\ g.pos + Len(b) \in Nat
    BY <1>1
  <2> QED BY <1>2, <2>1, <2>2
<1>11. ASSUME NEW i \in 1 .. Len(n)
       PROVE  n[i] = IF g.pos < i THEN b[i - g.pos] ELSE g.buf[i]
  <2>1. n[i] = o[0 + i]
    BY <1>9 DEF IsCut
  <2>2. 0 + i = i /\ i \in 1 .. Len(o) /\ i <= g.pos + Len(b)
    <3> HIDE DEF l
    <3> QED BY <1>7, <1>10, <1>a
  <2>3. o[i] = IF g.pos < i THEN b[i - g.pos]
               ELSE IF i <= Len(g.buf) THEN g.buf[i] ELSE Zero
    BY <1>4, <2>2 DEF IsOver
  <2>4. ~(g.pos < i) => i <= Len(g.buf)
    BY <1>1
  <2> QED BY <2>1, <2>2, <2>3, <2>4
<1>12. Len(u) = Len(v)
  <2>1. Len(u) = IF Len(w) >= g.start + Len(n) THEN Len(w) ELSE g.start + Len(n)
    BY <1>6 DEF IsOver
  <2>2. Len(v) = IF Len(w) >= p + Len(b) THEN Len(w) ELSE p + Len(b)
    BY <1>5 DEF IsOver
  <2> QED BY <1>a, <2>1, <2>2
<1>13. ASSUME NEW i \in 1 .. Len(u)
       PROVE  u[i] = v[i]
  <2>1. CASE i <= g.start \/ i > g.start + Len(n)
    <3>1. ~(g.start < i /\ i <= g.start + Len(n)) /\ ~(p < i /\ i <= p + Len(b))
      BY <1>1, <1>2, <1>a, <2>1, SMTT(30)
    <3>2. u[i] = IF i <= Len(w) THEN w[i] ELSE Zero
      BY <1>6, <3>1 DEF IsOver
    <3>3. v[i] = IF i <= Len(w) THEN w[i] ELSE Zero
      BY <1>5, <1>12, <3>1 DEF IsOver
    <3> QED BY <3>2, <3>3
  <2>2. CASE p < i /\ i <= g.start + Len(n)
    <3> DEFINE j == i - g.start
    <3>a. i \in Int /\ g.start <= p
      BY <1>1, <1>2
    <3>b. g.pos < j /\ j - g.pos = i - p
      BY <1>1, <1>2, <2>2, <3>a
    <3>1. j \in 1 .. Len(n) /\ g.pos < j /\ j - g.pos = i - p
          /\ g.start < i /\ i <= p + Len(b)
      <4>1. g.start \in Nat /\ g.pos \in Nat /\ Len(n) \in Nat
        BY <1>1, <1>a
      <4>2. j \in Int /\ j <= Len(n) /\ g.start < i
        BY <2>2, <3>a, <4>1, <1>2
      <4>3. j >= 1 /\ j \in 1 .. Len(n)
        BY <3>b, <4>1, <4>2
      <4> QED BY <1>a, <2>2, <3>b, <4>2, <4>3
    <3>2. u[i] = n[j]
      BY <1>6, <2>2, <3>1 DEF IsOver
    <3> HIDE DEF j
    <3>3. v[i] = b[i - p]
      BY <1>5, <1>12, <2>2, <3>1 DEF IsOver
    <3>4. n[j] = b[j - g.pos]
      BY <1>11, <3>1
    <3> QED BY <3>1, <3>2, <3>3, <3>4
  <2>3. CASE g.start < i /\ i <= p
    <3> DEFINE j == i - g.start
    <3>1. /\ j \in 1 .. Len(n) /\ ~(g.pos < j) /\ i \in 1 .. Len(w)
          /\ i <= g.start + Len(n) /\ i <= g.start + Len(g.buf) /\ ~(p < i)
      <4>a. i \in Int /\ g.start \in Int /\ g.pos \in Int /\ p = g.start + g.pos
        BY <1>1, <1>2
      <4>b. g.pos <= Len(g.buf) /\ Len(g.buf) \in Int /\ Len(n) \in Int /\ g.pos <= Len(n)
        BY <1>1, <1>a
      <4>1. i \in Int /\ p <= g.start + Len(g.buf) /\ p <= g.start + Len(n)
            /\ j <= g.pos /\ g.pos <= Len(n)
        BY <4>a, <4>b, <2>3
      <4>2. i <= Len(w) /\ j \in Int /\ j >= 1 /\ i >= 1
        BY <1>1, <2>3, <4>1, SMTT(30)
      <4>3. i <= g.start + Len(n) /\ i <= g.start + Len(g.buf) /\ i \in 1 .. Len(w)
        <5>1. g.start + Len(n) \in Int /\ g.start + Len(g.buf) \in Int /\ p \in Int
          BY <1>1, <1>a, SMTT(30)
        <5>2. i <= g.start + Len(n) /\ i <= g.start + Len(g.buf)
          BY <2>3, <4>1, <5>1
        <5> QED BY <1>1, <4>1, <4>2, <5>2
      <4>4. j <= Len(n) /\ ~(g.pos < j) /\ ~(p < i)
        BY <1>1, <1>a, <2>3, <4>1, <4>2, SMTT(30)
      <4>5. j \in 1 .. Len(n)
        BY <1>a, <4>2, <4>4
      <4> QED BY <4>3, <4>4, <4>5
    <3>2. u[i] = n[j]
      BY <1>6, <2>3, <3>1 DEF IsOver
    <3>3. w[i] = g.buf[j]
      BY <1>3, <2>3, <3>1 DEF IsOver
    <3> HIDE DEF j
    <3>4. v[i] = w[i]
      BY <1>5, <1>12, <3>1 DEF IsOver
    <3>5. n[j] = g.buf[j]
      BY <1>11, <3>1
    <3> QED BY <3>2, <3>3, <3>4, <3>5
  <2> QED BY <1>1, <1>2, <1>a, <2>1, <2>2, <2>3, SMTT(30)
<1>14. u = v
  BY <1>5, <1>6, <1>12, <1>13, SameSequence DEF IsOver
<1>15. /\ k \in BufferedFile /\ k.data = w /\ k.start = g.start /\ k.buf = n
       /\ k.dirty /\ k.pos = l
  BY <1>1, <1>2, <1>7 DEF BufferedFile
<1>16. /\ k.start + k.pos = p + Len(b) /\ p + Len(b) \in 0 .. Len(v)
       /\ v \in Seq(Bytes)
  BY <1>1, <1>2, <1>5, <1>15, SMTT(30) DEF IsOver
<1>17. v = B!Over(w, g.start, n)
  BY <1>14 DEF u
<1>18. Mirrors(k, v, p + Len(b))
  BY <1>1, <1>10, <1>15, <1>16, <1>17, SMTT(30) DEF Mirrors
<1> QED BY <1>10, <1>18 DEF v

\* A write without the buffer.
LEMMA BelowMirrors ==
  ASSUME NEW g, NEW w, NEW p, Mirrors(g, w, p), g.buf = <<>>, NEW b \in Seq(Bytes)
  PROVE  Mirrors(B!BaseWrite(g, b), B!Over(w, p, b), p + Len(b))
<1> DEFINE v == B!Over(w, p, b)
           k == B!BaseWrite(g, b)
<1>1. /\ g \in BufferedFile /\ g.data = w /\ g.tell = p /\ p \in Nat /\ p <= Len(w)
      /\ w \in Seq(Bytes) /\ Len(b) \in Nat /\ ~g.dirty /\ g.start <= Len(w)
      /\ Len(w) \in Nat /\ g.start \in Nat
  BY DEF Mirrors, BufferedFile
<1>2. IsOver(v, w, p, b)
  BY <1>1, OverSays, Zenon
<1>3. k = [g EXCEPT !.data = v, !.tell = p + Len(b)]
  BY <1>1 DEF B!BaseWrite
<1> HIDE DEF k, v
<1>4. /\ v \in Seq(Bytes) /\ Len(w) <= Len(v) /\ p + Len(b) <= Len(v)
      /\ p + Len(b) \in Nat /\ Len(v) \in Nat
  BY <1>1, <1>2 DEF IsOver
<1>5. /\ k \in BufferedFile /\ k.data = v /\ k.tell = p + Len(b) /\ k.buf = <<>>
      /\ ~k.dirty /\ k.start = g.start /\ k.pos = g.pos
  BY <1>1, <1>3, <1>4 DEF BufferedFile
<1>6. Mirrors(k, v, p + Len(b))
  BY <1>1, <1>4, <1>5 DEF Mirrors
<1> QED BY <1>6 DEF k, v

LEMMA CutAll ==
  ASSUME NEW s \in Seq(Bytes)
  PROVE  B!Cut(s, 0, Len(s)) = s
<1> DEFINE r == B!Cut(s, 0, Len(s))
<1>1. Len(s) \in Nat /\ 0 \in 0 .. Len(s)
  OBVIOUS
<1>2. IsCut(r, s, 0, Len(s))
  BY <1>1, CutSays, Zenon
<1> HIDE DEF r
<1>3. r \in Seq(Bytes) /\ Len(r) = Len(s) /\ \A i \in 1 .. Len(r) : r[i] = s[i]
  BY <1>1, <1>2 DEF IsCut
<1> QED BY <1>3, SameSequence DEF r

\* The first bytes, up to the end of what was written, have it.
LEMMA CutOver ==
  ASSUME NEW s \in Seq(Bytes), NEW a \in 0 .. Len(s), NEW b \in Seq(Bytes), NEW n,
         n = B!Cut(B!Over(s, a, b), 0, a + Len(b))
  PROVE  n \in Seq(Bytes) /\ Len(n) = a + Len(b) /\ B!Over(n, a, b) = n
<1> DEFINE o == B!Over(s, a, b)
           l == a + Len(b)
           r == B!Over(n, a, b)
<1>1. a \in Nat /\ Len(b) \in Nat /\ l \in Nat /\ Len(s) \in Nat
  OBVIOUS
<1>2. IsOver(o, s, a, b)
  BY <1>1, OverSays, Zenon
<1>3. n = B!Cut(o, 0, l) /\ o \in Seq(Bytes)
  BY <1>2 DEF IsOver
<1> HIDE DEF o
<1>4. l <= Len(o) /\ 0 \in 0 .. Len(o)
  BY <1>1, <1>2 DEF IsOver
<1>5. l = a + Len(b)
  OBVIOUS
<1> HIDE DEF l
<1>6. IsCut(n, o, 0, l)
  BY <1>1, <1>3, <1>4, CutSays, Zenon
<1>7. n \in Seq(Bytes) /\ Len(n) = l /\ \A i \in 1 .. Len(n) : n[i] = o[i]
  BY <1>1, <1>4, <1>6 DEF IsCut
<1>8. IsOver(r, n, a, b)
  BY <1>1, <1>7, OverSays, Zenon
<1> HIDE DEF r
<1>9. r \in Seq(Bytes) /\ Len(r) = Len(n)
  BY <1>1, <1>5, <1>7, <1>8 DEF IsOver
<1>10. ASSUME NEW i \in 1 .. Len(r)
       PROVE  r[i] = n[i]
  <2>1. i \in 1 .. Len(o) /\ i \in 1 .. Len(n) /\ i <= a + Len(b)
    BY <1>1, <1>4, <1>5, <1>7, <1>9
  <2>2. r[i] = IF a < i THEN b[i - a] ELSE n[i]
    BY <1>8, <2>1 DEF IsOver
  <2>3. a < i => o[i] = b[i - a]
    BY <1>2, <2>1 DEF IsOver
  <2> QED BY <1>7, <2>1, <2>2, <2>3
<1>11. r = n
  BY <1>7, <1>9, <1>10, SameSequence
<1> QED BY <1>5, <1>7, <1>11 DEF r

\* A write, where it is sound: SoundWrite of this buffer.
LEMMA WriteMirrors ==
  ASSUME NEW g, NEW w, NEW p, Mirrors(g, w, p), NEW b \in Seq(Bytes), b # <<>>,
         IF Len(b) > Size THEN g.buf = <<>>
         ELSE g.buf = <<>>
              \/ (g.pos < Size /\ (B!Fits(g, b) /\ g.dirty => g.pos + Len(b) >= Len(g.buf)))
  PROVE  Mirrors(B!AfterWrite(g, b), B!Over(w, p, b), p + Len(b))
<1> DEFINE d == B!discard_buffer(g)
<1>1. /\ g \in BufferedFile /\ g.buf \in Seq(Bytes) /\ g.pos \in Nat /\ g.pos <= Len(g.buf)
      /\ Len(b) \in Nat /\ Len(g.buf) \in Nat /\ Len(g.buf) <= Size /\ Size \in Nat
      /\ Len(b) > 0 /\ p \in 0 .. Len(w)
      /\ (g.buf = <<>> => g.tell = p) /\ (g.buf # <<>> => g.start + g.pos = p)
  BY BufferAssumption DEF Mirrors, BufferedFile
<1>2. Mirrors(d, w, d.tell) /\ d.buf = <<>>
  BY DiscardMirrors
<1>3. Mirrors(B!BaseSeek(d, p), w, p) /\ B!BaseSeek(d, p).buf = <<>>
  <2> HIDE DEF d
  <2>1. Mirrors(B!BaseSeek(d, p), w, p) /\ B!BaseSeek(d, p) = [d EXCEPT !.tell = p]
    BY <1>1, <1>2, MovedMirrors
  <2>2. d \in BufferedFile
    BY <1>2 DEF Mirrors
  <2>3. [d EXCEPT !.tell = p].buf = d.buf
    BY <2>2 DEF BufferedFile
  <2> QED BY <1>2, <2>1, <2>3
<1>4. CASE Len(b) > Size
  <2>1. B!AfterWrite(g, b) = B!BaseWrite(B!BaseSeek(d, p), b)
    BY <1>1, <1>4 DEF B!AfterWrite
  <2> HIDE DEF d
  <2> QED BY <1>3, <2>1, BelowMirrors
<1>5. CASE ~(Len(b) > Size) /\ g.buf = <<>>
  <2>1. B!AfterWrite(g, b) = B!InNewBuffer(g, b) /\ Len(b) <= Size
    BY <1>1, <1>5 DEF B!AfterWrite
  <2> QED BY <1>5, <2>1, NewBufferMirrors
<1>6. CASE ~(Len(b) > Size) /\ g.buf # <<>> /\ B!Fits(g, b)
  <2> DEFINE n == B!Cut(B!Over(g.buf, g.pos, b), 0, g.pos + Len(b))
             k == [g EXCEPT !.buf = n, !.dirty = TRUE, !.pos = @ + Len(b)]
  <2>1. g.pos \in 0 .. Len(g.buf)
    BY <1>1
  <2>2. n \in Seq(Bytes) /\ Len(n) = g.pos + Len(b) /\ B!Over(n, g.pos, b) = n
    <3>1. g.buf \in Seq(Bytes) /\ n = B!Cut(B!Over(g.buf, g.pos, b), 0, g.pos + Len(b))
      BY <1>1
    <3> HIDE DEF n, k
    <3> QED BY <2>1, <3>1, CutOver
  <2>3. B!AfterWrite(g, b) = k
    <3>1. B!AfterWrite(g, b) =
            IF g.pos + Len(b) <= Len(n)
            THEN [g EXCEPT !.buf = B!Over(n, g.pos, b), !.dirty = TRUE,
                           !.pos = @ + Len(b)]
            ELSE B!InNewBuffer(B!BaseSeek(B!discard_buffer(g), g.start + g.pos), b)
      BY <1>6 DEF B!AfterWrite
    <3> HIDE DEF n
    <3>2. g.pos + Len(b) <= Len(n)
      BY <1>1, <2>2
    <3> QED BY <2>2, <3>1, <3>2
  <2>4. Len(n) <= Size /\ n # <<>>
    <3>1. g.pos < Size /\ Size - (g.pos + 1) > Len(b)
      BY <1>1, <1>6 DEF B!Fits
    <3> HIDE DEF n
    <3>2. Len(n) <= Size /\ Len(n) > 0
      BY <1>1, <2>2, <3>1
    <3> QED BY <3>2
  <2>5. CASE g.dirty
    <3> DEFINE o == B!Over(g.buf, g.pos, b)
    <3>1. g.pos + Len(b) >= Len(g.buf)
      <4>1. ~(g.buf = <<>>) /\ B!Fits(g, b) /\ g.dirty /\ ~(Len(b) > Size)
        BY <1>6, <2>5
      <4>2. g.pos < Size /\ (B!Fits(g, b) /\ g.dirty => g.pos + Len(b) >= Len(g.buf))
        BY <4>1, Zenon
      <4> QED BY <4>1, <4>2, Zenon
    <3>2. IsOver(o, g.buf, g.pos, b)
      BY <1>1, OverSays, Zenon
    <3> HIDE DEF o
    <3>3. o \in Seq(Bytes) /\ Len(o) = g.pos + Len(b)
      <4>1. /\ o \in Seq(Bytes)
            /\ Len(o) = IF Len(g.buf) >= g.pos + Len(b) THEN Len(g.buf) ELSE g.pos + Len(b)
        BY <3>2 DEF IsOver
      <4>2. g.pos + Len(b) \in Int /\ Len(g.buf) \in Int
        BY <1>1
      <4> QED BY <3>1, <4>1, <4>2
    <3>4. B!Cut(o, 0, g.pos + Len(b)) = o
      BY <3>3, CutAll
    <3>5. n = B!Over(g.buf, g.pos, b)
      BY <3>4 DEF o
    <3> HIDE DEF n
    <3> QED BY <1>6, <2>2, <2>3, <2>4, <3>5, InBufferMirrors
  <2>6. CASE ~g.dirty
    <3>1. n = B!Cut(B!Over(g.buf, g.pos, b), 0, g.pos + Len(b))
      OBVIOUS
    <3> HIDE DEF n
    <3> QED BY <1>6, <2>2, <2>3, <2>4, <2>6, <3>1, ShortenedMirrors
  <2> QED BY <2>5, <2>6
<1>7. CASE ~(Len(b) > Size) /\ g.buf # <<>> /\ ~B!Fits(g, b)
  <2>1. B!AfterWrite(g, b) =
          IF g.pos + Len(b) <= Len(g.buf)
          THEN [g EXCEPT !.buf = B!Over(g.buf, g.pos, b), !.dirty = TRUE,
                         !.pos = @ + Len(b)]
          ELSE B!InNewBuffer(B!BaseSeek(d, g.start + g.pos), b)
    BY <1>7 DEF B!AfterWrite
  <2>2. CASE g.pos + Len(b) <= Len(g.buf)
    <3> DEFINE n == B!Over(g.buf, g.pos, b)
               k == [g EXCEPT !.buf = n, !.dirty = TRUE, !.pos = @ + Len(b)]
    <3>1. B!AfterWrite(g, b) = k
      BY <2>1, <2>2
    <3>2. IsOver(n, g.buf, g.pos, b)
      BY <1>1, OverSays, Zenon
    <3>3. n = B!Over(g.buf, g.pos, b)
      OBVIOUS
    <3> HIDE DEF n
    <3>4. n \in Seq(Bytes) /\ Len(n) = Len(g.buf)
      BY <1>1, <2>2, <3>2 DEF IsOver
    <3>5. Len(n) <= Size /\ n # <<>>
      BY <1>1, <2>2, <3>4
    <3> QED BY <1>7, <3>1, <3>3, <3>4, <3>5, InBufferMirrors
  <2>3. CASE ~(g.pos + Len(b) <= Len(g.buf))
    <3>1. B!AfterWrite(g, b) = B!InNewBuffer(B!BaseSeek(d, p), b) /\ Len(b) <= Size
      BY <1>1, <1>7, <2>1, <2>3
    <3> DEFINE h == B!BaseSeek(d, p)
    <3>2. Mirrors(h, w, p) /\ h.buf = <<>>
      BY <1>3
    <3>3. B!AfterWrite(g, b) = B!InNewBuffer(h, b)
      BY <3>1
    <3> HIDE DEF h, d
    <3> QED BY <3>1, <3>2, <3>3, NewBufferMirrors
  <2> QED BY <2>2, <2>3
<1> QED BY <1>4, <1>5, <1>6, <1>7

\* The end of a file with a buffer.
LEMMA SizeMirrors ==
  ASSUME NEW g, NEW w, NEW p, Mirrors(g, w, p)
  PROVE  B!file_size(g) = Len(w) /\ B!tellg(g) = p
<1> DEFINE x == Len(g.data)
           y == IF g.buf # <<>> /\ g.dirty THEN Len(g.buf) ELSE g.pos
           z == g.start + y
<1>1. /\ x \in Nat /\ g.start \in Nat /\ g.pos \in Nat /\ g.start <= x
      /\ Len(g.buf) \in Nat /\ g.pos <= Len(g.buf) /\ g.buf \in Seq(Bytes)
      /\ g.data \in Seq(Bytes) /\ g.dirty \in BOOLEAN /\ w \in Seq(Bytes)
  BY DEF Mirrors, BufferedFile
<1>2. y \in Nat /\ z \in Int /\ z = g.start + y
  BY <1>1
<1>3. B!file_size(g) = B!Max({x, z})
  BY DEF B!file_size
<1>4. CASE g.buf = <<>>
  <2>1. w = g.data /\ g.pos = 0 /\ y = 0 /\ B!tellg(g) = p
    BY <1>1, <1>4 DEF Mirrors, B!tellg
  <2> HIDE DEF x, y, z
  <2>2. B!Max({x, z}) = x
    BY <1>1, <1>2, <2>1, OfTwo
  <2> QED BY <1>3, <2>1, <2>2 DEF x
<1>5. CASE g.buf # <<>>
  <2>1. w = B!Over(g.data, g.start, g.buf) /\ B!tellg(g) = p
    BY <1>5 DEF Mirrors, B!tellg
  <2>2. IsOver(w, g.data, g.start, g.buf)
    <3>1. IsOver(B!Over(g.data, g.start, g.buf), g.data, g.start, g.buf)
      BY <1>1, OverSays, Zenon
    <3> QED BY <2>1, <3>1
  <2>3. Len(w) = IF x >= g.start + Len(g.buf) THEN x ELSE g.start + Len(g.buf)
    BY <2>2 DEF IsOver
  <2>4. g.dirty => y = Len(g.buf)
    BY <1>5
  <2>5. ~g.dirty => y = g.pos /\ g.start + Len(g.buf) <= x
    BY <1>5 DEF Mirrors
  <2> HIDE DEF x, y, z
  <2>6. B!Max({x, z}) = IF x >= z THEN x ELSE z
    BY <1>1, <1>2, OfTwo
  <2>7. CASE g.dirty
    BY <1>2, <1>3, <2>1, <2>3, <2>4, <2>6, <2>7
  <2>8. CASE ~g.dirty
    <3>1. z <= x /\ Len(w) = x
      BY <1>1, <1>2, <2>3, <2>5, <2>8
    <3> QED BY <1>1, <1>2, <1>3, <2>1, <2>6, <3>1
  <2> QED BY <1>1, <2>7, <2>8
<1> QED BY <1>4, <1>5

\* What is read out of the buffer, is what lies there in the file.
LEMMA CutOfOver ==
  ASSUME NEW s \in Seq(Bytes), NEW a \in 0 .. Len(s), NEW b \in Seq(Bytes),
         NEW p \in 0 .. Len(b), NEW n \in Nat,
         p + n <= Len(b) \/ Len(B!Over(s, a, b)) <= a + Len(b)
  PROVE  B!Cut(b, p, n) = B!Cut(B!Over(s, a, b), a + p, n)
<1> DEFINE l == B!Cut(b, p, n)
           w == B!Over(s, a, b)
           q == a + p
           r == B!Cut(w, q, n)
<1>1. /\ a \in Nat /\ p \in Nat /\ Len(b) \in Nat /\ Len(s) \in Nat /\ p <= Len(b)
      /\ a <= Len(s)
  OBVIOUS
<1>2. IsOver(w, s, a, b)
  BY <1>1, OverSays, Zenon
<1>3. q = a + p /\ q \in Nat /\ (p + n <= Len(b) \/ Len(w) <= a + Len(b))
  BY <1>1
<1>4. IsCut(l, b, p, n)
  BY CutSays, Zenon
<1> HIDE DEF l, q, w
<1>5. w \in Seq(Bytes) /\ Len(w) >= a + Len(b) /\ Len(w) \in Nat
  BY <1>1, <1>2 DEF IsOver
<1>6. q \in 0 .. Len(w)
  BY <1>1, <1>3, <1>5
<1>7. IsCut(r, w, q, n)
  BY <1>5, <1>6, CutSays, Zenon
<1> HIDE DEF r
<1>8. Len(l) = IF p + n <= Len(b) THEN n ELSE Len(b) - p
  BY <1>4 DEF IsCut
<1>9. Len(r) = IF q + n <= Len(w) THEN n ELSE Len(w) - q
  BY <1>7 DEF IsCut
<1>10. Len(l) = Len(r) /\ Len(l) <= Len(b) - p
  BY <1>1, <1>3, <1>5, <1>8, <1>9
<1>11. ASSUME NEW i \in 1 .. Len(l)
       PROVE  l[i] = r[i]
  <2> DEFINE j == q + i
  <2>1. l[i] = b[p + i] /\ r[i] = w[q + i]
    BY <1>4, <1>7, <1>10 DEF IsCut
  <2>2. i \in Nat /\ i >= 1 /\ p + i <= Len(b)
    BY <1>1, <1>4, <1>10 DEF IsCut
  <2>3. j \in 1 .. Len(w) /\ a < j /\ j <= a + Len(b) /\ j - a = p + i
    BY <1>1, <1>3, <1>5, <2>2
  <2> HIDE DEF j
  <2>4. w[j] = b[j - a]
    BY <1>2, <2>3 DEF IsOver
  <2> QED BY <2>1, <2>3, <2>4 DEF j
<1>12. l = r
  BY <1>4, <1>7, <1>10, <1>11, SameSequence DEF IsCut
<1> QED BY <1>12 DEF l, r, q, w

\* A part of a file, put where it is in the file.
IsPart(b, w, p, n) ==
  /\ b \in Seq(Bytes) /\ p + Len(b) <= Len(w) /\ B!Over(w, p, b) = w
  /\ Len(b) = IF p + n <= Len(w) THEN n ELSE Len(w) - p

LEMMA OverCut ==
  ASSUME NEW w \in Seq(Bytes), NEW p \in 0 .. Len(w), NEW n \in Nat
  PROVE  IsPart(B!Cut(w, p, n), w, p, n)
<1> DEFINE b == B!Cut(w, p, n)
           r == B!Over(w, p, b)
<1>1. p \in Nat /\ p <= Len(w) /\ Len(w) \in Nat
  OBVIOUS
<1>2. IsCut(b, w, p, n)
  BY CutSays, Zenon
<1> HIDE DEF b
<1>3. /\ b \in Seq(Bytes) /\ Len(b) \in Nat
      /\ Len(b) = IF p + n <= Len(w) THEN n ELSE Len(w) - p
  BY <1>2 DEF IsCut
<1>4. p + Len(b) <= Len(w)
  BY <1>1, <1>3
<1>5. IsOver(r, w, p, b)
  BY <1>1, <1>3, OverSays, Zenon
<1> HIDE DEF r
<1>6. r \in Seq(Bytes) /\ Len(r) = Len(w)
  BY <1>1, <1>3, <1>4, <1>5 DEF IsOver
<1>7. ASSUME NEW i \in 1 .. Len(r)
      PROVE  r[i] = w[i]
  <2>1. CASE p < i /\ i <= p + Len(b)
    <3> DEFINE j == i - p
    <3>1. j \in 1 .. Len(b) /\ p + j = i
      BY <1>1, <1>3, <2>1
    <3>2. r[i] = b[j]
      BY <1>5, <2>1 DEF IsOver
    <3> HIDE DEF j
    <3>3. b[j] = w[p + j]
      BY <1>2, <3>1 DEF IsCut
    <3> QED BY <3>1, <3>2, <3>3
  <2>2. CASE ~(p < i /\ i <= p + Len(b))
    BY <1>1, <1>5, <1>6, <2>2 DEF IsOver
  <2> QED BY <2>1, <2>2
<1>8. r = w
  BY <1>6, <1>7, SameSequence
<1>9. IsPart(b, w, p, n)
  BY <1>3, <1>4, <1>8 DEF IsPart, r
<1> QED BY <1>9 DEF b

\* The part of a file that has been read into the buffer, from its beginning.
LEMMA CutCut ==
  ASSUME NEW w \in Seq(Bytes), NEW p \in 0 .. Len(w), NEW m \in Nat, NEW n \in 0 .. m
  PROVE  B!Cut(B!Cut(w, p, m), 0, n) = B!Cut(w, p, n)
<1> DEFINE b == B!Cut(w, p, m)
           v == B!Over(w, p, b)
<1>1. IsPart(b, w, p, m)
  BY OverCut, Zenon
<1> HIDE DEF b
<1>2. /\ p \in Nat /\ Len(w) \in Nat /\ n \in Nat /\ n <= m /\ 0 \in 0 .. Len(b)
      /\ p + 0 = p /\ b \in Seq(Bytes) /\ v = w /\ p + Len(b) <= Len(w)
      /\ Len(b) \in Nat
  BY <1>1 DEF IsPart
<1>3. 0 + n <= Len(b) \/ Len(v) <= p + Len(b)
  <2>1. Len(b) = IF p + m <= Len(w) THEN m ELSE Len(w) - p
    BY <1>1 DEF IsPart
  <2> HIDE DEF v
  <2> QED BY <1>2, <2>1
<1>4. B!Cut(b, 0, n) = B!Cut(v, p + 0, n)
  BY <1>2, <1>3, CutOfOver, Zenon
<1> HIDE DEF v
<1> QED BY <1>2, <1>4 DEF b

\* What is read into an empty buffer.
LEMMA FilledMirrors ==
  ASSUME NEW g, NEW w, NEW p, Mirrors(g, w, p), g.buf = <<>>, NEW n \in 1 .. Size
  PROVE  /\ Mirrors(B!read_to_buffer(g, n), w, B!Min({p + n, Len(w)}))
         /\ B!Cut(B!read_to_buffer(g, n).buf, 0, n) = B!Cut(w, p, n)
<1> DEFINE k == B!read_to_buffer(g, n)
           b == B!Cut(w, p, Size)
           q == B!Min({p + n, Len(w)})
<1>1. /\ g \in BufferedFile /\ g.data = w /\ g.tell = p /\ p \in 0 .. Len(w)
      /\ p \in Nat /\ p <= Len(w) /\ Len(w) \in Nat /\ w \in Seq(Bytes) /\ ~g.dirty
      /\ g.pos = 0 /\ Size \in Nat /\ n \in Nat /\ n <= Size /\ n >= 1
      /\ n \in 0 .. Size /\ p + n \in Int
  BY BufferAssumption DEF Mirrors, BufferedFile
<1>2. q = IF p + n <= Len(w) THEN p + n ELSE Len(w)
  <2> DEFINE x == p + n
             y == Len(w)
  <2>1. x \in Int /\ y \in Int
    BY <1>1
  <2> HIDE DEF x, y
  <2>2. B!Min({x, y}) = IF x <= y THEN x ELSE y
    BY <2>1, OfTwo
  <2> QED BY <2>2 DEF x, y
<1>3. /\ b \in Seq(Bytes) /\ p + Len(b) <= Len(w) /\ B!Over(w, p, b) = w
      /\ Len(b) = IF p + Size <= Len(w) THEN Size ELSE Len(w) - p
  <2>1. IsPart(b, w, p, Size)
    BY <1>1, OverCut, Zenon
  <2> QED BY <2>1, Zenon DEF IsPart
<1>4. B!Cut(b, 0, n) = B!Cut(w, p, n)
  BY <1>1, CutCut
<1>5. k = IF b = <<>> THEN [g EXCEPT !.start = p]
          ELSE [g EXCEPT !.start = p, !.buf = b, !.tell = p + Len(b),
                         !.pos = B!Min({n, Len(b)})]
  BY <1>1 DEF B!read_to_buffer
<1> HIDE DEF k, b, q
<1>6. CASE b = <<>>
  <2>1. p = Len(w) /\ q = p
    BY <1>1, <1>2, <1>3, <1>6
  <2>2. /\ k \in BufferedFile /\ k.start = p /\ k.data = w /\ k.tell = p /\ k.buf = <<>>
        /\ ~k.dirty /\ k.pos = 0
    BY <1>1, <1>5, <1>6 DEF BufferedFile
  <2>3. Mirrors(k, w, p)
    BY <1>1, <2>2, BufferAssumption DEF Mirrors
  <2> QED BY <1>4, <1>6, <2>1, <2>2, <2>3 DEF k, q
<1>7. CASE b # <<>>
  <2> DEFINE m == IF n <= Len(b) THEN n ELSE Len(b)
  <2>1. B!Min({n, Len(b)}) = m
    <3>1. n \in Int /\ Len(b) \in Int
      BY <1>1, <1>3
    <3> QED BY <3>1, OfTwo
  <2>2. Len(b) \in Nat /\ m \in Nat /\ m <= Len(b) /\ p + Len(b) \in Nat /\ Len(b) <= Size
    BY <1>1, <1>3
  <2>3. p + m = q /\ q \in 0 .. Len(w)
    BY <1>1, <1>2, <1>3, <2>2
  <2> HIDE DEF m
  <2>4. /\ k \in BufferedFile /\ k.start = p /\ k.data = w /\ k.tell = p + Len(b)
        /\ k.buf = b /\ ~k.dirty /\ k.pos = m
    BY <1>1, <1>3, <1>5, <1>7, <2>1, <2>2 DEF BufferedFile
  <2>5. Mirrors(k, w, q)
    BY <1>1, <1>3, <1>7, <2>2, <2>3, <2>4 DEF Mirrors
  <2> QED BY <1>4, <2>4, <2>5 DEF k, q
<1> QED BY <1>6, <1>7

\* A read, where it is sound: SoundRead of this buffer.
LEMMA ReadMirrors ==
  ASSUME NEW g, NEW w, NEW p, Mirrors(g, w, p), NEW n \in Nat, n > 0,
         n > Size => g.buf = <<>>
  PROVE  /\ Mirrors(B!AfterRead(g, n), w, B!Min({p + n, Len(w)}))
         /\ B!Result(g, n) = B!Cut(w, p, n)
<1> DEFINE d == B!discard_buffer(g)
           q == B!Min({p + n, Len(w)})
<1>1. /\ g \in BufferedFile /\ g.buf \in Seq(Bytes) /\ g.pos \in Nat /\ g.pos <= Len(g.buf)
      /\ Len(g.buf) \in Nat /\ Size \in Nat /\ g.data \in Seq(Bytes)
      /\ p \in 0 .. Len(w) /\ p \in Nat /\ p <= Len(w) /\ Len(w) \in Nat
      /\ w \in Seq(Bytes) /\ g.start \in Nat /\ g.start \in 0 .. Len(g.data)
      /\ g.pos \in 0 .. Len(g.buf)
      /\ (g.buf = <<>> => g.tell = p) /\ (g.buf # <<>> => g.start + g.pos = p)
  BY BufferAssumption DEF Mirrors, BufferedFile
<1>2. Mirrors(d, w, d.tell) /\ d.buf = <<>> /\ d.data = w /\ (g.buf = <<>> => d.tell = p)
  BY DiscardMirrors
<1>3. q = (IF p + n <= Len(w) THEN p + n ELSE Len(w)) /\ q \in 0 .. Len(w)
  <2> DEFINE x == p + n
             y == Len(w)
  <2>1. x \in Int /\ y \in Int
    BY <1>1
  <2>a. x \in Nat
    BY <1>1
  <2> HIDE DEF x, y
  <2>2. B!Min({x, y}) = IF x <= y THEN x ELSE y
    BY <2>1, OfTwo
  <2>3. (IF x <= y THEN x ELSE y) \in 0 .. y
    BY <2>1, <2>a, <1>1 DEF y
  <2> QED BY <2>2, <2>3 DEF x, y
<1>4. CASE n > Size
  <2>1. B!AfterRead(g, n) = [d EXCEPT !.tell = B!Min({d.tell + n, Len(d.data)})]
        /\ B!Result(g, n) = B!Cut(d.data, d.tell, n)
    BY <1>4 DEF B!AfterRead, B!Result
  <2>2. g.buf = <<>> /\ d.tell = p /\ d.data = w
    BY <1>2, <1>4
  <2>3. B!AfterRead(g, n) = [d EXCEPT !.tell = q] /\ B!Result(g, n) = B!Cut(w, p, n)
    <3> HIDE DEF d
    <3> QED BY <2>1, <2>2
  <2> HIDE DEF d, q
  <2>4. Mirrors(B!BaseSeek(d, q), w, q) /\ B!BaseSeek(d, q) = [d EXCEPT !.tell = q]
    BY <1>2, <1>3, MovedMirrors
  <2> QED BY <2>3, <2>4 DEF q
<1>5. CASE ~(n > Size) /\ g.buf # <<>> /\ g.pos + n < Len(g.buf)
  <2> DEFINE k == [g EXCEPT !.pos = @ + n]
  <2>1. B!AfterRead(g, n) = k /\ B!Result(g, n) = B!Cut(g.buf, g.pos, n)
    BY <1>5 DEF B!AfterRead, B!Result
  <2>2. w = B!Over(g.data, g.start, g.buf) /\ p = g.start + g.pos
    BY <1>5 DEF Mirrors
  <2>3. IsOver(w, g.data, g.start, g.buf)
    <3>1. IsOver(B!Over(g.data, g.start, g.buf), g.data, g.start, g.buf)
      BY <1>1, OverSays, Zenon
    <3> QED BY <2>2, <3>1
  <2>4. Len(w) >= g.start + Len(g.buf)
    BY <1>1, <2>3 DEF IsOver
  <2>5. B!Cut(g.buf, g.pos, n) = B!Cut(w, g.start + g.pos, n)
    <3>1. g.pos + n <= Len(g.buf)
      <4>1. g.pos + n \in Int /\ g.pos + n < Len(g.buf)
        BY <1>1, <1>5
      <4> QED BY <1>1, <4>1
    <3>2. B!Cut(g.buf, g.pos, n)
          = B!Cut(B!Over(g.data, g.start, g.buf), g.start + g.pos, n)
      <4>1. /\ g.data \in Seq(Bytes) /\ g.start \in 0 .. Len(g.data)
            /\ g.buf \in Seq(Bytes) /\ g.pos \in 0 .. Len(g.buf) /\ n \in Nat
        BY <1>1
      <4>2. \/ g.pos + n <= Len(g.buf)
            \/ Len(B!Over(g.data, g.start, g.buf)) <= g.start + Len(g.buf)
        BY <3>1
      <4> QED BY <4>1, <4>2, CutOfOver, ZenonT(40)
    <3> QED BY <2>2, <3>2, Zenon
  <2>6. q = p + n
    <3>1. p + n <= Len(w)
      <4>1. p + n = g.start + (g.pos + n)
        BY <1>1, <2>2
      <4>2. g.start + (g.pos + n) <= g.start + Len(g.buf)
        BY <1>1, <1>5
      <4>3. g.start + Len(g.buf) \in Int /\ g.start + (g.pos + n) \in Int
        BY <1>1
      <4> QED BY <1>1, <2>4, <4>1, <4>2, <4>3
    <3> HIDE DEF q
    <3> QED BY <1>3, <3>1
  <2>7. /\ k \in BufferedFile /\ k.data = g.data /\ k.tell = g.tell /\ k.buf = g.buf
        /\ k.start = g.start /\ k.pos = g.pos + n /\ k.dirty = g.dirty
    <3>1. g.pos + n \in Nat
      BY <1>1
    <3> DEFINE x == g.pos + n
    <3> HIDE DEF x
    <3>2. k = [g EXCEPT !.pos = x]
      BY DEF x
    <3>3. x \in Nat
      BY <3>1 DEF x
    <3> HIDE DEF k
    <3>4. /\ k \in BufferedFile /\ k.data = g.data /\ k.tell = g.tell /\ k.buf = g.buf
          /\ k.start = g.start /\ k.pos = x /\ k.dirty = g.dirty
      BY <1>1, <3>2, <3>3 DEF BufferedFile
    <3> QED BY <3>4 DEF x
  <2> HIDE DEF k, q
  <2>8. k.start + k.pos = q /\ k.pos <= Len(k.buf)
    <3>1. (g.start + g.pos) + n = g.start + (g.pos + n)
      BY <1>1
    <3>2. g.pos + n <= Len(g.buf)
      <4>1. g.pos + n \in Int /\ g.pos + n < Len(g.buf)
        BY <1>1, <1>5
      <4> QED BY <1>1, <4>1
    <3> QED BY <2>2, <2>6, <2>7, <3>1, <3>2
  <2>9. Mirrors(k, w, q)
    BY <1>1, <1>3, <1>5, <2>7, <2>8 DEF Mirrors
  <2> QED BY <2>1, <2>2, <2>5, <2>9 DEF q
<1>6. CASE ~(n > Size) /\ g.buf # <<>> /\ ~(g.pos + n < Len(g.buf))
           /\ g.start + Len(g.buf) >= B!file_size(g)
  <2> DEFINE m == B!Min({g.pos + n, Len(g.buf)})
             k == [g EXCEPT !.pos = m]
  <2>1. B!AfterRead(g, n) = k /\ B!Result(g, n) = B!Cut(g.buf, g.pos, n)
    BY <1>6 DEF B!AfterRead, B!Result
  <2>2. w = B!Over(g.data, g.start, g.buf) /\ p = g.start + g.pos
    BY <1>6 DEF Mirrors
  <2>3. IsOver(w, g.data, g.start, g.buf)
    <3>1. IsOver(B!Over(g.data, g.start, g.buf), g.data, g.start, g.buf)
      BY <1>1, OverSays, Zenon
    <3> QED BY <2>2, <3>1
  <2>4. Len(w) = g.start + Len(g.buf)
    <3>1. Len(w) >= g.start + Len(g.buf)
      BY <1>1, <2>3 DEF IsOver
    <3>2. g.start + Len(g.buf) >= Len(w)
      BY <1>6, SizeMirrors
    <3> QED BY <1>1, <3>1, <3>2
  <2>5. B!Cut(g.buf, g.pos, n) = B!Cut(w, g.start + g.pos, n)
    <3>1. Len(B!Over(g.data, g.start, g.buf)) <= g.start + Len(g.buf)
      <4>1. g.start + Len(g.buf) \in Int /\ Len(w) <= g.start + Len(g.buf)
        BY <1>1, <2>4
      <4> QED BY <2>2, <4>1
    <3>2. B!Cut(g.buf, g.pos, n)
          = B!Cut(B!Over(g.data, g.start, g.buf), g.start + g.pos, n)
      <4>1. /\ g.data \in Seq(Bytes) /\ g.start \in 0 .. Len(g.data)
            /\ g.buf \in Seq(Bytes) /\ g.pos \in 0 .. Len(g.buf) /\ n \in Nat
        BY <1>1
      <4>2. \/ g.pos + n <= Len(g.buf)
            \/ Len(B!Over(g.data, g.start, g.buf)) <= g.start + Len(g.buf)
        BY <3>1
      <4> QED BY <4>1, <4>2, CutOfOver, ZenonT(40)
    <3> QED BY <2>2, <3>2, Zenon
  <2>6. m = Len(g.buf)
    <3> DEFINE x == g.pos + n
               y == Len(g.buf)
    <3>1. x \in Int /\ y \in Int /\ y <= x
      BY <1>1, <1>6
    <3> HIDE DEF x, y
    <3>2. B!Min({x, y}) = IF x <= y THEN x ELSE y
      BY <3>1, OfTwo
    <3>3. B!Min({x, y}) = y
      BY <3>1, <3>2
    <3> QED BY <3>3 DEF x, y
  <2>7. q = Len(w)
    <3>1. p + n >= Len(w)
      <4>1. p + n = g.start + (g.pos + n)
        BY <1>1, <2>2
      <4>2. g.start + (g.pos + n) >= g.start + Len(g.buf)
        BY <1>1, <1>6
      <4> QED BY <2>4, <4>1, <4>2
    <3>2. p + n \in Int
      BY <1>1
    <3> HIDE DEF q
    <3> QED BY <1>1, <1>3, <3>1, <3>2
  <2> HIDE DEF m
  <2>8. /\ k \in BufferedFile /\ k.data = g.data /\ k.tell = g.tell /\ k.buf = g.buf
        /\ k.start = g.start /\ k.pos = Len(g.buf) /\ k.dirty = g.dirty
    BY <1>1, <2>6 DEF BufferedFile
  <2> HIDE DEF k, q
  <2>9. k.start + k.pos = q /\ k.pos <= Len(k.buf)
    BY <1>1, <2>4, <2>7, <2>8
  <2>10. Mirrors(k, w, q)
    BY <1>1, <1>3, <1>6, <2>8, <2>9 DEF Mirrors
  <2> QED BY <2>1, <2>2, <2>5, <2>10 DEF q
<1>7. CASE ~(n > Size) /\ (g.buf = <<>> \/ (~(g.pos + n < Len(g.buf))
                               /\ ~(g.start + Len(g.buf) >= B!file_size(g))))
  <2> DEFINE h == IF g.buf = <<>> THEN g ELSE B!BaseSeek(d, g.start + g.pos)
  <2>1. B!AfterRead(g, n) = B!read_to_buffer(h, n)
        /\ B!Result(g, n) = B!Cut(B!AfterRead(g, n).buf, 0, n)
    BY <1>7 DEF B!AfterRead, B!Result
  <2>2. Mirrors(h, w, p) /\ h.buf = <<>>
    <3>1. CASE g.buf = <<>>
      BY <3>1
    <3>2. CASE g.buf # <<>>
      <4>1. h = B!BaseSeek(d, p)
        BY <1>1, <3>2
      <4> HIDE DEF d
      <4>2. Mirrors(B!BaseSeek(d, p), w, p) /\ B!BaseSeek(d, p) = [d EXCEPT !.tell = p]
        BY <1>1, <1>2, MovedMirrors
      <4>3. d \in BufferedFile
        BY <1>2 DEF Mirrors
      <4>4. [d EXCEPT !.tell = p].buf = d.buf
        BY <4>3 DEF BufferedFile
      <4> HIDE DEF h
      <4> QED BY <1>2, <4>1, <4>2, <4>4
    <3> QED BY <3>1, <3>2
  <2>3. n \in 1 .. Size
    BY <1>1, <1>7
  <2> HIDE DEF h
  <2> QED BY <2>1, <2>2, <2>3, FilledMirrors
<1> QED BY <1>4, <1>5, <1>6, <1>7

LEMMA TruncateMirrors ==
  ASSUME NEW g, NEW w, NEW p, Mirrors(g, w, p), NEW n \in Nat, NEW v,
         v = IF n <= Len(w) THEN B!Cut(w, 0, n) ELSE B!Over(w, n, <<>>)
  PROVE  Mirrors(B!AfterTruncate(g, n), v, B!tellg(B!AfterTruncate(g, n)))
<1> DEFINE h == B!discard_buffer(g)
           k == B!AfterTruncate(g, n)
           t == IF n < Len(w) THEN B!Min({h.tell, n}) ELSE h.tell
<1>1. /\ Mirrors(h, w, h.tell) /\ h.buf = <<>> /\ h.start = 0 /\ h.pos = 0
      /\ h.data = w /\ ~h.dirty
  BY DiscardMirrors
<1>2. k = [h EXCEPT !.data = v, !.tell = t]
  <2>1. k = [h EXCEPT !.data = IF n <= Len(@) THEN B!Cut(@, 0, n) ELSE B!Over(@, n, <<>>),
                      !.tell = IF n < Len(h.data) THEN B!Min({@, n}) ELSE @]
    BY DEF B!AfterTruncate
  <2> HIDE DEF h, k
  <2> QED BY <1>1, <2>1
<1> HIDE DEF h, k
<1>3. /\ h \in BufferedFile /\ w \in Seq(Bytes) /\ h.tell \in Nat /\ h.tell <= Len(w)
      /\ Len(w) \in Nat /\ 0 \in 0 .. Len(w) /\ <<>> \in Seq(Bytes) /\ Len(<<>>) = 0
  BY <1>1 DEF Mirrors, BufferedFile
<1>4. v \in Seq(Bytes) /\ Len(v) = n
  <2>1. CASE n <= Len(w)
    <3>1. IsCut(v, w, 0, n)
      <4>1. v = B!Cut(w, 0, n)
        BY <2>1
      <4>2. IsCut(B!Cut(w, 0, n), w, 0, n)
        BY <1>3, CutSays, Zenon
      <4> QED BY <4>1, <4>2
    <3> QED BY <1>3, <2>1, <3>1 DEF IsCut
  <2>2. CASE ~(n <= Len(w))
    <3> DEFINE e == <<>>
    <3>1. e \in Seq(Bytes) /\ Len(e) = 0 /\ v = B!Over(w, n, e)
      BY <1>3, <2>2
    <3> HIDE DEF e
    <3>2. IsOver(B!Over(w, n, e), w, n, e)
      BY <1>3, <3>1, OverSays, Zenon
    <3>3. IsOver(v, w, n, e)
      BY <3>1, <3>2
    <3> QED BY <1>3, <2>2, <3>1, <3>3 DEF IsOver
  <2> QED BY <2>1, <2>2
<1>5. t \in Nat /\ t <= n
  <2>1. B!Min({h.tell, n}) = IF h.tell <= n THEN h.tell ELSE n
    <3>1. h.tell \in Int /\ n \in Int
      BY <1>3
    <3> QED BY <3>1, OfTwo
  <2> QED BY <1>3, <2>1
<1> HIDE DEF t
<1>6. /\ k \in BufferedFile /\ k.data = v /\ k.tell = t /\ k.buf = <<>> /\ k.start = 0
      /\ k.pos = 0 /\ ~k.dirty
  BY <1>1, <1>2, <1>3, <1>4, <1>5 DEF BufferedFile
<1>7. B!tellg(k) = t
  BY <1>6 DEF B!tellg
<1>8. Mirrors(k, v, t)
  BY <1>3, <1>4, <1>5, <1>6, BufferAssumption DEF Mirrors
<1> QED BY <1>7, <1>8 DEF k

LEMMA BufferStarts == Init => BufferInv
<1> SUFFICES ASSUME B!Init
             PROVE  BufferInv
  BY DEF Init
<1> USE BufferAssumption
<1>1. PICK s \in B!Contents :
        buffered = [data |-> s, tell |-> 0, buf |-> <<>>, start |-> 0, pos |-> 0,
                    dirty |-> FALSE]
  BY DEF B!Init
<1>2. s \in Seq(Bytes)
  BY DEF B!Contents
<1>3. /\ buffered \in BufferedFile /\ buffered.data = s /\ buffered.tell = 0
      /\ buffered.buf = <<>> /\ buffered.start = 0 /\ buffered.pos = 0
      /\ ~buffered.dirty /\ Len(s) \in Nat /\ <<>> \in Seq(Bytes) /\ Len(<<>>) = 0
  BY <1>1, <1>2 DEF BufferedFile
<1>4. content = s /\ at = 0 /\ right
  BY <1>3 DEF B!Init
<1>5. 0 \in 0 .. Len(s) /\ 0 <= Len(s)
  BY <1>3
<1>6. Mirrors(buffered, s, 0)
  BY <1>2, <1>3, <1>5 DEF Mirrors
<1> QED BY <1>4, <1>6 DEF BufferInv

\* One step per call of the buffered file.
LEMMA BufferKept ==
  ASSUME Careful, BufferInv, [Next]_vars
  PROVE  BufferInv'
<1> USE BufferAssumption
<1>1. right /\ Mirrors(buffered, content, at) /\ content \in Seq(Bytes)
      /\ Len(content) \in Nat /\ at \in 0 .. Len(content)
  <2>1. right /\ Mirrors(buffered, content, at)
    BY DEF BufferInv
  <2>2. content \in Seq(Bytes) /\ at \in 0 .. Len(content)
    BY <2>1 DEF Mirrors
  <2> QED BY <2>1, <2>2
<1>2. ASSUME NEW b \in B!Contents \ {<<>>}, B!Write(b)
      PROVE  BufferInv'
  <2>1. b \in Seq(Bytes) /\ b # <<>>
    BY DEF B!Contents
  <2>2. B!SoundWrite(b) /\ buffered' = B!AfterWrite(buffered, b)
        /\ content' = B!Over(content, at, b) /\ at' = at + Len(b) /\ right' = right
    BY <1>2 DEF B!Write
  <2>3. IF Len(b) > Size THEN buffered.buf = <<>>
        ELSE buffered.buf = <<>>
             \/ (buffered.pos < Size
                 /\ (B!Fits(buffered, b) /\ buffered.dirty
                       => buffered.pos + Len(b) >= Len(buffered.buf)))
    BY <2>2 DEF B!SoundWrite
  <2>4. Mirrors(B!AfterWrite(buffered, b), B!Over(content, at, b), at + Len(b))
    BY <1>1, <2>1, <2>3, WriteMirrors
  <2> QED BY <1>1, <2>2, <2>4 DEF BufferInv
<1>3. ASSUME NEW n \in 1 .. MaxLen, B!Read(n)
      PROVE  BufferInv'
  <2>1. n \in Nat /\ n > 0
    OBVIOUS
  <2>2. /\ n > Size => buffered.buf = <<>>
        /\ buffered' = B!AfterRead(buffered, n)
        /\ right' = (right /\ B!Result(buffered, n) = B!Cut(content, at, n))
        /\ at' = B!Min({at + n, Len(content)}) /\ content' = content
    BY <1>3 DEF B!Read, B!SoundRead
  <2>3. /\ Mirrors(B!AfterRead(buffered, n), content, B!Min({at + n, Len(content)}))
        /\ B!Result(buffered, n) = B!Cut(content, at, n)
    BY <1>1, <2>1, <2>2, ReadMirrors
  <2> QED BY <1>1, <2>2, <2>3 DEF BufferInv
<1>4. ASSUME NEW q \in 0 .. MaxLen, B!Seek(q)
      PROVE  BufferInv'
  <2>1. /\ ~B!InBuffer(buffered, q) /\ buffered.tell = q /\ buffered.buf # <<>>
             /\ ~buffered.dirty => at = q
        /\ q <= Len(content)
        /\ buffered' = B!AfterSeek(buffered, q) /\ at' = q
        /\ content' = content /\ right' = right
    BY <1>4 DEF B!Seek, B!SoundSeek
  <2>2. q \in 0 .. Len(content)
    BY <1>1, <2>1
  <2>3. Mirrors(B!AfterSeek(buffered, q), content, q)
    BY <1>1, <2>1, <2>2, SeekMirrors
  <2> QED BY <1>1, <2>1, <2>3 DEF BufferInv
<1>5. ASSUME NEW n \in 0 .. MaxLen, B!Truncate(n)
      PROVE  BufferInv'
  <2> DEFINE v == IF n <= Len(content) THEN B!Cut(content, 0, n)
                  ELSE B!Over(content, n, <<>>)
  <2>1. /\ buffered' = B!AfterTruncate(buffered, n) /\ content' = v
        /\ at' = B!tellg(buffered') /\ right' = right /\ n \in Nat
    BY <1>5 DEF B!Truncate
  <2>2. v = IF n <= Len(content) THEN B!Cut(content, 0, n)
            ELSE B!Over(content, n, <<>>)
    OBVIOUS
  <2> HIDE DEF v
  <2>3. Mirrors(B!AfterTruncate(buffered, n), v, B!tellg(B!AfterTruncate(buffered, n)))
    BY <1>1, <2>1, <2>2, TruncateMirrors
  <2>4. at' = B!tellg(B!AfterTruncate(buffered, n))
    BY <2>1 DEF B!tellg
  <2> QED BY <1>1, <2>1, <2>3, <2>4 DEF BufferInv
<1>6. ASSUME B!Flush
      PROVE  BufferInv'
  <2>1. /\ buffered' = B!flush_buffer(buffered) /\ content' = content /\ at' = at
        /\ right' = right
    BY <1>6 DEF B!Flush
  <2>2. Mirrors(B!flush_buffer(buffered), content, at)
    BY <1>1, FlushMirrors
  <2> QED BY <1>1, <2>1, <2>2 DEF BufferInv
<1>7. ASSUME UNCHANGED buffer
      PROVE  BufferInv'
  BY <1>1, <1>7 DEF BufferInv, Mirrors, buffer
<1>8. B!Next \/ UNCHANGED buffer
  BY DEF Next, vars
<1> QED BY <1>2, <1>3, <1>4, <1>5, <1>6, <1>7, <1>8 DEF B!Next

LEMMA BufferHolds == Careful => (Spec => []BufferInv)
<1> SUFFICES ASSUME Careful
             PROVE  Spec => []BufferInv
  OBVIOUS
<1>1. BufferInv /\ [Next]_vars => BufferInv'
  BY BufferKept
<1> QED BY <1>1, BufferStarts, PTL DEF Spec

(***************************************************************************)
(* With the buffer in front of it, the file, the position in it, its size  *)
(* and all that is read from it are those of the file without one, for     *)
(* every size of the buffer, every content and every length of the calls,  *)
(* as long as the callers keep out of the cases that SoundWrite,           *)
(* SoundSeek and SoundRead name (FileBuffer read(), write(), seek(),       *)
(* truncate(), flush()).                                                   *)
(***************************************************************************)
THEOREM BufferActsAsFile == Careful => (Spec => []BufferIsFile)
<1> SUFFICES ASSUME Careful
             PROVE  Spec => []BufferIsFile
  OBVIOUS
<1>1. BufferInv => BufferIsFile
  <2> SUFFICES ASSUME BufferInv
               PROVE  BufferIsFile
    OBVIOUS
  <2>1. right /\ Mirrors(buffered, content, at)
    BY DEF BufferInv
  <2>2. B!flush_buffer(buffered).data = content
    BY <2>1, FlushMirrors
  <2>3. B!file_size(buffered) = Len(content) /\ B!tellg(buffered) = at
    BY <2>1, SizeMirrors
  <2>4. Len(buffered.buf) <= Size
    BY <2>1 DEF Mirrors
  <2> QED BY <2>1, <2>2, <2>3, <2>4 DEF BufferIsFile, B!BufferIsFile
<1>2. Spec => []BufferInv
  BY BufferHolds
<1> QED BY <1>1, <1>2, PTL

(***************************************************************************)
(* The bytes of a file.  g holds the file w, with the position p: in the   *)
(* inode, with zeros behind the end, or in pages, and never in both.  The  *)
(* position is behind the end only where nothing but zeros follows it.     *)
(***************************************************************************)
Page == [1 .. PageSize -> Bytes]

FileHandle ==
  [len : Nat, pos : Nat, inline : Seq(Bytes), pages : Seq(Page), space : Nat]

\* the byte i of a file in pages
ByteOf(pages, i) == pages[((i - 1) \div PageSize) + 1][((i - 1) % PageSize) + 1]

InInodeOnly(g, w, p) ==
  /\ g.pages = <<>> /\ g.len < g.space
  /\ g.len <= Len(g.inline) /\ p <= Len(g.inline)
  /\ \A i \in 1 .. Len(g.inline) : g.inline[i] = IF i <= g.len THEN w[i] ELSE Zero

InPagesOnly(g, w) ==
  /\ g.len > 0 /\ g.len >= g.space /\ g.len <= PageSize * Len(g.pages)
  /\ \A i \in 1 .. Len(w) : ByteOf(g.pages, i) = w[i]

Holds(g, w, p) ==
  /\ g \in FileHandle /\ w \in Seq(Bytes)
  /\ g.len = Len(w) /\ g.pos = p /\ p <= g.len + 1
  /\ g.inline # <<>> => InInodeOnly(g, w, p)
  /\ g.pages # <<>> => InPagesOnly(g, w)
  /\ g.inline = <<>> /\ g.pages = <<>> => g.len = 0
  /\ p > g.len => H!CleanTail(g)

BytesInv == readRight /\ Holds(handle, bytes, offset)

(***************************************************************************)
(* Pages and the places in them.                                           *)
(***************************************************************************)
LEMMA OfTwoToo ==
  ASSUME NEW a \in Int, NEW b \in Int
  PROVE  /\ H!Max({a, b}) = IF a >= b THEN a ELSE b
         /\ H!Min({a, b}) = IF a <= b THEN a ELSE b
BY DEF H!Max, H!Min

LEMMA Divided ==
  ASSUME NEW i \in Nat
  PROVE  /\ i \div PageSize \in Nat /\ i % PageSize \in 0 .. PageSize - 1
         /\ i = PageSize * (i \div PageSize) + (i % PageSize)
<1> DEFINE z == PageSize
<1>1. z \in Nat \ {0}
  BY PathAssumption
<1> HIDE DEF z
<1>2. i % z \in 0 .. z - 1
  BY <1>1
<1>3. i = z * (i \div z) + (i % z)
  BY <1>1
<1>4. i \div z \in Nat
  BY <1>1
<1> QED BY <1>2, <1>3, <1>4 DEF z

LEMMA PagesGrow ==
  ASSUME NEW a \in Nat, NEW b \in Nat
  PROVE  /\ PageSize * a \in Nat /\ PageSize * (a + 1) = PageSize * a + PageSize
         /\ a < b => PageSize * a + PageSize <= PageSize * b
         /\ a <= b => PageSize * a <= PageSize * b
<1> DEFINE z == PageSize
<1>1. z \in Nat \ {0}
  BY PathAssumption
<1> HIDE DEF z
<1>2. z * a \in Nat /\ z * (a + 1) = z * a + z
  BY <1>1
<1>3. ASSUME a < b
      PROVE  z * a + z <= z * b
  <2>1. b - a - 1 \in Nat /\ b = a + 1 + (b - a - 1)
    BY <1>3
  <2>2. PICK c \in Nat : b = a + 1 + c
    BY <2>1
  <2>3. z * (a + 1 + c) = z * a + z + z * c
    BY <1>1
  <2>4. z * c \in Nat /\ z * c >= 0
    BY <1>1
  <2> QED BY <1>1, <1>2, <2>2, <2>3, <2>4
<1>4. ASSUME a <= b
      PROVE  z * a <= z * b
  <2>1. CASE a = b
    BY <1>2, <2>1
  <2>2. CASE a < b
    <3>1. z * a + z <= z * b
      BY <1>3, <2>2
    <3>2. z * b \in Nat
      BY <1>1
    <3> QED BY <1>1, <1>2, <3>1, <3>2
  <2> QED BY <1>4, <2>1, <2>2
<1> QED BY <1>2, <1>3, <1>4 DEF z

\* Where the byte i is, and when it is in one of the first n pages.
LEMMA PlaceIs ==
  ASSUME NEW i \in Nat \ {0}, NEW n \in Nat, NEW q, q = (i - 1) \div PageSize,
         NEW o, o = (i - 1) % PageSize
  PROVE  /\ q \in Nat /\ o + 1 \in 1 .. PageSize /\ (q + 1 - 1) * PageSize + (o + 1) = i
         /\ i <= PageSize * n <=> q < n
<1>1. i - 1 \in Nat /\ PageSize \in Nat \ {0}
  BY PathAssumption
<1>2. q \in Nat /\ o \in 0 .. PageSize - 1 /\ i - 1 = PageSize * q + o
  BY <1>1, Divided
<1>3. (q + 1 - 1) * PageSize = PageSize * q
  BY <1>1, <1>2
<1>4. PageSize * q \in Nat /\ PageSize * n \in Nat
  BY <1>2, PagesGrow
<1>5. q < n => PageSize * q + PageSize <= PageSize * n
  BY <1>2, PagesGrow
<1>6. n <= q => PageSize * n <= PageSize * q
  BY <1>2, PagesGrow
<1> QED BY <1>1, <1>2, <1>3, <1>4, <1>5, <1>6

LEMMA NewPageIs ==
  H!NewPage \in Page /\ \A i \in 1 .. PageSize : H!NewPage[i] = Zero
BY BytesAssumption DEF H!NewPage, Page

LEMMA PagesForIs ==
  ASSUME NEW n \in Nat
  PROVE  /\ H!PagesFor(n) \in Nat /\ n <= PageSize * H!PagesFor(n)
         /\ n > 0 => H!PagesFor(n) > 0
         /\ n = 0 => H!PagesFor(n) = 0
<1> DEFINE m == n + PageSize - 1
           q == m \div PageSize
<1>1. m \in Nat /\ PageSize \in Nat \ {0}
  BY PathAssumption
<1>2. H!PagesFor(n) = q
  BY DEF H!PagesFor
<1>3. m = n + PageSize - 1
  OBVIOUS
<1> HIDE DEF m
<1>4. q \in Nat /\ m % PageSize \in 0 .. PageSize - 1 /\ m = PageSize * q + (m % PageSize)
  BY <1>1, Divided
<1>5. PageSize * q \in Nat
  BY <1>4, PagesGrow
<1> HIDE DEF q
<1>6. n <= PageSize * q
  BY <1>1, <1>3, <1>4, <1>5
<1>7. n > 0 => q > 0
  <2>1. ASSUME q = 0
        PROVE  n = 0
    <3>1. PageSize * q = 0
      BY <1>1, <2>1
    <3> QED BY <1>1, <1>3, <1>4, <3>1
  <2> QED BY <1>4, <2>1
<1>8. n = 0 => q = 0
  <2>1. ASSUME n = 0, q > 0
        PROVE  FALSE
    <3>1. PageSize * 0 + PageSize <= PageSize * q
      BY <1>4, <2>1, PagesGrow
    <3>2. PageSize * 0 = 0
      BY <1>1
    <3> QED BY <1>1, <1>3, <1>4, <1>5, <2>1, <3>1, <3>2
  <2> QED BY <1>4, <2>1
<1> QED BY <1>2, <1>4, <1>6, <1>7, <1>8

\* More pages behind those there are.
LEMMA WithPagesIs ==
  ASSUME NEW s \in Seq(Page), NEW n \in Nat, NEW r, r = H!WithPages(s, n)
  PROVE  /\ r \in Seq(Page) /\ Len(r) = IF n >= Len(s) THEN n ELSE Len(s)
         /\ \A j \in 1 .. Len(r) : r[j] = IF j <= Len(s) THEN s[j] ELSE H!NewPage
<1> DEFINE m == IF n >= Len(s) THEN n - Len(s) ELSE 0
           t == [k \in 1 .. m |-> H!NewPage]
<1>1. m \in Nat /\ Len(s) \in Nat /\ n - Len(s) \in Int
  OBVIOUS
<1>2. H!Max({0, n - Len(s)}) = m
  <2> DEFINE d == n - Len(s)
  <2>1. H!Max({0, d}) = IF 0 >= d THEN 0 ELSE d
    BY <1>1, OfTwoToo
  <2> QED BY <1>1, <2>1
<1>3. r = s \o t
  BY <1>2 DEF H!WithPages
<1>4. Len(s) + m = IF n >= Len(s) THEN n ELSE Len(s)
  BY <1>1
<1> HIDE DEF m
<1>5. t \in Seq(Page) /\ Len(t) = m /\ \A j \in 1 .. m : t[j] = H!NewPage
  BY <1>1, NewPageIs
<1> HIDE DEF t
<1>6. /\ r \in Seq(Page) /\ Len(r) = Len(s) + m
      /\ \A j \in 1 .. Len(r) : r[j] = IF j <= Len(s) THEN s[j] ELSE t[j - Len(s)]
  <2>a. t \in Seq(Page) /\ Len(t) = m
    BY <1>5
  <2>b. s \o t \in Seq(Page) /\ Len(s \o t) = Len(s) + Len(t)
    BY <2>a
  <2>1. r \in Seq(Page) /\ Len(r) = Len(s) + m
    BY <1>3, <2>a, <2>b
  <2>2. \A j \in 1 .. Len(s) + Len(t) :
          (s \o t)[j] = IF j <= Len(s) THEN s[j] ELSE t[j - Len(s)]
    BY <1>1, <1>5
  <2> QED BY <1>3, <1>5, <2>1, <2>2
<1>7. ASSUME NEW j \in 1 .. Len(r), ~(j <= Len(s))
      PROVE  t[j - Len(s)] = H!NewPage
  <2>1. j - Len(s) \in 1 .. m
    BY <1>1, <1>6, <1>7
  <2> QED BY <1>5, <2>1
<1> QED BY <1>4, <1>6, <1>7

\* Where a byte is, in these pages and in those there were.
LEMMA MorePages ==
  ASSUME NEW s \in Seq(Page), NEW n \in Nat, NEW r, r = H!WithPages(s, n),
         NEW i \in Nat \ {0}, i <= PageSize * Len(r)
  PROVE  ByteOf(r, i) = IF i <= PageSize * Len(s) THEN ByteOf(s, i) ELSE Zero
<1> DEFINE q == (i - 1) \div PageSize
           o == (i - 1) % PageSize
<1>1. /\ r \in Seq(Page) /\ Len(r) \in Nat /\ Len(s) \in Nat
      /\ \A j \in 1 .. Len(r) : r[j] = IF j <= Len(s) THEN s[j] ELSE H!NewPage
  BY WithPagesIs
<1>2. /\ q \in Nat /\ o + 1 \in 1 .. PageSize
      /\ i <= PageSize * Len(s) <=> q < Len(s)
  BY <1>1, PlaceIs
<1>3. i <= PageSize * Len(r) <=> q < Len(r)
  BY <1>1, PlaceIs
<1>4. ByteOf(r, i) = r[q + 1][o + 1] /\ ByteOf(s, i) = s[q + 1][o + 1]
  BY DEF ByteOf
<1> HIDE DEF q, o
<1>5. q + 1 \in 1 .. Len(r) /\ (q + 1 <= Len(s) <=> q < Len(s))
  BY <1>1, <1>2, <1>3
<1>6. r[q + 1] = IF q + 1 <= Len(s) THEN s[q + 1] ELSE H!NewPage
  BY <1>1, <1>5
<1>7. H!NewPage[o + 1] = Zero
  BY <1>2, NewPageIs
<1>8. CASE q < Len(s)
  <2>1. i <= PageSize * Len(s) /\ r[q + 1] = s[q + 1]
    BY <1>2, <1>5, <1>6, <1>8
  <2> QED BY <1>4, <2>1
<1>9. CASE ~(q < Len(s))
  <2>1. ~(i <= PageSize * Len(s)) /\ r[q + 1] = H!NewPage
    BY <1>2, <1>5, <1>6, <1>9
  <2> QED BY <1>4, <1>7, <2>1
<1> QED BY <1>8, <1>9

LEMMA CleanByte ==
  ASSUME NEW g \in FileHandle, H!CleanTail(g), NEW i \in Nat \ {0}, i > g.len,
         i <= PageSize * Len(g.pages)
  PROVE  ByteOf(g.pages, i) = Zero
<1> DEFINE q == (i - 1) \div PageSize
           o == (i - 1) % PageSize
           k == q + 1
           y == o + 1
<1>1. g.pages \in Seq(Page) /\ Len(g.pages) \in Nat /\ DOMAIN g.pages = 1 .. Len(g.pages)
  BY DEF FileHandle
<1>2. q \in Nat /\ y \in 1 .. PageSize /\ (k - 1) * PageSize + y = i
      /\ (i <= PageSize * Len(g.pages) <=> q < Len(g.pages))
  BY <1>1, PlaceIs
<1>3. ByteOf(g.pages, i) = g.pages[k][y]
  BY DEF ByteOf
<1> HIDE DEF q, o, y
<1>4. k \in DOMAIN g.pages
  BY <1>1, <1>2
<1> HIDE DEF k
<1>5. (k - 1) * PageSize + y > g.len => g.pages[k][y] = Zero
  BY <1>2, <1>4 DEF H!CleanTail
<1> QED BY <1>2, <1>3, <1>5

\* What a reader gets.
LEMMA StoredIs ==
  ASSUME NEW g, NEW w, NEW p, Holds(g, w, p)
  PROVE  H!Stored(g) = w
<1> DEFINE r == H!Stored(g)
<1>1. /\ g \in FileHandle /\ w \in Seq(Bytes) /\ g.len = Len(w) /\ g.inline \in Seq(Bytes)
      /\ g.pages \in Seq(Page) /\ Len(w) \in Nat /\ Len(g.pages) \in Nat
      /\ Len(g.inline) \in Nat
  BY DEF Holds, FileHandle
<1>2. CASE g.inline # <<>>
  <2>1. InInodeOnly(g, w, p)
    BY <1>2 DEF Holds
  <2>2. r = SubSeq(g.inline, 1, g.len) /\ g.len <= Len(g.inline)
    BY <1>2, <2>1 DEF InInodeOnly, H!Stored
  <2> HIDE DEF r
  <2>3. r \in Seq(Bytes) /\ Len(r) = Len(w) /\ \A i \in 1 .. Len(r) : r[i] = g.inline[i]
    BY <1>1, <2>2
  <2>4. \A i \in 1 .. Len(r) : r[i] = w[i]
    BY <1>1, <2>1, <2>2, <2>3 DEF InInodeOnly
  <2> QED BY <1>1, <2>3, <2>4, SameSequence DEF r
<1>3. CASE g.inline = <<>>
  <2> DEFINE n == PageSize * Len(g.pages)
  <2>1. r = [i \in 1 .. H!Min({g.len, n}) |-> ByteOf(g.pages, i)]
    BY <1>3 DEF H!Stored, ByteOf
  <2>2. n \in Nat
    BY <1>1, PagesGrow
  <2>3. g.len <= n
    <3>1. CASE g.pages = <<>>
      <4>1. g.len = 0
        BY <1>3, <3>1 DEF Holds
      <4> HIDE DEF n
      <4> QED BY <2>2, <4>1
    <3>2. CASE g.pages # <<>>
      BY <3>2 DEF Holds, InPagesOnly
    <3> QED BY <3>1, <3>2
  <2> HIDE DEF n
  <2>4. H!Min({g.len, n}) = Len(w)
    <3> DEFINE l == Len(w)
    <3>1. l \in Int /\ n \in Int /\ g.len = l /\ l <= n
      BY <1>1, <2>2, <2>3
    <3> HIDE DEF l
    <3>2. H!Min({l, n}) = IF l <= n THEN l ELSE n
      BY <3>1, OfTwoToo
    <3> QED BY <3>1, <3>2 DEF l
  <2>5. ASSUME NEW i \in 1 .. Len(w)
        PROVE  ByteOf(g.pages, i) = w[i]
    <3>1. g.pages # <<>>
      BY <1>1, <1>3, <2>5 DEF Holds
    <3> QED BY <3>1 DEF Holds, InPagesOnly
  <2>6. r = [i \in 1 .. Len(w) |-> w[i]]
    BY <2>1, <2>4, <2>5
  <2>7. w = [i \in 1 .. Len(w) |-> w[i]]
    BY <1>1
  <2> QED BY <2>6, <2>7
<1> QED BY <1>2, <1>3

LEMMA PatchedSays ==
  ASSUME NEW s \in Seq(Bytes), NEW a \in Nat, NEW b \in Seq(Bytes)
  PROVE  IsOver(H!Patched(s, a, b), s, a, b)
<1>1. H!Patched(s, a, b) = B!Over(s, a, b)
  BY DEF H!Patched, B!Over, H!Max, B!Max
<1> QED BY <1>1, OverSays

\* Enlarged with zeros.
IsPad(r, s, n) ==
  /\ r \in Seq(Bytes) /\ Len(r) = IF Len(s) >= n THEN Len(s) ELSE n
  /\ \A i \in 1 .. Len(r) : r[i] = IF i <= Len(s) THEN s[i] ELSE Zero

LEMMA PadSays ==
  ASSUME NEW s \in Seq(Bytes), NEW n \in Nat
  PROVE  IsPad(H!Patched(s, n, <<>>), s, n)
<1> DEFINE e == <<>>
<1>1. e \in Seq(Bytes) /\ Len(e) = 0
  OBVIOUS
<1> HIDE DEF e
<1> DEFINE r == H!Patched(s, n, e)
<1>2. IsOver(r, s, n, e)
  BY <1>1, PatchedSays, Zenon
<1> HIDE DEF r
<1>3. IsPad(r, s, n)
  BY <1>1, <1>2 DEF IsOver, IsPad
<1> QED BY <1>3 DEF r, e

\* What is written into pages.
LEMMA InPagesIs ==
  ASSUME NEW g \in FileHandle, NEW b \in Seq(Bytes), b # <<>>,
         NEW e, e = g.pos + Len(b), NEW k, k = H!InPages(g, b)
  PROVE  /\ k \in FileHandle /\ k.pos = e /\ k.inline = g.inline /\ k.space = g.space
         /\ k.len = IF g.len >= e THEN g.len ELSE e
         /\ k.pages # <<>> /\ e <= PageSize * Len(k.pages)
         /\ PageSize * Len(g.pages) <= PageSize * Len(k.pages)
         /\ \A i \in 1 .. PageSize * Len(k.pages) :
              ByteOf(k.pages, i) = IF g.pos < i /\ i <= e THEN b[i - g.pos]
                                   ELSE IF i <= PageSize * Len(g.pages)
                                        THEN ByteOf(g.pages, i) ELSE Zero
<1> DEFINE m == H!PagesFor(e)
           all == H!WithPages(g.pages, m)
           u(n, j, i) == IF n \in DOMAIN b THEN b[n] ELSE all[j][i]
           v(j, i) == u((j - 1) * PageSize + i - g.pos, j, i)
           t == [j \in DOMAIN all |-> [i \in 1 .. PageSize |-> v(j, i)]]
<1>1. /\ g.pages \in Seq(Page) /\ g.pos \in Nat /\ g.len \in Nat /\ Len(b) \in Nat
      /\ Len(b) > 0 /\ e \in Nat /\ e > 0 /\ Len(g.pages) \in Nat /\ PageSize \in Nat
      /\ DOMAIN b = 1 .. Len(b)
  BY PathAssumption DEF FileHandle
<1>2. m \in Nat /\ m > 0 /\ e <= PageSize * m
  BY <1>1, PagesForIs
<1> HIDE DEF m
<1>3. all \in Seq(Page) /\ Len(all) = IF m >= Len(g.pages) THEN m ELSE Len(g.pages)
  BY <1>1, <1>2, WithPagesIs
<1>4. \A i \in Nat \ {0} : i <= PageSize * Len(all) =>
        ByteOf(all, i) = IF i <= PageSize * Len(g.pages) THEN ByteOf(g.pages, i) ELSE Zero
  BY <1>1, <1>2, MorePages
<1>5. k = [g EXCEPT !.pages = t, !.pos = e, !.len = H!Max({g.len, e})]
  BY DEF H!InPages, m
<1> HIDE DEF all
<1>6. DOMAIN all = 1 .. Len(all) /\ Len(all) \in Nat /\ Len(all) > 0
  BY <1>1, <1>2, <1>3
<1>7. ASSUME NEW j \in 1 .. Len(all), NEW i \in 1 .. PageSize
      PROVE  v(j, i) \in Bytes
  <2>1. all[j] \in Page
    BY <1>3, <1>6
  <2>2. all[j][i] \in Bytes
    BY <2>1 DEF Page
  <2>3. ASSUME (j - 1) * PageSize + i - g.pos \in DOMAIN b
        PROVE  b[(j - 1) * PageSize + i - g.pos] \in Bytes
    <3> DEFINE o == (j - 1) * PageSize + i - g.pos
    <3>1. o \in 1 .. Len(b)
      BY <1>1, <2>3
    <3> HIDE DEF o
    <3>2. b[o] \in Bytes
      BY <3>1
    <3> QED BY <3>2 DEF o
  <2> QED BY <2>2, <2>3
<1>8. /\ t \in Seq(Page) /\ Len(t) = Len(all)
      /\ \A j \in 1 .. Len(all), i \in 1 .. PageSize : t[j][i] = v(j, i)
  <2> DEFINE pg(j) == [i \in 1 .. PageSize |-> v(j, i)]
  <2>1. \A j \in 1 .. Len(all) : pg(j) \in Page
    BY <1>7 DEF Page
  <2>2. t = [j \in 1 .. Len(all) |-> pg(j)]
    BY <1>6
  <2>3. \A j \in 1 .. Len(all), i \in 1 .. PageSize : pg(j)[i] = v(j, i)
    OBVIOUS
  <2> HIDE DEF t, pg, v
  <2>4. t \in Seq(Page) /\ Len(t) = Len(all) /\ \A j \in 1 .. Len(all) : t[j] = pg(j)
    BY <1>6, <2>1, <2>2
  <2> QED BY <2>3, <2>4
<1>9. ASSUME NEW i \in 1 .. PageSize * Len(t)
      PROVE  ByteOf(t, i) = IF g.pos < i /\ i <= e THEN b[i - g.pos]
                            ELSE IF i <= PageSize * Len(g.pages)
                                 THEN ByteOf(g.pages, i) ELSE Zero
  <2> DEFINE q == (i - 1) \div PageSize
             o == (i - 1) % PageSize
             j == q + 1
             y == o + 1
  <2>1. PageSize * Len(t) \in Nat
    BY <1>6, <1>8, PagesGrow
  <2>2. i \in Nat \ {0} /\ i <= PageSize * Len(all)
    BY <1>8, <2>1
  <2>3. /\ q \in Nat /\ y \in 1 .. PageSize /\ (j - 1) * PageSize + y = i
        /\ i <= PageSize * Len(all) <=> q < Len(all)
    BY <1>6, <2>2, PlaceIs
  <2>4. ByteOf(t, i) = t[j][y] /\ ByteOf(all, i) = all[j][y]
    BY DEF ByteOf
  <2> HIDE DEF q, o, y
  <2>5. j \in 1 .. Len(all)
    BY <1>6, <2>2, <2>3
  <2> HIDE DEF j, t
  <2>6. t[j][y] = v(j, y)
    BY <1>8, <2>3, <2>5
  <2>7. v(j, y) = IF i - g.pos \in 1 .. Len(b) THEN b[i - g.pos] ELSE all[j][y]
    <3> DEFINE z == (j - 1) * PageSize
    <3>1. u(i - g.pos, j, y) = IF i - g.pos \in 1 .. Len(b) THEN b[i - g.pos]
                               ELSE all[j][y]
      BY <1>1
    <3>2. z \in Int /\ y \in Int /\ i = z + y /\ g.pos \in Int
      BY <1>1, <2>3, <2>5
    <3>3. v(j, y) = u(z + y - g.pos, j, y)
      OBVIOUS
    <3> HIDE DEF u, v, z
    <3>4. z + y - g.pos = i - g.pos
      BY <3>2
    <3> QED BY <3>1, <3>3, <3>4
  <2>8. i - g.pos \in 1 .. Len(b) <=> g.pos < i /\ i <= e
    <3> DEFINE l == Len(b)
               x == g.pos
    <3>1. l \in Nat /\ x \in Nat /\ e = x + l /\ i \in Int
      BY <1>1, <2>2
    <3> HIDE DEF l, x
    <3>2. i - x \in 1 .. l <=> x < i /\ i <= e
      BY <3>1
    <3> QED BY <3>2 DEF l, x
  <2> HIDE DEF v
  <2> QED BY <1>4, <2>2, <2>4, <2>6, <2>7, <2>8
<1> HIDE DEF t
<1>10. H!Max({g.len, e}) = IF g.len >= e THEN g.len ELSE e
  <2> DEFINE l == g.len
  <2>1. l \in Int /\ e \in Int
    BY <1>1
  <2> HIDE DEF l
  <2>2. H!Max({l, e}) = IF l >= e THEN l ELSE e
    BY <2>1, OfTwoToo
  <2> QED BY <2>2 DEF l
<1>11. /\ k \in FileHandle /\ k.pos = e /\ k.inline = g.inline /\ k.space = g.space
       /\ k.len = (IF g.len >= e THEN g.len ELSE e) /\ k.pages = t
  <2> DEFINE x == H!Max({g.len, e})
  <2>1. x \in Nat
    BY <1>1, <1>10
  <2>2. k = [g EXCEPT !.pages = t, !.pos = e, !.len = x]
    BY <1>5
  <2> HIDE DEF x
  <2>3. t \in Seq(Page)
    BY <1>8
  <2>4. /\ k \in FileHandle /\ k.pos = e /\ k.inline = g.inline /\ k.space = g.space
        /\ k.len = x /\ k.pages = t
    BY <1>1, <2>1, <2>2, <2>3 DEF FileHandle
  <2> QED BY <1>10, <2>4 DEF x
<1>12. /\ PageSize * m <= PageSize * Len(all)
       /\ PageSize * Len(g.pages) <= PageSize * Len(all)
  BY <1>1, <1>2, <1>3, <1>6, PagesGrow, SMTT(30)
<1>13. e <= PageSize * Len(all)
  <2>1. PageSize * m \in Nat /\ PageSize * Len(all) \in Nat
    BY <1>2, <1>6, PagesGrow
  <2> DEFINE x == PageSize * m
             y == PageSize * Len(all)
  <2>2. e \in Nat /\ x \in Nat /\ y \in Nat /\ e <= x /\ x <= y
    BY <1>1, <1>2, <1>12, <2>1
  <2> HIDE DEF x, y
  <2>3. e <= y
    BY <2>2
  <2> QED BY <2>3 DEF y
<1>14. k.pages # <<>>
  BY <1>6, <1>8, <1>11
<1> QED BY <1>8, <1>9, <1>11, <1>12, <1>13, <1>14

\* What is written into pages is held by them, when all the other bytes are
\* there already.
LEMMA InPagesHolds ==
  ASSUME NEW g \in FileHandle, NEW b \in Seq(Bytes), b # <<>>,
         NEW e, e = g.pos + Len(b), NEW v \in Seq(Bytes),
         g.inline = <<>>, Len(v) = (IF g.len >= e THEN g.len ELSE e),
         Len(v) >= g.space, g.len <= e \/ g.len <= PageSize * Len(g.pages),
         \A i \in 1 .. Len(v) :
           v[i] = IF g.pos < i /\ i <= e THEN b[i - g.pos]
                  ELSE IF i <= PageSize * Len(g.pages) THEN ByteOf(g.pages, i) ELSE Zero
  PROVE  Holds(H!InPages(g, b), v, e)
<1> DEFINE k == H!InPages(g, b)
           n == PageSize * Len(k.pages)
           m == PageSize * Len(g.pages)
           f(i) == IF g.pos < i /\ i <= e THEN b[i - g.pos]
                   ELSE IF i <= m THEN ByteOf(g.pages, i) ELSE Zero
<1>1. /\ g.pos \in Nat /\ g.len \in Nat /\ Len(b) \in Nat /\ Len(b) > 0
      /\ e \in Nat /\ e > 0 /\ Len(v) \in Nat /\ Len(g.pages) \in Nat /\ g.space \in Nat
  BY DEF FileHandle
<1>2. /\ k \in FileHandle /\ k.pos = e /\ k.inline = <<>> /\ k.space = g.space
      /\ k.len = (IF g.len >= e THEN g.len ELSE e)
      /\ k.pages # <<>> /\ e <= n /\ m <= n
      /\ \A i \in 1 .. n : ByteOf(k.pages, i) = f(i)
  BY InPagesIs
<1>3. (\A i \in 1 .. Len(v) : v[i] = f(i)) /\ (g.len <= e \/ g.len <= m)
  OBVIOUS
<1> HIDE DEF f, k
<1>4. Len(k.pages) \in Nat
  BY <1>2 DEF FileHandle
<1>5. n \in Nat /\ m \in Nat
  BY <1>1, <1>4, PagesGrow
<1>a. n = PageSize * Len(k.pages)
  OBVIOUS
<1> HIDE DEF n, m
<1>6. k.len = Len(v) /\ Len(v) <= n /\ Len(v) > 0 /\ e <= Len(v)
  BY <1>1, <1>2, <1>3, <1>5
<1>7. \A i \in 1 .. Len(v) : ByteOf(k.pages, i) = v[i]
  BY <1>1, <1>2, <1>3, <1>5, <1>6
<1>8. InPagesOnly(k, v)
  BY <1>2, <1>6, <1>7, <1>a DEF InPagesOnly
<1>9. e <= k.len + 1 /\ ~(e > k.len)
  BY <1>1, <1>6
<1>10. Holds(k, v, e)
  BY <1>2, <1>6, <1>8, <1>9 DEF Holds
<1> QED BY <1>10 DEF k

\* What is written into the inode.
LEMMA InInodeHolds ==
  ASSUME NEW g, NEW w, NEW p, Holds(g, w, p), NEW b \in Seq(Bytes), b # <<>>,
         g.space > p + Len(b), g.len < g.space
  PROVE  Holds(H!InInode(g, b), H!Patched(w, p, b), p + Len(b))
<1> DEFINE k == H!InInode(g, b)
           v == H!Patched(w, p, b)
           s == H!Patched(g.inline, g.space, <<>>)
           r == H!Patched(s, p, b)
           e == p + Len(b)
<1>1. /\ g \in FileHandle /\ g.pos = p /\ g.len = Len(w) /\ p <= g.len + 1
      /\ w \in Seq(Bytes) /\ g.inline \in Seq(Bytes) /\ p \in Nat /\ g.len \in Nat
      /\ g.space \in Nat /\ Len(b) \in Nat /\ Len(b) > 0 /\ Len(g.inline) \in Nat
  BY DEF Holds, FileHandle
<1>2. g.pages = <<>>
  <2>1. ~(g.len >= g.space)
    BY <1>1
  <2> QED BY <2>1 DEF Holds, InPagesOnly
<1>3. /\ g.len <= Len(g.inline)
      /\ \A i \in 1 .. Len(g.inline) : g.inline[i] = IF i <= g.len THEN w[i] ELSE Zero
  <2>1. CASE g.inline = <<>>
    <3>1. g.len = 0 /\ Len(g.inline) = 0
      BY <1>2, <2>1 DEF Holds
    <3> QED BY <3>1
  <2>2. CASE g.inline # <<>>
    BY <2>2 DEF Holds, InInodeOnly
  <2> QED BY <2>1, <2>2
<1>4. IsPad(s, g.inline, g.space)
  BY <1>1, PadSays, Zenon
<1>5. s \in Seq(Bytes)
  BY <1>4 DEF IsPad
<1> HIDE DEF s
<1>6. IsOver(r, s, p, b)
  BY <1>1, <1>5, PatchedSays, Zenon
<1>7. IsOver(v, w, p, b)
  BY <1>1, PatchedSays, Zenon
<1>8. k = [g EXCEPT !.inline = r, !.pos = e, !.len = H!Max({g.len, e})]
  BY <1>1 DEF H!InInode, s
<1> HIDE DEF r, v
<1>9. e \in Nat /\ e < g.space /\ e = p + Len(b)
  BY <1>1
<1> HIDE DEF e, k
<1>10. H!Max({g.len, e}) = IF g.len >= e THEN g.len ELSE e
  <2> DEFINE l == g.len
  <2>1. l \in Int /\ e \in Int
    BY <1>1, <1>9
  <2> HIDE DEF l
  <2>2. H!Max({l, e}) = IF l >= e THEN l ELSE e
    BY <2>1, OfTwoToo
  <2> QED BY <2>2 DEF l
<1>11. v \in Seq(Bytes) /\ Len(v) = (IF g.len >= e THEN g.len ELSE e) /\ Len(v) \in Nat
  BY <1>1, <1>7, <1>9 DEF IsOver
<1>12. Len(s) \in Nat /\ Len(s) >= g.space /\ Len(s) >= Len(g.inline)
  BY <1>1, <1>4 DEF IsPad
<1>13. r \in Seq(Bytes) /\ Len(r) = Len(s)
  BY <1>1, <1>6, <1>9, <1>12 DEF IsOver
<1>14. /\ k \in FileHandle /\ k.inline = r /\ k.pos = e /\ k.len = Len(v)
       /\ k.pages = <<>> /\ k.space = g.space
  BY <1>1, <1>2, <1>8, <1>9, <1>10, <1>11, <1>13 DEF FileHandle
<1>15. /\ Len(v) < g.space /\ Len(v) <= Len(r) /\ e <= Len(r) /\ e <= Len(v)
       /\ Len(r) > 0
  BY <1>1, <1>9, <1>11, <1>12, <1>13, SMTT(30)
<1>16. ASSUME NEW i \in 1 .. Len(r)
       PROVE  r[i] = IF i <= Len(v) THEN v[i] ELSE Zero
  <2>1. i \in Nat /\ i >= 1 /\ i \in 1 .. Len(s)
    BY <1>12, <1>13
  <2>2. s[i] = IF i <= Len(w) THEN w[i] ELSE Zero
    BY <1>1, <1>3, <1>4, <2>1 DEF IsPad
  <2>3. r[i] = IF p < i /\ i <= e THEN b[i - p] ELSE s[i]
    BY <1>6, <1>9, <2>1 DEF IsOver
  <2>4. i <= Len(v) => v[i] = IF p < i /\ i <= e THEN b[i - p]
                              ELSE IF i <= Len(w) THEN w[i] ELSE Zero
    BY <1>7, <1>9, <1>11, <2>1 DEF IsOver
  <2>5. (i <= e => i <= Len(v)) /\ (i <= Len(w) => i <= Len(v))
    BY <1>1, <1>9, <1>11, <2>1
  <2> QED BY <2>2, <2>3, <2>4, <2>5
<1>17. InInodeOnly(k, v, e)
  BY <1>14, <1>15, <1>16 DEF InInodeOnly
<1>18. e <= Len(v) + 1 /\ ~(e > Len(v)) /\ k.inline # <<>>
  BY <1>9, <1>11, <1>14, <1>15
<1>19. Holds(k, v, e)
  BY <1>11, <1>14, <1>17, <1>18 DEF Holds
<1> QED BY <1>19 DEF k, v, e

\* What is in the inode goes to the first page.
LEMMA MovedHolds ==
  ASSUME NEW g, NEW w, NEW p, Holds(g, w, p), NEW b \in Seq(Bytes), b # <<>>,
         g.inline # <<>>, ~(g.space > p + Len(b) /\ g.len < g.space)
  PROVE  Holds(H!Moved(g, b), H!Patched(w, p, b), p + Len(b))
<1> DEFINE h == [g EXCEPT !.inline = <<>>, !.pos = 0]
           a == SubSeq(g.inline, 1, p)
           c == a \o b
           v == H!Patched(w, p, b)
           e == p + Len(b)
<1>1. /\ g \in FileHandle /\ g.pos = p /\ g.len = Len(w) /\ p <= g.len + 1
      /\ w \in Seq(Bytes) /\ g.inline \in Seq(Bytes) /\ p \in Nat /\ g.len \in Nat
      /\ g.space \in Nat /\ Len(b) \in Nat /\ Len(b) > 0 /\ Len(g.inline) \in Nat
      /\ <<>> \in Seq(Bytes)
  BY DEF Holds, FileHandle
<1>2. /\ g.pages = <<>> /\ g.len < g.space /\ g.len <= Len(g.inline) /\ p <= Len(g.inline)
      /\ \A i \in 1 .. Len(g.inline) : g.inline[i] = IF i <= g.len THEN w[i] ELSE Zero
  BY DEF Holds, InInodeOnly
<1>3. H!Moved(g, b) = H!InPages(h, c)
  BY <1>1 DEF H!Moved
<1>4. /\ h \in FileHandle /\ h.inline = <<>> /\ h.pos = 0 /\ h.len = g.len
      /\ h.pages = <<>> /\ h.space = g.space
  BY <1>1, <1>2 DEF FileHandle
<1>5. a \in Seq(Bytes) /\ Len(a) = p /\ \A i \in 1 .. p : a[i] = g.inline[i]
  BY <1>1, <1>2
<1>6. IsOver(v, w, p, b)
  BY <1>1, PatchedSays, Zenon
<1> HIDE DEF a, v, h
<1>7. e \in Nat /\ e >= g.space /\ e > g.len /\ e = p + Len(b)
  BY <1>1, <1>2
<1>8. /\ c \in Seq(Bytes) /\ Len(c) = Len(a) + Len(b)
      /\ \A i \in 1 .. Len(a) + Len(b) : c[i] = IF i <= Len(a) THEN a[i] ELSE b[i - Len(a)]
  <2>1. a \in Seq(Bytes) /\ b \in Seq(Bytes)
    BY <1>5
  <2> QED BY <2>1
<1> HIDE DEF c, e
<1>9. /\ Len(c) = e /\ c # <<>> /\ e > 0
      /\ \A i \in 1 .. e : c[i] = IF i <= p THEN a[i] ELSE b[i - p]
  <2>1. Len(a) = p /\ Len(a) + Len(b) = e
    BY <1>5, <1>7
  <2>2. Len(c) = e /\ \A i \in 1 .. e : c[i] = IF i <= p THEN a[i] ELSE b[i - p]
    BY <1>8, <2>1
  <2>3. e > 0
    BY <1>1, <1>7
  <2>4. Len(c) > 0
    BY <2>2, <2>3
  <2>5. c # <<>>
    BY <2>4
  <2> QED BY <2>2, <2>3, <2>5, Zenon
<1>10. v \in Seq(Bytes) /\ Len(v) = e
  BY <1>1, <1>6, <1>7 DEF IsOver
<1>11. ASSUME NEW i \in 1 .. Len(v)
       PROVE  v[i] = c[i]
  <2>1. i \in 1 .. e /\ i \in Nat /\ i >= 1
    BY <1>10
  <2>2. v[i] = IF p < i /\ i <= e THEN b[i - p] ELSE IF i <= Len(w) THEN w[i] ELSE Zero
    BY <1>6, <1>7 DEF IsOver
  <2>3. CASE i <= p
    <3>1. i \in 1 .. Len(g.inline) /\ i \in 1 .. p
      BY <1>1, <1>2, <2>1, <2>3
    <3>2. c[i] = IF i <= g.len THEN w[i] ELSE Zero
      BY <1>2, <1>5, <1>9, <2>1, <2>3, <3>1
    <3> QED BY <1>1, <2>1, <2>2, <2>3, <3>2
  <2>4. CASE ~(i <= p)
    BY <1>1, <1>9, <2>1, <2>2, <2>4
  <2> QED BY <2>3, <2>4
<1>12. \A i \in 1 .. Len(v) :
         v[i] = IF h.pos < i /\ i <= e THEN c[i - h.pos]
                ELSE IF i <= PageSize * Len(h.pages) THEN ByteOf(h.pages, i) ELSE Zero
  BY <1>4, <1>7, <1>10, <1>11
<1>13. /\ e = h.pos + Len(c) /\ Len(v) = (IF h.len >= e THEN h.len ELSE e)
       /\ Len(v) >= h.space /\ h.len <= e
  BY <1>1, <1>4, <1>7, <1>9, <1>10
<1>14. Holds(H!InPages(h, c), v, e)
  BY <1>4, <1>8, <1>9, <1>10, <1>12, <1>13, InPagesHolds
<1> QED BY <1>3, <1>14 DEF v, e

LEMMA PathWrite ==
  ASSUME NEW g, NEW w, NEW p, Holds(g, w, p), NEW b \in Seq(Bytes), b # <<>>
  PROVE  Holds(H!AfterWrite(g, b), H!Patched(w, p, b), p + Len(b))
<1>1. /\ g \in FileHandle /\ g.pos = p /\ g.len = Len(w) /\ p <= g.len + 1
      /\ w \in Seq(Bytes) /\ p \in Nat /\ g.len \in Nat
      /\ g.space \in Nat /\ Len(b) \in Nat /\ Len(b) > 0 /\ Len(g.pages) \in Nat
      /\ g.pages \in Seq(Page)
  BY DEF Holds, FileHandle
<1>2. CASE g.space > p + Len(b) /\ g.len < g.space
  <2>1. H!AfterWrite(g, b) = H!InInode(g, b)
    BY <1>1, <1>2 DEF H!AfterWrite
  <2> QED BY <1>2, <2>1, InInodeHolds
<1>3. CASE ~(g.space > p + Len(b) /\ g.len < g.space) /\ g.inline # <<>>
  <2>1. H!AfterWrite(g, b) = H!Moved(g, b)
    BY <1>1, <1>3 DEF H!AfterWrite
  <2> QED BY <1>3, <2>1, MovedHolds
<1>4. CASE ~(g.space > p + Len(b) /\ g.len < g.space) /\ g.inline = <<>>
  <2> DEFINE v == H!Patched(w, p, b)
             e == p + Len(b)
             m == PageSize * Len(g.pages)
  <2>1. H!AfterWrite(g, b) = H!InPages(g, b)
    BY <1>1, <1>4 DEF H!AfterWrite
  <2>2. IsOver(v, w, p, b)
    BY <1>1, PatchedSays, Zenon
  <2> HIDE DEF v
  <2>3. m \in Nat
    BY <1>1, PagesGrow
  <2>4. g.len <= m
    <3>1. CASE g.pages = <<>>
      <4>1. g.len = 0
        BY <1>4, <3>1 DEF Holds
      <4> HIDE DEF m
      <4> QED BY <2>3, <4>1
    <3>2. CASE g.pages # <<>>
      BY <3>2 DEF Holds, InPagesOnly
    <3> QED BY <3>1, <3>2
  <2>5. e \in Nat /\ e = p + Len(b)
    BY <1>1
  <2>6. v \in Seq(Bytes) /\ Len(v) = (IF g.len >= e THEN g.len ELSE e)
    BY <1>1, <2>2 DEF IsOver
  <2>7. Len(v) >= g.space
    <3>1. g.len >= g.space \/ e >= g.space
      BY <1>1, <1>4
    <3> HIDE DEF e
    <3> QED BY <1>1, <2>5, <2>6, <3>1
  <2> HIDE DEF e
  <2>8. ASSUME NEW i \in 1 .. Len(v)
        PROVE  v[i] = IF g.pos < i /\ i <= e THEN b[i - g.pos]
                      ELSE IF i <= m THEN ByteOf(g.pages, i) ELSE Zero
    <3>1. v[i] = IF p < i /\ i <= e THEN b[i - p] ELSE IF i <= Len(w) THEN w[i] ELSE Zero
      BY <2>2, <2>5 DEF IsOver
    <3>2. CASE p < i /\ i <= e
      BY <1>1, <3>1, <3>2
    <3>3. CASE ~(p < i /\ i <= e) /\ i <= Len(w)
      <4>1. g.pages # <<>>
        <5>1. g.len > 0
          BY <1>1, <3>3
        <5> QED BY <1>4, <5>1 DEF Holds
      <4>2. i \in 1 .. Len(w) /\ i <= m
        <5> HIDE DEF m
        <5> QED BY <1>1, <2>3, <2>4, <3>3
      <4>3. ByteOf(g.pages, i) = w[i]
        BY <4>1, <4>2 DEF Holds, InPagesOnly
      <4> QED BY <1>1, <3>1, <3>3, <4>2, <4>3
    <3>4. CASE ~(p < i /\ i <= e) /\ ~(i <= Len(w))
      <4>1. i > g.len /\ p > g.len /\ i \in Nat \ {0}
        BY <1>1, <2>5, <2>6, <3>4
      <4>2. H!CleanTail(g)
        BY <4>1 DEF Holds
      <4>3. i <= m => ByteOf(g.pages, i) = Zero
        BY <1>1, <4>1, <4>2, CleanByte
      <4> QED BY <1>1, <3>1, <3>4, <4>3
    <3> QED BY <3>2, <3>3, <3>4
  <2>9. Holds(H!InPages(g, b), v, e)
    BY <1>1, <1>4, <2>4, <2>5, <2>6, <2>7, <2>8, InPagesHolds
  <2> QED BY <2>1, <2>9 DEF v, e
<1> QED BY <1>2, <1>3, <1>4

\* A position within the file.
LEMMA WithinHolds ==
  ASSUME NEW g, NEW w, NEW p, Holds(g, w, p), NEW q \in 0 .. Len(w)
  PROVE  Holds([g EXCEPT !.pos = q], w, q)
<1> DEFINE k == [g EXCEPT !.pos = q]
<1>1. /\ g \in FileHandle /\ g.len = Len(w) /\ w \in Seq(Bytes) /\ Len(w) \in Nat
      /\ g.inline \in Seq(Bytes) /\ Len(g.inline) \in Nat /\ q \in Nat /\ q <= g.len
  BY DEF Holds, FileHandle
<1>2. /\ k \in FileHandle /\ k.len = g.len /\ k.pos = q /\ k.inline = g.inline
      /\ k.pages = g.pages /\ k.space = g.space
  BY <1>1 DEF FileHandle
<1> HIDE DEF k
<1>3. g.inline # <<>> => InInodeOnly(k, w, q)
  <2> SUFFICES ASSUME g.inline # <<>>
               PROVE  InInodeOnly(k, w, q)
    OBVIOUS
  <2>1. InInodeOnly(g, w, p)
    BY DEF Holds
  <2>2. q <= Len(g.inline)
    BY <1>1, <2>1 DEF InInodeOnly
  <2> QED BY <1>2, <2>1, <2>2 DEF InInodeOnly
<1>4. g.pages # <<>> => InPagesOnly(k, w)
  BY <1>2 DEF Holds, InPagesOnly
<1>5. q <= g.len + 1 /\ ~(q > g.len)
  BY <1>1
<1>6. g.inline = <<>> /\ g.pages = <<>> => g.len = 0
  BY DEF Holds
<1>7. Holds(k, w, q)
  BY <1>1, <1>2, <1>3, <1>4, <1>5, <1>6 DEF Holds
<1> QED BY <1>7 DEF k

\* A file that is enlarged with zeros, and the position in it or one behind it.
LEMMA EnlargedHolds ==
  ASSUME NEW g, NEW w, NEW p, Holds(g, w, p), NEW c \in Nat, NEW t, t = g.len + c,
         H!SoundGrow(g, t), NEW v \in Seq(Bytes), Len(v) = t,
         \A i \in 1 .. t : v[i] = IF i <= Len(w) THEN w[i] ELSE Zero,
         NEW q \in Nat, q <= t + 1
  PROVE  Holds([H!Enlarged(g, c) EXCEPT !.pos = q], v, q)
<1> DEFINE k == [H!Enlarged(g, c) EXCEPT !.pos = q]
<1>1. /\ g \in FileHandle /\ g.len = Len(w) /\ w \in Seq(Bytes) /\ Len(w) \in Nat
      /\ g.inline \in Seq(Bytes) /\ g.pages \in Seq(Page) /\ g.space \in Nat
      /\ t \in Nat /\ t >= g.len /\ Len(g.inline) \in Nat /\ Len(g.pages) \in Nat
      /\ PageSize \in Nat \ {0} /\ <<>> \in Seq(Page) /\ g.len \in Nat
  BY PathAssumption, SMTT(30) DEF Holds, FileHandle
<1>2. /\ H!CleanTail(g)
      /\ g.pages = <<>> => t # g.space /\ (t > g.space => g.inline = <<>>)
      /\ g.pages # <<>> => t > g.space
  BY DEF H!SoundGrow
<1>3. CASE g.space >= t
  <2> DEFINE r == H!Patched(g.inline, g.space, <<>>)
  <2>1. g.pages = <<>> /\ t < g.space
    BY <1>1, <1>2, <1>3
  <2>2. IsPad(r, g.inline, g.space)
    BY <1>1, PadSays, Zenon
  <2>3. H!Enlarged(g, c) = [g EXCEPT !.inline = r, !.len = t]
    BY <1>3 DEF H!Enlarged
  <2> HIDE DEF r
  <2>4. r \in Seq(Bytes) /\ Len(r) \in Nat /\ Len(r) >= g.space /\ Len(r) >= Len(g.inline)
    BY <1>1, <2>2 DEF IsPad
  <2>5. /\ k \in FileHandle /\ k.inline = r /\ k.len = t /\ k.pos = q /\ k.pages = <<>>
        /\ k.space = g.space
    BY <1>1, <2>1, <2>3, <2>4 DEF FileHandle
  <2> HIDE DEF k
  <2>6. t <= Len(r) /\ q <= Len(r) /\ r # <<>>
    BY <1>1, <2>1, <2>4
  <2>7. \A i \in 1 .. Len(g.inline) : g.inline[i] = IF i <= g.len THEN w[i] ELSE Zero
    BY <1>1 DEF Holds, InInodeOnly
  <2>8. g.len <= Len(g.inline)
    <3>1. CASE g.inline = <<>>
      <4>1. g.len = 0
        BY <2>1, <3>1 DEF Holds
      <4> QED BY <1>1, <4>1
    <3>2. CASE g.inline # <<>>
      BY <3>2 DEF Holds, InInodeOnly
    <3> QED BY <3>1, <3>2
  <2>9. ASSUME NEW i \in 1 .. Len(r)
        PROVE  r[i] = IF i <= t THEN v[i] ELSE Zero
    <3>1. i \in Nat /\ i >= 1
      BY <2>4
    <3>2. r[i] = IF i <= Len(w) THEN w[i] ELSE Zero
      BY <1>1, <2>2, <2>7, <2>8, <3>1 DEF IsPad
    <3>3. i <= t => v[i] = IF i <= Len(w) THEN w[i] ELSE Zero
      BY <1>1, <3>1
    <3>4. i <= Len(w) => i <= t
      BY <1>1, <3>1
    <3> QED BY <3>2, <3>3, <3>4
  <2>10. InInodeOnly(k, v, q)
    BY <2>1, <2>5, <2>6, <2>9 DEF InInodeOnly
  <2>11. H!CleanTail(k)
    BY <2>5 DEF H!CleanTail
  <2>12. Holds(k, v, q)
    BY <2>5, <2>6, <2>10, <2>11 DEF Holds
  <2> QED BY <2>12 DEF k
<1>4. CASE ~(g.space >= t)
  <2> DEFINE m == (t \div PageSize) + 1
             s == g.pages
             r == H!WithPages(s, m)
             n == PageSize * Len(r)
  <2>1. t > g.space /\ t > 0 /\ t >= g.space
    BY <1>1, <1>4
  <2>2. g.inline = <<>>
    <3>1. CASE g.pages = <<>>
      BY <1>2, <2>1, <3>1
    <3>2. CASE g.pages # <<>>
      BY <3>2 DEF Holds, InInodeOnly
    <3> QED BY <3>1, <3>2
  <2>3. H!Enlarged(g, c) = [g EXCEPT !.pages = r, !.len = t]
    BY <1>4 DEF H!Enlarged
  <2>4. m \in Nat /\ m > 0 /\ t <= PageSize * m
    <3> DEFINE d == t \div PageSize
    <3>1. d \in Nat /\ t % PageSize \in 0 .. PageSize - 1
          /\ t = PageSize * d + (t % PageSize)
      BY <1>1, Divided
    <3>2. PageSize * (d + 1) = PageSize * d + PageSize /\ PageSize * d \in Nat
      BY <3>1, PagesGrow
    <3>3. m = d + 1
      OBVIOUS
    <3> HIDE DEF d, m
    <3> QED BY <1>1, <3>1, <3>2, <3>3
  <2> HIDE DEF m
  <2>5. /\ r \in Seq(Page) /\ Len(r) = (IF m >= Len(s) THEN m ELSE Len(s))
        /\ \A j \in 1 .. Len(r) : r[j] = IF j <= Len(s) THEN s[j] ELSE H!NewPage
    BY <1>1, <2>4, WithPagesIs, SMTT(30)
  <2>6. \A i \in Nat \ {0} : i <= n =>
          ByteOf(r, i) = IF i <= PageSize * Len(s) THEN ByteOf(s, i) ELSE Zero
    <3>1. s \in Seq(Page) /\ m \in Nat /\ r = H!WithPages(s, m)
      BY <1>1, <2>4
    <3> HIDE DEF r, s
    <3> QED BY <3>1, MorePages
  <2> HIDE DEF r
  <2>7. Len(r) \in Nat /\ m <= Len(r) /\ Len(s) <= Len(r) /\ r # <<>>
    BY <1>1, <2>4, <2>5
  <2>8. PageSize * m <= n /\ n \in Nat /\ PageSize * m \in Nat
    BY <2>4, <2>7, PagesGrow
  <2>a. n = PageSize * Len(r)
    OBVIOUS
  <2> HIDE DEF n
  <2>9. t <= n
    <3> DEFINE x == PageSize * m
    <3>1. x \in Nat /\ t <= x /\ x <= n
      BY <2>4, <2>8
    <3> HIDE DEF x
    <3> QED BY <1>1, <2>8, <3>1
  <2>10. /\ k \in FileHandle /\ k.inline = <<>> /\ k.len = t /\ k.pos = q /\ k.pages = r
         /\ k.space = g.space
    <3>1. k = [g EXCEPT !.pages = r, !.len = t, !.pos = q]
      BY <2>3
    <3> HIDE DEF k
    <3> QED BY <1>1, <2>2, <2>5, <3>1 DEF FileHandle
  <2> HIDE DEF k
  <2>11. ASSUME NEW i \in 1 .. Len(v)
         PROVE  ByteOf(r, i) = v[i]
    <3>1. i \in Nat \ {0} /\ i <= n /\ i \in 1 .. t
      BY <1>1, <2>8, <2>9
    <3>2. ByteOf(r, i) = IF i <= PageSize * Len(s) THEN ByteOf(s, i) ELSE Zero
      BY <2>6, <3>1
    <3>3. v[i] = IF i <= Len(w) THEN w[i] ELSE Zero
      BY <3>1
    <3>4. CASE i <= Len(w)
      <4>1. s # <<>>
        <5>1. g.len > 0
          BY <1>1, <3>1, <3>4
        <5> QED BY <2>2, <5>1 DEF Holds
      <4>2. InPagesOnly(g, w)
        BY <4>1 DEF Holds
      <4>3. ByteOf(s, i) = w[i]
        BY <1>1, <3>1, <3>4, <4>2 DEF InPagesOnly
      <4>4. i <= PageSize * Len(s)
        <5> DEFINE x == PageSize * Len(s)
        <5>1. x \in Nat
          BY <1>1, PagesGrow
        <5>2. g.len <= x
          BY <4>2 DEF InPagesOnly
        <5> HIDE DEF x
        <5>3. i <= x
          BY <1>1, <3>1, <3>4, <5>1, <5>2
        <5> QED BY <5>3 DEF x
      <4> QED BY <3>2, <3>3, <3>4, <4>3, <4>4
    <3>5. CASE ~(i <= Len(w))
      <4>1. i > g.len
        BY <1>1, <3>1, <3>5
      <4>2. i <= PageSize * Len(s) => ByteOf(s, i) = Zero
        BY <1>1, <1>2, <3>1, <4>1, CleanByte
      <4> QED BY <3>2, <3>3, <3>5, <4>2
    <3> QED BY <3>4, <3>5
  <2>12. InPagesOnly(k, v)
    BY <2>1, <2>9, <2>10, <2>11, <2>a DEF InPagesOnly
  <2>13. H!CleanTail(k)
    <3>1. DOMAIN r = 1 .. Len(r) /\ DOMAIN s = 1 .. Len(s)
      BY <1>1, <2>5
    <3> SUFFICES ASSUME NEW j \in 1 .. Len(r), NEW i \in 1 .. PageSize,
                        (j - 1) * PageSize + i > t
                 PROVE  r[j][i] = Zero
      BY <2>10, <3>1 DEF H!CleanTail
    <3>2. CASE j <= Len(s)
      <4>1. j \in DOMAIN s /\ r[j] = s[j]
        BY <1>1, <2>5, <2>7, <3>1, <3>2
      <4> DEFINE x == (j - 1) * PageSize + i
      <4>2. x \in Int /\ x > t
        BY <1>1, <2>7
      <4>3. x > g.len => s[j][i] = Zero
        BY <1>2, <4>1 DEF H!CleanTail
      <4> HIDE DEF x
      <4> QED BY <1>1, <4>1, <4>2, <4>3
    <3>3. CASE ~(j <= Len(s))
      <4>1. r[j] = H!NewPage
        BY <2>5, <3>3
      <4> QED BY <4>1, NewPageIs
    <3> QED BY <3>2, <3>3
  <2>14. Holds(k, v, q)
    BY <2>7, <2>10, <2>12, <2>13 DEF Holds
  <2> QED BY <2>14 DEF k
<1> QED BY <1>3, <1>4

\* The first pages.
LEMMA FewerPages ==
  ASSUME NEW s \in Seq(Page), NEW m \in 0 .. Len(s), NEW i \in Nat \ {0},
         i <= PageSize * m
  PROVE  ByteOf(SubSeq(s, 1, m), i) = ByteOf(s, i)
<1> DEFINE q == (i - 1) \div PageSize
           o == (i - 1) % PageSize
<1>1. m \in Nat /\ m <= Len(s) /\ Len(s) \in Nat
  OBVIOUS
<1>2. q \in Nat /\ (i <= PageSize * m <=> q < m)
  BY <1>1, PlaceIs
<1>3. ByteOf(SubSeq(s, 1, m), i) = SubSeq(s, 1, m)[q + 1][o + 1]
      /\ ByteOf(s, i) = s[q + 1][o + 1]
  BY DEF ByteOf
<1> HIDE DEF q, o
<1>4. q + 1 \in 1 .. m
  BY <1>1, <1>2
<1>5. SubSeq(s, 1, m)[q + 1] = s[q + 1]
  BY <1>1, <1>4
<1> QED BY <1>3, <1>5

LEMMA ShortenedHolds ==
  ASSUME NEW g, NEW w, NEW p, Holds(g, w, p), NEW n \in Nat, n < g.len,
         H!SoundTruncate(g, n), NEW q, q = IF p <= n THEN p ELSE n
  PROVE  Holds(H!AfterTruncate(g, n), SubSeq(w, 1, n), q)
<1> DEFINE k == H!AfterTruncate(g, n)
           v == SubSeq(w, 1, n)
           m == H!PagesFor(n)
           l == Len(g.pages)
           x == IF g.pages = <<>> /\ Len(g.inline) > n THEN SubSeq(g.inline, 1, n)
                ELSE g.inline
           y == IF m < l THEN SubSeq(g.pages, 1, m) ELSE g.pages
<1>1. /\ g \in FileHandle /\ g.len = Len(w) /\ w \in Seq(Bytes) /\ Len(w) \in Nat
      /\ g.inline \in Seq(Bytes) /\ g.pages \in Seq(Page) /\ g.space \in Nat
      /\ p \in Nat /\ g.pos = p /\ Len(g.inline) \in Nat /\ l \in Nat /\ g.len \in Nat
  BY DEF Holds, FileHandle
<1>2. m \in Nat /\ n <= PageSize * m /\ (n > 0 => m > 0) /\ (n = 0 => m = 0)
  BY PagesForIs
<1>3. g.pages = <<>> \/ n = 0 \/ n >= g.space
  BY <1>1 DEF H!SoundTruncate
<1>4. k = [g EXCEPT !.inline = x, !.pages = y, !.len = n, !.pos = q]
  <2>1. H!Min({p, n}) = q
    <3>1. p \in Int /\ n \in Int
      BY <1>1
    <3>2. H!Min({p, n}) = IF p <= n THEN p ELSE n
      BY <3>1, OfTwoToo
    <3> QED BY <3>2
  <2>2. n # g.len /\ ~(n > g.len)
    BY <1>1
  <2>3. k = [g EXCEPT !.inline = x, !.pages = y, !.len = n, !.pos = H!Min({g.pos, n})]
    BY <2>2 DEF H!AfterTruncate
  <2> HIDE DEF k, x, y
  <2> QED BY <1>1, <2>1, <2>3
<1>5. /\ v \in Seq(Bytes) /\ Len(v) = n /\ q \in Nat /\ q <= n
      /\ \A i \in 1 .. n : v[i] = w[i]
  BY <1>1
<1> HIDE DEF k, v, m
<1>6. CASE g.pages = <<>>
  <2>1. InInodeOnly(g, w, p)
    <3>1. g.inline # <<>>
      BY <1>1, <1>6 DEF Holds
    <3> QED BY <3>1 DEF Holds
  <2>2. y = <<>> /\ l = 0
    BY <1>2, <1>6
  <2>3. x = SubSeq(g.inline, 1, n) /\ n <= Len(g.inline)
    BY <1>1, <1>6, <2>1 DEF InInodeOnly
  <2> HIDE DEF x, y, l
  <2>4. x \in Seq(Bytes) /\ Len(x) = n /\ \A i \in 1 .. n : x[i] = g.inline[i]
    BY <1>1, <2>3
  <2>5. /\ k \in FileHandle /\ k.inline = x /\ k.pages = <<>> /\ k.len = n /\ k.pos = q
        /\ k.space = g.space
    BY <1>1, <1>4, <1>5, <1>6, <2>2, <2>4 DEF FileHandle
  <2>6. ASSUME NEW i \in 1 .. Len(x)
        PROVE  x[i] = IF i <= n THEN v[i] ELSE Zero
    <3>1. i \in 1 .. n /\ i <= n /\ i \in 1 .. Len(g.inline) /\ i <= g.len
      BY <1>1, <2>3, <2>4
    <3>2. x[i] = w[i] /\ v[i] = w[i]
      BY <1>5, <2>1, <2>4, <3>1 DEF InInodeOnly
    <3> QED BY <3>1, <3>2
  <2>7. n < g.space
    BY <1>1, <2>1 DEF InInodeOnly
  <2>8. InInodeOnly(k, v, q)
    BY <1>5, <2>4, <2>5, <2>6, <2>7 DEF InInodeOnly
  <2>9. x = <<>> => n = 0
    BY <2>4
  <2>10. q <= n + 1 /\ ~(q > n)
    BY <1>5
  <2>11. Holds(k, v, q)
    BY <1>5, <2>5, <2>8, <2>9, <2>10 DEF Holds
  <2> QED BY <2>11 DEF k, v
<1>7. CASE g.pages # <<>>
  <2> DEFINE j == IF m < l THEN m ELSE l
  <2>1. InPagesOnly(g, w)
    BY <1>7 DEF Holds
  <2>2. g.inline = <<>>
    BY <1>7 DEF Holds, InInodeOnly
  <2>3. x = <<>>
    BY <1>7, <2>2
  <2>4. j \in 0 .. l /\ j \in Nat /\ l > 0 /\ (n > 0 => j > 0) /\ (n = 0 => j = 0)
    BY <1>1, <1>2, <1>7
  <2>5. y = SubSeq(g.pages, 1, j) /\ Len(y) = j /\ y \in Seq(Page)
    <3>1. SubSeq(g.pages, 1, l) = g.pages
      BY <1>1
    <3> QED BY <1>1, <1>2, <3>1
  <2>6. n <= PageSize * j
    <3>1. CASE m < l
      BY <1>2, <3>1
    <3>2. CASE ~(m < l)
      <4> DEFINE z == PageSize * l
      <4>1. z \in Nat
        BY <1>1, PagesGrow
      <4>2. g.len <= z
        BY <2>1 DEF InPagesOnly
      <4> HIDE DEF z
      <4>3. n <= z
        BY <1>1, <4>1, <4>2
      <4> QED BY <3>2, <4>3 DEF z
    <3> QED BY <3>1, <3>2
  <2> HIDE DEF x, y, j, l
  <2>7. /\ k \in FileHandle /\ k.inline = <<>> /\ k.pages = y /\ k.len = n /\ k.pos = q
        /\ k.space = g.space
    BY <1>1, <1>4, <1>5, <2>2, <2>3, <2>5 DEF FileHandle
  <2>8. ASSUME NEW i \in 1 .. Len(v)
        PROVE  ByteOf(y, i) = v[i]
    <3>1. i \in 1 .. n /\ i \in 1 .. Len(w) /\ i \in Nat \ {0}
      BY <1>1, <1>5
    <3>2. i <= PageSize * j
      <4> DEFINE z == PageSize * j
      <4>1. z \in Nat /\ n <= z
        BY <2>4, <2>6, PagesGrow
      <4> HIDE DEF z
      <4>2. i <= z
        BY <3>1, <4>1
      <4> QED BY <4>2 DEF z
    <3>3. ByteOf(SubSeq(g.pages, 1, j), i) = ByteOf(g.pages, i)
      <4>1. j \in 0 .. Len(g.pages)
        BY <2>4 DEF l
      <4> QED BY <1>1, <3>1, <3>2, <4>1, FewerPages
    <3>4. ByteOf(g.pages, i) = w[i] /\ v[i] = w[i]
      BY <1>5, <2>1, <3>1 DEF InPagesOnly
    <3> QED BY <2>5, <3>3, <3>4
  <2>9. y # <<>> => InPagesOnly(k, v)
    <3> SUFFICES ASSUME y # <<>>
                 PROVE  InPagesOnly(k, v)
      OBVIOUS
    <3>1. n > 0
      BY <2>4, <2>5
    <3>2. n >= g.space
      BY <1>3, <1>7, <3>1
    <3> QED BY <2>5, <2>6, <2>7, <2>8, <3>1, <3>2 DEF InPagesOnly
  <2>10. y = <<>> => n = 0
    BY <2>4, <2>5
  <2>11. q <= n + 1 /\ ~(q > n)
    BY <1>5
  <2>12. Holds(k, v, q)
    BY <1>5, <2>7, <2>9, <2>10, <2>11 DEF Holds
  <2> QED BY <2>12 DEF k, v
<1> QED BY <1>6, <1>7

LEMMA RenamedHolds ==
  ASSUME NEW g, NEW w, NEW p, Holds(g, w, p), NEW space \in Nat,
         H!SoundRename(g, space)
  PROVE  Holds([g EXCEPT !.space = space], w, p)
<1> DEFINE k == [g EXCEPT !.space = space]
<1>1. /\ g \in FileHandle /\ g.len = Len(w) /\ Len(w) \in Nat
      /\ g.inline \in Seq(Bytes) /\ g.pages \in Seq(Page) /\ Len(g.inline) \in Nat
  BY DEF Holds, FileHandle
<1>2. /\ k \in FileHandle /\ k.len = g.len /\ k.pos = g.pos /\ k.inline = g.inline
      /\ k.pages = g.pages /\ k.space = space
  BY <1>1 DEF FileHandle
<1> HIDE DEF k
<1>3. g.inline # <<>> => InInodeOnly(k, w, p)
  <2> SUFFICES ASSUME g.inline # <<>>
               PROVE  InInodeOnly(k, w, p)
    OBVIOUS
  <2>1. InInodeOnly(g, w, p)
    BY DEF Holds
  <2>2. Len(g.inline) > 0 /\ g.pages = <<>>
    BY <1>1, <2>1 DEF InInodeOnly
  <2>3. space >= Len(g.inline) /\ (g.len = 0 \/ space > g.len)
    BY <2>2 DEF H!SoundRename
  <2>4. g.len < space
    BY <1>1, <2>2, <2>3
  <2> QED BY <1>2, <2>1, <2>4 DEF InInodeOnly
<1>4. g.pages # <<>> => InPagesOnly(k, w)
  <2> SUFFICES ASSUME g.pages # <<>>
               PROVE  InPagesOnly(k, w)
    OBVIOUS
  <2>1. InPagesOnly(g, w) /\ space <= g.len
    BY DEF Holds, H!SoundRename
  <2>2. g.len >= space
    BY <1>1, <2>1
  <2> QED BY <1>2, <2>1, <2>2 DEF InPagesOnly
<1>5. p > g.len => H!CleanTail(k)
  BY <1>2 DEF Holds, H!CleanTail
<1>6. Holds(k, w, p)
  BY <1>2, <1>3, <1>4, <1>5 DEF Holds
<1> QED BY <1>6 DEF k

LEMMA ReopenedHolds ==
  ASSUME NEW g, NEW w, NEW p, Holds(g, w, p)
  PROVE  Holds(H!Reopened(g), w, 0)
<1> DEFINE k == H!Reopened(g)
           s == SubSeq(g.inline, 1, g.len)
           r == H!Patched(s, g.space, <<>>)
           x == IF g.pages = <<>> /\ g.len > 0 THEN r ELSE <<>>
           l == Len(g.pages)
           m == H!PagesFor(g.len)
           j == IF l <= m THEN l ELSE m
           y == SubSeq(g.pages, 1, j)
<1>1. /\ g \in FileHandle /\ g.len = Len(w) /\ w \in Seq(Bytes) /\ Len(w) \in Nat
      /\ g.inline \in Seq(Bytes) /\ g.pages \in Seq(Page) /\ g.space \in Nat
      /\ Len(g.inline) \in Nat /\ l \in Nat /\ g.len \in Nat /\ <<>> \in Seq(Bytes)
      /\ 0 <= g.len + 1 /\ ~(0 > g.len)
  BY DEF Holds, FileHandle
<1>2. /\ m \in Nat /\ g.len <= PageSize * m /\ (g.len > 0 => m > 0)
  BY <1>1, PagesForIs
<1>3. k = [g EXCEPT !.inline = x, !.pages = y, !.pos = 0]
  <2>1. H!Min({l, m}) = j
    <3>1. l \in Int /\ m \in Int
      BY <1>1, <1>2
    <3> HIDE DEF l, m
    <3>2. H!Min({l, m}) = IF l <= m THEN l ELSE m
      BY <3>1, OfTwoToo
    <3> QED BY <3>2
  <2>2. k = [g EXCEPT !.inline = x, !.pages = SubSeq(g.pages, 1, H!Min({l, m})), !.pos = 0]
    BY DEF H!Reopened
  <2>3. y = SubSeq(g.pages, 1, H!Min({l, m}))
    BY <2>1
  <2> HIDE DEF k, x, y, l, m
  <2> QED BY <2>2, <2>3
<1> HIDE DEF k, m
<1>4. CASE g.pages = <<>>
  <2>1. y = <<>>
    <3>1. l = 0 /\ j = 0
      BY <1>2, <1>4
    <3> QED BY <1>4, <3>1
  <2> HIDE DEF y
  <2>2. CASE g.len > 0
    <3>1. InInodeOnly(g, w, p)
      <4>1. g.inline # <<>>
        BY <1>4, <2>2 DEF Holds
      <4> QED BY <4>1 DEF Holds
    <3>2. g.len <= Len(g.inline) /\ g.len < g.space
      BY <3>1 DEF InInodeOnly
    <3>3. s \in Seq(Bytes) /\ Len(s) = g.len /\ \A i \in 1 .. g.len : s[i] = g.inline[i]
      BY <1>1, <3>2
    <3> HIDE DEF s
    <3>4. IsPad(r, s, g.space)
      BY <1>1, <3>3, PadSays, Zenon
    <3>5. x = r
      BY <1>4, <2>2
    <3> HIDE DEF x, r
    <3>6. r \in Seq(Bytes) /\ Len(r) = g.space /\ r # <<>> /\ 0 <= Len(r) /\ g.len <= Len(r)
      BY <1>1, <3>2, <3>3, <3>4 DEF IsPad
    <3>7. /\ k \in FileHandle /\ k.inline = r /\ k.pages = <<>> /\ k.len = g.len
          /\ k.pos = 0 /\ k.space = g.space
      BY <1>1, <1>3, <1>4, <2>1, <3>5, <3>6 DEF FileHandle
    <3>8. ASSUME NEW i \in 1 .. Len(r)
          PROVE  r[i] = IF i <= g.len THEN w[i] ELSE Zero
      <4>1. i \in Nat /\ i >= 1
        BY <1>1, <3>6
      <4>2. r[i] = IF i <= g.len THEN s[i] ELSE Zero
        BY <3>3, <3>4 DEF IsPad
      <4>3. i <= g.len => s[i] = w[i]
        BY <1>1, <3>1, <3>2, <3>3, <4>1 DEF InInodeOnly
      <4> QED BY <4>2, <4>3
    <3>9. InInodeOnly(k, w, 0)
      BY <3>2, <3>6, <3>7, <3>8 DEF InInodeOnly
    <3>10. Holds(k, w, 0)
      BY <1>1, <3>6, <3>7, <3>9 DEF Holds
    <3> QED BY <3>10 DEF k
  <2>3. CASE ~(g.len > 0)
    <3>1. x = <<>> /\ g.len = 0
      BY <1>1, <2>3
    <3> HIDE DEF x
    <3>2. /\ k \in FileHandle /\ k.inline = <<>> /\ k.pages = <<>> /\ k.len = g.len
          /\ k.pos = 0
      BY <1>1, <1>3, <1>4, <2>1, <3>1 DEF FileHandle
    <3>3. Holds(k, w, 0)
      BY <1>1, <3>1, <3>2 DEF Holds
    <3> QED BY <3>3 DEF k
  <2> QED BY <2>2, <2>3
<1>5. CASE g.pages # <<>>
  <2>1. InPagesOnly(g, w) /\ g.len > 0
    BY <1>5 DEF Holds, InPagesOnly
  <2>2. x = <<>>
    BY <1>5
  <2>3. j \in 0 .. l /\ j \in Nat /\ j > 0
    BY <1>1, <1>2, <1>5, <2>1
  <2>4. g.len <= PageSize * j
    <3>1. CASE l <= m
      BY <2>1, <3>1 DEF InPagesOnly
    <3>2. CASE ~(l <= m)
      BY <1>2, <3>2
    <3> QED BY <3>1, <3>2
  <2> HIDE DEF j
  <2>5. y \in Seq(Page) /\ Len(y) = j /\ y # <<>>
    BY <1>1, <2>3
  <2>6. y = SubSeq(g.pages, 1, j) /\ j \in 0 .. Len(g.pages)
    BY <2>3
  <2> HIDE DEF x, y, l
  <2>7. /\ k \in FileHandle /\ k.inline = <<>> /\ k.pages = y /\ k.len = g.len
        /\ k.pos = 0 /\ k.space = g.space
    BY <1>1, <1>3, <2>2, <2>5 DEF FileHandle
  <2>8. ASSUME NEW i \in 1 .. Len(w)
        PROVE  ByteOf(y, i) = w[i]
    <3>1. i \in Nat \ {0} /\ i <= g.len
      BY <1>1
    <3>2. i <= PageSize * j
      <4> DEFINE z == PageSize * j
      <4>1. z \in Nat /\ g.len <= z
        BY <2>3, <2>4, PagesGrow
      <4> HIDE DEF z
      <4>2. i <= z
        BY <1>1, <3>1, <4>1
      <4> QED BY <4>2 DEF z
    <3>3. ByteOf(SubSeq(g.pages, 1, j), i) = ByteOf(g.pages, i)
      BY <1>1, <2>6, <3>1, <3>2, FewerPages
    <3>4. ByteOf(g.pages, i) = w[i]
      BY <2>1 DEF InPagesOnly
    <3> QED BY <2>6, <3>3, <3>4
  <2>9. InPagesOnly(k, w)
    BY <2>1, <2>4, <2>5, <2>7, <2>8 DEF InPagesOnly
  <2>10. Holds(k, w, 0)
    BY <1>1, <2>5, <2>7, <2>9 DEF Holds
  <2> QED BY <2>10 DEF k
<1> QED BY <1>4, <1>5

LEMMA BytesStart == Init => BytesInv
<1> SUFFICES ASSUME H!Init
             PROVE  BytesInv
  BY DEF Init
<1> DEFINE z == H!Max(Spaces)
<1>1. z \in Nat
  BY PathAssumption DEF H!Max
<1> HIDE DEF z
<1>2. /\ handle = [len |-> 0, pos |-> 0, inline |-> <<>>, pages |-> <<>>, space |-> z]
      /\ bytes = <<>> /\ offset = 0 /\ readRight
  BY DEF H!Init, z
<1>3. <<>> \in Seq(Bytes) /\ <<>> \in Seq(Page) /\ Len(<<>>) = 0
  OBVIOUS
<1>4. /\ handle \in FileHandle /\ handle.len = 0 /\ handle.pos = 0
      /\ handle.inline = <<>> /\ handle.pages = <<>>
  BY <1>1, <1>2, <1>3 DEF FileHandle
<1>5. Holds(handle, <<>>, 0)
  BY <1>3, <1>4 DEF Holds
<1> QED BY <1>2, <1>5 DEF BytesInv

\* One step per call of the data path.
LEMMA BytesKept ==
  ASSUME Careful, BytesInv, [Next]_vars
  PROVE  BytesInv'
<1>1. /\ readRight /\ Holds(handle, bytes, offset) /\ bytes \in Seq(Bytes)
      /\ Len(bytes) \in Nat /\ handle.len = Len(bytes) /\ handle.pos = offset
      /\ offset \in Nat /\ handle \in FileHandle /\ offset <= Len(bytes) + 1
  BY DEF BytesInv, Holds, FileHandle
<1>2. ASSUME NEW b \in H!Contents \ {<<>>}, H!Write(b)
      PROVE  BytesInv'
  <2>1. b \in Seq(Bytes) /\ b # <<>>
    BY PathAssumption DEF H!Contents
  <2>2. /\ handle' = H!AfterWrite(handle, b) /\ bytes' = H!Patched(bytes, offset, b)
        /\ offset' = offset + Len(b) /\ readRight' = readRight
    BY <1>2 DEF H!Write
  <2>3. Holds(H!AfterWrite(handle, b), H!Patched(bytes, offset, b), offset + Len(b))
    BY <1>1, <2>1, PathWrite
  <2> QED BY <1>1, <2>2, <2>3 DEF BytesInv
<1>3. ASSUME NEW n \in 1 .. Longest, H!Read(n)
      PROVE  BytesInv'
  <2> DEFINE q == H!Min({offset + n, Len(bytes)})
  <2>1. H!Stored(handle) = bytes
    BY <1>1, StoredIs
  <2>2. /\ handle.pos <= handle.len
        /\ handle' = [handle EXCEPT !.pos = H!Min({@ + n, Len(H!Stored(handle))})]
        /\ readRight' = (readRight
             /\ SubSeq(H!Stored(handle), handle.pos + 1,
                       H!Min({handle.pos + n, Len(H!Stored(handle))}))
                = SubSeq(bytes, offset + 1, H!Min({offset + n, Len(bytes)})))
        /\ offset' = q /\ bytes' = bytes
    BY <1>3 DEF H!Read
  <2>3. handle' = [handle EXCEPT !.pos = q] /\ readRight'
    BY <1>1, <2>1, <2>2
  <2>4. q \in 0 .. Len(bytes)
    <3> DEFINE x == offset + n
               y == Len(bytes)
    <3>1. x \in Nat /\ y \in Nat /\ x \in Int /\ y \in Int
      BY <1>1, PathAssumption
    <3> HIDE DEF x, y
    <3>2. H!Min({x, y}) = IF x <= y THEN x ELSE y
      BY <3>1, OfTwoToo
    <3>3. H!Min({x, y}) \in 0 .. y
      BY <3>1, <3>2
    <3> QED BY <3>3 DEF x, y
  <2> HIDE DEF q
  <2>5. Holds([handle EXCEPT !.pos = q], bytes, q)
    BY <1>1, <2>4, WithinHolds
  <2>6. offset' = q /\ bytes' = bytes
    BY <2>2 DEF q
  <2> QED BY <2>3, <2>5, <2>6 DEF BytesInv
<1>4. ASSUME NEW q \in 0 .. Longest, H!Seek(q)
      PROVE  BytesInv'
  <2>1. q \in Nat
    BY PathAssumption
  <2>2. /\ q > handle.len => H!SoundGrow(handle, q - 1)
        /\ handle' = H!AfterSeek(handle, q)
        /\ bytes' = (IF q > Len(bytes) THEN H!Patched(bytes, q - 1, <<>>) ELSE bytes)
        /\ offset' = q /\ readRight' = readRight
    BY <1>4 DEF H!Seek
  <2>3. CASE q > Len(bytes)
    <3> DEFINE t == q - 1
               c == q - handle.len - 1
               v == H!Patched(bytes, t, <<>>)
    <3>1. t \in Nat /\ c \in Nat /\ t = handle.len + c /\ q <= t + 1 /\ t >= Len(bytes)
      BY <1>1, <2>1, <2>3
    <3>2. IsPad(v, bytes, t)
      <4> HIDE DEF t
      <4> QED BY <1>1, <3>1, PadSays, Zenon
    <3>3. H!AfterSeek(handle, q) = [H!Enlarged(handle, c) EXCEPT !.pos = q]
      <4>1. ~(q <= handle.len)
        BY <1>1, <2>1, <2>3
      <4> QED BY <4>1 DEF H!AfterSeek
    <3>4. H!SoundGrow(handle, t) /\ bytes' = v
      BY <1>1, <2>2, <2>3
    <3> HIDE DEF t, c, v
    <3>5. /\ v \in Seq(Bytes) /\ Len(v) = t
          /\ \A i \in 1 .. t : v[i] = IF i <= Len(bytes) THEN bytes[i] ELSE Zero
      BY <1>1, <3>1, <3>2 DEF IsPad
    <3>6. Holds([H!Enlarged(handle, c) EXCEPT !.pos = q], v, q)
      BY <1>1, <2>1, <3>1, <3>4, <3>5, EnlargedHolds
    <3> QED BY <1>1, <2>2, <3>3, <3>4, <3>6 DEF BytesInv
  <2>4. CASE ~(q > Len(bytes))
    <3>1. q \in 0 .. Len(bytes) /\ q <= handle.len /\ bytes' = bytes
      BY <1>1, <2>1, <2>2, <2>4
    <3>2. H!AfterSeek(handle, q) = [handle EXCEPT !.pos = q]
      BY <3>1 DEF H!AfterSeek
    <3>3. Holds([handle EXCEPT !.pos = q], bytes, q)
      BY <1>1, <3>1, WithinHolds
    <3> QED BY <1>1, <2>2, <3>1, <3>2, <3>3 DEF BytesInv
  <2> QED BY <2>3, <2>4
<1>5. ASSUME NEW n \in 0 .. Longest, H!Truncate(n)
      PROVE  BytesInv'
  <2> DEFINE s == SubSeq(bytes, 1, H!Min({n, Len(bytes)}))
             v == H!Patched(s, n, <<>>)
  <2>1. n \in Nat
    BY PathAssumption
  <2>2. /\ H!SoundTruncate(handle, n) /\ handle' = H!AfterTruncate(handle, n)
        /\ bytes' = v /\ readRight' = readRight
        /\ offset' = IF n < Len(bytes) THEN H!Min({offset, n}) ELSE offset
    BY <1>5 DEF H!Truncate
  <2>3. s = SubSeq(bytes, 1, IF n <= Len(bytes) THEN n ELSE Len(bytes))
    <3> DEFINE y == Len(bytes)
    <3>1. n \in Int /\ y \in Int
      BY <1>1, <2>1
    <3> HIDE DEF y
    <3>2. H!Min({n, y}) = IF n <= y THEN n ELSE y
      BY <3>1, OfTwoToo
    <3> QED BY <3>2 DEF y
  <2> HIDE DEF s
  <2>4. /\ s \in Seq(Bytes) /\ Len(s) = (IF n <= Len(bytes) THEN n ELSE Len(bytes))
        /\ \A i \in 1 .. Len(s) : s[i] = bytes[i]
    BY <1>1, <2>1, <2>3
  <2>5. IsPad(v, s, n)
    BY <2>1, <2>4, PadSays, Zenon
  <2> HIDE DEF v
  <2>6. /\ v \in Seq(Bytes) /\ Len(v) = n
        /\ \A i \in 1 .. n : v[i] = IF i <= Len(bytes) THEN bytes[i] ELSE Zero
    BY <1>1, <2>1, <2>4, <2>5 DEF IsPad
  <2>7. CASE n = Len(bytes)
    <3>1. H!AfterTruncate(handle, n) = handle /\ offset' = offset
      BY <1>1, <2>2, <2>7 DEF H!AfterTruncate
    <3>2. v = bytes
      <4>1. \A i \in 1 .. Len(v) : v[i] = bytes[i]
        BY <1>1, <2>6, <2>7
      <4> QED BY <1>1, <2>6, <2>7, <4>1, SameSequence
    <3> QED BY <1>1, <2>2, <3>1, <3>2 DEF BytesInv
  <2>8. CASE n > Len(bytes)
    <3> DEFINE c == n - handle.len
    <3>1. c \in Nat /\ n = handle.len + c /\ offset <= n + 1 /\ offset' = offset
      BY <1>1, <2>1, <2>2, <2>8
    <3>2. H!AfterTruncate(handle, n) = H!Enlarged(handle, c)
      <4>1. n # handle.len /\ n > handle.len
        BY <1>1, <2>1, <2>8
      <4> QED BY <4>1 DEF H!AfterTruncate
    <3>3. H!SoundGrow(handle, n)
      BY <1>1, <2>2, <2>8 DEF H!SoundTruncate
    <3> HIDE DEF c
    <3>4. Holds([H!Enlarged(handle, c) EXCEPT !.pos = offset], v, offset)
      BY <1>1, <2>1, <2>6, <3>1, <3>3, EnlargedHolds
    <3>5. [H!Enlarged(handle, c) EXCEPT !.pos = offset] = H!Enlarged(handle, c)
      BY <1>1 DEF H!Enlarged, FileHandle
    <3>6. Holds(H!Enlarged(handle, c), v, offset)
      BY <3>4, <3>5
    <3> QED BY <1>1, <2>2, <3>1, <3>2, <3>6 DEF BytesInv
  <2>9. CASE n < Len(bytes)
    <3> DEFINE q == IF offset <= n THEN offset ELSE n
    <3>1. offset' = q
      <4>1. offset \in Int /\ n \in Int
        BY <1>1, <2>1
      <4>2. H!Min({offset, n}) = IF offset <= n THEN offset ELSE n
        BY <4>1, OfTwoToo
      <4> QED BY <2>2, <2>9, <4>2
    <3>2. q = IF offset <= n THEN offset ELSE n
      OBVIOUS
    <3> HIDE DEF q
    <3>3. Holds(H!AfterTruncate(handle, n), SubSeq(bytes, 1, n), q)
      BY <1>1, <2>1, <2>2, <2>9, <3>2, ShortenedHolds
    <3>4. v = SubSeq(bytes, 1, n)
      <4> DEFINE u == SubSeq(bytes, 1, n)
      <4>1. u \in Seq(Bytes) /\ Len(u) = n /\ \A i \in 1 .. n : u[i] = bytes[i]
        BY <1>1, <2>1, <2>9
      <4> HIDE DEF u
      <4>2. \A i \in 1 .. Len(v) : v[i] = u[i]
        BY <1>1, <2>6, <2>9, <4>1
      <4>3. v = u
        BY <2>6, <4>1, <4>2, SameSequence
      <4> QED BY <4>3 DEF u
    <3>5. Holds(H!AfterTruncate(handle, n), v, q)
      BY <3>3, <3>4
    <3> QED BY <1>1, <2>2, <3>1, <3>5 DEF BytesInv
  <2> QED BY <1>1, <2>1, <2>7, <2>8, <2>9
<1>6. ASSUME NEW n \in Spaces, H!Rename(n)
      PROVE  BytesInv'
  <2>1. n \in Nat
    BY PathAssumption
  <2>2. /\ H!SoundRename(handle, n) /\ handle' = [handle EXCEPT !.space = n]
        /\ bytes' = bytes /\ offset' = offset /\ readRight' = readRight
    BY <1>6 DEF H!Rename
  <2>3. Holds([handle EXCEPT !.space = n], bytes, offset)
    BY <1>1, <2>1, <2>2, RenamedHolds
  <2> QED BY <1>1, <2>2, <2>3 DEF BytesInv
<1>7. ASSUME H!Reopen
      PROVE  BytesInv'
  <2>1. /\ handle' = H!Reopened(handle) /\ offset' = 0 /\ bytes' = bytes
        /\ readRight' = readRight
    BY <1>7 DEF H!Reopen
  <2>2. Holds(H!Reopened(handle), bytes, 0)
    BY <1>1, ReopenedHolds
  <2> QED BY <1>1, <2>1, <2>2 DEF BytesInv
<1>8. ASSUME UNCHANGED datapath
      PROVE  BytesInv'
  BY <1>1, <1>8 DEF BytesInv, datapath
<1>9. H!Next \/ UNCHANGED datapath
  BY DEF Next, vars
<1> QED BY <1>2, <1>3, <1>4, <1>5, <1>6, <1>7, <1>8, <1>9 DEF H!Next

LEMMA BytesHold == Careful => (Spec => []BytesInv)
<1> SUFFICES ASSUME Careful
             PROVE  Spec => []BytesInv
  OBVIOUS
<1>1. BytesInv /\ [Next]_vars => BytesInv'
  BY BytesKept
<1> QED BY <1>1, BytesStart, PTL DEF Spec

(***************************************************************************)
(* Wherever the bytes of a file are, in the inode or in pages, and however *)
(* often they have moved from one to the other, the file is as its callers *)
(* have made it, and so is what they read, for every page size, every      *)
(* space that the names leave in the inode and every content, as long as   *)
(* the callers keep out of the cases that SoundGrow, SoundTruncate and     *)
(* SoundRename name (SimpleFlashFsBase.h write(), read(), enlarge_file(),  *)
(* truncate(), seek()).                                                    *)
(***************************************************************************)
THEOREM FilesKeepTheirBytes == Careful => (Spec => []BytesAreKept)
<1> SUFFICES ASSUME Careful
             PROVE  Spec => []BytesAreKept
  OBVIOUS
<1>1. BytesInv => BytesAreKept
  <2> SUFFICES ASSUME BytesInv
               PROVE  BytesAreKept
    OBVIOUS
  <2>1. readRight /\ Holds(handle, bytes, offset)
    BY DEF BytesInv
  <2>2. H!Stored(handle) = bytes
    BY <2>1, StoredIs
  <2> QED BY <2>1, <2>2 DEF BytesAreKept, H!BytesAreKept, Holds
<1>2. Spec => []BytesInv
  BY BytesHold
<1> QED BY <1>1, <1>2, PTL

(***************************************************************************)
(* The set of pages.  The pages in the vector s are those of the set m,    *)
(* each of them once; what is between them are holes.                      *)
(***************************************************************************)
Entry  == 0 .. P!NO_DATA
Vector == Seq(Entry)

Lists(s, m) ==
  /\ s \in Vector
  /\ m = {s[i] : i \in P!Filled(s)}
  /\ \A i, j \in P!Filled(s) : s[i] = s[j] => i = j

InOrder(s) == \A i, j \in P!Filled(s) : i < j => s[i] < s[j]

SetInv ==
  /\ answered
  /\ Lists(data, members)
  /\ ~unsorted => InOrder(data)
  /\ ~unsorted /\ ~unshrinked => P!Filled(data) = DOMAIN data

\* A set of naturals that is not empty has a least element.
LEMMA LeastPlace ==
  ASSUME NEW S \in SUBSET Nat, S # {}
  PROVE  \E x \in S : \A y \in S : x <= y
<1> DEFINE R == OpToRel(<, Nat)
<1>1. \A x, y \in Nat : <<y, x>> \in R <=> y < x
  BY DEF OpToRel
<1>2. IsWellFoundedOn(R, Nat)
  BY NatLessThanWellFounded
<1> HIDE DEF R
<1>3. PICK x \in S : \A y \in S : ~ (<<y, x>> \in R)
  BY <1>2, WFMin
<1>4. \A y \in S : x <= y
  <2> TAKE y \in S
  <2>1. x \in Nat /\ y \in Nat /\ ~ (<<y, x>> \in R)
    BY <1>3
  <2> QED BY <1>1, <2>1
<1> QED BY <1>4

LEMMA PlacesOf ==
  ASSUME NEW S, NEW s \in Seq(S)
  PROVE  DOMAIN s = 1 .. Len(s) /\ Len(s) \in Nat /\ \A i \in 1 .. Len(s) : s[i] \in S
OBVIOUS

\* What is filled are places of the vector with a page in them.
LEMMA FilledIs ==
  ASSUME NEW s \in Vector
  PROVE  /\ P!Filled(s) \subseteq 1 .. Len(s) /\ DOMAIN s = 1 .. Len(s) /\ Len(s) \in Nat
         /\ \A i \in 1 .. Len(s) : i \in P!Filled(s) <=> s[i] # P!NO_DATA
         /\ \A i \in P!Filled(s) : s[i] \in P!Pages
         /\ IsFiniteSet(P!Filled(s)) /\ Cardinality(P!Filled(s)) \in Nat
         /\ Cardinality(P!Filled(s)) <= Len(s)
<1>1. DOMAIN s = 1 .. Len(s) /\ Len(s) \in Nat /\ \A i \in 1 .. Len(s) : s[i] \in Entry
  BY PlacesOf DEF Vector
<1>2. P!Filled(s) = {i \in 1 .. Len(s) : s[i] # P!NO_DATA}
  BY <1>1 DEF P!Filled, P!IsPage
<1>3. IsFiniteSet(1 .. Len(s)) /\ Cardinality(1 .. Len(s)) = Len(s)
  <2>1. 1 \in Int /\ Len(s) \in Int
    BY <1>1
  <2>2. IsFiniteSet(1 .. Len(s)) /\ Cardinality(1 .. Len(s)) = IF 1 > Len(s) THEN 0 ELSE Len(s) - 1 + 1
    BY <2>1, FS_Interval
  <2> QED BY <1>1, <2>2
<1>4. P!Filled(s) \in SUBSET (1 .. Len(s))
  BY <1>2
<1>5. IsFiniteSet(P!Filled(s)) /\ Cardinality(P!Filled(s)) <= Len(s)
  BY <1>3, <1>4, FS_Subset
<1>6. Cardinality(P!Filled(s)) \in Nat
  BY <1>5, FS_CardinalityType
<1>7. \A i \in P!Filled(s) : s[i] \in P!Pages
  BY <1>1, <1>2, PagesAssumption DEF Entry, P!Pages, P!NO_DATA
<1> QED BY <1>1, <1>2, <1>5, <1>6, <1>7

\* The pages before a place, in ascending order: each place has a rank of its own.
LEMMA RanksDiffer ==
  ASSUME NEW s \in Vector, NEW F, F = P!Filled(s), NEW i \in F, NEW j \in F,
         P!Before(s, i, j)
  PROVE  Cardinality({x \in F : P!Before(s, x, i)}) < Cardinality({x \in F : P!Before(s, x, j)})
<1> DEFINE A == {x \in F : P!Before(s, x, i)}
           B1 == {x \in F : P!Before(s, x, j)}
<1>1. \A x \in F : x \in Nat /\ s[x] \in Int
  BY FilledIs, PagesAssumption DEF P!Pages
<1>2. A \subseteq B1
  BY <1>1 DEF P!Before
<1>3. i \in B1 /\ i \notin A
  BY <1>1 DEF P!Before
<1>4. IsFiniteSet(F)
  BY FilledIs
<1>5. IsFiniteSet(B1)
  BY <1>4, FS_Subset
<1> HIDE DEF A, B1
<1>6. IsFiniteSet(A) /\ Cardinality(A) <= Cardinality(B1)
      /\ (Cardinality(B1) = Cardinality(A) => B1 = A)
  BY <1>2, <1>5, FS_Subset
<1>7. Cardinality(A) \in Nat /\ Cardinality(B1) \in Nat
  BY <1>5, <1>6, FS_CardinalityType
<1>8. Cardinality(A) < Cardinality(B1)
  BY <1>3, <1>6, <1>7
<1> QED BY <1>8 DEF A, B1

\* PageSet counts as the others do.
LEMMA SameCount == \A S : P!Cardinality(S) = Cardinality(S)
BY DEF P!Cardinality, Cardinality

\* sort(): the same pages, in order, and nothing else.
LEMMA SortedIs ==
  ASSUME NEW s \in Vector, NEW m, Lists(s, m), NEW t, t = P!Sorted(s)
  PROVE  Lists(t, m) /\ InOrder(t) /\ P!Filled(t) = DOMAIN t
<1> DEFINE F == P!Filled(s)
           n == Cardinality(F)
           rank(i) == Cardinality({j \in F : P!Before(s, j, i)})
           count(i) == P!Cardinality({j \in F : P!Before(s, j, i)})
           place(k) == CHOOSE i \in F : count(i) = k - 1
<1>1. /\ F \subseteq Nat /\ IsFiniteSet(F) /\ n \in Nat
      /\ \A i \in F : s[i] \in P!Pages /\ s[i] \in Int
  BY FilledIs, PagesAssumption DEF P!Pages
<1>2. t = [k \in 1 .. n |-> s[place(k)]]
  <2>1. t = [k \in 1 .. P!Cardinality(F) |-> s[place(k)]]
    BY DEF P!Sorted, P!Ascending
  <2> HIDE DEF place, F
  <2> QED BY <2>1, SameCount
<1>a. \A i : count(i) = rank(i)
  BY SameCount
<1>3. \A i, j \in F : P!Before(s, i, j) => rank(i) < rank(j)
  BY RanksDiffer
<1>4. \A i, j \in F : i # j => P!Before(s, i, j) \/ P!Before(s, j, i)
  BY <1>1 DEF P!Before
<1>5. \A i \in F : rank(i) \in 0 .. n - 1
  <2> TAKE i \in F
  <2> DEFINE A == {j \in F : P!Before(s, j, i)}
  <2>1. A \subseteq F /\ i \notin A
    BY <1>1 DEF P!Before
  <2> HIDE DEF A
  <2>2. IsFiniteSet(A) /\ Cardinality(A) <= n /\ (n = Cardinality(A) => F = A)
    BY <1>1, <2>1, FS_Subset
  <2>3. Cardinality(A) \in Nat
    BY <2>2, FS_CardinalityType
  <2>4. Cardinality(A) \in 0 .. n - 1
    BY <1>1, <2>1, <2>2, <2>3
  <2> QED BY <2>4 DEF A
<1> HIDE DEF rank, count, F
<1>b. \A i \in F : rank(i) \in Int
  BY <1>1, <1>5
<1>6. \A i, j \in F : rank(i) = rank(j) => i = j
  BY <1>1, <1>3, <1>4, <1>5
<1>7. \A k \in 1 .. n : \E i \in F : rank(i) = k - 1
  <2> DEFINE f == [i \in F |-> rank(i) + 1]
  <2>1. f \in [F -> 1 .. n]
    BY <1>1, <1>5
  <2>2. \A i, j \in F : f[i] = f[j] => i = j
    BY <1>1, <1>5, <1>6
  <2> HIDE DEF f
  <2>3. f \in Injection(F, 1 .. n)
    BY <2>1, <2>2 DEF Injection, IsInjective
  <2>4. IsFiniteSet(1 .. n) /\ Cardinality(1 .. n) = n
    <3>1. IsFiniteSet(1 .. n) /\ Cardinality(1 .. n) = IF 1 > n THEN 0 ELSE n - 1 + 1
      BY <1>1, FS_Interval
    <3> QED BY <1>1, <3>1
  <2>5. f \in Surjection(F, 1 .. n)
    BY <2>3, <2>4, FS_Injection
  <2>6. \A k \in 1 .. n : \E i \in F : f[i] = k
    BY <2>5 DEF Surjection
  <2>7. \A i \in F : f[i] = rank(i) + 1 /\ rank(i) \in Int
    BY <1>1, <1>5 DEF f
  <2>8. ASSUME NEW k \in 1 .. n
        PROVE  \E i \in F : rank(i) = k - 1
    <3>1. PICK i \in F : f[i] = k
      BY <2>6
    <3>2. rank(i) + 1 = k /\ rank(i) \in Int
      BY <2>7, <3>1
    <3> QED BY <3>2
  <2> QED BY <2>8
<1>8. \A k \in 1 .. n : place(k) \in F /\ rank(place(k)) = k - 1
  BY <1>a, <1>7
<1> HIDE DEF place, n
<1>9. \A i \in F : \E k \in 1 .. n : place(k) = i
  <2> TAKE i \in F
  <2>1. rank(i) + 1 \in 1 .. n
    BY <1>1, <1>5
  <2>2. rank(place(rank(i) + 1)) = rank(i) /\ place(rank(i) + 1) \in F
    BY <1>1, <1>5, <1>8, <2>1
  <2>3. place(rank(i) + 1) = i
    BY <1>6, <2>2
  <2> QED BY <2>1, <2>3
<1>10. \A k, l \in 1 .. n : k < l => P!Before(s, place(k), place(l))
  <2> SUFFICES ASSUME NEW k \in 1 .. n, NEW l \in 1 .. n, k < l
               PROVE  P!Before(s, place(k), place(l))
    OBVIOUS
  <2>1. rank(place(k)) < rank(place(l))
    BY <1>1, <1>8
  <2>2. place(k) \in F /\ place(l) \in F
    BY <1>8
  <2>3. rank(place(k)) \in Int /\ rank(place(l)) \in Int
    BY <1>b, <2>2
  <2>4. place(k) # place(l) /\ ~P!Before(s, place(l), place(k))
    BY <1>3, <2>1, <2>2, <2>3
  <2> QED BY <1>4, <2>2, <2>4
<1>11. \A k \in 1 .. n : t[k] = s[place(k)] /\ t[k] \in P!Pages
  BY <1>1, <1>2, <1>8
<1>12. \A k, l \in 1 .. n : k < l => t[k] < t[l]
  <2> SUFFICES ASSUME NEW k \in 1 .. n, NEW l \in 1 .. n, k < l
               PROVE  t[k] < t[l]
    OBVIOUS
  <2>1. P!Before(s, place(k), place(l)) /\ place(k) \in F /\ place(l) \in F
    BY <1>8, <1>10
  <2>2. s[place(k)] = s[place(l)] => place(k) = place(l)
    BY <2>1 DEF Lists, F
  <2>3. place(k) \in Nat /\ place(l) \in Nat
    BY <1>1, <2>1
  <2>4. s[place(k)] < s[place(l)]
    BY <2>1, <2>2, <2>3 DEF P!Before
  <2> QED BY <1>11, <2>4
<1>13. t \in Vector /\ DOMAIN t = 1 .. n
  <2>1. \A k \in 1 .. n : t[k] \in Entry
    BY <1>11, PagesAssumption DEF Entry, P!Pages, P!NO_DATA
  <2>2. DOMAIN t = 1 .. n /\ t = [k \in 1 .. n |-> t[k]]
    BY <1>2
  <2>3. t \in [1 .. n -> Entry]
    BY <2>1, <2>2
  <2> QED BY <1>1, <2>2, <2>3 DEF Vector
<1>14. P!Filled(t) = DOMAIN t
  BY <1>11, <1>13, PagesAssumption DEF P!Filled, P!IsPage, P!Pages, P!NO_DATA
<1>15. InOrder(t)
  BY <1>12, <1>13, <1>14 DEF InOrder
<1>16. m = {t[k] : k \in P!Filled(t)}
  <2>1. m = {s[i] : i \in F}
    BY DEF Lists, F
  <2> QED BY <1>8, <1>9, <1>11, <1>13, <1>14, <2>1
<1>17. \A k, l \in P!Filled(t) : t[k] = t[l] => k = l
  <2> SUFFICES ASSUME NEW k \in 1 .. n, NEW l \in 1 .. n, t[k] = t[l]
               PROVE  k = l
    BY <1>13, <1>14
  <2>1. t[k] \in Int /\ t[l] \in Int /\ k \in Int /\ l \in Int
    BY <1>11, PagesAssumption DEF P!Pages
  <2> QED BY <1>12, <2>1
<1> QED BY <1>13, <1>14, <1>15, <1>16, <1>17 DEF Lists

\* Where insert(), erase() and count() stop: before it are smaller pages only,
\* and if the page is there at all, it is there.
LEMMA StopIs ==
  ASSUME NEW s \in Vector, InOrder(s), NEW v \in P!Pages
  PROVE  /\ P!Stop(s, v) \subseteq P!Filled(s)
         /\ \A i \in P!Stop(s, v) : s[i] >= v /\ \A j \in P!Filled(s) : j < i => s[j] < v
         /\ \A i, j \in P!Stop(s, v) : i = j
         /\ P!Stop(s, v) = {} => \A j \in P!Filled(s) : s[j] < v
         /\ \A i \in P!Filled(s) : s[i] = v => i \in P!Stop(s, v)
<1> DEFINE F == P!Filled(s)
           S == P!Stop(s, v)
<1>1. /\ F \subseteq 1 .. Len(s) /\ DOMAIN s = 1 .. Len(s) /\ Len(s) \in Nat
      /\ \A i \in 1 .. Len(s) : i \in F <=> s[i] # P!NO_DATA
      /\ \A i \in F : s[i] \in P!Pages
  BY FilledIs
<1>2. v \in Int /\ \A i \in F : s[i] \in Int
  BY <1>1, PagesAssumption DEF P!Pages
<1>a. \A i \in F : i \in Nat /\ i >= 1
  BY <1>1
<1>3. \A i : i \in S <=> /\ i \in F /\ s[i] >= v
                         /\ \A j \in 1 .. i - 1 : j \notin F \/ s[j] < v
  <2>1. \A i : i \in S <=> /\ i \in 1 .. Len(s) /\ s[i] # P!NO_DATA /\ s[i] >= v
                           /\ \A j \in 1 .. i - 1 : s[j] = P!NO_DATA \/ s[j] < v
    BY <1>1 DEF P!Stop, P!IsPage
  <2>2. \A i \in 1 .. Len(s) : \A j \in 1 .. i - 1 : j \in 1 .. Len(s)
    BY <1>1
  <2> HIDE DEF F, S
  <2> QED BY <1>1, <2>1, <2>2
<1>4. \A i, j \in F : i < j => s[i] < s[j]
  BY DEF InOrder
<1> HIDE DEF F, S
<1>b. S \subseteq F
  BY <1>3
<1>5. \A i \in S : s[i] >= v /\ \A j \in F : j < i => s[j] < v
  <2> SUFFICES ASSUME NEW i \in S, NEW j \in F, j < i
               PROVE  s[j] < v
    BY <1>3
  <2>1. j \in 1 .. i - 1
    BY <1>a, <1>b
  <2> QED BY <1>3, <2>1
<1>6. \A i, j \in S : i = j
  <2> SUFFICES ASSUME NEW i \in S, NEW j \in S, i < j
               PROVE  FALSE
    BY <1>a, <1>b
  <2>1. i \in F /\ s[i] >= v /\ s[i] < v
    BY <1>b, <1>5
  <2> QED BY <1>2, <2>1
<1>7. ASSUME NEW k \in F, ~(s[k] < v)
      PROVE  S # {}
  <2> DEFINE T == {j \in F : s[j] >= v}
  <2>1. k \in T /\ T \in SUBSET Nat
    BY <1>a, <1>2, <1>7
  <2>2. PICK i \in T : \A j \in T : i <= j
    BY <2>1, LeastPlace
  <2>3. \A j \in 1 .. i - 1 : j \notin F \/ s[j] < v
    <3> SUFFICES ASSUME NEW j \in 1 .. i - 1, j \in F, ~(s[j] < v)
                 PROVE  FALSE
      OBVIOUS
    <3>1. j \in T
      BY <1>2
    <3>2. i <= j /\ i \in Nat
      BY <2>1, <2>2, <3>1
    <3> QED BY <3>2
  <2> QED BY <1>3, <2>2, <2>3
<1>8. ASSUME NEW i \in F, s[i] = v
      PROVE  i \in S
  <2>1. \A j \in 1 .. i - 1 : j \notin F \/ s[j] < v
    BY <1>1, <1>4, <1>8
  <2>2. s[i] >= v
    BY <1>2, <1>8
  <2> QED BY <1>3, <2>1, <2>2
<1> QED BY <1>b, <1>5, <1>6, <1>7, <1>8 DEF F, S

LEMMA FoundIs ==
  ASSUME NEW s \in Vector, NEW m, Lists(s, m), InOrder(s), NEW v \in P!Pages
  PROVE  P!Found(s, v) <=> v \in m
<1>1. P!Found(s, v) => v \in m
  BY StopIs DEF P!Found, Lists
<1>2. v \in m => P!Found(s, v)
  BY StopIs DEF P!Found, Lists
<1> QED BY <1>1, <1>2

\* t is s with v put in at the place k, and that is where v belongs
Inserted(t, s, k, v) ==
  /\ k \in 1 .. Len(s) + 1 /\ t \in Vector /\ Len(t) = Len(s) + 1 /\ t[k] = v
  /\ \A i \in 1 .. Len(s) : (i < k => t[i] = s[i]) /\ (i >= k => t[i + 1] = s[i])

Belongs(s, k, v) == \A i \in P!Filled(s) : IF i < k THEN s[i] < v ELSE v < s[i]

\* A page that is put between others, or at the end.
LEMMA InsertedLists ==
  ASSUME NEW s, NEW m, Lists(s, m), NEW v \in P!Pages, v \notin m,
         NEW k, NEW t, Inserted(t, s, k, v)
  PROVE  /\ Lists(t, m \cup {v})
         /\ InOrder(s) /\ Belongs(s, k, v) => InOrder(t)
         /\ P!Filled(s) = DOMAIN s => P!Filled(t) = DOMAIN t
<1> DEFINE F == P!Filled(s)
           G == P!Filled(t)
           to(i) == IF i < k THEN i ELSE i + 1
<1>a. /\ k \in 1 .. Len(s) + 1 /\ t \in Vector /\ Len(t) = Len(s) + 1 /\ t[k] = v
      /\ \A i \in 1 .. Len(s) : (i < k => t[i] = s[i]) /\ (i >= k => t[i + 1] = s[i])
  BY DEF Inserted
<1>1. s \in Vector /\ m = {s[i] : i \in F} /\ \A i, j \in F : s[i] = s[j] => i = j
  BY DEF Lists
<1>2. /\ F \subseteq 1 .. Len(s) /\ DOMAIN s = 1 .. Len(s) /\ Len(s) \in Nat
      /\ \A i \in 1 .. Len(s) : i \in F <=> s[i] # P!NO_DATA
      /\ \A i \in F : s[i] \in P!Pages
  BY <1>1, FilledIs
<1>3. /\ G \subseteq 1 .. Len(t) /\ DOMAIN t = 1 .. Len(t)
      /\ \A i \in 1 .. Len(t) : i \in G <=> t[i] # P!NO_DATA
  BY <1>a, FilledIs
<1>4. v \in Int /\ v # P!NO_DATA /\ \A i \in F : s[i] \in Int
  BY <1>2, PagesAssumption DEF P!Pages, P!NO_DATA
<1> HIDE DEF F, G
<1>5. \A i \in 1 .. Len(s) : to(i) \in 1 .. Len(t) /\ to(i) # k /\ t[to(i)] = s[i]
  BY <1>2, <1>a
<1>6. \A j \in 1 .. Len(t) : j # k => \E i \in 1 .. Len(s) : to(i) = j
  <2> SUFFICES ASSUME NEW j \in 1 .. Len(t), j # k
               PROVE  \E i \in 1 .. Len(s) : to(i) = j
    OBVIOUS
  <2>1. CASE j < k
    BY <1>2, <1>a, <2>1
  <2>2. CASE j > k
    <3>1. j - 1 \in 1 .. Len(s) /\ to(j - 1) = j
      BY <1>2, <1>a, <2>2
    <3> QED BY <3>1
  <2> QED BY <1>2, <1>a, <2>1, <2>2
<1>7. \A i, j \in 1 .. Len(s) : (i < j <=> to(i) < to(j)) /\ (i < k <=> to(i) < k)
                                /\ (to(i) > k <=> ~(i < k))
  BY <1>2, <1>a
<1> HIDE DEF to
<1>8. k \in G /\ k \in 1 .. Len(t)
  BY <1>2, <1>3, <1>4, <1>a
<1>9. \A i \in 1 .. Len(s) : i \in F <=> to(i) \in G
  BY <1>2, <1>3, <1>5
<1>10. \A j \in G : j = k \/ \E i \in F : to(i) = j
  BY <1>3, <1>6, <1>9
<1>11. m \cup {v} = {t[j] : j \in G}
  <2>1. \A x \in m \cup {v} : \E j \in G : t[j] = x
    BY <1>1, <1>2, <1>5, <1>8, <1>9, <1>a
  <2>2. \A j \in G : t[j] \in m \cup {v}
    BY <1>1, <1>2, <1>5, <1>10, <1>a
  <2> QED BY <2>1, <2>2
<1>12. \A i, j \in G : t[i] = t[j] => i = j
  <2>1. \A i \in F : t[to(i)] = s[i] /\ s[i] # v
    BY <1>1, <1>2, <1>5
  <2> QED BY <1>1, <1>10, <1>a, <2>1
<1>13. ASSUME InOrder(s), Belongs(s, k, v)
       PROVE  InOrder(t)
  <2>a. \A i \in F : IF i < k THEN s[i] < v ELSE v < s[i]
    BY <1>13 DEF Belongs, F
  <2> SUFFICES ASSUME NEW i \in G, NEW j \in G, i < j
               PROVE  t[i] < t[j]
    BY DEF InOrder, G
  <2>1. CASE i = k
    <3>1. PICK b \in F : to(b) = j
      BY <1>10, <2>1, <1>3
    <3>2. b \in 1 .. Len(s) /\ ~(b < k)
      BY <1>2, <1>7, <2>1, <3>1
    <3> QED BY <1>5, <1>a, <2>a, <2>1, <3>1, <3>2
  <2>2. CASE j = k
    <3>1. PICK a \in F : to(a) = i
      BY <1>10, <2>2, <1>3
    <3>2. a \in 1 .. Len(s) /\ a < k
      BY <1>2, <1>7, <2>2, <3>1
    <3> QED BY <1>5, <1>a, <2>a, <2>2, <3>1, <3>2
  <2>3. CASE i # k /\ j # k
    <3>1. PICK a \in F : to(a) = i
      BY <1>10, <2>3
    <3>2. PICK b \in F : to(b) = j
      BY <1>10, <2>3
    <3>3. a \in 1 .. Len(s) /\ b \in 1 .. Len(s) /\ a < b
      BY <1>2, <1>7, <3>1, <3>2
    <3>4. s[a] < s[b]
      BY <1>13, <3>3 DEF InOrder, F
    <3> QED BY <1>5, <3>1, <3>2, <3>3, <3>4
  <2> QED BY <2>1, <2>2, <2>3
<1>14. F = DOMAIN s => G = DOMAIN t
  <2> SUFFICES ASSUME F = 1 .. Len(s)
               PROVE  \A j \in 1 .. Len(t) : j \in G
    BY <1>2, <1>3
  <2> QED BY <1>6, <1>8, <1>9
<1> QED BY <1>a, <1>11, <1>12, <1>13, <1>14 DEF Lists, F, G

LEMMA AppendedLists ==
  ASSUME NEW s, NEW m, Lists(s, m), NEW v \in P!Pages, v \notin m, NEW t, t = Append(s, v)
  PROVE  /\ Lists(t, m \cup {v})
         /\ InOrder(s) /\ (\A i \in P!Filled(s) : s[i] < v) => InOrder(t)
         /\ P!Filled(s) = DOMAIN s => P!Filled(t) = DOMAIN t
<1> DEFINE k == Len(s) + 1
<1>1. s \in Vector /\ v \in Entry
  BY PagesAssumption DEF Lists, Entry, P!Pages, P!NO_DATA
<1>2. /\ t \in Vector /\ Len(t) = Len(s) + 1 /\ t[k] = v /\ Len(s) \in Nat
      /\ \A i \in 1 .. Len(s) : t[i] = s[i]
  BY <1>1 DEF Vector
<1>3. P!Filled(s) \subseteq 1 .. Len(s)
  BY <1>1, FilledIs
<1>4. Inserted(t, s, k, v)
  BY <1>2 DEF Inserted
<1>5. (\A i \in P!Filled(s) : s[i] < v) => Belongs(s, k, v)
  BY <1>2, <1>3 DEF Belongs
<1> HIDE DEF k
<1> QED BY <1>4, <1>5, InsertedLists, Zenon

LEMMA Joined ==
  ASSUME NEW S, NEW a \in Seq(S), NEW b \in Seq(S)
  PROVE  /\ a \o b \in Seq(S) /\ Len(a \o b) = Len(a) + Len(b)
         /\ \A i \in 1 .. Len(a) + Len(b) :
              (a \o b)[i] = IF i <= Len(a) THEN a[i] ELSE b[i - Len(a)]
OBVIOUS

LEMMA InsertAtIs ==
  ASSUME NEW s \in Vector, NEW k \in 1 .. Len(s), NEW v \in Entry, NEW t, t = P!InsertAt(s, k, v)
  PROVE  Inserted(t, s, k, v)
<1> DEFINE a == SubSeq(s, 1, k - 1)
           b == SubSeq(s, k, Len(s))
<1>1. t = a \o <<v>> \o b
  BY DEF P!InsertAt
<1>2. k \in Nat /\ k >= 1 /\ k <= Len(s) /\ Len(s) \in Nat /\ s \in Seq(Entry)
  BY DEF Vector
<1>3. a \in Seq(Entry) /\ Len(a) = k - 1 /\ \A i \in 1 .. k - 1 : a[i] = s[i]
  BY <1>2
<1>4. b \in Seq(Entry) /\ Len(b) = Len(s) - k + 1
      /\ \A i \in 1 .. Len(s) - k + 1 : b[i] = s[k + i - 1]
  BY <1>2
<1> HIDE DEF a, b
<1> DEFINE c == a \o <<v>>
<1>5. c \in Seq(Entry) /\ Len(c) = k /\ c[k] = v /\ \A i \in 1 .. k - 1 : c[i] = a[i]
  BY <1>2, <1>3
<1>6. t = c \o b
  BY <1>1
<1> HIDE DEF c
<1>7. t \in Seq(Entry) /\ Len(t) = Len(s) + 1
      /\ \A i \in 1 .. Len(s) + 1 : t[i] = IF i <= k THEN c[i] ELSE b[i - k]
  <2>1. /\ t \in Seq(Entry) /\ Len(t) = Len(c) + Len(b)
        /\ \A i \in 1 .. Len(c) + Len(b) : t[i] = IF i <= Len(c) THEN c[i] ELSE b[i - Len(c)]
    BY <1>4, <1>5, <1>6, Joined
  <2>2. Len(c) = k /\ Len(c) + Len(b) = Len(s) + 1
    BY <1>2, <1>4, <1>5
  <2>3. \A i \in 1 .. Len(s) + 1 : t[i] = IF i <= k THEN c[i] ELSE b[i - k]
    <3> TAKE i \in 1 .. Len(s) + 1
    <3>1. t[i] = IF i <= Len(c) THEN c[i] ELSE b[i - Len(c)]
      BY <2>1, <2>2
    <3> QED BY <2>2, <3>1
  <2> QED BY <2>1, <2>2, <2>3
<1>8. t[k] = v
  BY <1>2, <1>5, <1>7
<1>9. ASSUME NEW i \in 1 .. Len(s)
      PROVE  (i < k => t[i] = s[i]) /\ (i >= k => t[i + 1] = s[i])
  <2>1. CASE i < k
    <3>1. i \in 1 .. k - 1 /\ i \in 1 .. Len(s) + 1 /\ i <= k
      BY <1>2, <2>1
    <3> QED BY <1>3, <1>5, <1>7, <2>1, <3>1
  <2>2. CASE i >= k
    <3> DEFINE j == i + 1 - k
    <3>1. /\ i + 1 \in 1 .. Len(s) + 1 /\ ~(i + 1 <= k) /\ j \in 1 .. Len(s) - k + 1
          /\ k + j - 1 = i
      BY <1>2, <2>2
    <3>2. t[i + 1] = b[j]
      <4> DEFINE l == i + 1
      <4>1. l \in 1 .. Len(s) + 1 /\ ~(l <= k) /\ j = l - k
        BY <3>1
      <4> HIDE DEF l, j
      <4>2. t[l] = b[l - k]
        BY <1>7, <4>1
      <4> QED BY <4>1, <4>2 DEF l
    <3> HIDE DEF j
    <3>3. b[j] = s[i]
      BY <1>4, <3>1
    <3> QED BY <1>2, <2>2, <3>2, <3>3
  <2> QED BY <1>2, <2>1, <2>2
<1>10. k \in 1 .. Len(s) + 1
  BY <1>2
<1> QED BY <1>7, <1>8, <1>9, <1>10 DEF Vector, Inserted

\* A page that is put into a hole.
LEMMA HoleLists ==
  ASSUME NEW s, NEW m, Lists(s, m), NEW v \in P!Pages, v \notin m,
         NEW k \in 1 .. Len(s), s[k] = P!NO_DATA, NEW t, t = [s EXCEPT ![k] = v]
  PROVE  /\ Lists(t, m \cup {v})
         /\ InOrder(s) /\ Belongs(s, k, v) => InOrder(t)
         /\ P!Filled(s) = DOMAIN s => P!Filled(t) = DOMAIN t
<1> DEFINE F == P!Filled(s)
           G == P!Filled(t)
<1>1. s \in Vector /\ m = {s[i] : i \in F} /\ \A i, j \in F : s[i] = s[j] => i = j
  BY DEF Lists
<1>2. /\ F \subseteq 1 .. Len(s) /\ DOMAIN s = 1 .. Len(s) /\ Len(s) \in Nat
      /\ \A i \in 1 .. Len(s) : i \in F <=> s[i] # P!NO_DATA
  BY <1>1, FilledIs
<1>3. v \in Entry /\ v # P!NO_DATA
  BY PagesAssumption DEF Entry, P!Pages, P!NO_DATA
<1>4. /\ t \in Vector /\ Len(t) = Len(s) /\ t[k] = v
      /\ \A i \in 1 .. Len(s) : i # k => t[i] = s[i]
  BY <1>1, <1>3 DEF Vector
<1>5. /\ G \subseteq 1 .. Len(t)
      /\ \A i \in 1 .. Len(t) : i \in G <=> t[i] # P!NO_DATA
  BY <1>4, FilledIs
<1> HIDE DEF F, G
<1>6. k \notin F
  BY <1>2
<1>7. G = F \cup {k}
  BY <1>2, <1>3, <1>4, <1>5
<1>8. \A i \in F : t[i] = s[i] /\ s[i] # v /\ s[i] \in m
  BY <1>1, <1>2, <1>4, <1>6
<1>9. m \cup {v} = {t[j] : j \in G}
  BY <1>1, <1>4, <1>7, <1>8
<1>10. \A i, j \in G : t[i] = t[j] => i = j
  BY <1>1, <1>4, <1>7, <1>8
<1>11. ASSUME InOrder(s), Belongs(s, k, v)
       PROVE  InOrder(t)
  <2>a. \A i \in F : IF i < k THEN s[i] < v ELSE v < s[i]
    BY <1>11 DEF Belongs, F
  <2>1. \A i, j \in F : i < j => s[i] < s[j]
    BY <1>11 DEF InOrder, F
  <2>2. k \in Int /\ \A i \in F : i \in Int
    BY <1>2
  <2>3. \A i, j \in G : i < j => t[i] < t[j]
    BY <1>4, <1>7, <1>8, <2>a, <2>1, <2>2
  <2> QED BY <2>3 DEF InOrder, G
<1>12. ~(F = DOMAIN s)
  BY <1>2, <1>6
<1> QED BY <1>4, <1>9, <1>10, <1>11, <1>12 DEF Lists, F, G

\* A page that is taken out leaves a hole.
LEMMA EmptiedLists ==
  ASSUME NEW s, NEW m, Lists(s, m), NEW k \in P!Filled(s), NEW t,
         t = [s EXCEPT ![k] = P!NO_DATA]
  PROVE  /\ s[k] \in m /\ Lists(t, m \ {s[k]})
         /\ InOrder(s) => InOrder(t)
<1> DEFINE F == P!Filled(s)
           G == P!Filled(t)
<1>1. s \in Vector /\ m = {s[i] : i \in F} /\ \A i, j \in F : s[i] = s[j] => i = j
  BY DEF Lists
<1>2. /\ F \subseteq 1 .. Len(s) /\ DOMAIN s = 1 .. Len(s) /\ Len(s) \in Nat
      /\ \A i \in 1 .. Len(s) : i \in F <=> s[i] # P!NO_DATA
  BY <1>1, FilledIs
<1>3. P!NO_DATA \in Entry
  BY PagesAssumption DEF Entry, P!NO_DATA
<1>4. /\ t \in Vector /\ Len(t) = Len(s) /\ t[k] = P!NO_DATA
      /\ \A i \in 1 .. Len(s) : i # k => t[i] = s[i]
  BY <1>1, <1>2, <1>3 DEF Vector
<1>5. /\ G \subseteq 1 .. Len(t)
      /\ \A i \in 1 .. Len(t) : i \in G <=> t[i] # P!NO_DATA
  BY <1>4, FilledIs
<1>6. k \in F
  OBVIOUS
<1> HIDE DEF F, G
<1>7. G = F \ {k}
  BY <1>2, <1>4, <1>5, <1>6
<1>8. \A i \in G : t[i] = s[i]
  BY <1>2, <1>4, <1>7
<1>9. m \ {s[k]} = {t[j] : j \in G}
  BY <1>1, <1>6, <1>7, <1>8
<1>10. \A i, j \in G : t[i] = t[j] => i = j
  BY <1>1, <1>7, <1>8
<1>11. ASSUME InOrder(s)
       PROVE  InOrder(t)
  <2>1. \A i, j \in F : i < j => s[i] < s[j]
    BY <1>11 DEF InOrder, F
  <2>2. \A i, j \in G : i < j => t[i] < t[j]
    BY <1>7, <1>8, <2>1
  <2> QED BY <2>2 DEF InOrder, G
<1> QED BY <1>1, <1>4, <1>6, <1>9, <1>10, <1>11 DEF Lists, F, G

\* insert() of a page into a vector in order.
Added(s, v) ==
  IF P!Found(s, v) THEN s
  ELSE IF P!Stop(s, v) = {} THEN Append(s, v)
  ELSE P!Placed(s, CHOOSE i \in P!Stop(s, v) : TRUE, v)

LEMMA InsertKeeps ==
  ASSUME NEW s, NEW m, Lists(s, m), InOrder(s), NEW v \in P!Pages
  PROVE  /\ Lists(Added(s, v), m \cup {v}) /\ InOrder(Added(s, v))
         /\ P!Filled(s) = DOMAIN s => P!Filled(Added(s, v)) = DOMAIN Added(s, v)
<1> DEFINE t == Added(s, v)
<1>1. s \in Vector /\ v \in Entry /\ v \in Int
  BY PagesAssumption DEF Lists, Entry, P!Pages, P!NO_DATA
<1>2. P!Found(s, v) <=> v \in m
  BY <1>1, FoundIs
<1>3. CASE P!Found(s, v)
  <2>1. t = s /\ m \cup {v} = m
    BY <1>2, <1>3 DEF Added
  <2> QED BY <2>1
<1>4. CASE ~P!Found(s, v) /\ P!Stop(s, v) = {}
  <2>1. t = Append(s, v) /\ v \notin m
    BY <1>2, <1>4 DEF Added
  <2>2. \A i \in P!Filled(s) : s[i] < v
    BY <1>1, <1>4, StopIs
  <2> QED BY <2>1, <2>2, AppendedLists
<1>5. CASE ~P!Found(s, v) /\ P!Stop(s, v) # {}
  <2> DEFINE k == CHOOSE i \in P!Stop(s, v) : TRUE
  <2>1. k \in P!Stop(s, v) /\ t = P!Placed(s, k, v) /\ v \notin m
    BY <1>2, <1>5 DEF Added
  <2> HIDE DEF k
  <2>2. /\ k \in P!Filled(s) /\ s[k] >= v
        /\ \A j \in P!Filled(s) : j < k => s[j] < v
    BY <1>1, <2>1, StopIs
  <2>3. /\ P!Filled(s) \subseteq 1 .. Len(s) /\ Len(s) \in Nat
        /\ \A i \in P!Filled(s) : s[i] \in Int /\ s[i] \in m
        /\ \A i \in 1 .. Len(s) : i \in P!Filled(s) <=> s[i] # P!NO_DATA
    BY <1>1, FilledIs, PagesAssumption DEF P!Pages, Lists
  <2>4. s[k] > v
    <3>1. s[k] # v
      BY <2>1, <2>2, <2>3
    <3> QED BY <1>1, <2>2, <2>3, <3>1
  <2>5. \A j \in P!Filled(s) : IF j < k THEN s[j] < v ELSE v < s[j]
    <3> SUFFICES ASSUME NEW j \in P!Filled(s), ~(j < k)
                 PROVE  v < s[j]
      BY <2>2
    <3>1. j \in Int /\ k \in Int /\ s[j] \in Int /\ s[k] \in Int
      BY <2>2, <2>3
    <3>2. k < j => s[k] < s[j]
      BY <2>2 DEF InOrder
    <3>3. j = k \/ k < j
      BY <3>1
    <3> QED BY <1>1, <2>4, <3>1, <3>2, <3>3
  <2>6. CASE k > 1 /\ s[k - 1] = P!NO_DATA
    <3> DEFINE l == k - 1
    <3>1. l \in 1 .. Len(s) /\ s[l] = P!NO_DATA /\ t = [s EXCEPT ![l] = v]
      <4>1. k \in 1 .. Len(s)
        BY <2>2, <2>3
      <4>2. l \in 1 .. Len(s)
        BY <2>3, <2>6, <4>1
      <4>3. t = [s EXCEPT ![l] = v]
        BY <2>1, <2>6 DEF P!Placed
      <4> QED BY <2>6, <4>2, <4>3
    <3>2. Belongs(s, l, v)
      <4> SUFFICES ASSUME NEW j \in P!Filled(s)
                   PROVE  IF j < l THEN s[j] < v ELSE v < s[j]
        BY DEF Belongs
      <4>1. j # l /\ j \in Int /\ k \in Int
        BY <2>2, <2>3, <3>1
      <4>2. j < l <=> j < k
        BY <4>1
      <4> QED BY <2>5, <4>2
    <3> HIDE DEF l
    <3> QED BY <2>1, <3>1, <3>2, HoleLists
  <2>7. CASE ~(k > 1 /\ s[k - 1] = P!NO_DATA)
    <3>1. t = P!InsertAt(s, k, v) /\ k \in 1 .. Len(s)
      BY <2>1, <2>2, <2>3, <2>7 DEF P!Placed
    <3>2. Inserted(t, s, k, v)
      BY <1>1, <3>1, InsertAtIs
    <3>3. Belongs(s, k, v)
      BY <2>5 DEF Belongs
    <3> QED BY <2>1, <3>2, <3>3, InsertedLists
  <2> QED BY <2>6, <2>7
<1> QED BY <1>3, <1>4, <1>5

\* erase() of a page from a vector in order.
LEMMA EraseKeeps ==
  ASSUME NEW s, NEW m, Lists(s, m), InOrder(s), NEW v \in P!Pages, NEW t,
         t = [i \in DOMAIN s |-> IF i \in P!Stop(s, v) /\ s[i] = v THEN P!NO_DATA ELSE s[i]]
  PROVE  /\ Lists(t, m \ {v}) /\ InOrder(t)
         /\ ~P!Found(s, v) => t = s
<1>1. s \in Vector /\ DOMAIN s = 1 .. Len(s)
  BY FilledIs DEF Lists
<1>2. P!Found(s, v) <=> v \in m
  BY <1>1, FoundIs
<1>3. s = [i \in DOMAIN s |-> s[i]]
  BY <1>1 DEF Vector
<1>4. CASE P!Found(s, v)
  <2>1. PICK k \in P!Stop(s, v) : s[k] = v
    BY <1>4 DEF P!Found
  <2>2. k \in P!Filled(s) /\ \A i \in P!Stop(s, v) : i = k
    BY <1>1, <2>1, StopIs
  <2>3. t = [s EXCEPT ![k] = P!NO_DATA]
    <3>1. \A i \in DOMAIN s : (i \in P!Stop(s, v) /\ s[i] = v) <=> i = k
      BY <2>1, <2>2
    <3>2. t = [i \in DOMAIN s |-> IF i = k THEN P!NO_DATA ELSE s[i]]
      BY <3>1
    <3>3. [s EXCEPT ![k] = P!NO_DATA] = [i \in DOMAIN s |-> IF i = k THEN P!NO_DATA ELSE s[i]]
      BY <1>3
    <3> QED BY <3>2, <3>3
  <2> QED BY <1>4, <2>1, <2>2, <2>3, EmptiedLists
<1>5. CASE ~P!Found(s, v)
  <2>1. \A i \in DOMAIN s : ~(i \in P!Stop(s, v) /\ s[i] = v)
    BY <1>5 DEF P!Found
  <2>2. t = [i \in DOMAIN s |-> s[i]]
    BY <2>1
  <2>3. t = s /\ m \ {v} = m
    BY <1>2, <1>3, <1>5, <2>2
  <2> QED BY <2>3
<1> QED BY <1>4, <1>5

\* What insert(), erase() and count() work on, and what empty() leaves.
LEMMA OrderedIs ==
  ASSUME SetInv
  PROVE  /\ Lists(P!Ordered, members) /\ InOrder(P!Ordered)
         /\ unsorted \/ ~unshrinked => P!Filled(P!Ordered) = DOMAIN P!Ordered
<1>1. data \in Vector /\ Lists(data, members)
  BY DEF SetInv, Lists
<1>2. CASE unsorted
  <2>1. P!Ordered = P!Sorted(data)
    BY <1>2 DEF P!Ordered
  <2> QED BY <1>1, <2>1, SortedIs
<1>3. CASE ~unsorted
  <2>1. P!Ordered = data
    BY <1>3 DEF P!Ordered
  <2> QED BY <1>3, <2>1 DEF SetInv
<1> QED BY <1>2, <1>3

LEMMA ClearedIs ==
  ASSUME SetInv
  PROVE  /\ Lists(P!Cleared, members) /\ InOrder(P!Cleared)
         /\ P!Filled(P!Cleared) = DOMAIN P!Cleared
<1>1. data \in Vector /\ Lists(data, members)
  BY DEF SetInv, Lists
<1>2. CASE unsorted \/ unshrinked
  <2>1. P!Cleared = P!Sorted(data)
    BY <1>2 DEF P!Cleared
  <2> QED BY <1>1, <2>1, SortedIs
<1>3. CASE ~(unsorted \/ unshrinked)
  <2>1. P!Cleared = data
    BY <1>3 DEF P!Cleared
  <2> QED BY <1>3, <2>1 DEF SetInv
<1> QED BY <1>2, <1>3

LEMMA NothingListed ==
  /\ Lists(<<>>, {}) /\ InOrder(<<>>) /\ P!Filled(<<>>) = DOMAIN <<>>
<1>1. <<>> \in Vector /\ Len(<<>>) = 0
  BY DEF Vector
<1>2. P!Filled(<<>>) = {} /\ DOMAIN <<>> = {}
  BY <1>1, FilledIs
<1> QED BY <1>1, <1>2 DEF Lists, InOrder

LEMMA SetStarts == Init => SetInv
<1> SUFFICES ASSUME P!Init
             PROVE  SetInv
  BY DEF Init
<1> QED BY NothingListed DEF P!Init, SetInv

LEMMA SetKept == SetInv /\ [Next]_vars => SetInv'
<1> SUFFICES ASSUME SetInv, P!Next \/ UNCHANGED pageset
             PROVE  SetInv'
  BY DEF Next, vars, pageset
<1>0. answered /\ Lists(data, members)
  BY DEF SetInv
<1>1. ASSUME NEW v \in P!Pages, P!unordered_insert(v)
      PROVE  SetInv'
  <2>1. /\ v \notin members /\ data' = Append(data, v) /\ unsorted'
        /\ members' = members \cup {v} /\ answered' = answered
    BY <1>1 DEF P!unordered_insert
  <2>2. Lists(data', members')
    BY <1>0, <2>1, AppendedLists
  <2> QED BY <1>0, <2>1, <2>2 DEF SetInv, Lists, InOrder
<1>2. ASSUME NEW v \in P!Pages, P!insert(v)
      PROVE  SetInv'
  <2> DEFINE s == P!Ordered
  <2>1. /\ data' = Added(s, v)
        /\ ~unsorted' /\ (~unshrinked' => unsorted \/ ~unshrinked)
        /\ members' = members \cup {v} /\ answered' = answered
    BY <1>2 DEF P!insert, P!Now, Added
  <2>2. /\ Lists(s, members) /\ InOrder(s)
        /\ unsorted \/ ~unshrinked => P!Filled(s) = DOMAIN s
    BY OrderedIs
  <2> HIDE DEF s
  <2>3. /\ Lists(data', members') /\ InOrder(data')
        /\ P!Filled(s) = DOMAIN s => P!Filled(data') = DOMAIN data'
    BY <2>1, <2>2, InsertKeeps
  <2> QED BY <1>0, <2>1, <2>2, <2>3 DEF SetInv
<1>3. ASSUME NEW v \in P!Pages, P!erase(v)
      PROVE  SetInv'
  <2> DEFINE s == P!Ordered
  <2>1. /\ data' = [i \in DOMAIN s |-> IF i \in P!Stop(s, v) /\ s[i] = v THEN P!NO_DATA ELSE s[i]]
        /\ ~unsorted' /\ (~unshrinked' => ~P!Found(s, v) /\ (unsorted \/ ~unshrinked))
        /\ members' = members \ {v}
        /\ answered' = (answered /\ (P!Found(s, v) <=> v \in members))
    BY <1>3 DEF P!erase, P!Now, P!Answer
  <2>2. /\ Lists(s, members) /\ InOrder(s)
        /\ unsorted \/ ~unshrinked => P!Filled(s) = DOMAIN s
    BY OrderedIs
  <2> HIDE DEF s
  <2>3. /\ Lists(data', members') /\ InOrder(data')
        /\ ~P!Found(s, v) => data' = s
    BY <2>1, <2>2, EraseKeeps
  <2>4. P!Found(s, v) <=> v \in members
    BY <2>2, FoundIs DEF Lists
  <2> QED BY <1>0, <2>1, <2>2, <2>3, <2>4 DEF SetInv
<1>4. ASSUME NEW v \in P!Pages, P!count(v)
      PROVE  SetInv'
  <2>1. /\ data' = P!Ordered /\ ~unsorted' /\ (~unshrinked' => unsorted \/ ~unshrinked)
        /\ members' = members
        /\ answered' = (answered /\ (P!Found(P!Ordered, v) <=> v \in members))
    BY <1>4 DEF P!count, P!Now, P!Answer
  <2>2. /\ Lists(P!Ordered, members) /\ InOrder(P!Ordered)
        /\ unsorted \/ ~unshrinked => P!Filled(P!Ordered) = DOMAIN P!Ordered
    BY OrderedIs
  <2>3. P!Found(P!Ordered, v) <=> v \in members
    BY <2>2, FoundIs DEF Lists
  <2> QED BY <1>0, <2>1, <2>2, <2>3 DEF SetInv
<1>5. ASSUME P!empty
      PROVE  SetInv'
  <2>1. /\ data' = P!Cleared /\ ~unsorted' /\ members' = members
        /\ answered' = (answered /\ (P!Cleared = <<>> <=> members = {}))
    BY <1>5 DEF P!empty, P!Answer
  <2>2. /\ Lists(P!Cleared, members) /\ InOrder(P!Cleared)
        /\ P!Filled(P!Cleared) = DOMAIN P!Cleared
    BY ClearedIs
  <2>3. P!Cleared = <<>> <=> members = {}
    <3> DEFINE s == P!Cleared
    <3>1. /\ s \in Seq(Entry) /\ DOMAIN s = 1 .. Len(s) /\ Len(s) \in Nat
          /\ members = {s[i] : i \in 1 .. Len(s)}
      BY <2>2, FilledIs DEF Lists, Vector
    <3> HIDE DEF s
    <3>2. s = <<>> <=> Len(s) = 0
      BY <3>1
    <3>3. Len(s) # 0 => 1 \in 1 .. Len(s)
      BY <3>1
    <3>4. Len(s) = 0 => 1 .. Len(s) = {}
      BY <3>1
    <3> QED BY <3>1, <3>2, <3>3, <3>4 DEF s
  <2> QED BY <1>0, <2>1, <2>2, <2>3 DEF SetInv
<1>6. ASSUME P!allocate
      PROVE  SetInv'
  <2> DEFINE s == P!Cleared
  <2>1. PICK i \in DOMAIN s :
          /\ data' = [s EXCEPT ![i] = P!NO_DATA]
          /\ members' = members \ {s[i]}
          /\ answered' = (answered /\ s[i] \in members)
    BY <1>6 DEF P!allocate, P!Answer
  <2>2. ~unsorted' /\ unshrinked'
    BY <1>6 DEF P!allocate
  <2>3. Lists(s, members) /\ InOrder(s) /\ P!Filled(s) = DOMAIN s
    BY ClearedIs
  <2> HIDE DEF s
  <2>4. s[i] \in members /\ Lists(data', members') /\ InOrder(data')
    BY <2>1, <2>3, EmptiedLists
  <2> QED BY <1>0, <2>1, <2>2, <2>4 DEF SetInv
<1>7. ASSUME P!clear
      PROVE  SetInv'
  BY <1>0, <1>7, NothingListed DEF P!clear, SetInv
<1>8. ASSUME UNCHANGED pageset
      PROVE  SetInv'
  BY <1>8 DEF pageset, SetInv, Lists, InOrder, P!Filled, P!IsPage
<1> QED BY <1>1, <1>2, <1>3, <1>4, <1>5, <1>6, <1>7, <1>8 DEF P!Next

LEMMA SetHolds == Spec => []SetInv
<1>1. Init => SetInv
  BY SetStarts
<1>2. SetInv /\ [Next]_vars => SetInv'
  BY SetKept
<1> QED BY <1>1, <1>2, PTL DEF Spec

\* There are as many pages as places with a page.
LEMMA AsMany ==
  ASSUME NEW s, NEW m, Lists(s, m)
  PROVE  Cardinality(m) = Cardinality(P!Filled(s))
<1> DEFINE F == P!Filled(s)
           f == [i \in F |-> s[i]]
<1>1. IsFiniteSet(F) /\ m = {s[i] : i \in F} /\ \A i, j \in F : s[i] = s[j] => i = j
  BY FilledIs DEF Lists
<1> HIDE DEF F
<1>2. f \in Surjection(F, m)
  <2>1. f \in [F -> m]
    BY <1>1
  <2>2. \A x \in m : \E i \in F : f[i] = x
    BY <1>1
  <2> QED BY <2>1, <2>2 DEF Surjection
<1>3. \A i, j \in F : f[i] = f[j] => i = j
  BY <1>1
<1> HIDE DEF f
<1>4. Cardinality(m) = Cardinality(F) <=> f \in Injection(F, m)
  BY <1>1, <1>2, FS_Surjection
<1>5. f \in [F -> m]
  BY <1>2 DEF Surjection
<1>6. f \in Injection(F, m)
  BY <1>3, <1>5 DEF Injection, IsInjective
<1> QED BY <1>4, <1>6 DEF F

(***************************************************************************)
(* Whatever calls are made in whatever order, the vector with its holes    *)
(* and its unsorted end answers as the set does: empty(), count() and      *)
(* erase() say what is in it, size() counts it, get_sorted_data() lists    *)
(* it, and allocate_free_data_page() takes a page that is in it            *)
(* (SimpleFlashFsPageSet.h), for any number of pages.                      *)
(***************************************************************************)
THEOREM PagesActAsSet == Spec => []ActsAsSet
<1>1. SetInv => ActsAsSet
  <2> SUFFICES ASSUME SetInv
               PROVE  ActsAsSet
    OBVIOUS
  <2> DEFINE g == P!get_sorted_data
  <2>1. data \in Vector /\ Lists(data, members) /\ answered
    BY DEF SetInv, Lists
  <2>2. P!size = Cardinality(members)
    <3>1. Cardinality(members) = Cardinality(P!Filled(data))
      BY <2>1, AsMany
    <3>2. CASE ~unsorted /\ ~unshrinked
      <4>1. P!Filled(data) = 1 .. Len(data) /\ Len(data) \in Nat
        BY <2>1, <3>2, FilledIs DEF SetInv
      <4>2. Cardinality(1 .. Len(data)) = Len(data)
        <5>1. 1 \in Int /\ Len(data) \in Int
          BY <4>1
        <5>2. Cardinality(1 .. Len(data)) = IF 1 > Len(data) THEN 0 ELSE Len(data) - 1 + 1
          BY <5>1, FS_Interval
        <5> QED BY <4>1, <5>2
      <4>3. P!size = Len(data)
        BY <3>2 DEF P!size
      <4> QED BY <3>1, <4>1, <4>2, <4>3
    <3>3. CASE ~(~unsorted /\ ~unshrinked)
      <4>1. P!size = P!Cardinality(P!Filled(data))
        BY <3>3 DEF P!size
      <4> QED BY <3>1, <4>1, SameCount
    <3> QED BY <3>2, <3>3
  <2>3. Lists(g, members) /\ InOrder(g) /\ P!Filled(g) = DOMAIN g
    BY <2>1, SortedIs DEF P!get_sorted_data
  <2>4. /\ {g[i] : i \in DOMAIN g} = members
        /\ \A i, j \in DOMAIN g : i < j => g[i] < g[j]
    <3> HIDE DEF g
    <3> QED BY <2>3 DEF Lists, InOrder
  <2>5. P!size = P!Cardinality(members)
    BY <2>2, SameCount
  <2> QED BY <2>1, <2>4, <2>5 DEF ActsAsSet, P!ActsAsSet
<1>2. Spec => []SetInv
  BY SetHolds
<1> QED BY <1>1, <1>2, PTL

LEMMA JoinedTwice ==
  ASSUME NEW S, NEW a \in Seq(S), NEW b \in Seq(S), NEW c \in Seq(S)
  PROVE  /\ (a \o b) \o c \in Seq(S)
         /\ Len((a \o b) \o c) = Len(a) + Len(b) + Len(c)
         /\ \A i \in 1 .. Len(a) : ((a \o b) \o c)[i] = a[i]
         /\ \A i \in 1 .. Len(b) : ((a \o b) \o c)[Len(a) + i] = b[i]
         /\ \A i \in 1 .. Len(c) : ((a \o b) \o c)[Len(a) + Len(b) + i] = c[i]
<1> DEFINE d == a \o b
           e == d \o c
<1>1. d \in Seq(S) /\ Len(d) = Len(a) + Len(b)
      /\ \A i \in 1 .. Len(a) + Len(b) : d[i] = IF i <= Len(a) THEN a[i] ELSE b[i - Len(a)]
  BY Joined
<1> HIDE DEF d
<1>2. e \in Seq(S) /\ Len(e) = Len(d) + Len(c)
      /\ \A i \in 1 .. Len(d) + Len(c) : e[i] = IF i <= Len(d) THEN d[i] ELSE c[i - Len(d)]
  <2>1. d \in Seq(S)
    BY <1>1
  <2> QED BY <2>1, Joined, Zenon
<1>3. Len(a) \in Nat /\ Len(b) \in Nat /\ Len(c) \in Nat
  OBVIOUS
<1> HIDE DEF e
<1>4. ASSUME NEW i \in 1 .. Len(a)
      PROVE  e[i] = a[i]
  <2>1. i \in 1 .. Len(a) + Len(b) /\ i \in 1 .. Len(d) + Len(c) /\ i <= Len(d)
    BY <1>1, <1>3
  <2> QED BY <1>1, <1>2, <2>1
<1>5. ASSUME NEW i \in 1 .. Len(b)
      PROVE  e[Len(a) + i] = b[i]
  <2> DEFINE j == Len(a) + i
  <2>1. j \in 1 .. Len(a) + Len(b) /\ j \in 1 .. Len(d) + Len(c) /\ j <= Len(d)
        /\ ~(j <= Len(a)) /\ j - Len(a) = i
    BY <1>1, <1>3
  <2> HIDE DEF j
  <2>2. e[j] = b[i]
    BY <1>1, <1>2, <2>1
  <2> QED BY <2>2 DEF j
<1>6. ASSUME NEW i \in 1 .. Len(c)
      PROVE  e[Len(a) + Len(b) + i] = c[i]
  <2> DEFINE j == Len(a) + Len(b) + i
  <2>1. j \in 1 .. Len(d) + Len(c) /\ ~(j <= Len(d)) /\ j - Len(d) = i
    BY <1>1, <1>3
  <2> HIDE DEF j
  <2>2. e[j] = c[i]
    BY <1>2, <2>1
  <2> QED BY <2>2 DEF j
<1>7. Len(e) = Len(a) + Len(b) + Len(c)
  BY <1>1, <1>2
<1> QED BY <1>2, <1>4, <1>5, <1>6, <1>7 DEF d, e

\* The passes of insert()'s loop, and the file once enough of them are made.
Passes(g, f, pos, text) ==
  g = [i \in Nat |-> IF i = 0 THEN [done |-> SubSeq(f, 1, pos), chunk |-> text]
                     ELSE I!Step(f, g[i - 1], Len(f) + Len(text))]

After(g, f, text) ==
  LET new == g[(Len(f) + Len(text)) \div Buffer + 2].done
  IN new \o SubSeq(f, Len(new) + 1, Len(f))

\* insert(): two passes suffice for the entry and for what is behind it.
LEMMA InsertSteps ==
  ASSUME NEW f, NEW pos, NEW text, NEW g, Passes(g, f, pos, text)
  PROVE  \E h : Passes(h, f, pos, text) /\ I!Insert(f, pos, text) = After(h, f, text)
<1> DEFINE size == Len(f) + Len(text)
           start == [done |-> SubSeq(f, 1, pos), chunk |-> text]
           h == CHOOSE h : h = [i \in Nat |-> IF i = 0 THEN [done |-> SubSeq(f, 1, pos), chunk |-> text] ELSE I!Step(f, h[i - 1], size)]
           new  == h[size \div Buffer + 2].done
<1>1. h = [i \in Nat |-> IF i = 0 THEN start ELSE I!Step(f, h[i - 1], size)]
  BY DEF Passes
<1>2. I!Insert(f, pos, text) = new \o SubSeq(f, Len(new) + 1, Len(f))
  BY Zenon DEF I!Insert
<1> HIDE DEF h
<1>3. Passes(h, f, pos, text)
  BY <1>1 DEF Passes
<1>4. I!Insert(f, pos, text) = After(h, f, text)
  BY <1>2, Zenon DEF After
<1> QED BY <1>3, <1>4

\* Once a step changes nothing, no later one does.
LEMMA StepsEnd ==
  ASSUME NEW h, NEW last, h[2] = last,
         \A i \in Nat : i > 2 /\ h[i - 1] = last => h[i] = last,
         NEW n \in Nat, n >= 2
  PROVE  h[n] = last
<1> DEFINE S == {i \in Nat : i >= 2 /\ h[i] # last}
<1>1. SUFFICES ASSUME S # {}
               PROVE  FALSE
  OBVIOUS
<1>2. S \in SUBSET Nat
  OBVIOUS
<1> HIDE DEF S
<1>3. PICK i \in S : \A j \in S : i <= j
  BY <1>1, <1>2, LeastPlace
<1> USE DEF S
<1>4. i \in Nat /\ i > 2 /\ h[i] # last
  BY <1>3
<1>5. i - 1 \in Nat /\ i - 1 >= 2 /\ i - 1 \notin S
  BY <1>3, <1>4
<1> QED BY <1>4, <1>5

\* The buffers behind the text: the first one has all of it.
LEMMA PieceIs ==
  ASSUME NEW S, NEW f \in Seq(S), NEW pos \in 0 .. Len(f), Len(f) - pos <= Buffer,
         Buffer \in Nat
  PROVE  I!Piece(f, pos) = SubSeq(f, pos + 1, Len(f))
<1>1. CASE pos + Buffer < Len(f)
  BY <1>1
<1>2. CASE ~(pos + Buffer < Len(f))
  BY <1>2 DEF I!Piece
<1> QED BY <1>1, <1>2

LEMMA InsertShifts ==
  ASSUME NEW S, NEW f \in Seq(S), NEW pos \in 0 .. Len(f), NEW text \in Seq(S),
         text # <<>> => Len(f) - pos <= Buffer, Buffer \in Nat \ {0}
  PROVE  I!Insert(f, pos, text) = SubSeq(f, 1, pos) \o text \o SubSeq(f, pos + 1, Len(f))
<1> DEFINE size == Len(f) + Len(text)
           pre == SubSeq(f, 1, pos)
           rest == SubSeq(f, pos + 1, Len(f))
           v0 == [done |-> pre, chunk |-> text]
           v1 == I!Step(f, v0, size)
           v2 == I!Step(f, v1, size)
           h1(i) == IF i = 0 THEN v0 ELSE IF i = 1 THEN v1 ELSE v2
           h == [i \in Nat |-> h1(i)]
<1>1. /\ Len(f) \in Nat /\ Len(text) \in Nat /\ pos \in Nat /\ pos <= Len(f) /\ size \in Nat
      /\ pre \in Seq(S) /\ rest \in Seq(S) /\ Len(pre) = pos /\ Len(rest) = Len(f) - pos
  OBVIOUS
<1> HIDE DEF pre, rest
<1>2. pre \o text \in Seq(S) /\ Len(pre \o text) = pos + Len(text)
  BY <1>1, Joined
<1>3. /\ (pre \o text) \o rest \in Seq(S)
      /\ Len((pre \o text) \o rest) = size
  <2>1. pre \in Seq(S) /\ rest \in Seq(S)
    BY <1>1
  <2>2. /\ (pre \o text) \o rest \in Seq(S)
        /\ Len((pre \o text) \o rest) = Len(pre) + Len(text) + Len(rest)
    BY <2>1, JoinedTwice
  <2>3. Len(pre) + Len(text) + Len(rest) = size
    BY <1>1
  <2> QED BY <2>2, <2>3
<1>4. /\ v2.chunk = <<>> \/ Len(v2.done) >= size
      /\ v2.done \o SubSeq(f, Len(v2.done) + 1, Len(f)) = (pre \o text) \o rest
  <2>1. CASE text = <<>>
    <3>1. v1 = v0 /\ v2 = v0
      BY <2>1 DEF I!Step
    <3>2. v0.done = pre /\ v0.chunk = <<>> /\ pre \o text = pre
      BY <1>1, <2>1
    <3>3. SubSeq(f, Len(pre) + 1, Len(f)) = rest
      BY <1>1 DEF rest
    <3> QED BY <3>1, <3>2, <3>3
  <2>2. CASE text # <<>>
    <3>1. Len(text) > 0
      BY <2>2, <1>1
    <3>2. v1 = [done |-> pre \o text, chunk |-> rest]
      <4>1. ~(text = <<>> \/ Len(pre) >= size)
        BY <1>1, <3>1
      <4>2. v1 = [done |-> pre \o text, chunk |-> I!Piece(f, Len(pre))]
        BY <4>1 DEF I!Step
      <4> QED BY <1>1, <2>2, <4>2, PieceIs DEF rest
    <3>3. CASE rest = <<>>
      <4>1. pos = Len(f)
        BY <1>1, <3>3
      <4>2. v2 = v1
        BY <3>2, <3>3 DEF I!Step
      <4>3. v2.done = pre \o text /\ v2.chunk = <<>>
        BY <3>2, <3>3, <4>2
      <4>4. SubSeq(f, Len(pre \o text) + 1, Len(f)) = <<>>
        BY <1>1, <1>2, <4>1
      <4> QED BY <3>3, <4>3, <4>4
    <3>4. CASE rest # <<>>
      <4>1. Len(rest) > 0
        BY <1>1, <3>4
      <4>2. ~(rest = <<>> \/ Len(pre \o text) >= size)
        BY <1>1, <1>2, <3>4, <4>1
      <4>3. v2.done = (pre \o text) \o rest
        BY <3>2, <4>2 DEF I!Step
      <4>4. SubSeq(f, size + 1, Len(f)) = <<>>
        BY <1>1
      <4>5. ((pre \o text) \o rest) \o <<>> = (pre \o text) \o rest
        BY <1>3
      <4> HIDE DEF v2
      <4>6. Len(v2.done) = size
        BY <1>3, <4>3
      <4>7. Len(v2.done) >= size
        BY <1>1, <4>6
      <4>8. SubSeq(f, Len(v2.done) + 1, Len(f)) = <<>>
        BY <4>4, <4>6
      <4> HIDE DEF size
      <4> QED BY <4>3, <4>5, <4>7, <4>8
    <3> QED BY <3>3, <3>4
  <2> QED BY <2>1, <2>2
<1>5. I!Step(f, v2, size) = v2
  BY <1>4 DEF I!Step
<1> HIDE DEF v0, v1, v2, size
<1>6. v1 = I!Step(f, v0, size) /\ v2 = I!Step(f, v1, size)
  BY DEF v1, v2
<1>7. h = [i \in Nat |-> IF i = 0 THEN v0 ELSE I!Step(f, h[i - 1], size)]
  <2>1. \A i \in Nat : h1(i) = IF i = 0 THEN v0 ELSE I!Step(f, h[i - 1], size)
    <3> TAKE i \in Nat
    <3>1. i # 0 => i - 1 \in Nat /\ h[i - 1] = h1(i - 1)
      OBVIOUS
    <3>2. CASE i = 0
      BY <3>2
    <3>3. CASE i = 1
      BY <1>6, <3>1, <3>3
    <3>4. CASE i # 0 /\ i # 1
      <4>1. h1(i) = v2 /\ (h1(i - 1) = v1 \/ h1(i - 1) = v2)
        BY <3>4
      <4> QED BY <1>5, <1>6, <3>1, <3>4, <4>1
    <3> QED BY <3>2, <3>3, <3>4
  <2> HIDE DEF h1
  <2> QED BY <2>1
<1>8. PICK g :
        /\ g = [i \in Nat |-> IF i = 0 THEN v0 ELSE I!Step(f, g[i - 1], size)]
        /\ I!Insert(f, pos, text) = LET new == g[size \div Buffer + 2].done
                                    IN new \o SubSeq(f, Len(new) + 1, Len(f))
  <2> HIDE DEF h
  <2>1. Passes(h, f, pos, text)
    BY <1>7 DEF Passes, v0, size, pre
  <2>2. PICK g : Passes(g, f, pos, text) /\ I!Insert(f, pos, text) = After(g, f, text)
    BY <2>1, InsertSteps, Zenon
  <2>3. g = [i \in Nat |-> IF i = 0 THEN v0 ELSE I!Step(f, g[i - 1], size)]
    BY <2>2 DEF Passes, v0, size, pre
  <2>4. I!Insert(f, pos, text) = LET new == g[size \div Buffer + 2].done
                                 IN new \o SubSeq(f, Len(new) + 1, Len(f))
    BY <2>2, Zenon DEF After, size
  <2> QED BY <2>3, <2>4, Zenon
<1> HIDE DEF h
<1>9. g[0] = v0 /\ g[1] = v1 /\ g[2] = v2
  <2>1. g[0] = v0
    BY <1>8
  <2>2. \A i \in Nat : i # 0 => g[i] = I!Step(f, g[i - 1], size)
    BY <1>8
  <2>3. g[1] = I!Step(f, g[0], size)
    BY <2>2
  <2>4. g[2] = I!Step(f, g[1], size)
    BY <2>2
  <2> QED BY <1>6, <2>1, <2>3, <2>4
<1>10. size \div Buffer + 2 \in Nat /\ size \div Buffer + 2 >= 2
  <2> DEFINE z == Buffer
  <2>1. z \in Nat \ {0} /\ size \in Nat
    BY <1>1 DEF size
  <2> HIDE DEF z
  <2>2. size \div z \in Nat
    BY <2>1
  <2> QED BY <2>2 DEF z
<1>11. g[size \div Buffer + 2] = v2
  <2> HIDE DEF h1
  <2>1. \A i \in Nat : i # 0 => g[i] = I!Step(f, g[i - 1], size)
    BY <1>8
  <2>2. g[2] = v2 /\ I!Step(f, v2, size) = v2
    BY <1>5, <1>9
  <2>3. \A i \in Nat : i > 2 /\ g[i - 1] = v2 => g[i] = v2
    BY <2>1, <2>2
  <2>4. \A n \in Nat : n >= 2 => g[n] = v2
    BY <2>2, <2>3, StepsEnd
  <2> QED BY <1>10, <2>4
<1>12. I!Insert(f, pos, text) = v2.done \o SubSeq(f, Len(v2.done) + 1, Len(f))
  BY <1>8, <1>11
<1> QED BY <1>4, <1>12 DEF pre, rest

(***************************************************************************)
(* Texts.  The symbols of the files, and what ends with a newline.         *)
(***************************************************************************)
Texts ==
  UNION {{I!Text(Type[s][k], v) : v \in Data[Type[s][k]]} : s \in Sections, k \in Keys}

Symbol ==
  {NL, Sign} \cup Sections \cup Keys
    \cup UNION {{t[i] : i \in DOMAIN t} : t \in Files \cup Texts}

Closed(f) == f \in Seq(Symbol) /\ (f = <<>> \/ f[Len(f)] = NL)

\* the line that starts at p ends at e
Ends(f, p, e) ==
  e \in p + 1 .. Len(f) /\ f[e] = NL /\ \A j \in p + 1 .. e - 1 : f[j] # NL

LEMMA LeastIs ==
  ASSUME NEW S \in SUBSET Nat, S # {}
  PROVE  I!Min(S) \in S /\ \A y \in S : I!Min(S) <= y
<1>1. \E x \in S : \A y \in S : x <= y
  BY LeastPlace
<1> QED BY <1>1 DEF I!Min

LEMMA GreatestIs ==
  ASSUME NEW n \in Nat, NEW S \in SUBSET (0 .. n), S # {}
  PROVE  I!Max(S) \in S /\ \A y \in S : I!Max(S) >= y
<1> DEFINE T == {n - y : y \in S}
<1>1. T \in SUBSET Nat /\ T # {}
  <2>1. \A y \in S : n - y \in Nat
    OBVIOUS
  <2>2. PICK y \in S : TRUE
    OBVIOUS
  <2>3. n - y \in T
    OBVIOUS
  <2> QED BY <2>1, <2>3
<1>2. PICK t \in T : \A u \in T : t <= u
  <2> HIDE DEF T
  <2> QED BY <1>1, LeastPlace
<1>3. PICK x \in S : t = n - x
  BY <1>2
<1>4. \A y \in S : x >= y
  <2> TAKE y \in S
  <2>1. n - y \in T /\ x \in Int /\ y \in Int
    OBVIOUS
  <2>2. n - x <= n - y
    BY <1>2, <1>3, <2>1
  <2> QED BY <2>1, <2>2
<1>5. \E z \in S : \A y \in S : z >= y
  BY <1>4
<1> QED BY <1>5 DEF I!Max

LEMMA LinesIn ==
  ASSUME NEW f \in Seq(Symbol)
  PROVE  I!Lines(f) \in SUBSET Nat /\ \A p \in I!Lines(f) : p \in 0 .. Len(f) - 1
BY DEF I!Lines

\* A line ends at the first newline.
LEMMA EndIs ==
  ASSUME NEW f, Closed(f), NEW p \in 0 .. Len(f) - 1
  PROVE  Ends(f, p, I!EndOf(f, p))
<1> DEFINE N == {e \in p + 1 .. Len(f) : f[e] = NL}
           S == N \cup {Len(f)}
<1>1. f \in Seq(Symbol) /\ Len(f) \in Nat /\ p \in Nat /\ p < Len(f) /\ Len(f) \in N
  BY DEF Closed
<1>2. S = N /\ N \in SUBSET Nat /\ N # {}
  BY <1>1
<1>3. I!Min(N) \in N /\ \A y \in N : I!Min(N) <= y
  BY <1>2, LeastIs
<1>4. I!EndOf(f, p) = I!Min(N)
  BY <1>2 DEF I!EndOf
<1> HIDE DEF S
<1> DEFINE e == I!Min(N)
<1>5. e \in N /\ \A y \in N : e <= y
  BY <1>3
<1> HIDE DEF e
<1>6. \A j \in p + 1 .. e - 1 : f[j] # NL
  <2> SUFFICES ASSUME NEW j \in p + 1 .. e - 1, f[j] = NL
               PROVE  FALSE
    OBVIOUS
  <2>1. j \in N /\ j < e
    BY <1>1, <1>5
  <2> QED BY <1>1, <1>5, <2>1
<1> QED BY <1>4, <1>5, <1>6 DEF Ends, e

LEMMA OneEnd ==
  ASSUME NEW f, NEW p \in Nat, NEW a, NEW b, Ends(f, p, a), Ends(f, p, b), Len(f) \in Nat
  PROVE  a = b
<1>1. a \in Int /\ b \in Int
  BY DEF Ends
<1>2. ~(a < b) /\ ~(b < a)
  BY <1>1 DEF Ends
<1> QED BY <1>1, <1>2

\* The line between.
LEMMA LineIs ==
  ASSUME NEW f, Closed(f), NEW p \in 0 .. Len(f) - 1, NEW e, Ends(f, p, e)
  PROVE  /\ I!EndOf(f, p) = e
         /\ I!Line(f, p) = SubSeq(f, p + 1, e - 1)
<1>1. f \in Seq(Symbol) /\ Len(f) \in Nat /\ p \in Nat
  BY DEF Closed
<1>2. I!EndOf(f, p) = e
  BY <1>1, EndIs, OneEnd
<1> QED BY <1>2 DEF Ends, I!Line

(***************************************************************************)
(* A text x that is a part of the text g, at the offset o.                 *)
(***************************************************************************)
PartOf(x, g, o) ==
  /\ Closed(x) /\ Closed(g) /\ o \in Nat /\ o + Len(x) <= Len(g)
  /\ o = 0 \/ g[o] = NL
  /\ \A i \in 1 .. Len(x) : g[o + i] = x[i]

LEMMA PartLines ==
  ASSUME NEW x, NEW g, NEW o, PartOf(x, g, o), NEW p \in I!Lines(x)
  PROVE  /\ o + p \in I!Lines(g)
         /\ g[o + p + 1] = x[p + 1]
         /\ I!EndOf(g, o + p) = o + I!EndOf(x, p)
         /\ I!Line(g, o + p) = I!Line(x, p)
         /\ I!EndOf(x, p) \in p + 1 .. Len(x)
<1>1. /\ Closed(x) /\ Closed(g) /\ o \in Nat /\ o + Len(x) <= Len(g)
      /\ o = 0 \/ g[o] = NL
      /\ \A i \in 1 .. Len(x) : g[o + i] = x[i]
      /\ x \in Seq(Symbol) /\ g \in Seq(Symbol) /\ Len(x) \in Nat /\ Len(g) \in Nat
  BY DEF PartOf, Closed
<1>2. p \in 0 .. Len(x) - 1 /\ (p = 0 \/ x[p] = NL)
  BY DEF I!Lines
<1>3. PICK e : Ends(x, p, e) /\ e = I!EndOf(x, p)
  BY <1>1, <1>2, EndIs
<1>4. e \in p + 1 .. Len(x) /\ e \in Nat /\ p \in Nat
  BY <1>1, <1>2, <1>3 DEF Ends
<1>5. o + p \in 0 .. Len(g) - 1 /\ (o + p = 0 \/ g[o + p] = NL)
  <2>1. p # 0 => p \in 1 .. Len(x)
    BY <1>1, <1>2
  <2> QED BY <1>1, <1>2, <2>1
<1> DEFINE a == o + p
           b == o + e
<1>a. a = o + p /\ b = o + e /\ a \in Nat /\ b \in Nat
  BY <1>1, <1>4
<1> HIDE DEF a, b
<1>6. Ends(g, a, b)
  <2>1. b \in a + 1 .. Len(g)
    BY <1>1, <1>4, <1>a
  <2>2. g[b] = NL
    <3>1. e \in 1 .. Len(x)
      BY <1>1, <1>4
    <3>2. x[e] = NL
      BY <1>3 DEF Ends
    <3> QED BY <1>1, <1>a, <3>1, <3>2
  <2>3. ASSUME NEW j \in a + 1 .. b - 1
        PROVE  g[j] # NL
    <3> DEFINE i == j - o
    <3>1. i \in p + 1 .. e - 1 /\ i \in 1 .. Len(x) /\ j = o + i
      BY <1>1, <1>4, <1>a
    <3> HIDE DEF i
    <3>2. x[i] # NL
      BY <1>3, <3>1 DEF Ends
    <3> QED BY <1>1, <3>1, <3>2
  <2> QED BY <2>1, <2>2, <2>3 DEF Ends
<1>7. g[o + p + 1] = x[p + 1]
  <2>1. p + 1 \in 1 .. Len(x) /\ o + (p + 1) = o + p + 1
    BY <1>1, <1>2
  <2> QED BY <1>1, <2>1
<1>8. /\ I!EndOf(g, a) = b /\ I!Line(g, a) = SubSeq(g, a + 1, b - 1)
      /\ I!Line(x, p) = SubSeq(x, p + 1, e - 1)
  <2>1. a \in 0 .. Len(g) - 1
    BY <1>5, <1>a
  <2>2. I!EndOf(g, a) = b /\ I!Line(g, a) = SubSeq(g, a + 1, b - 1)
    BY <1>1, <1>6, <2>1, LineIs
  <2>3. I!Line(x, p) = SubSeq(x, p + 1, e - 1)
    BY <1>1, <1>2, <1>3, LineIs
  <2> QED BY <2>2, <2>3
<1>9. SubSeq(g, a + 1, b - 1) = SubSeq(x, p + 1, e - 1)
  <2> DEFINE s == SubSeq(g, a + 1, b - 1)
             t == SubSeq(x, p + 1, e - 1)
  <2>1. s \in Seq(Symbol) /\ t \in Seq(Symbol) /\ Len(s) = e - 1 - p /\ Len(t) = e - 1 - p
    BY <1>1, <1>4, <1>a
  <2>2. \A i \in 1 .. e - 1 - p : s[i] = t[i]
    <3> TAKE i \in 1 .. e - 1 - p
    <3>1. s[i] = g[a + i] /\ t[i] = x[p + i]
      BY <1>1, <1>4, <1>a
    <3>2. p + i \in 1 .. Len(x) /\ o + (p + i) = a + i
      BY <1>1, <1>4, <1>a
    <3> HIDE DEF s, t
    <3>3. g[a + i] = x[p + i]
      BY <1>1, <3>2
    <3> QED BY <3>1, <3>3
  <2> HIDE DEF s, t
  <2>3. s = t
    BY <2>1, <2>2, SameSequence
  <2> QED BY <2>3 DEF s, t
<1>10. o + p \in I!Lines(g)
  BY <1>5 DEF I!Lines
<1> QED BY <1>3, <1>4, <1>7, <1>8, <1>9, <1>10, <1>a

LEMMA LinesOfPart ==
  ASSUME NEW x, NEW g, NEW o, PartOf(x, g, o), NEW q \in I!Lines(g), o <= q, q < o + Len(x)
  PROVE  q - o \in I!Lines(x)
<1>1. o \in Nat /\ Len(x) \in Nat /\ Len(g) \in Nat /\ \A i \in 1 .. Len(x) : g[o + i] = x[i]
  BY DEF PartOf, Closed
<1>2. q \in 0 .. Len(g) - 1 /\ (q = 0 \/ g[q] = NL)
  BY DEF I!Lines
<1> DEFINE p == q - o
<1>3. p \in 0 .. Len(x) - 1 /\ q = o + p
  BY <1>1, <1>2
<1> HIDE DEF p
<1>4. p # 0 => p \in 1 .. Len(x) /\ q # 0
  BY <1>1, <1>3
<1>5. p = 0 \/ x[p] = NL
  BY <1>1, <1>2, <1>3, <1>4
<1>6. p \in I!Lines(x)
  BY <1>3, <1>5 DEF I!Lines
<1> QED BY <1>6 DEF p

(***************************************************************************)
(* What read() finds.                                                      *)
(***************************************************************************)
\* the offset p is in a section s, and its header is the last one before p
Inside(f, s, p) ==
  \E h \in I!HeadersOf(f, s) : h < p /\ \A j \in I!Headers(f) : j < p => j <= h

Found(f, s, k) == {p \in I!KeyLines(f) : f[p + 1] = k /\ Inside(f, s, p)}

LEMMA InsideIs ==
  ASSUME NEW f \in Seq(Symbol), NEW s, NEW p \in Nat
  PROVE  I!InSection(f, s, p) <=> Inside(f, s, p)
<1> DEFINE before == {h \in I!Headers(f) : h < p}
<1>1. before \in SUBSET (0 .. p) /\ I!Headers(f) \subseteq Nat
  BY LinesIn DEF I!Headers
<1>2. I!HeadersOf(f, s) \subseteq I!Headers(f)
  BY DEF I!HeadersOf
<1>3. I!InSection(f, s, p) <=> before # {} /\ I!Max(before) \in I!HeadersOf(f, s)
  BY DEF I!InSection
<1>4. before # {} => I!Max(before) \in before /\ \A y \in before : I!Max(before) >= y
  <2> HIDE DEF before
  <2> QED BY <1>1, GreatestIs
<1> DEFINE m == I!Max(before)
<1> HIDE DEF m
<1>5. ASSUME before # {}, m \in I!HeadersOf(f, s)
      PROVE  Inside(f, s, p)
  <2>1. m \in before /\ \A y \in before : m >= y
    BY <1>4, <1>5 DEF m
  <2>2. m < p /\ \A j \in I!Headers(f) : j < p => j <= m
    BY <1>1, <2>1
  <2> QED BY <1>5, <2>2 DEF Inside
<1>6. ASSUME NEW h \in I!HeadersOf(f, s), h < p,
             \A j \in I!Headers(f) : j < p => j <= h
      PROVE  before # {} /\ m \in I!HeadersOf(f, s)
  <2>1. h \in before
    BY <1>2, <1>6
  <2>2. m \in before /\ m >= h
    BY <1>4, <2>1 DEF m
  <2>3. m <= h /\ m \in Nat /\ h \in Nat
    BY <1>1, <1>6, <2>1, <2>2
  <2>4. m = h
    BY <2>2, <2>3
  <2> QED BY <1>6, <2>1, <2>4
<1> QED BY <1>3, <1>5, <1>6 DEF Inside, m

\* No offset is in two sections.
LEMMA OneSection ==
  ASSUME NEW f \in Seq(Symbol), NEW s, NEW t, NEW p, Inside(f, s, p), Inside(f, t, p)
  PROVE  s = t
<1>1. I!Headers(f) \subseteq Nat
  BY LinesIn DEF I!Headers
<1>2. PICK h \in I!HeadersOf(f, s) : h < p /\ \A j \in I!Headers(f) : j < p => j <= h
  BY DEF Inside
<1>3. PICK i \in I!HeadersOf(f, t) : i < p /\ \A j \in I!Headers(f) : j < p => j <= i
  BY DEF Inside
<1>4. h \in I!Headers(f) /\ i \in I!Headers(f)
  BY DEF I!HeadersOf
<1>5. h <= i /\ i <= h
  BY <1>2, <1>3, <1>4
<1>6. h = i
  BY <1>1, <1>4, <1>5
<1>7. I!Line(f, h) = <<s>> /\ I!Line(f, i) = <<t>>
  BY DEF I!HeadersOf
<1>8. <<s>>[1] = <<t>>[1]
  BY <1>6, <1>7
<1> QED BY <1>8

LEMMA FoundIn ==
  ASSUME NEW f \in Seq(Symbol), NEW s, NEW k
  PROVE  Found(f, s, k) \in SUBSET Nat
BY LinesIn DEF Found, I!KeyLines

LEMMA ReadIs ==
  ASSUME NEW f \in Seq(Symbol), NEW s, NEW k
  PROVE  I!ReadKey(f, s, k) =
           IF Found(f, s, k) = {} THEN Missing
           ELSE I!Parsed(Type[s][k], Tail(I!Line(f, I!Min(Found(f, s, k)))))
<1>1. {p \in I!KeyLines(f) : f[p + 1] = k /\ I!InSection(f, s, p)} = Found(f, s, k)
  <2>1. \A p \in I!KeyLines(f) : p \in Nat
    BY LinesIn DEF I!KeyLines
  <2>2. \A p \in I!KeyLines(f) : I!InSection(f, s, p) <=> Inside(f, s, p)
    BY <2>1, InsideIs
  <2> QED BY <2>2 DEF Found
<1> QED BY <1>1 DEF I!ReadKey

\* It is the first one that counts.
LEMMA ReadFirst ==
  ASSUME NEW f \in Seq(Symbol), NEW s, NEW k,
         NEW p \in Found(f, s, k), \A q \in Found(f, s, k) : p <= q
  PROVE  I!ReadKey(f, s, k) = I!Parsed(Type[s][k], Tail(I!Line(f, p)))
<1> DEFINE F == Found(f, s, k)
<1>1. F \in SUBSET Nat /\ p \in F /\ \A q \in F : p <= q
  BY FoundIn
<1>2. I!ReadKey(f, s, k) = IF F = {} THEN Missing
                           ELSE I!Parsed(Type[s][k], Tail(I!Line(f, I!Min(F))))
  BY ReadIs
<1> HIDE DEF F
<1>3. I!Min(F) \in F /\ \A y \in F : I!Min(F) <= y
  BY <1>1, LeastIs
<1> DEFINE m == I!Min(F)
<1>4. m \in Nat /\ p \in Nat /\ m <= p /\ p <= m
  BY <1>1, <1>3
<1> HIDE DEF m
<1>5. m = p
  BY <1>4
<1> QED BY <1>1, <1>2, <1>5 DEF m

(***************************************************************************)
(* An edit.  In f it is from a to b, in g from a to c: what is before and  *)
(* behind it is kept.                                                      *)
(***************************************************************************)
To(p, a, b, c) == IF p < a THEN p ELSE p - b + c

Kept(f, g, a, b, c) ==
  \A p \in I!Lines(f) : p < a \/ p >= b =>
    /\ To(p, a, b, c) \in I!Lines(g)
    /\ g[To(p, a, b, c) + 1] = f[p + 1]
    /\ I!Line(g, To(p, a, b, c)) = I!Line(f, p)

\* a file and what it is edited to
Edit(f, g, a, b, c) ==
  /\ Closed(f) /\ Closed(g) /\ a \in Nat /\ b \in Nat /\ c \in Nat /\ a <= b /\ a <= c
  /\ Kept(f, g, a, b, c) /\ Kept(g, f, a, c, b)

LEMMA EditBack ==
  ASSUME NEW f, NEW g, NEW a, NEW b, NEW c, Edit(f, g, a, b, c)
  PROVE  Edit(g, f, a, c, b)
BY DEF Edit

NoHeader(f, a, b) == \A h \in I!Headers(f) : ~(a <= h /\ h < b)

LEMMA HeaderMoves ==
  ASSUME NEW f, NEW g, NEW a, NEW b, NEW c, Edit(f, g, a, b, c), NEW s,
         NEW h \in I!Headers(f), h < a \/ h >= b
  PROVE  /\ To(h, a, b, c) \in I!Headers(g)
         /\ h \in I!HeadersOf(f, s) => To(h, a, b, c) \in I!HeadersOf(g, s)
<1>1. h \in I!Lines(f) /\ f[h + 1] \in Sections
  BY DEF I!Headers, I!IsHeader
<1>2. /\ To(h, a, b, c) \in I!Lines(g)
      /\ g[To(h, a, b, c) + 1] = f[h + 1]
      /\ I!Line(g, To(h, a, b, c)) = I!Line(f, h)
  BY <1>1 DEF Edit, Kept
<1> QED BY <1>1, <1>2 DEF I!Headers, I!HeadersOf, I!IsHeader

LEMMA InsideMoves ==
  ASSUME NEW f, NEW g, NEW a, NEW b, NEW c, Edit(f, g, a, b, c), NEW s,
         NEW p \in I!Lines(f), Inside(f, s, p),
         p < a \/ (p >= b /\ NoHeader(f, a, b) /\ NoHeader(g, a, c))
  PROVE  Inside(g, s, To(p, a, b, c))
<1>1. /\ f \in Seq(Symbol) /\ g \in Seq(Symbol)
      /\ a \in Nat /\ b \in Nat /\ c \in Nat /\ a <= b /\ a <= c
  BY DEF Edit, Closed
<1>2. I!Headers(f) \subseteq Nat /\ I!Headers(g) \subseteq Nat /\ p \in Nat
  BY <1>1, LinesIn DEF I!Headers
<1>3. PICK h \in I!HeadersOf(f, s) : h < p /\ \A j \in I!Headers(f) : j < p => j <= h
  BY DEF Inside
<1>4. h \in I!Headers(f) /\ h \in Nat
  BY <1>2 DEF I!HeadersOf
<1>5. h < a \/ h >= b
  BY <1>1, <1>2, <1>3, <1>4 DEF NoHeader
<1> DEFINE i == To(h, a, b, c)
           q == To(p, a, b, c)
<1>6. i \in I!HeadersOf(g, s)
  BY <1>4, <1>5, HeaderMoves
<1>7. i < q
  BY <1>1, <1>2, <1>3, <1>4, <1>5 DEF To
<1>8. ASSUME NEW j \in I!Headers(g), j < q
      PROVE  j <= i
  <2>1. j < a \/ j >= c
    BY <1>1, <1>2, <1>8 DEF NoHeader, To
  <2> DEFINE l == To(j, a, c, b)
  <2>2. Edit(g, f, a, c, b)
    BY EditBack
  <2>3. l \in I!Headers(f)
    BY <2>1, <2>2, HeaderMoves
  <2>4. l < p
    BY <1>1, <1>2, <1>8, <2>1 DEF To
  <2>5. l <= h
    BY <1>3, <2>3, <2>4
  <2> QED BY <1>1, <1>2, <1>4, <1>5, <2>1, <2>5 DEF To
<1> HIDE DEF i, q
<1>9. Inside(g, s, q)
  BY <1>6, <1>7, <1>8 DEF Inside
<1> QED BY <1>9 DEF q

LEMMA FoundMoves ==
  ASSUME NEW f, NEW g, NEW a, NEW b, NEW c, Edit(f, g, a, b, c), NEW s, NEW k,
         NEW p \in Found(f, s, k),
         p < a \/ (p >= b /\ NoHeader(f, a, b) /\ NoHeader(g, a, c))
  PROVE  To(p, a, b, c) \in Found(g, s, k)
<1>1. p \in I!Lines(f) /\ f[p + 1] \in Keys /\ f[p + 1] = k /\ Inside(f, s, p)
  BY DEF Found, I!KeyLines, I!IsKeyLine
<1> DEFINE q == To(p, a, b, c)
<1>2. q \in I!Lines(g) /\ g[q + 1] = f[p + 1]
  BY <1>1 DEF Edit, Kept
<1>3. Inside(g, s, q)
  BY <1>1, InsideMoves
<1> HIDE DEF q
<1>4. q \in Found(g, s, k)
  BY <1>1, <1>2, <1>3 DEF Found, I!KeyLines, I!IsKeyLine
<1> QED BY <1>4 DEF q

\* A key that is not in the edit reads as it did.
LEMMA ReadMoves ==
  ASSUME NEW f, NEW g, NEW a, NEW b, NEW c, Edit(f, g, a, b, c), NEW s, NEW k,
         \A p \in Found(f, s, k) :
           p < a \/ (p >= b /\ NoHeader(f, a, b) /\ NoHeader(g, a, c)),
         \A q \in Found(g, s, k) :
           q < a \/ (q >= c /\ NoHeader(f, a, b) /\ NoHeader(g, a, c))
  PROVE  I!ReadKey(g, s, k) = I!ReadKey(f, s, k)
<1>1. /\ f \in Seq(Symbol) /\ g \in Seq(Symbol)
      /\ a \in Nat /\ b \in Nat /\ c \in Nat /\ a <= b /\ a <= c
      /\ Edit(g, f, a, c, b)
  BY EditBack DEF Edit, Closed
<1>2. \A p \in Found(f, s, k) : To(p, a, b, c) \in Found(g, s, k)
  BY FoundMoves
<1>3. \A q \in Found(g, s, k) : To(q, a, c, b) \in Found(f, s, k)
  BY <1>1, FoundMoves
<1>4. Found(f, s, k) \in SUBSET Nat /\ Found(g, s, k) \in SUBSET Nat
  BY <1>1, FoundIn
<1>5. CASE Found(f, s, k) = {}
  <2>1. Found(g, s, k) = {}
    BY <1>3, <1>5
  <2> QED BY <1>1, <1>5, <2>1, ReadIs
<1>6. CASE Found(f, s, k) # {}
  <2>1. PICK p \in Found(f, s, k) : \A y \in Found(f, s, k) : p <= y
    BY <1>4, <1>6, LeastPlace
  <2> DEFINE q == To(p, a, b, c)
  <2>2. q \in Found(g, s, k)
    BY <1>2
  <2>3. ASSUME NEW r \in Found(g, s, k)
        PROVE  q <= r
    <3>1. p <= To(r, a, c, b)
      BY <1>3, <2>1
    <3>2. r < a \/ r >= c
      OBVIOUS
    <3>3. p < a \/ p >= b
      OBVIOUS
    <3>4. p \in Nat /\ r \in Nat
      BY <1>4
    <3> QED BY <1>1, <3>1, <3>2, <3>3, <3>4 DEF To
  <2>4. I!Line(g, q) = I!Line(f, p)
    <3>1. p \in I!Lines(f) /\ (p < a \/ p >= b)
      BY DEF Found, I!KeyLines
    <3> QED BY <3>1 DEF Edit, Kept
  <2>5. I!ReadKey(f, s, k) = I!Parsed(Type[s][k], Tail(I!Line(f, p)))
    BY <1>1, <2>1, ReadFirst
  <2> HIDE DEF q
  <2>6. I!ReadKey(g, s, k) = I!Parsed(Type[s][k], Tail(I!Line(g, q)))
    BY <1>1, <2>2, <2>3, ReadFirst
  <2> QED BY <2>4, <2>5, <2>6
<1> QED BY <1>5, <1>6

\* The text of f but for what is between a and b, and that of g but for what
\* is between a and c, are the same.
LEMMA PartsAreKept ==
  ASSUME NEW f, NEW g, NEW x, NEW z, NEW b, NEW c,
         PartOf(x, f, 0), PartOf(x, g, 0), PartOf(z, f, b), PartOf(z, g, c),
         Len(f) = b + Len(z)
  PROVE  Kept(f, g, Len(x), b, c)
<1> DEFINE a == Len(x)
<1>1. f \in Seq(Symbol) /\ a \in Nat /\ b \in Nat /\ c \in Nat /\ Len(z) \in Nat
  BY DEF PartOf, Closed
<1>2. SUFFICES ASSUME NEW p \in I!Lines(f), p < a \/ p >= b
               PROVE  /\ To(p, a, b, c) \in I!Lines(g)
                      /\ g[To(p, a, b, c) + 1] = f[p + 1]
                      /\ I!Line(g, To(p, a, b, c)) = I!Line(f, p)
  BY DEF Kept
<1>3. p \in Nat /\ p < Len(f)
  BY <1>1, LinesIn
<1> HIDE DEF a
<1>4. CASE p < a
  <2>1. To(p, a, b, c) = p /\ p - 0 = p /\ 0 + p = p /\ 0 <= p /\ p < 0 + Len(x)
    BY <1>1, <1>3, <1>4 DEF To, a
  <2>2. p - 0 \in I!Lines(x)
    BY <2>1, LinesOfPart
  <2>3. p \in I!Lines(x)
    BY <2>1, <2>2
  <2>4. f[0 + p + 1] = x[p + 1] /\ I!Line(f, 0 + p) = I!Line(x, p)
    BY <2>3, PartLines
  <2>5. 0 + p \in I!Lines(g) /\ g[0 + p + 1] = x[p + 1] /\ I!Line(g, 0 + p) = I!Line(x, p)
    BY <2>3, PartLines
  <2> QED BY <2>1, <2>4, <2>5
<1>5. CASE ~(p < a)
  <2> DEFINE r == p - b
  <2>1. b <= p /\ p < b + Len(z)
    BY <1>1, <1>2, <1>3, <1>5
  <2>2. r \in I!Lines(z)
    BY <2>1, LinesOfPart
  <2>3. b + r = p /\ To(p, a, b, c) = c + r
    BY <1>1, <1>3, <1>5 DEF To
  <2> HIDE DEF r
  <2>4. f[b + r + 1] = z[r + 1] /\ I!Line(f, b + r) = I!Line(z, r)
    BY <2>2, PartLines
  <2>5. c + r \in I!Lines(g) /\ g[c + r + 1] = z[r + 1] /\ I!Line(g, c + r) = I!Line(z, r)
    BY <2>2, PartLines
  <2> QED BY <2>3, <2>4, <2>5
<1> QED BY <1>4, <1>5

LEMMA ClosedIs ==
  ASSUME NEW f \in Seq(Symbol), Len(f) = 0 \/ f[Len(f)] = NL
  PROVE  Closed(f)
BY DEF Closed

\* f with u in place of what is between a and b
Spliced(f, a, u, b) == (SubSeq(f, 1, a) \o u) \o SubSeq(f, b + 1, Len(f))

IsSpliced(g, f, a, u, b) ==
  /\ g \in Seq(Symbol)
  /\ Len(g) = a + Len(u) + (Len(f) - b)
  /\ \A i \in 1 .. a : g[i] = f[i]
  /\ \A i \in 1 .. Len(u) : g[a + i] = u[i]
  /\ \A i \in 1 .. Len(f) - b : g[a + Len(u) + i] = f[b + i]

LEMMA SplicedIs ==
  ASSUME NEW f \in Seq(Symbol), NEW u \in Seq(Symbol),
         NEW a \in 0 .. Len(f), NEW b \in a .. Len(f)
  PROVE  IsSpliced(Spliced(f, a, u, b), f, a, u, b)
<1> DEFINE x == SubSeq(f, 1, a)
           z == SubSeq(f, b + 1, Len(f))
           g == (x \o u) \o z
<1>1. /\ x \in Seq(Symbol) /\ Len(x) = a
      /\ z \in Seq(Symbol) /\ Len(z) = Len(f) - b
  OBVIOUS
<1>2. \A i \in 1 .. a : x[i] = f[i]
  OBVIOUS
<1>3. \A i \in 1 .. Len(z) : z[i] = f[b + i]
  OBVIOUS
<1>4. Spliced(f, a, u, b) = g
  BY DEF Spliced
<1> HIDE DEF x, z
<1>5. /\ g \in Seq(Symbol) /\ Len(g) = Len(x) + Len(u) + Len(z)
      /\ \A i \in 1 .. Len(x) : g[i] = x[i]
      /\ \A i \in 1 .. Len(u) : g[Len(x) + i] = u[i]
      /\ \A i \in 1 .. Len(z) : g[Len(x) + Len(u) + i] = z[i]
  <2>1. x \in Seq(Symbol) /\ z \in Seq(Symbol)
    BY <1>1
  <2> QED BY <2>1, JoinedTwice
<1> HIDE DEF g
<1>6. /\ g \in Seq(Symbol)
      /\ Len(g) = a + Len(u) + (Len(f) - b)
      /\ \A i \in 1 .. Len(u) : g[a + i] = u[i]
  BY <1>1, <1>5
<1>7. \A i \in 1 .. a : g[i] = f[i]
  BY <1>1, <1>2, <1>5
<1>8. \A i \in 1 .. Len(f) - b : g[a + Len(u) + i] = f[b + i]
  <2> TAKE i \in 1 .. Len(f) - b
  <2>1. i \in 1 .. Len(z) /\ a + Len(u) + i = Len(x) + Len(u) + i
    BY <1>1
  <2>2. g[Len(x) + Len(u) + i] = z[i] /\ z[i] = f[b + i]
    BY <1>3, <1>5, <2>1
  <2> QED BY <2>1, <2>2
<1> QED BY <1>4, <1>6, <1>7, <1>8, Zenon DEF IsSpliced

\* Whole lines are replaced by whole lines.
LEMMA EditParts ==
  ASSUME NEW f, Closed(f), NEW u, Closed(u),
         NEW x \in Seq(Symbol), NEW z \in Seq(Symbol), NEW g,
         NEW a \in Nat, NEW b \in Nat, NEW c \in Nat, a <= b, b <= Len(f),
         a = 0 \/ f[a] = NL, b = 0 \/ f[b] = NL, c = a + Len(u),
         IsSpliced(g, f, a, u, b), Len(x) = a, Len(z) = Len(f) - b,
         \A i \in 1 .. a : x[i] = f[i],
         \A i \in 1 .. Len(z) : z[i] = f[b + i]
  PROVE  Edit(f, g, a, b, c) /\ PartOf(u, g, a)
<1>1. /\ f \in Seq(Symbol) /\ u \in Seq(Symbol) /\ Len(f) \in Nat /\ Len(u) \in Nat
      /\ Len(f) = 0 \/ f[Len(f)] = NL
      /\ Len(u) = 0 \/ u[Len(u)] = NL
      /\ Len(z) \in Nat /\ Len(g) \in Nat /\ g \in Seq(Symbol)
      /\ Len(f) = b + Len(z) /\ Len(g) = c + Len(z)
  BY DEF Closed, IsSpliced
<1>a. \A i \in 1 .. a : g[i] = f[i]
  BY DEF IsSpliced
<1>b. \A i \in 1 .. Len(u) : g[a + i] = u[i]
  BY DEF IsSpliced
<1>c. \A i \in 1 .. Len(z) : g[c + i] = f[b + i]
  BY DEF IsSpliced
<1>2. a = 0 \/ g[a] = NL
  <2>1. a # 0 => a \in 1 .. a
    OBVIOUS
  <2>2. a # 0 => g[a] = f[a]
    BY <1>a, <2>1
  <2> QED BY <2>2
<1>3. c = 0 \/ g[c] = NL
  <2>1. CASE Len(u) = 0
    BY <1>1, <1>2, <2>1
  <2>2. CASE Len(u) # 0
    <3>1. Len(u) \in 1 .. Len(u)
      BY <1>1, <2>2
    <3>2. g[a + Len(u)] = u[Len(u)]
      BY <1>b, <3>1
    <3> QED BY <1>1, <2>2, <3>2
  <2> QED BY <2>1, <2>2
<1>4. Closed(g) /\ Closed(z)
  <2>1. CASE Len(z) = 0
    <3>1. Len(g) = c + Len(z)
      BY <1>1
    <3>2. Len(g) = c
      BY <2>1, <3>1
    <3>3. Len(g) = 0 \/ g[Len(g)] = NL
      BY <1>3, <3>2
    <3> QED BY <1>1, <2>1, <3>3, ClosedIs
  <2>2. CASE Len(z) # 0
    <3>1. Len(z) \in 1 .. Len(z)
      BY <1>1, <2>2
    <3>2. z[Len(z)] = f[b + Len(z)] /\ g[c + Len(z)] = f[b + Len(z)]
      BY <1>c, <3>1
    <3>3. z[Len(z)] = NL /\ g[Len(g)] = NL
      BY <1>1, <2>2, <3>2
    <3> QED BY <1>1, <3>3, ClosedIs
  <2> QED BY <2>1, <2>2
<1>5. Closed(x)
  <2>1. Len(x) = 0 \/ x[Len(x)] = NL
    BY <1>1
  <2> QED BY <2>1, ClosedIs
<1>6. PartOf(x, f, 0) /\ PartOf(x, g, 0)
  <2>1. Len(x) \in Nat /\ 0 + Len(x) <= Len(f) /\ 0 + Len(x) <= Len(g)
    BY <1>1
  <2>2. \A i \in 1 .. Len(x) : f[0 + i] = x[i] /\ g[0 + i] = x[i]
    BY <1>a
  <2> QED BY <1>4, <1>5, <2>1, <2>2 DEF PartOf
<1>7. PartOf(z, f, b) /\ PartOf(z, g, c)
  <2>1. b + Len(z) <= Len(f) /\ c + Len(z) <= Len(g)
    BY <1>1
  <2>2. \A i \in 1 .. Len(z) : f[b + i] = z[i] /\ g[c + i] = z[i]
    BY <1>c
  <2> QED BY <1>3, <1>4, <2>1, <2>2 DEF PartOf
<1>8. PartOf(u, g, a)
  <2>1. a + Len(u) <= Len(g)
    BY <1>1
  <2> QED BY <1>2, <1>4, <1>b, <2>1 DEF PartOf
<1>9. Kept(f, g, Len(x), b, c)
  BY <1>1, <1>6, <1>7, PartsAreKept
<1>10. Kept(g, f, Len(x), c, b)
  BY <1>1, <1>6, <1>7, PartsAreKept
<1>11. a <= c
  BY <1>1
<1> QED BY <1>4, <1>8, <1>9, <1>10, <1>11 DEF Edit

LEMMA EditOf ==
  ASSUME NEW f, Closed(f), NEW u, Closed(u),
         NEW a \in 0 .. Len(f), NEW b \in a .. Len(f),
         a = 0 \/ f[a] = NL, b = 0 \/ f[b] = NL
  PROVE  /\ Edit(f, Spliced(f, a, u, b), a, b, a + Len(u))
         /\ PartOf(u, Spliced(f, a, u, b), a)
         /\ Len(Spliced(f, a, u, b)) = Len(f) - b + (a + Len(u))
<1> DEFINE x == SubSeq(f, 1, a)
           z == SubSeq(f, b + 1, Len(f))
           c == a + Len(u)
           g == Spliced(f, a, u, b)
<1>1. /\ f \in Seq(Symbol) /\ u \in Seq(Symbol) /\ Len(f) \in Nat /\ Len(u) \in Nat
      /\ a \in Nat /\ b \in Nat /\ a <= b /\ b <= Len(f) /\ c \in Nat
  BY DEF Closed
<1>2. /\ x \in Seq(Symbol) /\ Len(x) = a
      /\ z \in Seq(Symbol) /\ Len(z) = Len(f) - b
  BY <1>1
<1>3. \A i \in 1 .. a : x[i] = f[i]
  BY <1>1
<1>4. \A i \in 1 .. Len(z) : z[i] = f[b + i]
  BY <1>1
<1>5. IsSpliced(g, f, a, u, b)
  BY <1>1, SplicedIs
<1>6. c = a + Len(u)
  OBVIOUS
<1> HIDE DEF x, z, c, g
<1>7. Edit(f, g, a, b, c) /\ PartOf(u, g, a)
  BY <1>1, <1>2, <1>3, <1>4, <1>5, <1>6, EditParts
<1>8. Len(g) = Len(f) - b + c
  BY <1>1, <1>5, <1>6 DEF IsSpliced
<1> QED BY <1>7, <1>8 DEF c, g

(***************************************************************************)
(* What an edit with the key k in the section s is to do.                  *)
(***************************************************************************)
LEMMA ValuesAfter ==
  ASSUME NEW f, NEW g, NEW a, NEW b, NEW c, Edit(f, g, a, b, c),
         NEW s, NEW k, NEW v, NEW q, q \in Found(g, s, k), a <= q, q < c,
         I!Parsed(Type[s][k], Tail(I!Line(g, q))) = v,
         \A r \in I!KeyLines(g) : a <= r /\ r < c => r = q,
         \A r \in I!KeyLines(g) : r >= c => NoHeader(f, a, b) /\ NoHeader(g, a, c),
         \A p \in I!KeyLines(f) : p >= b => NoHeader(f, a, b) /\ NoHeader(g, a, c),
         \A p \in I!KeyLines(f) : a <= p /\ p < b => p \in Found(f, s, k),
         \A p \in Found(f, s, k) : ~(p < a),
         NEW t, NEW l
  PROVE  I!ReadKey(g, t, l) = IF t = s /\ l = k THEN v ELSE I!ReadKey(f, t, l)
<1>1. /\ f \in Seq(Symbol) /\ g \in Seq(Symbol)
      /\ a \in Nat /\ b \in Nat /\ c \in Nat /\ a <= b /\ a <= c
      /\ Edit(g, f, a, c, b)
  BY EditBack DEF Edit, Closed
<1>2. I!KeyLines(f) \subseteq Nat /\ I!KeyLines(g) \subseteq Nat /\ q \in Nat
  BY <1>1, LinesIn DEF I!KeyLines, Found
<1>3. CASE t = s /\ l = k
  <2>1. ASSUME NEW r \in Found(g, s, k)
        PROVE  q <= r
    <3>1. r \in I!KeyLines(g) /\ r \in Nat
      BY <1>2 DEF Found
    <3>2. ASSUME r < a
          PROVE  FALSE
      <4>1. To(r, a, c, b) \in Found(f, s, k)
        BY <1>1, <3>2, FoundMoves
      <4>2. To(r, a, c, b) = r
        BY <3>2 DEF To
      <4> QED BY <3>2, <4>1, <4>2
    <3> QED BY <1>1, <1>2, <3>1, <3>2
  <2>2. I!ReadKey(g, s, k) = v
    BY <1>1, <2>1, ReadFirst
  <2> QED BY <1>3, <2>2
<1>4. CASE ~(t = s /\ l = k)
  <2>1. ASSUME NEW p \in Found(f, t, l)
        PROVE  p < a \/ (p >= b /\ NoHeader(f, a, b) /\ NoHeader(g, a, c))
    <3>1. p \in I!KeyLines(f) /\ f[p + 1] = l /\ Inside(f, t, p) /\ p \in Nat
      BY <1>2 DEF Found
    <3>2. ASSUME a <= p, p < b
          PROVE  FALSE
      <4>1. f[p + 1] = k /\ Inside(f, s, p)
        BY <3>1, <3>2 DEF Found
      <4> QED BY <1>1, <1>4, <3>1, <4>1, OneSection
    <3> QED BY <1>1, <3>1, <3>2
  <2>2. ASSUME NEW r \in Found(g, t, l)
        PROVE  r < a \/ (r >= c /\ NoHeader(f, a, b) /\ NoHeader(g, a, c))
    <3>1. r \in I!KeyLines(g) /\ g[r + 1] = l /\ Inside(g, t, r) /\ r \in Nat
      BY <1>2 DEF Found
    <3>2. ASSUME a <= r, r < c
          PROVE  FALSE
      <4>1. g[r + 1] = k /\ Inside(g, s, r)
        BY <3>1, <3>2 DEF Found
      <4> QED BY <1>1, <1>4, <3>1, <4>1, OneSection
    <3> QED BY <1>1, <3>1, <3>2
  <2>3. I!ReadKey(g, t, l) = I!ReadKey(f, t, l)
    BY <2>1, <2>2, ReadMoves
  <2> QED BY <1>4, <2>3
<1> QED BY <1>3, <1>4

LEMMA WholeAfter ==
  ASSUME NEW f, NEW g, NEW a, NEW b, NEW c, Edit(f, g, a, b, c), I!Whole(f),
         \A q \in I!Lines(g) : a <= q /\ q < c => I!WholeLine(I!Line(g, q))
  PROVE  I!Whole(g)
<1>1. /\ Closed(g) /\ g \in Seq(Symbol)
      /\ a \in Nat /\ c \in Nat /\ Kept(g, f, a, c, b)
  BY DEF Edit, Closed
<1>2. ASSUME NEW q \in I!Lines(g)
      PROVE  I!WholeLine(I!Line(g, q))
  <2>1. q \in Nat
    BY <1>1, LinesIn
  <2>2. CASE q < a \/ q >= c
    <3>1. To(q, a, c, b) \in I!Lines(f) /\ I!Line(f, To(q, a, c, b)) = I!Line(g, q)
      BY <1>1, <2>2 DEF Kept
    <3>2. I!WholeLine(I!Line(f, To(q, a, c, b)))
      BY <3>1 DEF I!Whole
    <3> QED BY <3>1, <3>2
  <2> QED BY <1>1, <2>1, <2>2
<1> QED BY <1>1, <1>2 DEF I!Whole, Closed

\* where the section of the header h ends
Ended(f, h, e) ==
  /\ e \in I!Headers(f) \/ e = Len(f)
  /\ \A j \in I!Headers(f) : ~(h < j /\ j < e)

\* it has a key, or an empty line there
Room(f, h, e) ==
  \/ \E p \in I!KeyLines(f) : h < p /\ p < e
  \/ e - 1 \in I!Lines(f) /\ e - 1 > h

LEMMA RoomyIs ==
  ASSUME NEW f
  PROVE  I!Roomy(f) <=>
           \A h \in I!Headers(f) : \A e \in h + 1 .. Len(f) : Ended(f, h, e) => Room(f, h, e)
BY DEF I!Roomy, Ended, Room

LEMMA RoomyAfter ==
  ASSUME NEW f, NEW g, NEW a, NEW b, NEW c, Edit(f, g, a, b, c),
         \A h \in I!Headers(f) : \A e \in h + 1 .. Len(f) :
           Ended(f, h, e) /\ ((h < a /\ e < a) \/ h >= b) => Room(f, h, e),
         b <= Len(f), Len(g) = Len(f) - b + c,
         \A h \in I!Headers(g) : \A e \in h + 1 .. Len(g) :
           Ended(g, h, e) => (h < a /\ e < a) \/ h >= c \/ Room(g, h, e)
  PROVE  I!Roomy(g)
<1>1. /\ f \in Seq(Symbol) /\ g \in Seq(Symbol) /\ Len(f) \in Nat /\ Len(g) \in Nat
      /\ a \in Nat /\ b \in Nat /\ c \in Nat /\ a <= b /\ a <= c
      /\ Edit(g, f, a, c, b) /\ c <= Len(g)
      /\ Kept(f, g, a, b, c) /\ Kept(g, f, a, c, b)
  <2>1. /\ f \in Seq(Symbol) /\ g \in Seq(Symbol)
        /\ a \in Nat /\ b \in Nat /\ c \in Nat /\ a <= b /\ a <= c
        /\ Edit(g, f, a, c, b) /\ Kept(f, g, a, b, c) /\ Kept(g, f, a, c, b)
    BY EditBack DEF Edit, Closed
  <2> QED BY <2>1
<1>2. I!Headers(f) \subseteq Nat /\ I!Headers(g) \subseteq Nat
  BY <1>1, LinesIn DEF I!Headers
<1>3. SUFFICES ASSUME NEW h \in I!Headers(g), NEW e \in h + 1 .. Len(g), Ended(g, h, e)
               PROVE  Room(g, h, e)
  BY RoomyIs
<1>4. h \in Nat /\ e \in Nat /\ h < e /\ e <= Len(g)
  BY <1>1, <1>2
<1>5. ASSUME (h < a /\ e < a) \/ h >= c
      PROVE  Room(g, h, e)
  <2> DEFINE d == To(h, a, c, b)
             n == To(e, a, c, b)
  <2>1. d \in I!Headers(f)
    <3>1. h < a \/ h >= c
      BY <1>5
    <3> QED BY <1>1, <3>1, HeaderMoves
  <2>2. n \in d + 1 .. Len(f)
    BY <1>1, <1>4, <1>5 DEF To
  <2>3. Ended(f, d, n)
    <3>1. n \in I!Headers(f) \/ n = Len(f)
      <4>1. CASE e \in I!Headers(g)
        <5>1. e < a \/ e >= c
          BY <1>1, <1>4, <1>5
        <5> QED BY <1>1, <4>1, <5>1, HeaderMoves
      <4>2. CASE e = Len(g)
        BY <1>1, <1>4, <4>2 DEF To
      <4> QED BY <1>3, <4>1, <4>2 DEF Ended
    <3>2. ASSUME NEW j \in I!Headers(f), d < j, j < n
          PROVE  FALSE
      <4>1. j < a \/ j >= b
        BY <1>1, <1>2, <1>4, <1>5, <3>2 DEF To
      <4>2. To(j, a, b, c) \in I!Headers(g)
        BY <4>1, HeaderMoves
      <4>3. h < To(j, a, b, c) /\ To(j, a, b, c) < e
        BY <1>1, <1>2, <1>4, <1>5, <3>2, <4>1 DEF To
      <4> QED BY <1>3, <4>2, <4>3 DEF Ended
    <3> QED BY <3>1, <3>2 DEF Ended
  <2>4. Room(f, d, n)
    <3>1. (d < a /\ n < a) \/ d >= b
      BY <1>1, <1>4, <1>5 DEF To
    <3> QED BY <2>1, <2>2, <2>3, <3>1
  <2>5. CASE \E p \in I!KeyLines(f) : d < p /\ p < n
    <3>1. PICK p \in I!KeyLines(f) : d < p /\ p < n
      BY <2>5
    <3>2. p \in I!Lines(f) /\ p \in Nat /\ f[p + 1] \in Keys
      BY <1>1, LinesIn DEF I!KeyLines, I!IsKeyLine
    <3>3. (p < a \/ p >= b) /\ h < To(p, a, b, c) /\ To(p, a, b, c) < e
      BY <1>1, <1>4, <1>5, <3>1, <3>2 DEF To
    <3>4. To(p, a, b, c) \in I!Lines(g) /\ g[To(p, a, b, c) + 1] = f[p + 1]
      BY <1>1, <3>2, <3>3 DEF Kept
    <3>5. To(p, a, b, c) \in I!KeyLines(g)
      BY <3>2, <3>4 DEF I!KeyLines, I!IsKeyLine
    <3> QED BY <3>3, <3>5 DEF Room
  <2>6. CASE n - 1 \in I!Lines(f) /\ n - 1 > d
    <3>1. (n - 1 < a \/ n - 1 >= b) /\ To(n - 1, a, b, c) = e - 1 /\ e - 1 > h
      BY <1>1, <1>4, <1>5, <2>6 DEF To
    <3>2. e - 1 \in I!Lines(g)
      <4>1. To(n - 1, a, b, c) \in I!Lines(g)
        BY <1>1, <2>6, <3>1 DEF Kept
      <4> QED BY <3>1, <4>1
    <3> QED BY <3>1, <3>2 DEF Room
  <2> QED BY <2>4, <2>5, <2>6 DEF Room
<1> QED BY <1>3, <1>5

(***************************************************************************)
(* The texts of the values, and the lines of an entry.                     *)
(***************************************************************************)
LEMMA SeqOfSymbols ==
  ASSUME NEW t, NEW S, t \in Seq(S), \A i \in 1 .. Len(t) : t[i] \in Symbol
  PROVE  t \in Seq(Symbol)
OBVIOUS

LEMMA TextIs ==
  ASSUME NEW s \in Sections, NEW k \in Keys, NEW v \in Data[Type[s][k]]
  PROVE  /\ I!Text(Type[s][k], v) \in Seq(Symbol)
         /\ \A i \in 1 .. Len(I!Text(Type[s][k], v)) : I!Text(Type[s][k], v)[i] # NL
         /\ I!Parsed(Type[s][k], I!Text(Type[s][k], v)) = v
<1> DEFINE t == I!Text(Type[s][k], v)
<1>1. t \in Texts
  <2> DEFINE W(x, y) == {I!Text(Type[x][y], w) : w \in Data[Type[x][y]]}
  <2>1. t \in W(s, k)
    OBVIOUS
  <2>2. Texts = UNION {W(x, y) : x \in Sections, y \in Keys}
    BY DEF Texts
  <2> HIDE DEF W, t
  <2> QED BY <2>1, <2>2
<1>2. \A i \in DOMAIN t : t[i] \in Symbol
  BY <1>1 DEF Symbol
<1>3. CASE Type[s][k] = "int"
  <2>1. t = <<v>> /\ v # NL /\ v # Hex
    BY <1>3, IniAssumption DEF I!Text
  <2>2. t \in Seq({v}) /\ Len(t) = 1 /\ t[1] = v /\ t # <<>>
    BY <2>1
  <2> HIDE DEF t
  <2>3. t \in Seq(Symbol) /\ \A i \in 1 .. Len(t) : t[i] # NL
    BY <1>2, <2>1, <2>2
  <2>4. I!Parsed("int", t) = v
    BY <2>1, <2>2 DEF I!Parsed
  <2> QED BY <1>3, <2>3, <2>4 DEF t
<1>4. CASE Type[s][k] = "char"
  <2>1. v \in 0 .. I!Half - 1 /\ v # NL /\ NL # Hex /\ I!Half \in Nat /\ I!Half > 0
    BY <1>4, IniAssumption
  <2>2. v % (2 * I!Half) = v
    <3> DEFINE n == I!Half
    <3> HIDE DEF n
    <3>1. n \in Nat /\ n > 0 /\ v \in 0 .. n - 1
      BY <2>1 DEF n
    <3>2. v % (2 * n) = v
      BY <3>1
    <3> QED BY <3>2 DEF n
  <2>3. t = <<Hex, v>>
    BY <1>4, <2>2 DEF I!Text
  <2>4. t \in Seq({Hex, v}) /\ Len(t) = 2 /\ t[1] = Hex /\ t[2] = v /\ t # <<>>
        /\ Tail(t) = <<v>>
    BY <2>3
  <2> HIDE DEF t
  <2>5. t \in Seq(Symbol) /\ \A i \in 1 .. Len(t) : t[i] # NL
    BY <1>2, <2>1, <2>4
  <2>6. I!remove_hex_prefix(t) = <<v>>
    BY <2>4 DEF I!remove_hex_prefix
  <2>7. I!Parsed("char", t) = v
    <3>1. <<v>> # <<>> /\ <<v>>[1] = v /\ ~(v >= I!Half)
      BY <2>1
    <3> QED BY <2>6, <3>1 DEF I!Parsed
  <2> QED BY <1>4, <2>5, <2>7 DEF t
<1>5. CASE Type[s][k] = "float"
  <2>1. t = <<Hex, v>> /\ v # NL /\ NL # Hex
    BY <1>5, IniAssumption DEF I!Text
  <2>2. t \in Seq({Hex, v}) /\ Len(t) = 2 /\ t[1] = Hex /\ t[2] = v /\ t # <<>>
        /\ Tail(t) = <<v>>
    BY <2>1
  <2> HIDE DEF t
  <2>3. t \in Seq(Symbol) /\ \A i \in 1 .. Len(t) : t[i] # NL
    BY <1>2, <2>1, <2>2
  <2>4. I!remove_hex_prefix(t) = <<v>>
    BY <2>2 DEF I!remove_hex_prefix
  <2>5. I!Parsed("float", t) = v
    <3>1. <<v>> # <<>> /\ <<v>>[1] = v
      OBVIOUS
    <3> QED BY <2>4, <3>1 DEF I!Parsed
  <2> QED BY <1>5, <2>3, <2>5 DEF t
<1>6. CASE Type[s][k] = "blob"
  <2>1. t = v /\ v \in Seq({v[i] : i \in DOMAIN v})
        /\ \A i \in DOMAIN v : v[i] # NL /\ v[i] # Hex
    <3>1. t = v
      BY <1>6 DEF I!Text
    <3>2. v \in Data["blob"]
      BY <1>6
    <3> HIDE DEF t
    <3> QED BY <3>1, <3>2, IniAssumption
  <2>2. DOMAIN v = 1 .. Len(v)
    BY <2>1
  <2> HIDE DEF t
  <2>3. t \in Seq(Symbol)
    BY <1>2, <2>1, <2>2, SeqOfSymbols
  <2>4. \A i \in 1 .. Len(t) : t[i] # NL
    BY <2>1, <2>2
  <2>5. I!Parsed("blob", t) = v
    BY <2>1 DEF I!Parsed
  <2> QED BY <1>6, <2>3, <2>4, <2>5 DEF t
<1> QED BY <1>3, <1>4, <1>5, <1>6, IniAssumption

\* A comment, if there is one, and the line of the key.
LEMMA EntryIs ==
  ASSUME NEW k \in Keys, NEW t \in Seq(Symbol), \A i \in 1 .. Len(t) : t[i] # NL,
         NEW comment \in BOOLEAN, NEW o, o = IF comment THEN 2 ELSE 0
  PROVE  LET u == I!Entry(k, t, comment) IN
         /\ Closed(u) /\ Len(u) = o + 2 + Len(t) /\ o \in I!Lines(u) /\ u[o + 1] = k
         /\ I!Line(u, o) # <<>> /\ I!Line(u, o)[1] = k /\ Tail(I!Line(u, o)) = t
         /\ \A p \in I!Lines(u) :
              p = o \/ (u[p + 1] = Sign /\ I!Line(u, p) # <<>> /\ I!Line(u, p)[1] = Sign)
<1> DEFINE c == IF comment THEN <<Sign, NL>> ELSE <<>>
           w == c \o <<k>>
           e == <<NL>>
           u == (w \o t) \o e
<1>0. k \in Symbol /\ NL \in Symbol /\ Sign \in Symbol /\ k # NL /\ k # Sign /\ Sign # NL
  BY IniAssumption DEF Symbol
<1>1. c \in Seq(Symbol) /\ Len(c) = o /\ (comment => c[1] = Sign /\ c[2] = NL)
  BY <1>0
<1>2. <<k>> \in Seq(Symbol) /\ Len(<<k>>) = 1 /\ <<k>>[1] = k
      /\ e \in Seq(Symbol) /\ Len(e) = 1 /\ e[1] = NL
  BY <1>0
<1>3. I!Entry(k, t, comment) = u
  BY DEF I!Entry
<1> HIDE DEF c, e
<1>4. /\ w \in Seq(Symbol) /\ Len(w) = o + 1 /\ w[o + 1] = k
      /\ comment => w[1] = Sign /\ w[2] = NL
  <2> DEFINE d == <<k>>
  <2> HIDE DEF d
  <2>1. c \in Seq(Symbol) /\ d \in Seq(Symbol) /\ Len(d) = 1 /\ d[1] = k
    BY <1>1, <1>2 DEF d
  <2>2. /\ c \o d \in Seq(Symbol) /\ Len(c \o d) = Len(c) + Len(d)
        /\ \A i \in 1 .. Len(c) + Len(d) :
             (c \o d)[i] = IF i <= Len(c) THEN c[i] ELSE d[i - Len(c)]
    BY <2>1, Joined
  <2>3. (c \o d)[o + 1] = k
    BY <1>1, <2>1, <2>2
  <2>4. comment => (c \o d)[1] = Sign /\ (c \o d)[2] = NL
    BY <1>1, <2>1, <2>2
  <2> QED BY <1>1, <2>1, <2>2, <2>3, <2>4 DEF d
<1> HIDE DEF w
<1>5. /\ u \in Seq(Symbol) /\ Len(u) = Len(w) + Len(t) + Len(e)
      /\ \A i \in 1 .. Len(w) : u[i] = w[i]
      /\ \A i \in 1 .. Len(t) : u[Len(w) + i] = t[i]
      /\ \A i \in 1 .. Len(e) : u[Len(w) + Len(t) + i] = e[i]
  <2>1. w \in Seq(Symbol) /\ e \in Seq(Symbol)
    BY <1>2, <1>4
  <2> QED BY <2>1, JoinedTwice
<1> HIDE DEF u
<1> DEFINE n == o + 2 + Len(t)
<1>6. /\ o \in Nat /\ Len(t) \in Nat /\ n \in Nat /\ Len(u) = n
      /\ u[o + 1] = k /\ u[n] = NL
      /\ comment => o = 2 /\ u[1] = Sign /\ u[2] = NL
      /\ ~comment => o = 0
  <2>1. o \in Nat /\ Len(t) \in Nat /\ n \in Nat /\ Len(u) = n
    BY <1>2, <1>4, <1>5
  <2>2. u[o + 1] = k
    BY <1>4, <1>5, <2>1
  <2>3. comment => o = 2 /\ u[1] = Sign /\ u[2] = NL
    BY <1>4, <1>5, <2>1
  <2>4. u[Len(w) + Len(t) + 1] = NL
    BY <1>2, <1>5
  <2> QED BY <1>4, <2>1, <2>2, <2>3, <2>4
<1>7. \A i \in 1 .. Len(t) : u[o + 1 + i] = t[i]
  BY <1>4, <1>5, <1>6
<1>8. Closed(u)
  BY <1>5, <1>6 DEF Closed
<1>9. \A j \in o + 1 .. n - 1 : u[j] # NL
  <2> TAKE j \in o + 1 .. n - 1
  <2>1. CASE j = o + 1
    BY <1>0, <1>6, <2>1
  <2>2. CASE j # o + 1
    <3> DEFINE i == j - (o + 1)
    <3>1. i \in 1 .. Len(t) /\ j = o + 1 + i
      BY <1>6, <2>2
    <3> HIDE DEF i
    <3> QED BY <1>7, <3>1
  <2> QED BY <2>1, <2>2
<1>10. Ends(u, o, n)
  BY <1>6, <1>9 DEF Ends
<1>11. o \in 0 .. Len(u) - 1 /\ o \in I!Lines(u)
  BY <1>6 DEF I!Lines
<1>12. I!Line(u, o) = SubSeq(u, o + 1, n - 1)
  BY <1>8, <1>10, <1>11, LineIs
<1> DEFINE l == SubSeq(u, o + 1, n - 1)
<1>13. /\ l \in Seq(Symbol) /\ Len(l) = 1 + Len(t)
       /\ \A i \in 1 .. 1 + Len(t) : l[i] = u[o + i]
  BY <1>5, <1>6
<1> HIDE DEF l, n
<1>14. l # <<>> /\ l[1] = k
  BY <1>6, <1>13
<1>15. Tail(l) = t
  <2>1. Tail(l) \in Seq(Symbol) /\ Len(Tail(l)) = Len(t)
    BY <1>6, <1>13, <1>14
  <2>2. \A i \in 1 .. Len(t) : Tail(l)[i] = t[i]
    <3> TAKE i \in 1 .. Len(t)
    <3>1. Tail(l)[i] = l[i + 1]
      BY <1>6, <1>13, <1>14
    <3>2. l[i + 1] = u[o + 1 + i]
      <4>1. i + 1 \in 1 .. 1 + Len(t) /\ o + (i + 1) = o + 1 + i
        BY <1>6
      <4> QED BY <1>13, <4>1
    <3> QED BY <1>7, <3>1, <3>2
  <2> QED BY <2>1, <2>2, SameSequence
<1>16. ASSUME NEW p \in I!Lines(u), p # o
       PROVE  u[p + 1] = Sign /\ I!Line(u, p) # <<>> /\ I!Line(u, p)[1] = Sign
  <2>1. p \in 0 .. n - 1 /\ (p = 0 \/ u[p] = NL)
    BY <1>6 DEF I!Lines
  <2>2. ~(p \in o + 1 .. n - 1)
    <3>1. p # 0 => u[p] = NL
      BY <2>1
    <3>2. p \in o + 1 .. n - 1 => p # 0
      BY <1>6, <2>1
    <3> QED BY <1>9, <3>1, <3>2
  <2>3. p < o
    BY <1>6, <1>16, <2>1, <2>2
  <2>4. comment /\ o = 2
    BY <1>6, <2>1, <2>3
  <2>5. p = 0
    <3>1. p = 0 \/ p = 1
      BY <2>1, <2>3, <2>4
    <3>2. p # 1
      BY <1>0, <1>6, <2>1, <2>4
    <3> QED BY <3>1, <3>2
  <2>6. Ends(u, 0, 2) /\ Len(u) >= 2
    <3>1. n >= 4
      BY <1>6, <2>4 DEF n
    <3>2. \A j \in 0 + 1 .. 2 - 1 : u[j] # NL
      <4>1. \A j \in 0 + 1 .. 2 - 1 : j = 1
        OBVIOUS
      <4> QED BY <1>0, <1>6, <2>4, <4>1
    <3>3. 2 \in 0 + 1 .. Len(u) /\ u[2] = NL
      BY <1>6, <2>4, <3>1
    <3> QED BY <1>6, <3>1, <3>2, <3>3 DEF Ends
  <2>7. I!Line(u, 0) = SubSeq(u, 0 + 1, 2 - 1)
    <3>1. 0 \in 0 .. Len(u) - 1
      BY <1>6, <2>6
    <3> QED BY <1>8, <2>6, <3>1, LineIs
  <2>8. SubSeq(u, 1, 1) # <<>> /\ SubSeq(u, 1, 1)[1] = u[1]
    BY <1>5, <1>6, <2>6
  <2>9. u[1] = Sign
    BY <1>6, <2>4
  <2> QED BY <2>5, <2>7, <2>8, <2>9
<1> QED BY <1>3, <1>6, <1>8, <1>11, <1>12, <1>14, <1>15, <1>16 DEF l, n

(***************************************************************************)
(* Where write() writes.                                                   *)
(***************************************************************************)
\* The key k of the section s is written between a and b: in the first one of
\* that name, where it is the first of that name.
Place(f, s, k, a, b) ==
  \E h \in I!HeadersOf(f, s) :
    /\ a \in Nat /\ b \in Nat /\ h < a /\ a <= b /\ b <= Len(f)
    /\ f[a] = NL /\ f[b] = NL
    /\ NoHeader(f, h + 1, b)
    /\ \A p \in I!KeyLines(f) : a <= p /\ p < b => f[p + 1] = k
    /\ \A p \in Found(f, s, k) : ~(p < a)

LEMMA InsideFrom ==
  ASSUME NEW f \in Seq(Symbol), NEW s, NEW h \in I!HeadersOf(f, s), NEW b \in Nat,
         NoHeader(f, h + 1, b), NEW p \in Nat, h < p, p <= b
  PROVE  Inside(f, s, p)
<1>1. I!Headers(f) \subseteq Nat /\ h \in I!Headers(f)
  BY LinesIn DEF I!Headers, I!HeadersOf
<1>2. \A j \in I!Headers(f) : j < p => j <= h
  BY <1>1 DEF NoHeader
<1> QED BY <1>2 DEF Inside

\* No line starts inside a line.
LEMMA NextLine ==
  ASSUME NEW f, Closed(f), NEW p \in I!Lines(f)
  PROVE  /\ p \in Nat /\ I!EndOf(f, p) \in Nat /\ p < I!EndOf(f, p)
         /\ I!EndOf(f, p) <= Len(f) /\ f[I!EndOf(f, p)] = NL
         /\ \A r \in Nat : p < r /\ f[r] = NL => I!EndOf(f, p) <= r
<1>1. f \in Seq(Symbol) /\ Len(f) \in Nat /\ p \in 0 .. Len(f) - 1
  BY LinesIn DEF Closed
<1> DEFINE e == I!EndOf(f, p)
<1>2. Ends(f, p, e)
  BY <1>1, EndIs
<1> HIDE DEF e
<1>3. e \in p + 1 .. Len(f) /\ f[e] = NL /\ \A j \in p + 1 .. e - 1 : f[j] # NL
  BY <1>2 DEF Ends
<1> QED BY <1>1, <1>3 DEF e

\* The first section of that name: its header, and where it ends.
LEMMA SectionIs ==
  ASSUME NEW f, Closed(f), NEW s \in Sections, I!HeadersOf(f, s) # {}
  PROVE  LET h == I!Min(I!HeadersOf(f, s))
             q == I!First(f, s)
             e == I!SectionEnd(f, q) IN
         /\ h \in I!HeadersOf(f, s) /\ h \in I!Headers(f) /\ h \in Nat
         /\ \A i \in I!HeadersOf(f, s) : h <= i
         /\ q \in Nat /\ e \in Nat /\ h < q /\ q <= e /\ e <= Len(f)
         /\ f[q] = NL /\ f[e] = NL
         /\ e \in I!Headers(f) \/ e = Len(f)
         /\ NoHeader(f, h + 1, e)
         /\ \A p \in I!Lines(f) : h < p => q <= p
<1> DEFINE h == I!Min(I!HeadersOf(f, s))
           q == I!First(f, s)
           e == I!SectionEnd(f, q)
<1>1. f = <<>> \/ f[Len(f)] = NL
  BY DEF Closed
<1>2. f \in Seq(Symbol)
  BY DEF Closed
<1>3. I!Headers(f) \subseteq Nat /\ I!HeadersOf(f, s) \subseteq I!Headers(f)
      /\ \A i \in I!Headers(f) : i \in I!Lines(f) /\ i < Len(f)
  BY <1>2, LinesIn DEF I!Headers, I!HeadersOf
<1>4. h \in I!HeadersOf(f, s) /\ \A i \in I!HeadersOf(f, s) : h <= i
  BY <1>3, LeastIs
<1>5. q = I!EndOf(f, h)
  BY DEF I!First
<1> HIDE DEF h, q
<1>6. h \in I!Headers(f) /\ h \in Nat /\ h \in I!Lines(f) /\ Len(f) \in Nat
  BY <1>2, <1>3, <1>4
<1>7. /\ q \in Nat /\ h < q /\ q <= Len(f) /\ f[q] = NL
      /\ \A r \in Nat : h < r /\ f[r] = NL => q <= r
  BY <1>5, <1>6, NextLine
<1>8. \A p \in I!Lines(f) : h < p => q <= p
  <2> TAKE p \in I!Lines(f)
  <2> HAVE h < p
  <2>1. p \in Nat /\ (p = 0 \/ f[p] = NL)
    BY <1>2, LinesIn DEF I!Lines
  <2> QED BY <1>6, <1>7, <2>1
<1> DEFINE E == {p \in I!Headers(f) : p >= q} \cup {Len(f)}
<1>9. e \in E /\ \A y \in E : e <= y
  <2>1. E \in SUBSET Nat /\ E # {}
    BY <1>3, <1>6
  <2>2. e = I!Min(E)
    BY DEF I!SectionEnd
  <2> HIDE DEF E, e
  <2> QED BY <2>1, <2>2, LeastIs
<1> HIDE DEF e
<1>10. e \in Nat /\ q <= e /\ e <= Len(f) /\ (e \in I!Headers(f) \/ e = Len(f))
  BY <1>3, <1>6, <1>7, <1>9
<1>11. f[e] = NL
  <2>1. CASE e \in I!Headers(f)
    <3>1. e = 0 \/ f[e] = NL
      BY <1>3, <2>1 DEF I!Lines
    <3> QED BY <1>6, <1>7, <1>10, <3>1
  <2>2. CASE e = Len(f)
    BY <1>1, <1>6, <1>7, <2>2
  <2> QED BY <1>10, <2>1, <2>2
<1>12. NoHeader(f, h + 1, e)
  <2> SUFFICES ASSUME NEW j \in I!Headers(f), h + 1 <= j, j < e
               PROVE  FALSE
    BY DEF NoHeader
  <2>1. j \in Nat /\ j \in I!Lines(f)
    BY <1>3
  <2>2. q <= j
    BY <1>6, <1>8, <2>1
  <2>3. j \in E
    BY <1>7, <2>1, <2>2
  <2> HIDE DEF E
  <2> QED BY <1>9, <1>10, <2>1, <2>3
<1> QED BY <1>4, <1>6, <1>7, <1>8, <1>10, <1>11, <1>12 DEF h, q, e

\* The keys of that name in it are the ones read() finds there.
LEMMA SameIs ==
  ASSUME NEW f, Closed(f), NEW s \in Sections, I!HeadersOf(f, s) # {}, NEW k
  PROVE  /\ I!Same(f, s, k) \subseteq Found(f, s, k)
         /\ \A p \in Found(f, s, k) :
              p < I!SectionEnd(f, I!First(f, s)) => p \in I!Same(f, s, k)
<1> DEFINE h == I!Min(I!HeadersOf(f, s))
           q == I!First(f, s)
           e == I!SectionEnd(f, q)
<1>1. f \in Seq(Symbol)
  BY DEF Closed
<1>2. /\ h \in I!HeadersOf(f, s) /\ h \in I!Headers(f) /\ h \in Nat
      /\ \A i \in I!HeadersOf(f, s) : h <= i
      /\ q \in Nat /\ e \in Nat /\ h < q
      /\ NoHeader(f, h + 1, e)
      /\ \A p \in I!Lines(f) : h < p => q <= p
  BY SectionIs
<1>3. I!Same(f, s, k) = {p \in I!KeyLines(f) : q <= p /\ p < e /\ f[p + 1] = k}
  BY DEF I!Same, I!SectionKeys
<1> HIDE DEF h, q, e
<1>4. I!KeyLines(f) \subseteq Nat /\ I!Headers(f) \subseteq Nat
      /\ I!HeadersOf(f, s) \subseteq I!Headers(f)
  BY <1>1, LinesIn DEF I!KeyLines, I!Headers, I!HeadersOf
<1>5. ASSUME NEW p \in I!KeyLines(f), q <= p, p < e, f[p + 1] = k
      PROVE  p \in Found(f, s, k)
  <2>1. p \in Nat /\ h < p /\ p <= e
    BY <1>2, <1>4, <1>5
  <2>2. Inside(f, s, p)
    BY <1>1, <1>2, <2>1, InsideFrom
  <2> QED BY <1>5, <2>2 DEF Found
<1>6. ASSUME NEW p \in Found(f, s, k), p < e
      PROVE  p \in I!KeyLines(f) /\ q <= p /\ f[p + 1] = k
  <2>1. p \in I!KeyLines(f) /\ f[p + 1] = k /\ Inside(f, s, p)
    BY DEF Found
  <2>2. PICK i \in I!HeadersOf(f, s) : i < p /\ \A j \in I!Headers(f) : j < p => j <= i
    BY <2>1 DEF Inside
  <2>3. h < p /\ p \in I!Lines(f)
    BY <1>2, <1>4, <2>1, <2>2 DEF I!KeyLines
  <2> QED BY <1>2, <2>1, <2>3
<1> QED BY <1>3, <1>5, <1>6 DEF e, q

\* A new key: behind the last one, or where the empty line is.
LEMMA GapPlace ==
  ASSUME NEW f, Closed(f), I!Roomy(f), NEW s \in Sections, I!HeadersOf(f, s) # {},
         NEW k, I!Same(f, s, k) = {}
  PROVE  Place(f, s, k, I!Gap(f, s, k), I!Gap(f, s, k))
<1> DEFINE h == I!Min(I!HeadersOf(f, s))
           q == I!First(f, s)
           e == I!SectionEnd(f, q)
           K == I!SectionKeys(f, s)
           L == I!KeyEnds(f, s, k)
           a == I!Gap(f, s, k)
<1>1. f \in Seq(Symbol) /\ Len(f) \in Nat
  BY DEF Closed
<1>2. /\ h \in I!HeadersOf(f, s) /\ h \in I!Headers(f) /\ h \in Nat
      /\ q \in Nat /\ e \in Nat /\ h < q /\ q <= e /\ e <= Len(f) /\ f[e] = NL
      /\ e \in I!Headers(f) \/ e = Len(f)
      /\ NoHeader(f, h + 1, e)
      /\ \A p \in I!Lines(f) : h < p => q <= p
  BY SectionIs
<1>3. K = {p \in I!KeyLines(f) : q <= p /\ p < e}
  BY DEF I!SectionKeys
<1>4. L = {I!EndOf(f, p) : p \in K}
  BY DEF I!KeyEnds
<1>5. a = IF L # {} THEN I!Max(L) ELSE IF e > 0 /\ f[e] = NL THEN e - 1 ELSE e
  BY DEF I!Gap, I!Behind
<1>6. \A p \in Found(f, s, k) : ~(p < e)
  BY SameIs
<1> HIDE DEF h, q, e, K, L, a
<1>7. I!KeyLines(f) \subseteq Nat /\ I!KeyLines(f) \subseteq I!Lines(f)
      /\ I!Headers(f) \subseteq Nat
  BY <1>1, LinesIn DEF I!KeyLines, I!Headers
<1>8. a \in Nat /\ h < a /\ a <= e /\ f[a] = NL
  <2>1. CASE L # {}
    <3>1. \A p \in K : I!EndOf(f, p) \in Nat /\ p < I!EndOf(f, p) /\ I!EndOf(f, p) <= e
                       /\ f[I!EndOf(f, p)] = NL /\ h < p
      <4> TAKE p \in K
      <4>1. p \in I!Lines(f) /\ p \in Nat /\ q <= p /\ p < e
        BY <1>3, <1>7
      <4> QED BY <1>2, <4>1, NextLine
    <3>2. L \in SUBSET (0 .. e)
      BY <1>2, <1>4, <3>1
    <3>3. a \in L
      BY <1>2, <1>5, <2>1, <3>2, GreatestIs
    <3>4. PICK p \in K : a = I!EndOf(f, p)
      BY <1>4, <3>3
    <3>5. p \in Nat
      BY <1>3, <1>7
    <3> QED BY <1>2, <3>1, <3>4, <3>5
  <2>2. CASE L = {}
    <3>1. K = {}
      BY <1>4, <2>2
    <3>2. Ended(f, h, e) /\ e \in h + 1 .. Len(f)
      BY <1>1, <1>2, <1>7 DEF Ended, NoHeader
    <3>3. Room(f, h, e)
      BY <1>2, <3>2, RoomyIs
    <3>4. ~ \E p \in I!KeyLines(f) : h < p /\ p < e
      BY <1>2, <1>3, <1>7, <3>1
    <3>5. e - 1 \in I!Lines(f) /\ e - 1 > h
      BY <3>3, <3>4 DEF Room
    <3>6. a = e - 1
      BY <1>2, <1>5, <2>2
    <3>7. a \in Nat /\ (a = 0 \/ f[a] = NL)
      BY <1>2, <3>5, <3>6 DEF I!Lines
    <3> QED BY <1>2, <3>5, <3>6, <3>7
  <2> QED BY <2>1, <2>2
<1>9. NoHeader(f, h + 1, a)
  BY <1>2, <1>7, <1>8 DEF NoHeader
<1>10. \A p \in Found(f, s, k) : ~(p < a)
  <2>1. Found(f, s, k) \in SUBSET Nat
    BY <1>1, FoundIn
  <2> QED BY <1>2, <1>6, <1>8, <2>1
<1>11. \A p \in I!KeyLines(f) : ~(a <= p /\ p < a)
  BY <1>7, <1>8
<1>12. a <= a /\ a <= Len(f)
  BY <1>1, <1>2, <1>8
<1>13. Place(f, s, k, a, a)
  BY <1>2, <1>8, <1>9, <1>10, <1>11, <1>12 DEF Place
<1> QED BY <1>13 DEF a

\* A key that is there: from the end of the one before it to its own.
LEMMA KeyPlace ==
  ASSUME NEW f, Closed(f), NEW s \in Sections, I!HeadersOf(f, s) # {},
         NEW k, I!Same(f, s, k) # {}
  PROVE  LET m == I!Min(I!Same(f, s, k))
             L == I!KeyEnds(f, s, k) IN
         /\ m \in Found(f, s, k) /\ \A p \in Found(f, s, k) : m <= p
         /\ Place(f, s, k, IF L = {} THEN I!First(f, s) ELSE I!Max(L), I!EndOf(f, m))
<1> DEFINE h == I!Min(I!HeadersOf(f, s))
           q == I!First(f, s)
           e == I!SectionEnd(f, q)
           K == I!SectionKeys(f, s)
           T == I!Same(f, s, k)
           m == I!Min(T)
           L == I!KeyEnds(f, s, k)
           a == IF L = {} THEN q ELSE I!Max(L)
           b == I!EndOf(f, m)
<1>1. f \in Seq(Symbol) /\ Len(f) \in Nat
  BY DEF Closed
<1>2. /\ h \in I!HeadersOf(f, s) /\ h \in I!Headers(f) /\ h \in Nat
      /\ q \in Nat /\ e \in Nat /\ h < q /\ q <= e /\ e <= Len(f) /\ f[e] = NL /\ f[q] = NL
      /\ NoHeader(f, h + 1, e)
      /\ \A p \in I!Lines(f) : h < p => q <= p
  BY SectionIs
<1>3. K = {p \in I!KeyLines(f) : q <= p /\ p < e} /\ T = {p \in K : f[p + 1] = k}
  BY DEF I!SectionKeys, I!Same
<1>4. L = {I!EndOf(f, p) : p \in {x \in K : \A y \in T : x < y}}
  BY DEF I!KeyEnds
<1>5. T \subseteq Found(f, s, k) /\ \A p \in Found(f, s, k) : p < e => p \in T
  BY SameIs
<1>6. I!KeyLines(f) \subseteq Nat /\ I!KeyLines(f) \subseteq I!Lines(f)
      /\ I!Headers(f) \subseteq Nat /\ Found(f, s, k) \in SUBSET Nat
  BY <1>1, LinesIn, FoundIn DEF I!KeyLines, I!Headers
<1> HIDE DEF h, q, e, K, T
<1>7. m \in T /\ \A y \in T : m <= y
  <2>1. T \in SUBSET Nat /\ T # {}
    BY <1>3, <1>6 DEF T
  <2> QED BY <2>1, LeastIs
<1> HIDE DEF m
<1>8. m \in Nat /\ m \in I!Lines(f) /\ q <= m /\ m < e /\ f[m + 1] = k
      /\ m \in K /\ m \in I!KeyLines(f)
  BY <1>3, <1>6, <1>7
<1>9. \A p \in Found(f, s, k) : m <= p
  BY <1>2, <1>5, <1>6, <1>7, <1>8
<1>10. /\ b \in Nat /\ m < b /\ b <= Len(f) /\ f[b] = NL /\ b <= e
       /\ \A r \in Nat : m < r /\ f[r] = NL => b <= r
  BY <1>2, <1>8, NextLine
<1>11. f[m] = NL
  BY <1>2, <1>8 DEF I!Lines
<1>12. \A x \in K : x < m => /\ I!EndOf(f, x) \in Nat /\ x \in Nat /\ x < I!EndOf(f, x)
                             /\ I!EndOf(f, x) <= m /\ f[I!EndOf(f, x)] = NL
                             /\ I!EndOf(f, x) \in L /\ h < x
  <2> TAKE x \in K
  <2> HAVE x < m
  <2>1. x \in I!Lines(f) /\ x \in Nat /\ q <= x
    BY <1>3, <1>6
  <2>2. \A y \in T : x < y
    BY <1>3, <1>6, <1>7, <1>8, <2>1
  <2>3. I!EndOf(f, x) \in L
    BY <1>4, <2>2
  <2> QED BY <1>2, <1>8, <1>11, <2>1, <2>3, NextLine
<1>13. \A l \in L : \E x \in K : x < m /\ l = I!EndOf(f, x)
  BY <1>4, <1>7
<1>14. L \in SUBSET (0 .. m)
  BY <1>8, <1>12, <1>13
<1> HIDE DEF b, L
<1>15. L # {} => a \in L /\ \A l \in L : a >= l
  BY <1>8, <1>14, GreatestIs
<1>16. L = {} => a = q
  OBVIOUS
<1> HIDE DEF a
<1>17. a \in Nat /\ h < a /\ a <= m /\ f[a] = NL
  <2>1. CASE L = {}
    BY <1>2, <1>8, <1>16, <2>1
  <2>2. CASE L # {}
    <3>1. PICK x \in K : x < m /\ a = I!EndOf(f, x)
      BY <1>13, <1>15, <2>2
    <3>2. a \in Nat /\ x \in Nat /\ x < a /\ a <= m /\ f[a] = NL /\ h < x
      BY <1>12, <3>1
    <3> QED BY <1>2, <3>2
  <2> QED BY <2>1, <2>2
<1>18. ASSUME NEW p \in I!KeyLines(f), a <= p, p < b
       PROVE  f[p + 1] = k
  <2>1. p \in Nat /\ p \in I!Lines(f)
    BY <1>6
  <2>2. ~(m < p)
    <3>1. p = 0 \/ f[p] = NL
      BY <2>1 DEF I!Lines
    <3> QED BY <1>8, <1>10, <1>18, <2>1, <3>1
  <2>3. ~(p < m)
    <3> SUFFICES ASSUME p < m
                 PROVE  FALSE
      OBVIOUS
    <3>1. h < p
      BY <1>2, <1>17, <1>18, <2>1
    <3>2. p \in K
      BY <1>2, <1>3, <1>8, <2>1, <3>1
    <3>3. I!EndOf(f, p) \in L /\ p < I!EndOf(f, p) /\ I!EndOf(f, p) \in Nat
      BY <1>12, <3>2
    <3>4. a >= I!EndOf(f, p)
      BY <1>15, <3>3
    <3> QED BY <1>17, <1>18, <2>1, <3>3, <3>4
  <2>4. p = m
    BY <1>8, <2>1, <2>2, <2>3
  <2> QED BY <1>8, <2>4
<1>19. NoHeader(f, h + 1, b)
  BY <1>2, <1>6, <1>10 DEF NoHeader
<1>20. \A p \in Found(f, s, k) : ~(p < a)
  BY <1>6, <1>8, <1>9, <1>17
<1>21. a <= b
  BY <1>8, <1>10, <1>17
<1>22. Place(f, s, k, a, b)
  BY <1>2, <1>10, <1>17, <1>18, <1>19, <1>20, <1>21 DEF Place
<1> QED BY <1>5, <1>7, <1>9, <1>22 DEF a, b, m, L, T, q

(***************************************************************************)
(* What write() is to make of the file f.                                  *)
(***************************************************************************)
WrittenWell(f, g, s, k, v) ==
  /\ Closed(g) /\ I!Whole(g) /\ I!Roomy(g)
  /\ \A t, l : I!ReadKey(g, t, l) = IF t = s /\ l = k THEN v ELSE I!ReadKey(f, t, l)

LEMMA EntryWritten ==
  ASSUME NEW f, Closed(f), I!Whole(f),
         NEW s \in Sections, NEW k \in Keys, NEW v \in Data[Type[s][k]],
         NEW comment \in BOOLEAN, NEW a, NEW b, Place(f, s, k, a, b),
         \A h \in I!Headers(f) : \A e \in h + 1 .. Len(f) :
           Ended(f, h, e) /\ ((h < a /\ e < a) \/ h >= b) => Room(f, h, e)
  PROVE  LET u == I!Entry(k, I!Text(Type[s][k], v), comment)
         IN WrittenWell(f, Spliced(f, a, u, b), s, k, v)
<1> DEFINE t == I!Text(Type[s][k], v)
           u == I!Entry(k, t, comment)
           g == Spliced(f, a, u, b)
           c == a + Len(u)
           o == IF comment THEN 2 ELSE 0
           q == a + o
<1>1. t \in Seq(Symbol) /\ (\A i \in 1 .. Len(t) : t[i] # NL) /\ I!Parsed(Type[s][k], t) = v
  BY TextIs
<1>2. PICK h \in I!HeadersOf(f, s) :
        /\ a \in Nat /\ b \in Nat /\ h < a /\ a <= b /\ b <= Len(f)
        /\ f[a] = NL /\ f[b] = NL
        /\ NoHeader(f, h + 1, b)
        /\ \A p \in I!KeyLines(f) : a <= p /\ p < b => f[p + 1] = k
        /\ \A p \in Found(f, s, k) : ~(p < a)
  BY DEF Place
<1> HIDE DEF t
<1>3. /\ Closed(u) /\ Len(u) = o + 2 + Len(t) /\ o \in I!Lines(u) /\ u[o + 1] = k
      /\ I!Line(u, o) # <<>> /\ I!Line(u, o)[1] = k /\ Tail(I!Line(u, o)) = t
      /\ \A p \in I!Lines(u) :
           p = o \/ (u[p + 1] = Sign /\ I!Line(u, p) # <<>> /\ I!Line(u, p)[1] = Sign)
  BY <1>1, EntryIs
<1> HIDE DEF u
<1>4. f \in Seq(Symbol) /\ Len(f) \in Nat /\ u \in Seq(Symbol) /\ Len(u) \in Nat
      /\ Len(t) \in Nat /\ o \in Nat
  BY <1>1, <1>3 DEF Closed
<1>5. a \in 0 .. Len(f) /\ b \in a .. Len(f)
  BY <1>2, <1>4
<1>6. Edit(f, g, a, b, c) /\ PartOf(u, g, a) /\ Len(g) = Len(f) - b + c
  BY <1>2, <1>3, <1>5, EditOf
<1> HIDE DEF g, o
<1>7. g \in Seq(Symbol) /\ Closed(g) /\ c \in Nat /\ a <= c
  BY <1>6 DEF Edit, Closed
<1>8. q \in I!Lines(g) /\ g[q + 1] = k /\ I!Line(g, q) = I!Line(u, o)
      /\ q \in Nat /\ a <= q /\ q < c
  <2>1. a + o \in I!Lines(g) /\ g[a + o + 1] = u[o + 1] /\ I!Line(g, a + o) = I!Line(u, o)
    BY <1>3, <1>6, PartLines
  <2>2. q \in Nat /\ a <= q /\ q < c
    BY <1>2, <1>3, <1>4
  <2>3. u[o + 1] = k
    BY <1>3
  <2> QED BY <2>1, <2>2, <2>3
<1> HIDE DEF q, c
<1>9. ASSUME NEW r \in I!Lines(g), a <= r, r < c, r # q
      PROVE  g[r + 1] = Sign /\ I!Line(g, r) # <<>> /\ I!Line(g, r)[1] = Sign
  <2> DEFINE i == r - a
  <2>1. r \in Nat
    BY <1>7, LinesIn
  <2>2. r < a + Len(u)
    BY <1>9 DEF c
  <2>3. i \in I!Lines(u)
    BY <1>6, <1>9, <2>2, LinesOfPart
  <2>4. a + i = r /\ i # o
    BY <1>2, <1>4, <1>9, <2>1 DEF q
  <2> HIDE DEF i
  <2>5. g[a + i + 1] = u[i + 1] /\ I!Line(g, a + i) = I!Line(u, i)
    BY <1>6, <2>3, PartLines
  <2> QED BY <1>3, <2>3, <2>4, <2>5
<1>10. k \notin Sections /\ Sign \notin Sections /\ Sign \notin Keys
  BY IniAssumption
<1>11. I!Headers(f) \subseteq Nat /\ I!Headers(g) \subseteq Nat /\ h \in I!Headers(f)
       /\ I!KeyLines(g) \subseteq Nat /\ I!KeyLines(f) \subseteq Nat
  BY <1>4, <1>7, LinesIn DEF I!Headers, I!HeadersOf, I!KeyLines
<1>12. NoHeader(g, a, c)
  <2> SUFFICES ASSUME NEW j \in I!Headers(g), a <= j, j < c
               PROVE  FALSE
    BY DEF NoHeader
  <2>1. j \in I!Lines(g) /\ g[j + 1] \in Sections
    BY DEF I!Headers, I!IsHeader
  <2> QED BY <1>8, <1>9, <1>10, <2>1
<1>13. NoHeader(f, a, b)
  BY <1>2, <1>11 DEF NoHeader
<1>14. h \in I!HeadersOf(g, s)
  <2>1. To(h, a, b, c) = h
    BY <1>2 DEF To
  <2> QED BY <1>2, <1>6, <1>11, <2>1, HeaderMoves
<1>15. NoHeader(g, h + 1, c)
  <2> SUFFICES ASSUME NEW j \in I!Headers(g), h + 1 <= j, j < c
               PROVE  FALSE
    BY DEF NoHeader
  <2>1. j < a
    BY <1>2, <1>11, <1>12 DEF NoHeader
  <2>2. To(j, a, c, b) = j
    BY <2>1 DEF To
  <2>3. j \in I!Headers(f)
    BY <1>6, <2>1, <2>2, EditBack, HeaderMoves
  <2> QED BY <1>2, <1>11, <2>1, <2>3 DEF NoHeader
<1>16. q \in I!KeyLines(g) /\ q \in Found(g, s, k)
  <2>1. q \in I!KeyLines(g)
    BY <1>8 DEF I!KeyLines, I!IsKeyLine
  <2>2. h < q /\ q <= c
    BY <1>2, <1>7, <1>8, <1>11
  <2>3. Inside(g, s, q)
    BY <1>7, <1>8, <1>14, <1>15, <2>2, InsideFrom
  <2> QED BY <1>8, <2>1, <2>3 DEF Found
<1>17. ASSUME NEW p \in I!KeyLines(f), a <= p, p < b
       PROVE  p \in Found(f, s, k)
  <2>1. p \in Nat /\ h < p /\ p <= b
    BY <1>2, <1>11, <1>17
  <2>2. Inside(f, s, p)
    BY <1>2, <1>4, <2>1, InsideFrom
  <2> QED BY <1>2, <1>17, <2>2 DEF Found
<1>18. \A r \in I!KeyLines(g) : a <= r /\ r < c => r = q
  BY <1>9, <1>10 DEF I!KeyLines, I!IsKeyLine
<1>19. I!Parsed(Type[s][k], Tail(I!Line(g, q))) = v
  BY <1>1, <1>3, <1>8
<1>20. \A x, l : I!ReadKey(g, x, l) = IF x = s /\ l = k THEN v ELSE I!ReadKey(f, x, l)
  BY <1>2, <1>6, <1>8, <1>12, <1>13, <1>16, <1>17, <1>18, <1>19, ValuesAfter
<1>21. I!Whole(g)
  <2>1. I!WholeLine(I!Line(g, q))
    BY <1>3, <1>8 DEF I!WholeLine, t
  <2>2. ASSUME NEW r \in I!Lines(g), a <= r, r < c
        PROVE  I!WholeLine(I!Line(g, r))
    <3>1. CASE r = q
      BY <2>1, <3>1
    <3>2. CASE r # q
      BY <1>9, <2>2, <3>2 DEF I!WholeLine
    <3> QED BY <3>1, <3>2
  <2> QED BY <1>6, <2>2, WholeAfter
<1>22. I!Roomy(g)
  <2>1. ASSUME NEW i \in I!Headers(g), NEW e \in i + 1 .. Len(g), Ended(g, i, e)
        PROVE  (i < a /\ e < a) \/ i >= c \/ Room(g, i, e)
    <3>1. i \in Nat /\ e \in Nat /\ i < e /\ Len(g) >= c
      <4>1. Len(g) \in Nat /\ Len(g) >= c
        BY <1>2, <1>4, <1>6, <1>7
      <4>2. i \in Nat
        BY <1>11
      <4> QED BY <4>1, <4>2
    <3>2. i < a \/ i >= c
      BY <1>2, <1>7, <1>12, <3>1 DEF NoHeader
    <3>3. e < a \/ e >= c
      <4>1. e \in I!Headers(g) \/ e = Len(g)
        BY <2>1 DEF Ended
      <4> QED BY <1>2, <1>7, <1>12, <3>1, <4>1 DEF NoHeader
    <3>4. CASE i < a /\ e >= c
      <4>1. i < q /\ q < e
        BY <1>2, <1>7, <1>8, <3>1, <3>4
      <4> QED BY <1>16, <4>1 DEF Room
    <3> QED BY <3>2, <3>3, <3>4
  <2> QED BY <1>2, <1>6, <2>1, RoomyAfter
<1>23. WrittenWell(f, g, s, k, v)
  BY <1>7, <1>20, <1>21, <1>22 DEF WrittenWell
<1> QED BY <1>23 DEF g, u, t

(***************************************************************************)
(* A new section, behind an empty line.                                    *)
(***************************************************************************)
LEMMA SplicedEnd ==
  ASSUME NEW f \in Seq(Symbol), NEW u \in Seq(Symbol)
  PROVE  f \o u = Spliced(f, Len(f), u, Len(f))
<1>1. SubSeq(f, 1, Len(f)) = f
  <2>1. SubSeq(f, 1, Len(f)) \in Seq(Symbol) /\ Len(SubSeq(f, 1, Len(f))) = Len(f)
        /\ \A i \in 1 .. Len(f) : SubSeq(f, 1, Len(f))[i] = f[i]
    OBVIOUS
  <2> QED BY <2>1, SameSequence
<1>2. SubSeq(f, Len(f) + 1, Len(f)) = <<>>
  OBVIOUS
<1>3. (f \o u) \o <<>> = f \o u
  <2> DEFINE w == f \o u
  <2>1. w \in Seq(Symbol)
    OBVIOUS
  <2> HIDE DEF w
  <2>2. w \o <<>> = w
    BY <2>1
  <2> QED BY <2>2 DEF w
<1> QED BY <1>1, <1>2, <1>3 DEF Spliced

\* where the header is in it
Break(f) == IF f = <<>> THEN 0 ELSE 1

NewSection(f, s) == IF f = <<>> THEN <<s, NL>> ELSE <<NL, s, NL>>

LEMMA AppendIs ==
  ASSUME NEW f, Closed(f), NEW s \in Sections
  PROVE  I!append_section(f, s) = f \o NewSection(f, s)
<1>1. f \in Seq(Symbol) /\ Len(f) \in Nat /\ s \in Symbol /\ NL \in Symbol
  BY DEF Closed, Symbol
<1>2. CASE f = <<>>
  BY <1>2 DEF I!append_section, NewSection
<1>3. CASE f # <<>>
  <2>1. f[Len(f)] = NL
    BY <1>3 DEF Closed
  <2>2. I!append_section(f, s) = Append(f, NL) \o <<s, NL>>
    BY <1>3, <2>1 DEF I!append_section
  <2>3. NewSection(f, s) = <<NL, s, NL>>
    BY <1>3 DEF NewSection
  <2> DEFINE x == Append(f, NL) \o <<s, NL>>
             y == f \o <<NL, s, NL>>
  <2>4. x \in Seq(Symbol) /\ y \in Seq(Symbol) /\ Len(x) = Len(f) + 3 /\ Len(y) = Len(f) + 3
    BY <1>1
  <2>5. \A i \in 1 .. Len(f) + 3 : x[i] = y[i]
    BY <1>1
  <2> HIDE DEF x, y
  <2>6. x = y
    BY <2>4, <2>5, SameSequence
  <2> QED BY <2>2, <2>3, <2>6 DEF x, y
<1> QED BY <1>2, <1>3

LEMMA OneSymbol ==
  ASSUME NEW u \in Seq(Symbol), NEW i \in 1 .. Len(u)
  PROVE  SubSeq(u, i, i) = <<u[i]>>
<1> DEFINE x == SubSeq(u, i, i)
           y == <<u[i]>>
<1>1. x \in Seq(Symbol) /\ Len(x) = 1 /\ x[1] = u[i]
  OBVIOUS
<1>2. y \in Seq(Symbol) /\ Len(y) = 1 /\ y[1] = u[i]
  OBVIOUS
<1> HIDE DEF x, y
<1>3. x = y
  BY <1>1, <1>2, SameSequence
<1> QED BY <1>3 DEF x, y

\* Its lines.
LEMMA NewSectionIs ==
  ASSUME NEW f, NEW s \in Sections
  PROVE  LET u == NewSection(f, s)
             o == Break(f) IN
         /\ Closed(u) /\ Len(u) = o + 2 /\ o \in I!Lines(u) /\ u[o + 1] = s
         /\ I!Line(u, o) = <<s>>
         /\ \A p \in I!Lines(u) :
              p = o \/ (p = 0 /\ o = 1 /\ u[1] = NL /\ I!Line(u, 0) = <<>>)
<1> DEFINE u == NewSection(f, s)
           o == Break(f)
<1>0. s \in Symbol /\ NL \in Symbol /\ s # NL
  BY IniAssumption DEF Symbol
<1>1. CASE f = <<>>
  <2>1. u = <<s, NL>> /\ o = 0
    BY <1>1 DEF NewSection, Break
  <2>2. u \in Seq(Symbol) /\ Len(u) = 2 /\ u[1] = s /\ u[2] = NL
    BY <1>0, <2>1
  <2> HIDE DEF u
  <2>3. Closed(u)
    BY <2>2 DEF Closed
  <2>4. I!Lines(u) = {0}
    BY <1>0, <2>2 DEF I!Lines
  <2>5. Ends(u, 0, 2)
    BY <1>0, <2>2 DEF Ends
  <2>6. I!Line(u, 0) = SubSeq(u, 0 + 1, 2 - 1)
    <3>1. 0 \in 0 .. Len(u) - 1
      BY <2>2
    <3> QED BY <2>3, <2>5, <3>1, LineIs
  <2>7. SubSeq(u, 1, 1) = <<s>>
    <3>1. SubSeq(u, 1, 1) = <<u[1]>>
      BY <2>2, OneSymbol
    <3> QED BY <2>2, <3>1
  <2> QED BY <2>1, <2>2, <2>3, <2>4, <2>6, <2>7 DEF u
<1>2. CASE f # <<>>
  <2>1. u = <<NL, s, NL>> /\ o = 1
    BY <1>2 DEF NewSection, Break
  <2>2. u \in Seq(Symbol) /\ Len(u) = 3 /\ u[1] = NL /\ u[2] = s /\ u[3] = NL
    BY <1>0, <2>1
  <2> HIDE DEF u
  <2>3. Closed(u)
    BY <2>2 DEF Closed
  <2>4. I!Lines(u) = {0, 1}
    BY <1>0, <2>2 DEF I!Lines
  <2>5. Ends(u, 0, 1) /\ Ends(u, 1, 3)
    BY <1>0, <2>2 DEF Ends
  <2>6. I!Line(u, 0) = SubSeq(u, 0 + 1, 1 - 1)
    <3>1. 0 \in 0 .. Len(u) - 1
      BY <2>2
    <3> QED BY <2>3, <2>5, <3>1, LineIs
  <2>7. I!Line(u, 1) = SubSeq(u, 1 + 1, 3 - 1)
    <3>1. 1 \in 0 .. Len(u) - 1
      BY <2>2
    <3> QED BY <2>3, <2>5, <3>1, LineIs
  <2>8. SubSeq(u, 2, 2) = <<s>> /\ SubSeq(u, 1, 0) = <<>>
    <3>1. 2 \in 1 .. Len(u)
      BY <2>2
    <3>2. SubSeq(u, 2, 2) = <<u[2]>>
      BY <2>2, <3>1, OneSymbol
    <3> QED BY <2>2, <3>2
  <2> QED BY <2>1, <2>2, <2>3, <2>4, <2>6, <2>7, <2>8 DEF u
<1> QED BY <1>1, <1>2

LEMMA SectionWritten ==
  ASSUME NEW f, Closed(f), I!Whole(f), I!Roomy(f), NEW s \in Sections,
         I!HeadersOf(f, s) = {}, NEW k
  PROVE  LET g == I!append_section(f, s)
             n == Len(g) IN
         /\ Closed(g) /\ I!Whole(g) /\ Place(g, s, k, n, n)
         /\ \A h \in I!Headers(g) : \A e \in h + 1 .. n :
              Ended(g, h, e) /\ ((h < n /\ e < n) \/ h >= n) => Room(g, h, e)
         /\ \A t, l : I!ReadKey(g, t, l) = I!ReadKey(f, t, l)
<1> DEFINE u == NewSection(f, s)
           m == Len(f)
           g == Spliced(f, m, u, m)
           n == Len(g)
           o == Break(f)
           q == m + o
<1>0. s # NL /\ NL \notin Sections /\ NL \notin Keys /\ s \notin Keys
  BY IniAssumption
<1>1. /\ Closed(u) /\ Len(u) = o + 2 /\ o \in I!Lines(u) /\ u[o + 1] = s
      /\ I!Line(u, o) = <<s>>
      /\ \A p \in I!Lines(u) :
           p = o \/ (p = 0 /\ o = 1 /\ u[1] = NL /\ I!Line(u, 0) = <<>>)
  BY NewSectionIs
<1>2. f \in Seq(Symbol) /\ m \in Nat /\ u \in Seq(Symbol) /\ Len(u) \in Nat /\ o \in Nat
      /\ (o = 1 => m > 0) /\ (o = 0 => m = 0)
  BY <1>1 DEF Closed, Break
<1>3. I!append_section(f, s) = g
  <2>1. I!append_section(f, s) = f \o u
    BY AppendIs
  <2> HIDE DEF u
  <2>2. f \o u = Spliced(f, Len(f), u, Len(f))
    BY <1>2, SplicedEnd
  <2> QED BY <2>1, <2>2
<1>4. m = 0 \/ f[m] = NL
  BY <1>2 DEF Closed
<1>5. m \in 0 .. Len(f) /\ m \in m .. Len(f)
  BY <1>2
<1> HIDE DEF u
<1>6. Edit(f, g, m, m, m + Len(u)) /\ PartOf(u, g, m) /\ n = Len(f) - m + (m + Len(u))
  <2> HIDE DEF m
  <2>1. Closed(u)
    BY <1>1
  <2> QED BY <1>4, <1>5, <2>1, EditOf
<1>a. m = 0 \/ g[m] = NL
  BY <1>6 DEF PartOf
<1> HIDE DEF g, o
<1>7. n = m + Len(u) /\ n = q + 2 /\ m <= q /\ q \in Nat /\ n \in Nat
  BY <1>1, <1>2, <1>6
<1>8. Edit(f, g, m, m, n) /\ g \in Seq(Symbol) /\ Closed(g)
  BY <1>6, <1>7 DEF Edit, Closed
<1> HIDE DEF m, n
<1>9. q \in I!Lines(g) /\ g[q + 1] = s /\ I!Line(g, q) = <<s>>
  <2>1. m + o \in I!Lines(g) /\ g[m + o + 1] = u[o + 1] /\ I!Line(g, m + o) = I!Line(u, o)
    BY <1>1, <1>6, PartLines
  <2> QED BY <1>1, <2>1
<1> HIDE DEF q
<1>10. ASSUME NEW r \in I!Lines(g), m <= r, r # q
       PROVE  r = m /\ q = m + 1 /\ m > 0 /\ g[r + 1] = NL /\ I!Line(g, r) = <<>>
  <2> DEFINE i == r - m
  <2>1. r \in Nat /\ r < n
    BY <1>8, LinesIn DEF n
  <2>2. i \in I!Lines(u)
    BY <1>6, <1>7, <1>10, <2>1, LinesOfPart
  <2>3. m + i = r /\ i # o
    BY <1>2, <1>10, <2>1 DEF q
  <2> HIDE DEF i
  <2>4. g[m + i + 1] = u[i + 1] /\ I!Line(g, m + i) = I!Line(u, i)
    BY <1>6, <2>2, PartLines
  <2>5. i = 0 /\ o = 1 /\ u[1] = NL /\ I!Line(u, 0) = <<>>
    BY <1>1, <2>2, <2>3
  <2> QED BY <1>2, <2>3, <2>4, <2>5 DEF q
<1>11. /\ I!Headers(f) \subseteq Nat /\ I!Headers(g) \subseteq Nat
       /\ I!KeyLines(f) \subseteq Nat /\ I!KeyLines(g) \subseteq Nat
       /\ \A r \in I!KeyLines(f) : r < m
       /\ \A r \in I!Headers(f) : r < m
  BY <1>2, <1>8, LinesIn DEF I!Headers, I!KeyLines, m
<1>12. q \in I!Headers(g) /\ q \in I!HeadersOf(g, s)
  BY <1>9 DEF I!Headers, I!HeadersOf, I!IsHeader
<1>13. \A j \in I!Headers(g) : j < m \/ j = q
  <2> TAKE j \in I!Headers(g)
  <2>1. j \in I!Lines(g) /\ g[j + 1] \in Sections
    BY DEF I!Headers, I!IsHeader
  <2> QED BY <1>0, <1>2, <1>10, <1>11, <2>1
<1>14. \A r \in I!KeyLines(g) : r < m
  <2> TAKE r \in I!KeyLines(g)
  <2>1. r \in I!Lines(g) /\ g[r + 1] \in Keys
    BY DEF I!KeyLines, I!IsKeyLine
  <2> QED BY <1>0, <1>2, <1>9, <1>10, <1>11, <2>1
<1>15. ASSUME NEW t, NEW l
       PROVE  I!ReadKey(g, t, l) = I!ReadKey(f, t, l)
  <2>1. \A p \in Found(f, t, l) : p < m
    BY <1>11 DEF Found
  <2>2. \A r \in Found(g, t, l) : r < m
    BY <1>14 DEF Found
  <2> QED BY <1>8, <2>1, <2>2, ReadMoves
<1>16. I!Whole(g)
  <2>1. ASSUME NEW r \in I!Lines(g), m <= r
        PROVE  I!WholeLine(I!Line(g, r))
    <3>1. CASE r = q
      <4>1. <<s>>[1] = s /\ Len(<<s>>) = 1
        OBVIOUS
      <4> QED BY <1>9, <3>1, <4>1 DEF I!WholeLine
    <3>2. CASE r # q
      BY <1>10, <2>1, <3>2 DEF I!WholeLine
    <3> QED BY <3>1, <3>2
  <2> QED BY <1>8, <2>1, WholeAfter
<1>17. Place(g, s, k, n, n)
  <2>1. g[n] = NL
    <3>1. g # <<>>
      BY <1>2, <1>7, <1>8 DEF n
    <3> QED BY <1>8, <3>1 DEF Closed, n
  <2>2. NoHeader(g, q + 1, n)
    BY <1>2, <1>7, <1>11, <1>13 DEF NoHeader
  <2>3. \A p \in Found(g, s, k) : ~(p < n)
    <3> SUFFICES ASSUME NEW p \in Found(g, s, k)
                 PROVE  FALSE
      OBVIOUS
    <3>1. p < m
      BY <1>14 DEF Found
    <3>2. To(p, m, n, m) \in Found(f, s, k)
      BY <1>8, <3>1, EditBack, FoundMoves
    <3> QED BY <3>2 DEF Found, Inside
  <2>4. \A p \in I!KeyLines(g) : ~(n <= p /\ p < n)
    BY <1>7, <1>11
  <2>5. n <= n /\ n <= Len(g) /\ q < n
    BY <1>7 DEF n
  <2> QED BY <1>7, <1>12, <2>1, <2>2, <2>3, <2>4, <2>5 DEF Place
<1>18. ASSUME NEW h \in I!Headers(g), NEW e \in h + 1 .. n, Ended(g, h, e),
              (h < n /\ e < n) \/ h >= n
       PROVE  Room(g, h, e)
  <2>1. h \in Nat /\ e \in Nat /\ h < e /\ e < n
    BY <1>7, <1>11, <1>18
  <2>2. e \in I!Headers(g) /\ (e < m \/ e = q) /\ h < m
    <3>1. e \in I!Headers(g)
      BY <1>7, <1>18, <2>1 DEF Ended, n
    <3> QED BY <1>2, <1>7, <1>13, <2>1, <3>1
  <2>3. CASE e = q
    <3>1. CASE q = m
      <4>1. m = 0
        BY <1>2, <3>1 DEF q
      <4> QED BY <2>1, <2>2, <4>1
    <3>2. CASE q # m
      <4>1. q = m + 1
        BY <1>2, <3>2 DEF q, o, Break
      <4>2. m \in I!Lines(g)
        <5>1. m > 0
          BY <1>2, <3>2 DEF q, o, Break
        <5>2. m \in 0 .. Len(g) - 1
          BY <1>2, <1>7, <4>1 DEF n
        <5> QED BY <1>a, <5>1, <5>2 DEF I!Lines
      <4> QED BY <1>2, <2>1, <2>2, <2>3, <4>1, <4>2 DEF Room
    <3> QED BY <3>1, <3>2
  <2>4. CASE e < m
    <3>1. To(h, m, n, m) = h /\ To(e, m, n, m) = e
      BY <2>2, <2>4 DEF To
    <3>2. h \in I!Headers(f) /\ e \in I!Headers(f) /\ Edit(g, f, m, n, m)
      BY <1>8, <2>2, <2>4, <3>1, EditBack, HeaderMoves
    <3>3. Ended(f, h, e)
      <4> SUFFICES ASSUME NEW j \in I!Headers(f), h < j, j < e
                   PROVE  FALSE
        BY <3>2 DEF Ended
      <4>1. j < m /\ To(j, m, m, n) = j
        BY <1>11 DEF To
      <4>2. To(j, m, m, n) \in I!Headers(g)
        BY <1>8, <4>1, HeaderMoves
      <4> QED BY <1>18, <4>1, <4>2 DEF Ended
    <3>4. e \in h + 1 .. Len(f)
      BY <1>2, <2>1, <2>4 DEF m
    <3>5. Room(f, h, e)
      BY <3>2, <3>3, <3>4, RoomyIs
    <3>6. Kept(f, g, m, m, n)
      BY <1>8 DEF Edit
    <3>7. CASE \E p \in I!KeyLines(f) : h < p /\ p < e
      <4>1. PICK p \in I!KeyLines(f) : h < p /\ p < e
        BY <3>7
      <4>2. p < m /\ To(p, m, m, n) = p
        BY <1>11 DEF To
      <4>3. p \in I!Lines(f) /\ f[p + 1] \in Keys
        BY DEF I!KeyLines, I!IsKeyLine
      <4>4. p \in I!KeyLines(g)
        BY <3>6, <4>2, <4>3 DEF Kept, I!KeyLines, I!IsKeyLine
      <4> QED BY <4>1, <4>4 DEF Room
    <3>8. CASE e - 1 \in I!Lines(f) /\ e - 1 > h
      <4>1. e - 1 < m /\ To(e - 1, m, m, n) = e - 1
        BY <1>2, <2>1, <2>4 DEF To
      <4>2. e - 1 \in I!Lines(g)
        BY <3>6, <3>8, <4>1 DEF Kept
      <4> QED BY <3>8, <4>2 DEF Room
    <3> QED BY <3>5, <3>7, <3>8 DEF Room
  <2> QED BY <2>2, <2>3, <2>4
<1> QED BY <1>3, <1>8, <1>15, <1>16, <1>17, <1>18 DEF n

(***************************************************************************)
(* What is overwritten, and what is inserted.                              *)
(***************************************************************************)
LEMMA InsertIs ==
  ASSUME NEW f \in Seq(Symbol), NEW pos \in 0 .. Len(f), NEW text \in Seq(Symbol),
         I!SoundInsert(f, pos, Len(text))
  PROVE  I!Insert(f, pos, text) = Spliced(f, pos, text, pos)
<1>1. Buffer \in Nat \ {0}
  BY IniAssumption
<1>2. text # <<>> => Len(f) - pos <= Buffer
  <2>1. text # <<>> => Len(text) > 0
    OBVIOUS
  <2> QED BY <2>1 DEF I!SoundInsert
<1> QED BY <1>1, <1>2, InsertShifts DEF Spliced

LEMMA OverwriteIs ==
  ASSUME NEW f \in Seq(Symbol), NEW u \in Seq(Symbol),
         NEW a \in 0 .. Len(f), NEW b \in a .. Len(f),
         I!SoundInsert(f, b, Len(u) - (b - a))
  PROVE  I!Overwrite(f, a, b, u) = Spliced(f, a, u, b)
<1>1. CASE b - a > Len(u)
  BY <1>1 DEF I!Overwrite, Spliced
<1>2. CASE ~(b - a > Len(u))
  <2> DEFINE n == b - a
             u1 == SubSeq(u, 1, n)
             u2 == SubSeq(u, n + 1, Len(u))
             e == Spliced(f, a, u1, b)
             x == Spliced(e, b, u2, b)
             y == Spliced(f, a, u, b)
  <2>1. /\ Len(f) \in Nat /\ Len(u) \in Nat /\ a \in Nat /\ b \in Nat /\ n \in Nat
        /\ a <= b /\ b <= Len(f) /\ n <= Len(u) /\ b = a + n
    BY <1>2
  <2>2. I!Overwrite(f, a, b, u) = I!Insert(e, b, u2)
    BY <1>2 DEF I!Overwrite, Spliced
  <2>3. /\ u1 \in Seq(Symbol) /\ Len(u1) = n
        /\ u2 \in Seq(Symbol) /\ Len(u2) = Len(u) - n
    BY <2>1
  <2>4. \A i \in 1 .. n : u1[i] = u[i]
    BY <2>1
  <2>5. \A i \in 1 .. Len(u) - n : u2[i] = u[n + i]
    BY <2>1
  <2> HIDE DEF n, u1, u2
  <2>6. IsSpliced(e, f, a, u1, b) /\ e \in Seq(Symbol) /\ Len(e) = a + Len(u1) + (Len(f) - b)
    <3>1. IsSpliced(e, f, a, u1, b)
      BY <2>3, SplicedIs
    <3> QED BY <3>1 DEF IsSpliced
  <2>7. Len(e) = Len(f)
    BY <2>1, <2>3, <2>6
  <2> HIDE DEF e
  <2>8. b \in 0 .. Len(e) /\ b \in b .. Len(e)
    BY <2>1, <2>7
  <2>9. I!Insert(e, b, u2) = x
    <3>1. I!SoundInsert(e, b, Len(u2))
      BY <2>3, <2>7 DEF I!SoundInsert, n
    <3> QED BY <2>3, <2>6, <2>8, <3>1, InsertIs
  <2>10. IsSpliced(x, e, b, u2, b) /\ Len(x) = b + Len(u2) + (Len(e) - b)
    <3>1. IsSpliced(x, e, b, u2, b)
      BY <2>3, <2>6, <2>8, SplicedIs
    <3> QED BY <3>1 DEF IsSpliced
  <2>11. IsSpliced(y, f, a, u, b) /\ Len(y) = a + Len(u) + (Len(f) - b)
    <3>1. IsSpliced(y, f, a, u, b)
      BY SplicedIs
    <3> QED BY <3>1 DEF IsSpliced
  <2> HIDE DEF x, y
  <2>12. Len(x) = Len(y) /\ Len(x) \in Nat
    BY <2>1, <2>3, <2>7, <2>10, <2>11
  <2>13. ASSUME NEW i \in 1 .. Len(x)
         PROVE  x[i] = y[i]
    <3>1. CASE i <= a
      <4>1. i \in 1 .. a /\ i \in 1 .. b
        BY <2>1, <3>1
      <4> QED BY <2>6, <2>10, <2>11, <4>1 DEF IsSpliced
    <3>2. CASE a < i /\ i <= b
      <4> DEFINE j == i - a
      <4>1. j \in 1 .. n /\ i = a + j /\ i \in 1 .. b /\ j \in 1 .. Len(u1) /\ j \in 1 .. Len(u)
        BY <2>1, <2>3, <3>2
      <4> HIDE DEF j
      <4>2. x[i] = e[i] /\ e[a + j] = u1[j] /\ u1[j] = u[j] /\ y[a + j] = u[j]
        BY <2>4, <2>6, <2>10, <2>11, <4>1 DEF IsSpliced
      <4> QED BY <4>1, <4>2
    <3>3. CASE b < i /\ i <= b + Len(u2)
      <4> DEFINE j == i - b
      <4>1. j \in 1 .. Len(u2) /\ i = b + j /\ n + j \in 1 .. Len(u) /\ i = a + (n + j)
            /\ j \in 1 .. Len(u) - n
        BY <2>1, <2>3, <3>3
      <4> HIDE DEF j
      <4>2. x[b + j] = u2[j] /\ u2[j] = u[n + j] /\ y[a + (n + j)] = u[n + j]
        BY <2>5, <2>10, <2>11, <4>1 DEF IsSpliced
      <4> QED BY <4>1, <4>2
    <3>4. CASE b + Len(u2) < i
      <4> DEFINE j == i - (b + Len(u2))
      <4>1. j \in 1 .. Len(f) - b /\ i = b + Len(u2) + j /\ i = a + Len(u) + j
            /\ j \in 1 .. Len(e) - b /\ b + j = a + Len(u1) + j
        BY <2>1, <2>3, <2>7, <2>10, <3>4
      <4> HIDE DEF j
      <4>2. x[b + Len(u2) + j] = e[b + j] /\ e[a + Len(u1) + j] = f[b + j]
            /\ y[a + Len(u) + j] = f[b + j]
        BY <2>6, <2>10, <2>11, <4>1 DEF IsSpliced
      <4> QED BY <4>1, <4>2
    <3>5. i \in Nat /\ b + Len(u2) \in Nat
      BY <2>1, <2>3
    <3>6. i <= a \/ (a < i /\ i <= b) \/ (b < i /\ i <= b + Len(u2)) \/ b + Len(u2) < i
      BY <2>1, <3>5
    <3> QED BY <3>1, <3>2, <3>3, <3>4, <3>6
  <2>14. x = y
    BY <2>10, <2>11, <2>12, <2>13, SameSequence DEF IsSpliced
  <2> QED BY <2>2, <2>9, <2>14 DEF x, y
<1> QED BY <1>1, <1>2

(***************************************************************************)
(* The file is closed by a newline, has whole lines and room for a key in  *)
(* every section, and reads as it has been written.                        *)
(***************************************************************************)
IniInv ==
  /\ Closed(file)
  /\ I!Whole(file)
  /\ I!Roomy(file)
  /\ I!Values(file) = want

LEMMA WriteIsWell ==
  ASSUME NEW f, Closed(f), I!Whole(f), I!Roomy(f),
         NEW s \in Sections, NEW k \in Keys, NEW v \in Data[Type[s][k]],
         NEW comment \in BOOLEAN,
         I!SoundWrite(f, s, k, I!Text(Type[s][k], v), comment)
  PROVE  WrittenWell(f, I!Written(f, s, k, I!Text(Type[s][k], v), comment), s, k, v)
<1> DEFINE t == I!Text(Type[s][k], v)
           u == I!Entry(k, t, comment)
           g == I!Written(f, s, k, t, comment)
<1>1. t \in Seq(Symbol) /\ (\A i \in 1 .. Len(t) : t[i] # NL) /\ I!Parsed(Type[s][k], t) = v
  BY TextIs
<1>2. u \in Seq(Symbol)
  <2> HIDE DEF t
  <2>1. Closed(u)
    BY <1>1, EntryIs
  <2> QED BY <2>1 DEF Closed
<1>3. f \in Seq(Symbol) /\ Len(f) \in Nat
  BY DEF Closed
<1>4. \A h \in I!Headers(f) : \A e \in h + 1 .. Len(f) : Ended(f, h, e) => Room(f, h, e)
  BY RoomyIs
<1>5. ASSUME NEW a, NEW b, Place(f, s, k, a, b)
      PROVE  WrittenWell(f, Spliced(f, a, u, b), s, k, v)
  BY <1>4, <1>5, EntryWritten
<1>6. ASSUME NEW a, NEW b, Place(f, s, k, a, b)
      PROVE  a \in 0 .. Len(f) /\ b \in a .. Len(f)
  BY <1>3, <1>6 DEF Place
<1>7. CASE I!HeadersOf(f, s) = {}
  <2> DEFINE w == I!append_section(f, s)
             n == Len(w)
  <2>1. /\ Closed(w) /\ I!Whole(w) /\ Place(w, s, k, n, n)
        /\ \A h \in I!Headers(w) : \A e \in h + 1 .. Len(w) :
             Ended(w, h, e) /\ ((h < n /\ e < n) \/ h >= n) => Room(w, h, e)
        /\ \A x, l : I!ReadKey(w, x, l) = I!ReadKey(f, x, l)
    BY <1>7, SectionWritten
  <2>2. g = w \o u
    BY <1>7 DEF I!Written
  <2> HIDE DEF w, u, g, t
  <2>3. w \o u = Spliced(w, n, u, n)
    BY <1>2, <2>1, SplicedEnd DEF Closed
  <2>4. WrittenWell(w, Spliced(w, n, u, n), s, k, v)
    <3> HIDE DEF n
    <3> USE DEF u, t
    <3> QED BY <2>1, EntryWritten
  <2>5. WrittenWell(w, g, s, k, v)
    BY <2>2, <2>3, <2>4
  <2>6. WrittenWell(f, g, s, k, v)
    BY <2>1, <2>5 DEF WrittenWell
  <2> QED BY <2>6 DEF g, t
<1>8. CASE I!HeadersOf(f, s) # {} /\ I!Same(f, s, k) = {}
  <2> DEFINE a == I!Gap(f, s, k)
  <2>1. g = I!Insert(f, a, u)
    BY <1>8 DEF I!Written
  <2>2. I!SoundInsert(f, a, Len(u))
    BY <1>8 DEF I!SoundWrite
  <2>3. Place(f, s, k, a, a)
    BY <1>8, GapPlace
  <2> HIDE DEF a, u, g, t
  <2>4. a \in 0 .. Len(f)
    BY <1>6, <2>3
  <2>5. I!Insert(f, a, u) = Spliced(f, a, u, a)
    BY <1>2, <1>3, <2>2, <2>4, InsertIs
  <2>6. WrittenWell(f, g, s, k, v)
    BY <1>5, <2>1, <2>3, <2>5
  <2> QED BY <2>6 DEF g, t
<1>9. CASE I!HeadersOf(f, s) # {} /\ I!Same(f, s, k) # {}
  <2> DEFINE m == I!Min(I!Same(f, s, k))
             a == I!Start(f, s, k)
             b == I!End(f, s, k)
  <2>1. /\ m \in Found(f, s, k) /\ \A p \in Found(f, s, k) : m <= p
        /\ Place(f, s, k, a, b)
    BY <1>9, KeyPlace DEF I!Start, I!End
  <2>2. g = IF Tail(I!Line(f, m)) = t THEN f ELSE I!Overwrite(f, a, b, u)
    BY <1>9 DEF I!Written
  <2>3. I!SoundInsert(f, b, Len(u) - (b - a))
    BY <1>9 DEF I!SoundWrite
  <2> HIDE DEF a, b, m, u, g
  <2>4. CASE Tail(I!Line(f, m)) = t
    <3>1. I!ReadKey(f, s, k) = I!Parsed(Type[s][k], Tail(I!Line(f, m)))
      BY <1>3, <2>1, ReadFirst
    <3>2. I!ReadKey(f, s, k) = v
      BY <1>1, <2>4, <3>1
    <3>3. g = f
      BY <2>2, <2>4
    <3> HIDE DEF t
    <3>4. WrittenWell(f, f, s, k, v)
      BY <3>2 DEF WrittenWell
    <3> QED BY <3>3, <3>4 DEF g, t
  <2>5. CASE Tail(I!Line(f, m)) # t
    <3>1. g = I!Overwrite(f, a, b, u)
      BY <2>2, <2>5
    <3>2. a \in 0 .. Len(f) /\ b \in a .. Len(f)
      BY <1>6, <2>1
    <3>3. I!Overwrite(f, a, b, u) = Spliced(f, a, u, b)
      BY <1>2, <1>3, <2>3, <3>2, OverwriteIs
    <3>4. WrittenWell(f, g, s, k, v)
      BY <1>5, <2>1, <3>1, <3>3
    <3> QED BY <3>4 DEF g
  <2> QED BY <2>4, <2>5
<1> QED BY <1>7, <1>8, <1>9

LEMMA WriteKeeps ==
  ASSUME Careful, IniInv, NEW s \in Sections, NEW k \in Keys, NEW v \in Data[Type[s][k]],
         NEW comment \in BOOLEAN, I!WriteKey(s, k, v, comment)
  PROVE  IniInv'
<1> DEFINE t == I!Text(Type[s][k], v)
<1>1. /\ I!SoundWrite(file, s, k, t, comment)
      /\ file' = I!Written(file, s, k, t, comment)
      /\ want' = [want EXCEPT ![s][k] = v]
  BY DEF I!WriteKey
<1>2. Closed(file) /\ I!Whole(file) /\ I!Roomy(file) /\ I!Values(file) = want
  BY DEF IniInv
<1>3. WrittenWell(file, file', s, k, v)
  BY <1>1, <1>2, WriteIsWell
<1>4. /\ Closed(file') /\ I!Whole(file') /\ I!Roomy(file')
      /\ \A x, l : I!ReadKey(file', x, l) = IF x = s /\ l = k THEN v ELSE I!ReadKey(file, x, l)
  BY <1>3 DEF WrittenWell
<1>5. I!Values(file') = want'
  <2> DEFINE R(x, l) == I!ReadKey(file, x, l)
             N(x, l) == I!ReadKey(file', x, l)
  <2>1. want = [x \in Sections |-> [l \in Keys |-> R(x, l)]]
    BY <1>2 DEF I!Values
  <2>2. I!Values(file') = [x \in Sections |-> [l \in Keys |-> N(x, l)]]
    BY DEF I!Values
  <2>3. \A x, l : N(x, l) = IF x = s /\ l = k THEN v ELSE R(x, l)
    BY <1>4
  <2> HIDE DEF R, N
  <2>4. want' = [x \in Sections |-> [l \in Keys |-> N(x, l)]]
    BY <1>1, <2>1, <2>3
  <2> QED BY <2>2, <2>4
<1> QED BY <1>4, <1>5 DEF IniInv

LEMMA IniStart == Init => IniInv
<1> SUFFICES ASSUME Init
             PROVE  IniInv
  OBVIOUS
<1>1. file \in Files /\ want = I!Values(file)
  BY DEF Init, I!Init
<1>2. file \in Seq({file[i] : i \in DOMAIN file}) /\ I!Whole(file) /\ I!Roomy(file)
  BY <1>1, IniAssumption
<1>3. \A i \in 1 .. Len(file) : file[i] \in Symbol
  <2>1. \A i \in DOMAIN file : file[i] \in Symbol
    BY <1>1 DEF Symbol
  <2> QED BY <1>2, <2>1
<1>4. file \in Seq(Symbol)
  BY <1>2, <1>3, SeqOfSymbols
<1>5. Closed(file)
  BY <1>2, <1>4 DEF Closed, I!Whole
<1> QED BY <1>1, <1>2, <1>5 DEF IniInv

LEMMA IniKept ==
  ASSUME Careful
  PROVE  IniInv /\ [Next]_vars => IniInv'
<1> SUFFICES ASSUME IniInv, [Next]_vars
             PROVE  IniInv'
  OBVIOUS
<1>1. CASE UNCHANGED <<file, want>>
  BY <1>1 DEF IniInv
<1>2. CASE I!Next
  <2>0. PICK s \in Sections, k \in Keys, comment \in BOOLEAN :
          \E v \in Data[Type[s][k]] :
            I!WriteKey(s, k, v, comment \/ Type[s][k] \in {"char", "float"})
    BY <1>2 DEF I!Next
  <2>1. PICK v \in Data[Type[s][k]] :
          I!WriteKey(s, k, v, comment \/ Type[s][k] \in {"char", "float"})
    BY <2>0
  <2>2. (comment \/ Type[s][k] \in {"char", "float"}) \in BOOLEAN
    OBVIOUS
  <2> QED BY <2>1, <2>2, WriteKeeps
<1> QED BY <1>1, <1>2 DEF Next, vars, ini

LEMMA IniHolds == Careful => (Spec => []IniInv)
<1> SUFFICES ASSUME Careful
             PROVE  Spec => []IniInv
  OBVIOUS
<1>1. IniInv /\ [Next]_vars => IniInv'
  BY IniKept
<1> QED BY <1>1, IniStart, PTL DEF Spec

(***************************************************************************)
(* Every key of an ini file reads as it was written last, for every set of *)
(* sections, keys and values and every file that somebody else has written *)
(* in whole lines, whatever lines have been shrunk, grown, moved and added *)
(* for it and for the others, as long as the callers keep out of the cases *)
(* that SoundWrite names (SimpleIni.cc write(), insert(), read(), and the  *)
(* typed forms of both).                                                   *)
(***************************************************************************)
THEOREM KeysReadAsWritten == Careful => (Spec => []FileIsMap)
<1>1. IniInv => FileIsMap
  BY DEF IniInv, FileIsMap, I!FileIsMap
<1> QED BY <1>1, IniHolds, PTL

(***************************************************************************)
(* No write leaves a part of a line behind, under the same condition: what *)
(* is in the file are comments, headers, keys with their whole values, and *)
(* empty lines, and the last one ends with a newline (SimpleIni.cc         *)
(* write(), insert(), append_section(), append_key()).                     *)
(***************************************************************************)
THEOREM LinesStayWhole == Careful => (Spec => []LinesAreWhole)
<1>1. IniInv => LinesAreWhole
  BY DEF IniInv, LinesAreWhole, I!LinesAreWhole
<1> QED BY <1>1, IniHolds, PTL
=============================================================================
