----------------------------- MODULE FileBuffer -----------------------------
(***************************************************************************)
(* FileBuffer (src/src_2face/SimpleFlashFsFileBuffer.h and .cc): a file    *)
(* with a buffer of its own in front of the file of the file system.       *)
(* A state f holds the file below (data, its position tell) and the buffer *)
(* (buf, its place in the file start, the position in it pos, dirty).      *)
(* The file is not opened for appending and I/O does not fail.             *)
(***************************************************************************)
EXTENDS Integers, Sequences, FiniteSetsExt

CONSTANTS
  Bytes, Zero,
  Size,        \* buffer.size()
  MaxLen,      \* bound: the longest file, and the longest read or write
  Careful      \* the callers keep out of the cases named in Sound()

Contents == UNION {[1 .. n -> Bytes] : n \in 0 .. MaxLen}

VARIABLES
  f,
  want, at,    \* the file and the position the callers have made
  right        \* every read so far returned what is there

vars == <<f, want, at, right>>

Cut(s, from, n) == SubSeq(s, from + 1, Min({from + n, Len(s)}))

Over(s, from, b) ==
  [i \in 1 .. Max({Len(s), from + Len(b)}) |->
     IF from < i /\ i <= from + Len(b) THEN b[i - from]
     ELSE IF i <= Len(s) THEN s[i] ELSE Zero]

(***************************************************************************)
(* The file below.  Seeking behind its end enlarges it, by one byte less.  *)
(***************************************************************************)
BaseSeek(g, p) ==
  [g EXCEPT !.tell = p,
            !.data = IF p > Len(@) THEN Over(@, p - 1, <<>>) ELSE @]

BaseWrite(g, b) ==
  [g EXCEPT !.data = Over(@, g.tell, b), !.tell = @ + Len(b)]

(***************************************************************************)
(* The buffer.                                                             *)
(***************************************************************************)
flush_buffer_Here(g) ==  \* mutant: written where the file below is
  IF g.dirty THEN [BaseWrite(g, g.buf) EXCEPT !.dirty = FALSE] ELSE g

flush_buffer(g) ==
  IF g.dirty THEN [BaseWrite(BaseSeek(g, g.start), g.buf) EXCEPT !.dirty = FALSE]
  ELSE g

discard_buffer(g) ==
  [flush_buffer(g) EXCEPT !.pos = 0, !.start = 0, !.buf = <<>>]

tellg(g) == IF g.buf # <<>> THEN g.start + g.pos ELSE g.tell

file_size(g) ==
  Max({Len(g.data), g.start + (IF g.buf # <<>> /\ g.dirty THEN Len(g.buf) ELSE g.pos)})

\* what read( n ) leaves; it has returned what was at the position before
read_to_buffer(g, n) ==
  LET b == Cut(g.data, g.tell, Size) IN
  IF b = <<>> THEN [g EXCEPT !.start = g.tell]
  ELSE [g EXCEPT !.start = g.tell, !.buf = b, !.tell = @ + Len(b),
                 !.pos = Min({n, Len(b)})]

AfterRead(g, n) ==
  IF n > Size THEN
    LET h == discard_buffer(g) IN [h EXCEPT !.tell = Min({@ + n, Len(h.data)})]
  ELSE IF g.buf # <<>> /\ g.pos + n < Len(g.buf) THEN [g EXCEPT !.pos = @ + n]
  ELSE IF g.buf # <<>> /\ g.start + Len(g.buf) >= file_size(g)
  THEN [g EXCEPT !.pos = Min({@ + n, Len(g.buf)})]
  ELSE read_to_buffer(IF g.buf = <<>> THEN g
                      ELSE BaseSeek(discard_buffer(g), g.start + g.pos), n)

Result(g, n) ==
  IF n > Size THEN Cut(discard_buffer(g).data, discard_buffer(g).tell, n)
  ELSE IF g.buf # <<>> /\ (g.pos + n < Len(g.buf)
                           \/ g.start + Len(g.buf) >= file_size(g))
  THEN Cut(g.buf, g.pos, n)
  ELSE Cut(AfterRead(g, n).buf, 0, n)

InBuffer(g, p) == g.buf # <<>> /\ g.start <= p /\ p < g.start + Len(g.buf)

\* the position of the file below follows, "so that tellg is telling the truth"
AfterSeek(g, p) ==
  IF InBuffer(g, p) THEN [BaseSeek(g, p) EXCEPT !.pos = p - g.start]
  ELSE IF g.tell = p /\ (g.buf = <<>> \/ ~g.dirty) THEN g
  ELSE BaseSeek(discard_buffer(g), p)

\* The space left in the buffer, buffer.size() - (pos + 1), is unsigned: it is
\* huge when pos is at the end of the buffer.
Fits(g, b) == g.pos = Size \/ Size - (g.pos + 1) > Len(b)

\* a buffer of its own for the bytes
InNewBuffer(g, b) ==
  [g EXCEPT !.start = g.tell, !.buf = b, !.dirty = TRUE, !.pos = Len(b)]

AfterWrite(g, b) ==
  IF Len(b) > Size
  THEN BaseWrite(BaseSeek(discard_buffer(g), g.tell), b)
  ELSE IF g.buf = <<>> THEN InNewBuffer(g, b)
  ELSE LET cur == IF Fits(g, b) THEN Cut(Over(g.buf, g.pos, b), 0, g.pos + Len(b))
                  ELSE g.buf
       IN IF g.pos + Len(b) <= Len(cur)
          THEN [g EXCEPT !.buf = Over(cur, g.pos, b), !.dirty = TRUE,
                         !.pos = @ + Len(b)]
          ELSE InNewBuffer(BaseSeek(discard_buffer(g), g.start + g.pos), b)

AfterTruncate(g, n) ==
  LET h == discard_buffer(g) IN
  [h EXCEPT !.data = IF n <= Len(@) THEN Cut(@, 0, n) ELSE Over(@, n, <<>>),
            !.tell = IF n < Len(h.data) THEN Min({@, n}) ELSE @]

(***************************************************************************)
(* The calls.  Sound() says where the buffer is not the file: a write with *)
(* the position at the end of a full buffer; one that ends within a dirty  *)
(* buffer, whose rest is dropped; a seek to where the file below is, but   *)
(* the position is not; a read or write larger than the buffer while there *)
(* is something in it.                                                     *)
(***************************************************************************)
SoundWrite(b) ==
  IF Len(b) > Size THEN f.buf = <<>>
  ELSE f.buf = <<>> \/ (f.pos < Size
                        /\ (Fits(f, b) /\ f.dirty => f.pos + Len(b) >= Len(f.buf)))
SoundSeek(p) == ~InBuffer(f, p) /\ f.tell = p /\ f.buf # <<>> /\ ~f.dirty => at = p
SoundRead(n) == n > Size => f.buf = <<>>

Write(b) ==
  /\ Careful => SoundWrite(b)
  /\ at + Len(b) <= MaxLen
  /\ f' = AfterWrite(f, b)
  /\ want' = Over(want, at, b) /\ at' = at + Len(b)
  /\ UNCHANGED right

Read(n) ==
  /\ Careful => SoundRead(n)
  /\ f' = AfterRead(f, n)
  /\ right' = (right /\ Result(f, n) = Cut(want, at, n))
  /\ at' = Min({at + n, Len(want)})
  /\ UNCHANGED want

Seek(p) ==
  /\ Careful => SoundSeek(p)
  /\ p <= Len(want)
  /\ f' = AfterSeek(f, p)
  /\ at' = p
  /\ UNCHANGED <<want, right>>

Flush ==
  /\ f' = flush_buffer(f)
  /\ UNCHANGED <<want, at, right>>

\* where the position is after it, is not said
Truncate(n) ==
  /\ f' = AfterTruncate(f, n)
  /\ want' = IF n <= Len(want) THEN Cut(want, 0, n) ELSE Over(want, n, <<>>)
  /\ at' = tellg(f')
  /\ UNCHANGED right

Init ==
  /\ f \in {[data |-> s, tell |-> 0, buf |-> <<>>, start |-> 0, pos |-> 0,
             dirty |-> FALSE] : s \in Contents}
  /\ want = f.data /\ at = 0 /\ right = TRUE

Next ==
  \/ \E b \in Contents \ {<<>>} : Write(b)
  \/ \E n \in 1 .. MaxLen : Read(n)
  \/ \E p \in 0 .. MaxLen : Seek(p) \/ Truncate(p)
  \/ Flush

Spec == Init /\ [][Next]_vars

\* The file as it would be after a flush, the size, the end and the position,
\* and all that was read, are those of a file without a buffer.
BufferIsFile ==
  /\ right
  /\ flush_buffer(f).data = want
  /\ file_size(f) = Len(want)
  /\ tellg(f) = at
  /\ Len(f.buf) <= Size
=============================================================================
