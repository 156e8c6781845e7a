------------------------------ MODULE SimpleIni ------------------------------
(***************************************************************************)
(* SimpleIni (src/src_2face/SimpleIni.h, SimpleIni.cc): keys in sections   *)
(* of a text file that is edited in place.  A file is a sequence of        *)
(* symbols: a section name stands for its header "[name]", a key for       *)
(* "\tkey = ", a comment sign for a comment, and the text of a value is    *)
(* what the typed write() makes of it, a number being one symbol whatever  *)
(* its digits.  Offsets count symbols from 0, as the code counts bytes.    *)
(* What is behind the header or the comment sign in its line is part of    *)
(* the section's name or of the comment.  I/O does not fail here.          *)
(***************************************************************************)
EXTENDS Integers, Sequences, FiniteSetsExt

CONSTANTS
  Sections, Keys,
  Type,        \* section -> key -> the type it is read and written with
  NL, Sign,    \* the newline, the comment sign
  Hex,         \* the prefix "0x"
  Missing,     \* what read() leaves when it returns false
  Bits,        \* the number of bits of an int
  Data,        \* the values written, for each type
  Buffer,      \* properties.line_buffer_size
  Careful,     \* the callers keep out of the cases named in SoundWrite
  Files        \* what a file may be like before it is first written

VARIABLES
  file,
  want         \* what its users have written: section -> key -> value

(***************************************************************************)
(* Typed values.  iread() and the reads of char, float, double and blobs.  *)
(***************************************************************************)
\* half of the values of an int are not negative
Half == 2 ^ (Bits - 1)

\* a char is converted to int, and that printed as unsigned
Text(type, v) ==
  CASE type = "int"  -> <<v>>
    [] type = "char" -> <<Hex, v % (2 * Half)>>
    [] type = "float" -> <<Hex, v>>
    [] type = "blob" -> v

\* from_chars() into an int fails for what is out of its range; a decimal
\* number ends at the x of a hexadecimal one
remove_hex_prefix(s) == IF s # <<>> /\ Head(s) = Hex THEN Tail(s) ELSE s

Parsed(type, s) ==
  LET h == remove_hex_prefix(s) IN
  CASE type = "blob" -> IF Hex \in {s[i] : i \in DOMAIN s} THEN Missing ELSE s
    [] type = "int"  -> IF s = <<>> THEN Missing
                        ELSE IF s[1] = Hex THEN 0 ELSE s[1]
    [] type = "float" -> IF h = <<>> THEN Missing ELSE h[1]
    [] type = "char" -> IF h = <<>> \/ h[1] >= Half THEN Missing ELSE h[1]

(***************************************************************************)
(* Lines.  A line is named by the offset it starts at.                     *)
(***************************************************************************)
Lines(f)   == {p \in 0 .. Len(f) - 1 : p = 0 \/ f[p] = NL}
EndOf(f, p) == Min({e \in p + 1 .. Len(f) : f[e] = NL} \cup {Len(f)})
Line(f, p) ==
  LET e == EndOf(f, p) IN SubSeq(f, p + 1, IF f[e] = NL THEN e - 1 ELSE e)

IsHeader(f, p)  == f[p + 1] \in Sections
IsKeyLine(f, p) == f[p + 1] \in Keys
Headers(f)  == {p \in Lines(f) : IsHeader(f, p)}
KeyLines(f) == {p \in Lines(f) : IsKeyLine(f, p)}

\* find_section(): the headers of that name; more on the line is another name
HeadersOf(f, s) == {p \in Headers(f) : Line(f, p) = <<s>>}

\* where the section that starts at q ends: find_next_key() stops there
SectionEnd(f, q) == Min({p \in Headers(f) : p >= q} \cup {Len(f)})

\* read( section, key ): the first such line in any section of that name
InSection(f, s, p) ==
  LET before == {h \in Headers(f) : h < p}
  IN before # {} /\ Max(before) \in HeadersOf(f, s)

ReadKey(f, s, k) ==
  LET found == {p \in KeyLines(f) : f[p + 1] = k /\ InSection(f, s, p)}
  IN IF found = {} THEN Missing ELSE Parsed(Type[s][k], Tail(Line(f, Min(found))))

(***************************************************************************)
(* insert(): read a buffer full at the position, write what was read       *)
(* before it (first the new text) there, and go on behind that.  Of the    *)
(* last step, done is the file before that position, and chunk what the    *)
(* next one writes there after it has read what it overwrites.             *)
(***************************************************************************)
Piece(f, p) == SubSeq(f, p + 1, IF p + Buffer < Len(f) THEN p + Buffer ELSE Len(f))

Step(f, last, size) ==
  IF last.chunk = <<>> \/ Len(last.done) >= size THEN last
  ELSE [done |-> last.done \o last.chunk, chunk |-> Piece(f, Len(last.done))]

Insert(f, pos, text) ==
  LET size == Len(f) + Len(text)
      step[i \in Nat] ==
        IF i = 0 THEN [done |-> SubSeq(f, 1, pos), chunk |-> text]
        ELSE Step(f, step[i - 1], size)
      new == step[size \div Buffer + 2].done
  IN new \o SubSeq(f, Len(new) + 1, Len(f))

(***************************************************************************)
(* write( section, key, value, comment ).                                  *)
(***************************************************************************)
Entry(k, text, comment) ==
  (IF comment THEN <<Sign, NL>> ELSE <<>>) \o <<k>> \o text \o <<NL>>

append_section(f, s) ==
  LET g == IF f # <<>> /\ f[Len(f)] # NL THEN Append(f, NL) ELSE f
  IN (IF g = <<>> THEN g ELSE Append(g, NL)) \o <<s, NL>>

Overwrite_Tail(f, start, end, text) ==  \* mutant: the file is not truncated
  LET new == SubSeq(f, 1, start) \o text \o SubSeq(f, end + 1, Len(f))
  IN new \o SubSeq(f, Len(new) + 1, Len(f))

\* the key is there with another value: what is between the end of the key
\* before it (or the header) and its own end is overwritten, and the rest of
\* the file is moved
Overwrite(f, start, end, text) ==
  IF end - start > Len(text)
  THEN SubSeq(f, 1, start) \o text \o SubSeq(f, end + 1, Len(f))
  ELSE Insert(SubSeq(f, 1, start) \o SubSeq(text, 1, end - start)
                \o SubSeq(f, end + 1, Len(f)),
              end, SubSeq(text, end - start + 1, Len(text)))

Behind_Header(f, q, last, end) ==  \* mutant: always where the search ended
  IF end > 0 /\ f[end] = NL THEN end - 1 ELSE end

\* there may be an extra newline before the next section
Behind(f, q, last, end) ==
  IF last # {} THEN Max(last)
  ELSE IF end > 0 /\ f[end] = NL THEN end - 1 ELSE end

\* from behind the header: the keys up to the end of the section, those with
\* the name, and where the keys before them end
First(f, s) == EndOf(f, Min(HeadersOf(f, s)))
SectionKeys(f, s) ==
  LET q == First(f, s)  end == SectionEnd(f, q)
  IN {p \in KeyLines(f) : q <= p /\ p < end}
Same(f, s, k) == {p \in SectionKeys(f, s) : f[p + 1] = k}
KeyEnds(f, s, k) ==
  LET same == Same(f, s, k)
  IN {EndOf(f, p) : p \in {x \in SectionKeys(f, s) : \A y \in same : x < y}}

\* where the file is opened for a new key, and what of it is overwritten for
\* one that is there
Gap(f, s, k) == Behind(f, First(f, s), KeyEnds(f, s, k), SectionEnd(f, First(f, s)))
Start(f, s, k) == IF KeyEnds(f, s, k) = {} THEN First(f, s) ELSE Max(KeyEnds(f, s, k))
End(f, s, k)   == EndOf(f, Min(Same(f, s, k)))

Written(f, s, k, text, comment) ==
  LET entry == Entry(k, text, comment)
      same  == Same(f, s, k)
  IN IF HeadersOf(f, s) = {} THEN append_section(f, s) \o entry
     ELSE IF same = {} THEN Insert(f, Gap(f, s, k), entry)
     ELSE IF Tail(Line(f, Min(same))) = text THEN f
     ELSE Overwrite(f, Start(f, s, k), End(f, s, k), entry)

\* insert() has two buffers: one has room for what is new, and one for all
\* that is behind it
SoundInsert(f, pos, n) == n > 0 => n <= Buffer /\ Len(f) - pos <= Buffer

SoundWrite(f, s, k, text, comment) ==
  LET n == Len(Entry(k, text, comment))
  IN HeadersOf(f, s) # {} =>
       IF Same(f, s, k) = {} THEN SoundInsert(f, Gap(f, s, k), n)
       ELSE SoundInsert(f, End(f, s, k), n - (End(f, s, k) - Start(f, s, k)))

WriteKey(s, k, v, comment) ==
  /\ Careful => SoundWrite(file, s, k, Text(Type[s][k], v), comment)
  /\ file' = Written(file, s, k, Text(Type[s][k], v), comment)
  /\ want' = [want EXCEPT ![s][k] = v]

Values(f) == [s \in Sections |-> [k \in Keys |-> ReadKey(f, s, k)]]

Init ==
  /\ file \in Files
  /\ want = Values(file)

Next == \E s \in Sections, k \in Keys, comment \in BOOLEAN :
          \E v \in Data[Type[s][k]] :
            \* these are always commented with what they stand for
            WriteKey(s, k, v, comment \/ Type[s][k] \in {"char", "float"})

vars == <<file, want>>

Spec == Init /\ [][Next]_vars

(***************************************************************************)
(* Properties.                                                             *)
(***************************************************************************)
\* Every key reads as it was written last, however the lines have been moved
\* for it and for the others since (SimpleIni.cc write(), insert(), read() and
\* the typed forms of both).
FileIsMap == Values(file) = want

\* No shrinking or growing of a value leaves symbols behind: every line stays
\* a comment, a header, a key with its whole value, or empty.
WholeLine(l) ==
  \/ l = <<>>
  \/ l[1] = Sign
  \/ l[1] \in Sections /\ Len(l) = 1
  \/ /\ l[1] \in Keys
     /\ \E s \in Sections : \E v \in Data[Type[s][l[1]]] :
          Tail(l) = Text(Type[s][l[1]], v)

Whole(f) ==
  /\ f = <<>> \/ f[Len(f)] = NL
  /\ \A p \in Lines(f) : WholeLine(Line(f, p))

LinesAreWhole == Whole(file)

(***************************************************************************)
(* What write() needs to add a key: a section without keys has an empty    *)
(* line at its end e, before the next header or the end of the file.       *)
(***************************************************************************)
Roomy(f) ==
  \A h \in Headers(f) : \A e \in h + 1 .. Len(f) :
    (/\ e \in Headers(f) \/ e = Len(f)
     /\ \A g \in Headers(f) : ~(h < g /\ g < e))
    => \/ \E p \in KeyLines(f) : h < p /\ p < e
       \/ e - 1 \in Lines(f) /\ e - 1 > h
=============================================================================
