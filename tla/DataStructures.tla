--------------------------- MODULE DataStructures ---------------------------
(***************************************************************************)
(* The parts of the library that meet nothing but their caller: the set of *)
(* pages, the bytes of one file, the buffered file and the ini file.  They *)
(* share nothing, so a behaviour is one of one of them (on), while the     *)
(* others stay as they were made.                                          *)
(***************************************************************************)
EXTENDS Integers, Sequences, FiniteSets

CONSTANTS
  MaxPage, MaxData,                                        \* PageSet
  Bytes, Zero, Careful,                                    \* both files
  PageSize, Spaces, Longest,                               \* DataPath
  Size, MaxLen,                                            \* FileBuffer
  Sections, Keys, Type, NL, Sign, Hex, Missing, Bits,      \* SimpleIni
  Data, Buffer, Files

ASSUME PagesAssumption == MaxPage \in Nat /\ MaxData \in Nat
ASSUME BytesAssumption == Zero \in Bytes
ASSUME PathAssumption ==
  /\ PageSize \in Nat \ {0} /\ Longest \in Nat /\ Spaces \subseteq Nat
  /\ \E m \in Spaces : \A n \in Spaces : n <= m
ASSUME BufferAssumption == Size \in Nat \ {0} /\ MaxLen \in Nat

VARIABLES
  on,                                                      \* the one in use
  data, unsorted, unshrinked, members, answered,           \* PageSet
  handle, bytes, offset, readRight,                        \* DataPath
  buffered, content, at, right,                            \* FileBuffer
  file, want                                               \* SimpleIni

P == INSTANCE PageSet WITH right <- answered
H == INSTANCE DataPath
       WITH h <- handle, want <- bytes, at <- offset, right <- readRight
B == INSTANCE FileBuffer WITH f <- buffered, want <- content
I == INSTANCE SimpleIni

\* what the symbols of an ini file are for, which values fit their type, and
\* what is in a file that somebody else has written
ASSUME IniAssumption ==
  /\ Sections \cap Keys = {} /\ {NL, Sign} \cap (Sections \cup Keys) = {}
  /\ NL # Sign /\ NL # Hex
  /\ Buffer \in Nat /\ Buffer > 0 /\ I!Half \in Nat /\ I!Half > 0
  /\ \A s \in Sections, k \in Keys : Type[s][k] \in {"int", "char", "float", "blob"}
  /\ \A v \in Data["int"] : v # NL /\ v # Hex
  /\ \A v \in Data["char"] : v \in 0 .. I!Half - 1 /\ v # NL
  /\ \A v \in Data["float"] : v # NL
  /\ \A v \in Data["blob"] : /\ v \in Seq({v[i] : i \in DOMAIN v})
                             /\ \A i \in DOMAIN v : v[i] # NL /\ v[i] # Hex
  /\ \A f \in Files : /\ f \in Seq({f[i] : i \in DOMAIN f})
                      /\ I!Whole(f) /\ I!Roomy(f)

pageset == <<data, unsorted, unshrinked, members, answered>>
datapath == <<handle, bytes, offset, readRight>>
buffer  == <<buffered, content, at, right>>
ini     == <<file, want>>
vars == <<on, pageset, datapath, buffer, ini>>

Init ==
  /\ on \in {"PageSet", "DataPath", "FileBuffer", "SimpleIni"}
  /\ P!Init
  /\ H!Init
  /\ B!Init /\ (on # "FileBuffer" => buffered.data = <<>>)
  /\ I!Init /\ (on # "SimpleIni" => file = <<>>)

Next ==
  /\ UNCHANGED on
  /\ \/ on = "PageSet" /\ P!Next /\ UNCHANGED <<datapath, buffer, ini>>
     \/ on = "DataPath" /\ H!Next /\ UNCHANGED <<pageset, buffer, ini>>
     \/ on = "FileBuffer" /\ B!Next /\ UNCHANGED <<pageset, datapath, ini>>
     \/ on = "SimpleIni" /\ I!Next /\ UNCHANGED <<pageset, datapath, buffer>>

Spec == Init /\ [][Next]_vars

(***************************************************************************)
(* Whatever calls are made in whatever order, with holes and unsorted      *)
(* additions in between, every answer is that of the set they make: no     *)
(* page is handed out twice or lost (PageSet and its users                 *)
(* allocate_free_data_page(), free_unwritten_pages()).                     *)
(***************************************************************************)
ActsAsSet == P!ActsAsSet

(***************************************************************************)
(* Wherever the bytes of a file are, in the inode or in pages, and however *)
(* often they have moved from one to the other, the file is as its callers *)
(* have made it, and so is what they read (SimpleFlashFsBase.h write(),    *)
(* read(), enlarge_file(), truncate(), seek()).                            *)
(***************************************************************************)
BytesAreKept == H!BytesAreKept

(***************************************************************************)
(* The file as it would be after a flush, its size, the position in it,    *)
(* and all that was read from it, are those of a file without a buffer     *)
(* (FileBuffer read(), write(), seek(), truncate()).                       *)
(***************************************************************************)
BufferIsFile == B!BufferIsFile

(***************************************************************************)
(* Every key reads as it was written last, however the lines have been     *)
(* moved for it and for the others since (SimpleIni write(), insert(),     *)
(* read() and the typed forms of both).                                    *)
(***************************************************************************)
FileIsMap == I!FileIsMap

(***************************************************************************)
(* No shrinking or growing of a value leaves symbols behind: every line    *)
(* stays a comment, a header, a key with its whole value, or empty         *)
(* (SimpleIni write()).                                                    *)
(***************************************************************************)
LinesAreWhole == I!LinesAreWhole
=============================================================================
