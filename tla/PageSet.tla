------------------------------- MODULE PageSet -------------------------------
(***************************************************************************)
(* PageSet (src/src/base/SimpleFlashFsPageSet.h): the set of page numbers  *)
(* behind free_data_pages and allocated_unwritten_pages.  It is a vector   *)
(* that is only sorted, and cleared of the holes that erase() leaves, when *)
(* a call needs it.  NO_DATA, the hole, is greater than every page number. *)
(***************************************************************************)
EXTENDS Integers, Sequences, SequencesExt, FiniteSets

CONSTANTS
  MaxPage,
  MaxData      \* bound: the longest vector, holes counted

Pages   == 0 .. MaxPage
NO_DATA == MaxPage + 1

VARIABLES
  data, unsorted, unshrinked,
  members,     \* the set that the calls have made
  right        \* every answer so far was that of a set

vars == <<data, unsorted, unshrinked, members, right>>

IsPage(x) == x # NO_DATA

\* sort(): the elements of s at the places I, in ascending order
Before(s, i, j) == s[i] < s[j] \/ (s[i] = s[j] /\ i < j)
Ascending(s, I) ==
  [k \in 1 .. Cardinality(I) |->
     s[CHOOSE i \in I : Cardinality({j \in I : Before(s, j, i)}) = k - 1]]

\* the holes go to the end, and from there
Filled(s) == {i \in DOMAIN s : IsPage(s[i])}

Sorted_Holes(s) ==  \* mutant: the holes stay
  Ascending(s, DOMAIN s)

Sorted(s) == Ascending(s, Filled(s))

\* the vector as insert(), erase() and count() work on it
Ordered == IF unsorted THEN Sorted(data) ELSE data

\* where they stop: the first page not less than v
Stop(s, v) == {i \in DOMAIN s : IsPage(s[i]) /\ s[i] >= v
                                /\ \A j \in 1 .. i - 1 : ~IsPage(s[j]) \/ s[j] < v}
Found(s, v) == \E i \in Stop(s, v) : s[i] = v

\* the call has sorted the vector first, if it was unsorted
Now(s, holes) ==
  /\ data' = s
  /\ unsorted' = FALSE
  /\ unshrinked' = ((unshrinked /\ ~unsorted) \/ holes)

Answer(ok) == right' = (right /\ ok)

\* read_all_free_data_pages() adds each page once, after clear()
unordered_insert(v) ==
  /\ v \notin members /\ Len(data) < MaxData
  /\ data' = Append(data, v)
  /\ unsorted' = TRUE
  /\ members' = members \cup {v}
  /\ UNCHANGED <<unshrinked, right>>

\* the hole before the first greater page is used, if there is one
Placed(s, i, v) ==
  IF i > 1 /\ s[i - 1] = NO_DATA THEN [s EXCEPT ![i - 1] = v]
  ELSE InsertAt(s, i, v)

insert(v) ==
  LET s == Ordered IN
  /\ Len(data) < MaxData
  /\ Now(IF Found(s, v) THEN s
         ELSE IF Stop(s, v) = {} THEN Append(s, v)
         ELSE Placed(s, CHOOSE i \in Stop(s, v) : TRUE, v), FALSE)
  /\ members' = members \cup {v}
  /\ UNCHANGED right

\* a hole that is passed on the way is noticed
erase(v) ==
  LET s == Ordered IN
  /\ Now([i \in DOMAIN s |-> IF i \in Stop(s, v) /\ s[i] = v THEN NO_DATA ELSE s[i]],
         \/ Found(s, v)
         \/ \E i \in DOMAIN s : ~IsPage(s[i]) /\ \A j \in Stop(s, v) : i < j)
  /\ members' = members \ {v}
  /\ Answer(Found(s, v) <=> v \in members)

count(v) ==
  /\ Now(Ordered, FALSE)
  /\ Answer(Found(Ordered, v) <=> v \in members)
  /\ UNCHANGED members

\* empty(), get_data(): sort() if there may be holes, too
Cleared == IF unsorted \/ unshrinked THEN Sorted(data) ELSE data

empty ==
  /\ data' = Cleared /\ unsorted' = FALSE /\ unshrinked' = FALSE
  /\ Answer(Cleared = <<>> <=> members = {})
  /\ UNCHANGED members

\* allocate_free_data_page(): empty(), then erase( it ) of the first page or,
\* on the FRAM, of any; the answer is the page
allocate ==
  /\ Cleared # <<>>
  /\ \E i \in DOMAIN Cleared :
       /\ data' = [Cleared EXCEPT ![i] = NO_DATA]
       /\ members' = members \ {Cleared[i]}
       /\ Answer(Cleared[i] \in members)
  /\ unsorted' = FALSE /\ unshrinked' = TRUE

clear ==
  /\ data' = <<>> /\ unsorted' = FALSE /\ unshrinked' = FALSE
  /\ members' = {}
  /\ UNCHANGED right

\* size() const, for get_number_of_free_data_pages()
size == IF ~unsorted /\ ~unshrinked THEN Len(data)
        ELSE Cardinality(Filled(data))

\* get_sorted_data() const
get_sorted_data == Sorted(data)

Init ==
  /\ data = <<>> /\ unsorted = FALSE /\ unshrinked = FALSE
  /\ members = {} /\ right = TRUE

Next ==
  \/ \E v \in Pages : unordered_insert(v) \/ insert(v) \/ erase(v) \/ count(v)
  \/ empty \/ allocate \/ clear

Spec == Init /\ [][Next]_vars

(***************************************************************************)
(* Whatever calls are made in whatever order, with holes and unsorted      *)
(* additions in between, every answer is that of the set they make: no     *)
(* page is handed out twice or lost (PageSet and its users in              *)
(* allocate_free_data_page(), free_unwritten_pages()).                     *)
(***************************************************************************)
ActsAsSet ==
  /\ right
  /\ size = Cardinality(members)
  /\ {get_sorted_data[i] : i \in DOMAIN get_sorted_data} = members
  /\ \A i, j \in DOMAIN get_sorted_data : i < j => get_sorted_data[i] < get_sorted_data[j]
=============================================================================
