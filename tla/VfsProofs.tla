----------------------------- MODULE VfsProofs -----------------------------
(***************************************************************************)
(* Whoever has a file open shares its base handle: OneLiveHandle; and an   *)
(* update is lost only to a handle that was still being destroyed when     *)
(* another one was opened: UpdatesLostOnlyByRace.  Every file and handle   *)
(* stays within the bounds: TypeOK.  Nobody else moves a cursor:           *)
(* CursorsIndependent.  All for every number of threads, drives and names, *)
(* every length of the files and every set of commands.                    *)
(*                                                                         *)
(* The table is what keeps two handles of one file apart, so the invariant *)
(* ties the three places together that know of an OpenFile: a handle that  *)
(* a thread holds is listed under the path it was opened with, a handle    *)
(* that is listed there belongs to that path, and one that waits for its   *)
(* destruction is neither listed nor held, so that nobody can find it      *)
(* again before it is gone.  What is listed is held by someone, so that an *)
(* open() that cannot share finds none but rivals nobody holds.            *)
(***************************************************************************)
EXTENDS VfsServer, FiniteSetTheorems, TLAPS

AnyByte == Bytes \cup {Nothing}
Handle  == HandleOf(Seq(AnyByte), Nat)

\* what a thread's script is made of, but for a destruction at its head
CommandModes == {{}, {"out"}, {"out", "app"}}
Kinds   == {"open", "drain", "pump", "put", "flush", "delete", "rename", "close"}
Plain   == {c \in [op : Kinds, s : Slots,
                   p : {None} \cup Paths \cup (Paths \X Paths), mode : CommandModes] :
              /\ c.op = "open" => c.p \in Paths
              /\ c.op = "rename" => c.p \in Paths \X Paths}
Calm    == {c \in Plain : c.op # "put" /\ (c.op \in {"drain", "pump"} => c.s = 1)}
Scripts == Seq(Plain)
           \cup {<<Call("destroy", e)>> \o r : e \in Entries, r \in Seq(Plain)}

Types ==
  /\ disk \in [Drives -> [FileNames -> Seq(AnyByte) \cup {Absent}]]
  /\ entry \in [Entries -> Handle \cup {None}]
  /\ table \in [Paths -> Entries \cup {None, Expired}]
  /\ user \in [Threads -> [Slots -> UserHandle \cup {None}]]
  /\ script \in [Threads -> Scripts]
  /\ buf \in [Threads -> AnyByte]
  /\ current \in Drives \cup {None}

\* thread t is about to destroy e
Destroying(t, e) ==
  script[t] # <<>> /\ Head(script[t]).op = "destroy" /\ Head(script[t]).s = e

\* a handle that can be found under a name, and the path it belongs to
Named(f)  == f.fs /\ f.name \in Names
PathOf(f) == <<f.d, f.name>>

HeldExists ==
  \A t \in Threads, s \in Slots :
    user[t][s] # None => entry[user[t][s].e] # None

HeldIsListed ==
  \A t \in Threads, s \in Slots :
    user[t][s] # None /\ Named(entry[user[t][s].e])
      => table[PathOf(entry[user[t][s].e])] = user[t][s].e

ListedByName ==
  \A k \in Paths :
    table[k] \in Entries
      => /\ entry[table[k]] # None
         /\ Named(entry[table[k]]) => k = PathOf(entry[table[k]])

DestroyedAlone ==
  \A t \in Threads, e \in Entries :
    Destroying(t, e)
      => /\ entry[e] # None
         /\ \A u \in Threads, s \in Slots : user[u][s] # None => user[u][s].e # e
         /\ \A k \in Paths : table[k] # e
         /\ \A u \in Threads : u # t => ~Destroying(u, e)

\* somebody has this base handle open
Held(e) ==
  \E t \in Threads, s \in Slots : user[t][s] # None /\ user[t][s].e = e

\* another base handle of the same file
Rival(e) ==
  \E x \in Entries \ {e} :
    /\ entry[x] # None /\ Named(entry[x]) /\ Named(entry[e])
    /\ PathOf(entry[x]) = PathOf(entry[e])

\* one of the two sides of the race
Raced(e) == entry[e].late \/ ~Held(e)

\* a weak_ptr that has not expired
ListedIsHeld == \A k \in Paths : table[k] \in Entries => Held(table[k])

\* two base handles of one file, or one that has been overtaken
RivalsRace ==
  \A e \in Entries :
    entry[e] # None /\ Named(entry[e]) /\ (entry[e].stale \/ Rival(e)) => Raced(e)

SharingInv ==
  /\ Types /\ HeldExists /\ HeldIsListed /\ ListedByName /\ DestroyedAlone
  /\ ListedIsHeld /\ RivalsRace

(***************************************************************************)
(* Base handles: no call but open() gives a file another drive, connects   *)
(* it again or gives it one of the Names.                                  *)
(***************************************************************************)
SameFile(f, g) ==
  /\ g \in Handle
  /\ g.d = f.d
  /\ g.fs => f.fs /\ g.late = f.late
  /\ g.name \in Names => g.name = f.name

\* and what was written since is what the caller wrote
NoOlder(f, g) == SameFile(f, g) /\ (Named(g) /\ g.stale => f.stale)

LEMMA OneAfterTheOther ==
  ASSUME NEW f, NEW g, NEW h, NoOlder(f, g), NoOlder(g, h)
  PROVE  NoOlder(f, h)
<1>1. SameFile(f, h)
  BY DEF NoOlder, SameFile
<1>2. Named(h) => Named(g)
  BY DEF NoOlder, SameFile, Named
<1> QED BY <1>1, <1>2 DEF NoOlder

LEMMA EntriesAreNat == Entries \subseteq Nat /\ None \notin Entries /\ Expired \notin Entries
BY NamesAssumption DEF Entries

LEMMA NoneIsNoHandle == None \notin Handle /\ None \notin UserHandle
BY NoneAssumption DEF Handle, AnyByte

LEMMA PaddedType ==
  ASSUME NEW q \in Seq(AnyByte), NEW n \in Nat
  PROVE  Padded(q, n) \in Seq(AnyByte) /\ Len(Padded(q, n)) = n
<1>1. \A i \in 1 .. n : (IF i <= Len(q) THEN q[i] ELSE Zero) \in AnyByte
  BY VfsAssumption DEF AnyByte
<1> QED BY <1>1 DEF Padded

LEMMA SeekToType ==
  ASSUME NEW f \in Handle, NEW p \in Nat
  PROVE  NoOlder(f, SeekTo(f, p)) /\ SeekTo(f, p).pos = p
<1>1. CASE p <= Len(f.data)
  BY <1>1 DEF SeekTo, NoOlder, SameFile, Handle, HandleOf
<1>2. CASE p > Len(f.data)
  <2>1. p - 1 \in Nat /\ f.data \in Seq(AnyByte)
    BY <1>2 DEF Handle, HandleOf
  <2>2. Padded(f.data, p - 1) \in Seq(AnyByte)
    BY <2>1, PaddedType
  <2>3. ~(p <= Len(f.data))
    BY <1>2, <2>1
  <2> QED BY <2>2, <2>3 DEF SeekTo, NoOlder, SameFile, Handle, HandleOf
<1>3. Len(f.data) \in Nat
  BY DEF Handle, HandleOf
<1> QED BY <1>1, <1>2, <1>3

LEMMA AtType ==
  ASSUME NEW f \in Handle, NEW p \in Nat
  PROVE  NoOlder(f, At(f, p))
BY SeekToType DEF At, NoOlder, SameFile

LEMMA CutToType ==
  ASSUME NEW f \in Handle, NEW n \in Nat
  PROVE  NoOlder(f, CutTo(f, n))
<1>1. f.data \in Seq(AnyByte)
  BY DEF Handle, HandleOf
<1>2. Padded(f.data, n) \in Seq(AnyByte)
  BY <1>1, PaddedType
<1> QED BY <1>2 DEF CutTo, NoOlder, SameFile, Handle, HandleOf

LEMMA PutByteType ==
  ASSUME NEW f \in Handle, NEW b \in AnyByte
  PROVE  NoOlder(f, PutByte(f, b))
<1> DEFINE at == IF f.app THEN Len(f.data) ELSE f.pos
           n  == IF at < Len(f.data) THEN Len(f.data) ELSE at + 1
           q  == Padded(f.data, n)
           q2 == [q EXCEPT ![at + 1] = b]
<1>1. f.data \in Seq(AnyByte) /\ at \in Nat /\ n \in Nat /\ Len(f.data) \in Nat
  BY DEF Handle, HandleOf
<1>2. q \in Seq(AnyByte) /\ Len(q) = n
  BY <1>1, PaddedType
<1>3. q2 \in Seq(AnyByte)
  <2>1. q2 = [i \in 1 .. Len(q) |-> IF i = at + 1 THEN b ELSE q[i]]
    <3>1. DOMAIN q = 1 .. Len(q)
      <4> HIDE DEF q, n
      <4> QED BY <1>2
    <3> HIDE DEF q, n, at
    <3> QED BY <3>1, Zenon DEF q2
  <2>2. \A i \in 1 .. Len(q) : (IF i = at + 1 THEN b ELSE q[i]) \in AnyByte
    <3> HIDE DEF q, n, at
    <3> QED BY <1>2
  <2>3. Len(q) \in Nat
    <3> HIDE DEF q, n
    <3> QED BY <1>2
  <2> HIDE DEF q2, q, n, at
  <2> QED BY <2>1, <2>2, <2>3
<1>4. PutByte(f, b) = [f EXCEPT !.data = q2, !.pos = at + 1, !.mod = TRUE]
  BY DEF PutByte
<1>5. at + 1 \in Nat
  BY <1>1
<1> HIDE DEF q2, at
<1> QED BY <1>3, <1>4, <1>5 DEF NoOlder, SameFile, Handle, HandleOf

LEMMA DisconnectedType ==
  ASSUME NEW f \in Handle
  PROVE  NoOlder(f, Disconnected(f)) /\ ~Disconnected(f).fs
<1>1. <<>> \in Seq(AnyByte)
  OBVIOUS
<1> QED BY <1>1 DEF Disconnected, Named, NoOlder, SameFile, Handle, HandleOf

LEMMA GetByteType ==
  ASSUME NEW f \in Handle
  PROVE  GetByte(f) \in AnyByte
<1>1. f.data \in Seq(AnyByte) /\ f.pos + 1 \in Nat
  BY DEF Handle, HandleOf
<1>2. Padded(f.data, f.pos + 1) \in Seq(AnyByte)
      /\ Len(Padded(f.data, f.pos + 1)) = f.pos + 1
  BY <1>1, PaddedType
<1>3. Padded(f.data, f.pos + 1)[f.pos + 1] \in AnyByte
  <2> DEFINE q == Padded(f.data, f.pos + 1)
  <2>1. f.pos + 1 \in 1 .. Len(q)
    <3>1. f.pos + 1 \in 1 .. f.pos + 1
      BY DEF Handle, HandleOf
    <3> QED BY <3>1, <1>2, Zenon
  <2> HIDE DEF q
  <2> QED BY <1>2, <2>1 DEF q
<1> QED BY <1>3 DEF GetByte, AnyByte

(***************************************************************************)
(* Scripts: a destruction stands only at the head of one.                  *)
(***************************************************************************)

LEMMA CallIsPlain ==
  ASSUME NEW op \in Kinds \ {"open", "rename"}, NEW s \in Slots
  PROVE  /\ Call(op, s) \in Plain
         /\ op # "put" /\ (s = 1 \/ op \notin {"drain", "pump"})
              => Call(op, s) \in Calm
BY DEF Call, Plain, Calm, CommandModes

LEMMA OpenIsPlain ==
  ASSUME NEW s \in Slots, NEW p \in Paths, NEW m \in CommandModes
  PROVE  OpenAs(s, p, m) \in Calm
BY DEF OpenAs, Calm, Plain, Kinds

LEMMA SlotsAre == 1 \in Slots /\ 2 \in Slots /\ 3 \in Slots
BY DEF Slots

LEMMA ModesAre == {} \in CommandModes /\ {"out"} \in CommandModes
                  /\ {"out", "app"} \in CommandModes
BY DEF CommandModes

LEMMA CalmIsPlain == Calm \subseteq Plain /\ Seq(Calm) \subseteq Seq(Plain)
BY DEF Calm

\* What a command or a call starts with.
LEMMA ListsOfCalls ==
  ASSUME NEW C, NEW a \in C, NEW b \in C, NEW c \in C, NEW d \in C,
         NEW e \in C, NEW f \in C
  PROVE  /\ <<a>> \in Seq(C) /\ <<a, b>> \in Seq(C)
         /\ <<a, b, c>> \in Seq(C)
         /\ <<a, b, c, d, e, f>> \in Seq(C)
OBVIOUS

LEMMA ClosingIsPlain ==
  ASSUME NEW t \in Threads, NEW s \in Slots
  PROVE  Closing(t, s) \in Seq(Calm)
<1>1. Call("close", s) \in Calm
  BY CallIsPlain DEF Kinds
<1>2. <<Call("close", s)>> \in Seq(Calm) /\ <<>> \in Seq(Calm)
  BY <1>1, ListsOfCalls
<1> QED BY <1>2 DEF Closing

LEMMA UnwindIsPlain ==
  ASSUME NEW t \in Threads
  PROVE  Unwind(t) \in Seq(Calm) /\ Unwind(t) \in Seq(Plain)
<1>1. Closing(t, 1) \in Seq(Calm) /\ Closing(t, 2) \in Seq(Calm)
      /\ Closing(t, 3) \in Seq(Calm)
  BY ClosingIsPlain, SlotsAre
<1>2. Unwind(t) \in Seq(Calm)
  BY <1>1 DEF Unwind
<1> QED BY <1>2, CalmIsPlain

LEMMA CommandsArePlain ==
  ASSUME NEW src \in Paths, NEW dst \in Paths
  PROVE  /\ {Cat(src), Remove(src), Touch(dst), Copy(src, dst), Move(src, dst)}
               \subseteq Seq(Calm)
         /\ Cat(src) \in Seq(Plain) /\ Remove(src) \in Seq(Plain)
         /\ Touch(dst) \in Seq(Plain) /\ Copy(src, dst) \in Seq(Plain)
         /\ Move(src, dst) \in Seq(Plain)
<1>1. /\ OpenAs(1, src, {}) \in Calm /\ OpenAs(3, src, {}) \in Calm
      /\ OpenAs(2, dst, {"out"}) \in Calm /\ OpenAs(1, dst, {"out", "app"}) \in Calm
  BY OpenIsPlain, SlotsAre, ModesAre
<1>2. /\ Call("drain", 1) \in Calm /\ Call("close", 1) \in Calm
      /\ Call("delete", 1) \in Calm /\ Call("flush", 1) \in Calm
      /\ Call("pump", 1) \in Calm /\ Call("flush", 2) \in Calm
      /\ Call("close", 2) \in Calm /\ Call("close", 3) \in Calm
  BY CallIsPlain, SlotsAre DEF Kinds
<1>3. [Call("rename", 3) EXCEPT !.p = <<src, dst>>] \in Calm
  <2>1. <<src, dst>> \in Paths \X Paths
    OBVIOUS
  <2> QED BY <2>1, SlotsAre, ModesAre DEF Call, Calm, Plain, Kinds
<1>4. Cat(src) \in Seq(Calm) /\ Remove(src) \in Seq(Calm)
      /\ Touch(dst) \in Seq(Calm)
  BY <1>1, <1>2, ListsOfCalls DEF Cat, Remove, Touch
<1>5. Copy(src, dst) \in Seq(Calm)
  BY <1>1, <1>2, ListsOfCalls DEF Copy
<1>6. Move(src, dst) \in Seq(Calm)
  BY <1>1, <1>2, <1>3, ListsOfCalls DEF Move
<1> QED BY <1>4, <1>5, <1>6, CalmIsPlain

LEMMA HeadTailOfJoined ==
  ASSUME NEW c, NEW r \in Seq(Plain)
  PROVE  Tail(<<c>> \o r) = r /\ Head(<<c>> \o r) = c
<1> DEFINE q == <<c>> \o r
<1>1. r \in Seq(Plain \cup {c}) /\ <<c>> \in Seq(Plain \cup {c})
  OBVIOUS
<1>2. q \in Seq(Plain \cup {c}) /\ Len(q) = Len(r) + 1
  BY <1>1
<1>3. q[1] = c /\ \A i \in 1 .. Len(r) : q[i + 1] = r[i]
  BY <1>1
<1> HIDE DEF q
<1>4. Head(q) = c
  BY <1>2, <1>3
<1>5. Tail(q) \in Seq(Plain \cup {c}) /\ Len(Tail(q)) = Len(r)
      /\ \A i \in 1 .. Len(r) : Tail(q)[i] = r[i]
  BY <1>2, <1>3
<1>6. Tail(q) = r
  BY <1>1, <1>5
<1> QED BY <1>4, <1>6 DEF q

\* The next call of a thread is one of a command, or a destruction.
LEMMA HeadOfScript ==
  ASSUME Types, NEW t \in Threads, script[t] # <<>>
  PROVE  /\ Tail(script[t]) \in Seq(Plain)
         /\ \/ Head(script[t]) \in Plain
            \/ \E e \in Entries : Head(script[t]) = Call("destroy", e)
<1>1. script[t] \in Scripts
  BY DEF Types
<1>2. CASE script[t] \in Seq(Plain)
  BY <1>2
<1>3. ASSUME NEW e \in Entries, NEW r \in Seq(Plain),
             script[t] = <<Call("destroy", e)>> \o r
      PROVE  Tail(script[t]) = r /\ Head(script[t]) = Call("destroy", e)
  <2> DEFINE c == Call("destroy", e)
  <2>1. script[t] = <<c>> \o r
    BY <1>3
  <2> HIDE DEF c
  <2>2. Tail(<<c>> \o r) = r /\ Head(<<c>> \o r) = c
    BY HeadTailOfJoined
  <2> QED BY <2>1, <2>2 DEF c
<1>4. CASE script[t] \notin Seq(Plain)
  <2>1. \E e \in Entries, r \in Seq(Plain) :
          script[t] = <<Call("destroy", e)>> \o r
    BY <1>1, <1>4, SMTT(30) DEF Scripts
  <2>2. \E e \in Entries, r \in Seq(Plain) :
          Tail(script[t]) = r /\ Head(script[t]) = Call("destroy", e)
    BY <2>1, <1>3, Zenon
  <2> QED BY <2>2, Zenon
<1> QED BY <1>2, <1>4

\* A thread that goes on with calls of its command destroys nothing next.
LEMMA PlainDestroysNothing ==
  ASSUME Types, NEW t \in Threads, NEW q \in Seq(Plain),
         script' = [script EXCEPT ![t] = q]
  PROVE  /\ script' \in [Threads -> Scripts]
         /\ \A e \in Entries : ~Destroying(t, e)'
         /\ \A u \in Threads, e \in Entries : Destroying(u, e)' => Destroying(u, e)
<1>1. q \in Scripts
  BY DEF Scripts
<1>2. script'[t] = q /\ \A u \in Threads : u # t => script'[u] = script[u]
  BY DEF Types
<1>3. q # <<>> => Head(q) \in Plain
  OBVIOUS
<1>4. q # <<>> => Head(q).op # "destroy"
  BY <1>3 DEF Plain, Kinds
<1>5. \A e \in Entries : ~Destroying(t, e)'
  BY <1>2, <1>4 DEF Destroying
<1>6. script' \in [Threads -> Scripts]
  BY <1>1 DEF Types
<1> QED BY <1>2, <1>5, <1>6 DEF Destroying

(***************************************************************************)
(* The steps.  Most leave alone who holds, lists and destroys what.        *)
(***************************************************************************)
\* whose file another handle may have written
Overtaken ==
  \A e \in Entries :
    entry[e] # None /\ entry'[e] # None /\ Named(entry'[e]) /\ entry'[e].stale
      => entry[e].stale \/ Rival(e)

QuietEntry ==
  /\ entry' \in [Entries -> Handle \cup {None}]
  /\ \A e \in Entries : /\ (entry'[e] = None) <=> (entry[e] = None)
                        /\ entry[e] # None => SameFile(entry[e], entry'[e])
  /\ Overtaken

QuietUser ==
  /\ user' \in [Threads -> [Slots -> UserHandle \cup {None}]]
  /\ \A t \in Threads, s \in Slots :
       /\ (user'[t][s] = None) <=> (user[t][s] = None)
       /\ user[t][s] # None => user'[t][s].e = user[t][s].e

QuietTable ==
  /\ table' \in [Paths -> Entries \cup {None, Expired}]
  /\ \A k \in Paths : \/ table'[k] = table[k]
                      \/ table[k] \notin Entries /\ table'[k] \notin Entries

QuietRest ==
  /\ disk' \in [Drives -> [FileNames -> Seq(AnyByte) \cup {Absent}]]
  /\ buf' \in [Threads -> AnyByte]
  /\ current' \in Drives \cup {None}

\* Who has no rival gets none but by open().
LEMMA RivalBefore ==
  ASSUME \A x \in Entries :
           entry'[x] # None => entry[x] # None /\ SameFile(entry[x], entry'[x]),
         NEW e \in Entries, entry'[e] # None, Rival(e)'
  PROVE  Rival(e)
<1>1. PICK x \in Entries \ {e} :
        /\ entry'[x] # None /\ Named(entry'[x]) /\ Named(entry'[e])
        /\ PathOf(entry'[x]) = PathOf(entry'[e])
  BY DEF Rival
<1>2. entry[x] # None /\ SameFile(entry[x], entry'[x]) /\ SameFile(entry[e], entry'[e])
  BY <1>1
<1>3. /\ Named(entry[x]) /\ PathOf(entry[x]) = PathOf(entry'[x])
      /\ Named(entry[e]) /\ PathOf(entry[e]) = PathOf(entry'[e])
  BY <1>1, <1>2 DEF SameFile, Named, PathOf
<1> QED BY <1>1, <1>2, <1>3 DEF Rival

\* A step that connects no handle, and gives nobody a handle nobody had.
LEMMA RacesKept ==
  ASSUME RivalsRace, Overtaken,
         \A x \in Entries :
           entry'[x] # None => entry[x] # None /\ SameFile(entry[x], entry'[x]),
         \A x \in Entries : Held(x)' => Held(x)
  PROVE  RivalsRace'
<1> SUFFICES ASSUME NEW e \in Entries, entry'[e] # None, Named(entry'[e]),
                    entry'[e].stale \/ Rival(e)'
             PROVE  Raced(e)'
  BY DEF RivalsRace
<1>1. entry[e] # None /\ SameFile(entry[e], entry'[e])
  OBVIOUS
<1>2. entry[e].stale \/ Rival(e)
  BY <1>1, RivalBefore DEF Overtaken
<1>3. Named(entry[e]) /\ entry'[e].late = entry[e].late
  BY <1>1 DEF SameFile, Named
<1>4. Raced(e)
  BY <1>1, <1>2, <1>3 DEF RivalsRace
<1> QED BY <1>3, <1>4 DEF Raced

LEMMA QuietKeeps ==
  ASSUME SharingInv, NEW t \in Threads, NEW q \in Seq(Plain),
         script' = [script EXCEPT ![t] = q],
         QuietEntry, QuietUser, QuietTable, QuietRest
  PROVE  SharingInv'
<1> USE DEF SharingInv
<1>1. /\ script' \in [Threads -> Scripts]
      /\ \A u \in Threads, e \in Entries : Destroying(u, e)' => Destroying(u, e)
  BY PlainDestroysNothing
<1>2. Types'
  BY <1>1 DEF Types, QuietEntry, QuietUser, QuietTable, QuietRest
<1>3. \A u \in Threads, s \in Slots :
        user[u][s] # None => user[u][s].e \in Entries
  BY DEF Types, UserHandle
<1>4. HeldExists'
  BY <1>3 DEF HeldExists, QuietEntry, QuietUser
<1>5. HeldIsListed'
  <2> SUFFICES ASSUME NEW u \in Threads, NEW s \in Slots, user'[u][s] # None,
                      Named(entry'[user'[u][s].e])
               PROVE  table'[PathOf(entry'[user'[u][s].e])] = user'[u][s].e
    BY DEF HeldIsListed
  <2> DEFINE e == user[u][s].e
  <2>1. user[u][s] # None /\ user'[u][s].e = e /\ e \in Entries
    BY <1>3 DEF QuietUser
  <2>2. entry[e] # None /\ entry'[e] # None /\ SameFile(entry[e], entry'[e])
    BY <2>1 DEF HeldExists, QuietEntry
  <2>3. Named(entry[e]) /\ PathOf(entry'[e]) = PathOf(entry[e])
    BY <2>1, <2>2 DEF SameFile, Named, PathOf
  <2>4. table[PathOf(entry[e])] = e
    BY <2>1, <2>3 DEF HeldIsListed
  <2>5. PathOf(entry[e]) \in Paths
    <3>1. entry[e] \in Handle
      BY <2>1, <2>2 DEF Types
    <3> QED BY <3>1, <2>3 DEF PathOf, Named, Paths, Handle, HandleOf
  <2>6. table'[PathOf(entry[e])] = e
    BY <2>1, <2>4, <2>5 DEF QuietTable
  <2> QED BY <2>1, <2>3, <2>6
<1>6. ListedByName'
  <2> SUFFICES ASSUME NEW k \in Paths, table'[k] \in Entries
               PROVE  /\ entry'[table'[k]] # None
                      /\ Named(entry'[table'[k]]) => k = PathOf(entry'[table'[k]])
    BY DEF ListedByName
  <2> DEFINE e == table[k]
  <2>1. table'[k] = e /\ e \in Entries
    BY DEF QuietTable
  <2>2. entry[e] # None /\ (Named(entry[e]) => k = PathOf(entry[e]))
    BY <2>1 DEF ListedByName
  <2>3. entry'[e] # None /\ SameFile(entry[e], entry'[e])
    BY <2>1, <2>2 DEF QuietEntry
  <2> QED BY <2>1, <2>2, <2>3 DEF SameFile, Named, PathOf
<1>7. DestroyedAlone'
  <2> SUFFICES ASSUME NEW u \in Threads, NEW e \in Entries, Destroying(u, e)'
               PROVE  /\ entry'[e] # None
                      /\ \A v \in Threads, s \in Slots :
                           user'[v][s] # None => user'[v][s].e # e
                      /\ \A k \in Paths : table'[k] # e
                      /\ \A v \in Threads : v # u => ~Destroying(v, e)'
    BY DEF DestroyedAlone
  <2>1. Destroying(u, e)
    BY <1>1
  <2>2. entry'[e] # None
    BY <2>1 DEF DestroyedAlone, QuietEntry
  <2>3. \A v \in Threads, s \in Slots : user'[v][s] # None => user'[v][s].e # e
    BY <2>1 DEF DestroyedAlone, QuietUser
  <2>4. \A k \in Paths : table'[k] # e
    BY <2>1 DEF DestroyedAlone, QuietTable
  <2>5. \A v \in Threads : v # u => ~Destroying(v, e)'
    BY <2>1, <1>1 DEF DestroyedAlone
  <2> QED BY <2>2, <2>3, <2>4, <2>5
<1>8. \A e \in Entries : Held(e)' <=> Held(e)
  BY DEF Held, QuietUser
<1>9. ListedIsHeld'
  BY <1>8 DEF ListedIsHeld, QuietTable
<1>10. RivalsRace'
  BY <1>8, RacesKept DEF QuietEntry
<1> QED BY <1>2, <1>4, <1>5, <1>6, <1>7, <1>9, <1>10

\* A call that leaves g in a handle it holds.
LEMMA OneEntryQuiet ==
  ASSUME SharingInv, NEW e \in Entries, entry[e] # None,
         NEW g \in Handle, NoOlder(entry[e], g), entry' = [entry EXCEPT ![e] = g]
  PROVE  QuietEntry
<1>1. \A x \in Entries : entry[x] # None => SameFile(entry[x], entry[x])
  BY DEF SharingInv, Types, SameFile
<1>2. g # None /\ SameFile(entry[e], g)
  BY NoneIsNoHandle DEF NoOlder
<1>3. Overtaken
  BY DEF Overtaken, NoOlder, SharingInv, Types
<1> QED BY <1>1, <1>2, <1>3 DEF QuietEntry, SharingInv, Types

\* What is unchanged is quiet.
LEMMA UnchangedQuiet ==
  ASSUME SharingInv
  PROVE  /\ UNCHANGED entry => QuietEntry
         /\ UNCHANGED user => QuietUser
         /\ UNCHANGED table => QuietTable
         /\ UNCHANGED <<disk, buf, current>> => QuietRest
<1>1. UNCHANGED entry => QuietEntry
  BY DEF SharingInv, Types, QuietEntry, SameFile, Overtaken
<1>2. UNCHANGED user => QuietUser
  BY DEF SharingInv, Types, QuietUser
<1>3. UNCHANGED table => QuietTable
  BY DEF SharingInv, Types, QuietTable
<1>4. UNCHANGED <<disk, buf, current>> => QuietRest
  BY DEF SharingInv, Types, QuietRest
<1> QED BY <1>1, <1>2, <1>3, <1>4

\* What a handle refers to.
LEMMA HeldHandle ==
  ASSUME SharingInv, NEW t \in Threads, NEW s \in Slots, user[t][s] # None
  PROVE  /\ user[t][s] \in UserHandle /\ user[t][s].e \in Entries
         /\ Base(t, s) \in Handle /\ Base(t, s) # None
         /\ Base(t, s) = entry[user[t][s].e]
BY DEF SharingInv, Types, HeldExists, Base, UserHandle

LEMMA LeftQuiet ==
  ASSUME SharingInv, NEW t \in Threads, NEW s \in Slots, user[t][s] # None,
         NEW g, NoOlder(Base(t, s), g), Left(t, s, g)
  PROVE  QuietEntry /\ QuietUser
<1> DEFINE h == user[t][s]
<1>1. h \in UserHandle /\ h.e \in Entries /\ entry[h.e] # None
      /\ Base(t, s) = entry[h.e]
  BY HeldHandle
<1>2. g \in Handle /\ g.pos \in Nat
  BY DEF NoOlder, SameFile, Handle, HandleOf
<1>3. QuietEntry
  BY <1>1, <1>2, OneEntryQuiet DEF Left
<1>4. user' = [user EXCEPT ![t][s].pos = g.pos]
  BY DEF Left
<1>5. user'[t][s] = [h EXCEPT !.pos = g.pos]
      /\ \A u \in Threads, x \in Slots :
           u # t \/ x # s => user'[u][x] = user[u][x]
  BY <1>4 DEF SharingInv, Types
<1>6. user'[t][s] \in UserHandle /\ user'[t][s].e = h.e
  BY <1>1, <1>2, <1>5 DEF UserHandle
<1>7. user' \in [Threads -> [Slots -> UserHandle \cup {None}]]
  BY <1>4, <1>5, <1>6 DEF SharingInv, Types
<1>8. QuietUser
  BY <1>5, <1>6, <1>7, NoneIsNoHandle DEF QuietUser
<1> QED BY <1>3, <1>8

(***************************************************************************)
(* The calls on a handle.  uh_ok() is asked before a handle is used.       *)
(***************************************************************************)
LEMMA OkIsHeld ==
  ASSUME SharingInv, NEW t \in Threads, NEW s \in Slots, uh_ok(t, s)
  PROVE  user[t][s] # None
BY DEF uh_ok

LEMMA ReadKeeps ==
  ASSUME SharingInv, NEW t \in Threads, NEW s \in Slots,
         NEW more \in Seq(Plain), NEW rest \in Seq(Plain), Read(t, s, more, rest)
  PROVE  SharingInv'
<1> DEFINE f == At(Base(t, s), user[t][s].pos)
           b == IF uh_ok(t, s) THEN GetByte(f) ELSE Nothing
           g == IF b = Nothing THEN f ELSE [f EXCEPT !.pos = @ + 1]
           q == IF b = Nothing THEN rest ELSE more
<1>1. /\ IF uh_ok(t, s) THEN Left(t, s, g) ELSE UNCHANGED <<entry, user>>
      /\ buf' = [buf EXCEPT ![t] = b] /\ script' = [script EXCEPT ![t] = q]
      /\ UNCHANGED <<disk, table, current>>
  BY DEF Read, Proceed
<1>2. ASSUME uh_ok(t, s)
      PROVE  NoOlder(Base(t, s), g) /\ b \in AnyByte
  <2>1. user[t][s] # None
    BY <1>2, OkIsHeld
  <2>2. Base(t, s) \in Handle /\ user[t][s].pos \in Nat
    BY <2>1, HeldHandle DEF UserHandle
  <2>3. f \in Handle /\ NoOlder(Base(t, s), f)
    BY <2>2, AtType DEF NoOlder, SameFile
  <2>4. [f EXCEPT !.pos = @ + 1] \in Handle
        /\ NoOlder(f, [f EXCEPT !.pos = @ + 1])
    <3> HIDE DEF f
    <3> QED BY <2>3, SMTT(30) DEF NoOlder, SameFile, Named, Handle, HandleOf
  <2>5. NoOlder(Base(t, s), [f EXCEPT !.pos = @ + 1])
    <3> HIDE DEF f
    <3> QED BY <2>3, <2>4, OneAfterTheOther
  <2>6. GetByte(f) \in AnyByte
    BY <2>3, GetByteType
  <2> HIDE DEF f
  <2> QED BY <2>3, <2>5, <2>6, <1>2
<1> HIDE DEF g, q
<1>3. b \in AnyByte
  BY <1>2 DEF AnyByte
<1> HIDE DEF b
<1>4. QuietRest
  BY <1>1, <1>3 DEF QuietRest, SharingInv, Types
<1>5. QuietEntry /\ QuietUser
  <2>1. CASE uh_ok(t, s)
    BY <2>1, <1>1, <1>2, OkIsHeld, LeftQuiet
  <2>2. CASE ~uh_ok(t, s)
    BY <2>2, <1>1, UnchangedQuiet
  <2> QED BY <2>1, <2>2
<1>6. QuietTable
  BY <1>1, UnchangedQuiet
<1>7. q \in Seq(Plain)
  BY DEF q
<1> QED BY <1>1, <1>4, <1>5, <1>6, <1>7, QuietKeeps

LEMMA WriteKeeps ==
  ASSUME SharingInv, NEW t \in Threads, NEW s \in Slots, NEW b \in AnyByte,
         NEW rest \in Seq(Plain), Write(t, s, b, rest)
  PROVE  SharingInv'
<1> DEFINE f  == Base(t, s)
           p  == IF user[t][s].app THEN Len(f.data) ELSE user[t][s].pos
           g  == At(f, p)
           ok == Len(PutByte(g, b).data) <= MaxLen
           h  == IF ok THEN PutByte(g, b) ELSE g
           q  == IF uh_ok(t, s) /\ ok THEN rest ELSE Unwind(t)
<1>1. /\ IF uh_ok(t, s) THEN Left(t, s, h) ELSE UNCHANGED <<entry, user>>
      /\ script' = [script EXCEPT ![t] = q]
      /\ UNCHANGED <<disk, table, buf, current>>
  BY DEF Write, Proceed
<1>2. ASSUME uh_ok(t, s)
      PROVE  NoOlder(f, h)
  <2>1. user[t][s] # None
    BY <1>2, OkIsHeld
  <2>2. f \in Handle /\ user[t][s].pos \in Nat
    BY <2>1, HeldHandle DEF UserHandle
  <2>3. p \in Nat
    <3> HIDE DEF f
    <3> QED BY <2>2 DEF Handle, HandleOf
  <2> HIDE DEF f, p
  <2>4. g \in Handle /\ NoOlder(f, g)
    BY <2>2, <2>3, AtType DEF NoOlder, SameFile
  <2> HIDE DEF g
  <2>5. NoOlder(g, PutByte(g, b))
    BY <2>4, PutByteType
  <2> QED BY <2>4, <2>5, OneAfterTheOther
<1> HIDE DEF h, ok
<1>3. QuietEntry /\ QuietUser
  <2>1. CASE uh_ok(t, s)
    BY <2>1, <1>1, <1>2, OkIsHeld, LeftQuiet
  <2>2. CASE ~uh_ok(t, s)
    BY <2>2, <1>1, UnchangedQuiet
  <2> QED BY <2>1, <2>2
<1>4. QuietTable /\ QuietRest
  BY <1>1, UnchangedQuiet
<1>5. q \in Seq(Plain)
  BY UnwindIsPlain
<1> HIDE DEF q
<1> QED BY <1>1, <1>3, <1>4, <1>5, QuietKeeps

LEMMA CursorQuiet ==
  ASSUME SharingInv, NEW t \in Threads, NEW s \in Slots, user[t][s] # None,
         NEW p \in Nat, user' = [user EXCEPT ![t][s].pos = p]
  PROVE  QuietUser
<1> DEFINE h == user[t][s]
<1>1. h \in UserHandle
  BY HeldHandle
<1>2. user'[t][s] = [h EXCEPT !.pos = p]
      /\ \A u \in Threads, x \in Slots :
           u # t \/ x # s => user'[u][x] = user[u][x]
  BY DEF SharingInv, Types
<1>3. user'[t][s] \in UserHandle /\ user'[t][s].e = h.e
  BY <1>1, <1>2 DEF UserHandle
<1>4. user' \in [Threads -> [Slots -> UserHandle \cup {None}]]
  BY <1>2, <1>3 DEF SharingInv, Types
<1> QED BY <1>2, <1>3, <1>4, NoneIsNoHandle DEF QuietUser

LEMMA SeekKeeps ==
  ASSUME SharingInv, NEW t \in Threads, NEW s \in Slots, NEW p \in Nat,
         user[t][s] # None, NEW rest \in Seq(Plain), Seek(t, s, p, rest)
  PROVE  SharingInv'
<1>1. QuietUser
  BY CursorQuiet DEF Seek
<1>2. QuietEntry /\ QuietTable /\ QuietRest
  BY UnchangedQuiet DEF Seek
<1> QED BY <1>1, <1>2, QuietKeeps DEF Seek, Proceed

LEMMA TruncateKeeps ==
  ASSUME SharingInv, NEW t \in Threads, NEW s \in Slots, NEW n \in Nat,
         NEW rest \in Seq(Plain), Truncate(t, s, n, rest)
  PROVE  SharingInv'
<1> DEFINE e == user[t][s].e
<1>1. user[t][s] # None
  BY OkIsHeld DEF Truncate
<1>2. user[t][s] \in UserHandle /\ e \in Entries /\ entry[e] \in Handle /\ entry[e] # None
  BY <1>1, HeldHandle
<1>3. NoOlder(entry[e], CutTo(entry[e], n)) /\ CutTo(entry[e], n) \in Handle
  BY <1>2, CutToType DEF NoOlder, SameFile
<1>4. entry' = [entry EXCEPT ![e] = CutTo(entry[e], n)]
  BY DEF Truncate
<1>5. QuietEntry
  BY <1>2, <1>3, <1>4, OneEntryQuiet
<1>6. QuietUser
  <2>1. \E p \in Nat : user' = [user EXCEPT ![t][s].pos = p]
    <3> DEFINE p == IF user[t][s].pos > n THEN n ELSE user[t][s].pos
    <3>1. p \in Nat /\ user' = [user EXCEPT ![t][s].pos = p]
      BY <1>2 DEF Truncate, UserHandle
    <3> QED BY <3>1
  <2> QED BY <2>1, <1>1, CursorQuiet
<1>7. QuietTable /\ QuietRest
  BY UnchangedQuiet DEF Truncate
<1> QED BY <1>5, <1>6, <1>7, QuietKeeps DEF Truncate, Proceed

\* What is written to a drive is the content of a handle, or nothing.
LEMMA DiskType ==
  ASSUME SharingInv, NEW d \in Drives, NEW n \in FileNames,
         NEW x \in Seq(AnyByte) \cup {Absent}
  PROVE  [disk EXCEPT ![d][n] = x]
           \in [Drives -> [FileNames -> Seq(AnyByte) \cup {Absent}]]
BY DEF SharingInv, Types

\* Only the handles of the file that is written can be overtaken.
LEMMA OutdatedAreRivals ==
  ASSUME SharingInv, NEW e \in Entries, entry[e] # None, entry[e].fs, NEW ns,
         ns \cap Names \subseteq {entry[e].name}, NEW x \in Entries \ {e},
         x \in UNION {Holders(entry[e].d, n) : n \in ns}, entry[x].name \in Names
  PROVE  Rival(x)
<1>1. PICK n \in ns : x \in Holders(entry[e].d, n)
  OBVIOUS
<1>2. /\ entry[x] # None /\ entry[x].fs
      /\ entry[x].d = entry[e].d /\ entry[x].name = entry[e].name
  BY <1>1 DEF Holders
<1> QED BY <1>2 DEF Rival, Named, PathOf

LEMMA OutdatedQuiet ==
  ASSUME SharingInv, NEW e \in Entries, entry[e] # None, entry[e].fs,
         NEW d, d = entry[e].d, NEW ns, ns \cap Names \subseteq {entry[e].name},
         NEW g, NoOlder(entry[e], g),
         entry' = [Outdated(entry, d, ns, e) EXCEPT ![e] = g]
  PROVE  QuietEntry
<1> DEFINE es == Outdated(entry, d, ns, e)
           H  == UNION {Holders(d, n) : n \in ns}
<1>1. \A x \in H : entry[x] # None
  BY DEF Holders
<1>2. \A x \in Entries :
        es[x] = IF x # e /\ x \in H THEN [entry[x] EXCEPT !.stale = TRUE] ELSE entry[x]
  BY DEF Outdated
<1>3. \A f \in Handle : SameFile(f, f) /\ SameFile(f, [f EXCEPT !.stale = TRUE])
  BY DEF SameFile, Handle, HandleOf
<1>4. \A x \in Entries : entry[x] # None => entry[x] \in Handle
  BY DEF SharingInv, Types
<1> HIDE DEF H
<1>5. \A x \in Entries : entry[x] = None => es[x] = None
  BY <1>1, <1>2
<1>6. \A x \in Entries : entry[x] # None => SameFile(entry[x], es[x])
  BY <1>2, <1>3, <1>4
<1>7. DOMAIN es = Entries
  BY DEF Outdated
<1> HIDE DEF es
<1>8. DOMAIN entry' = Entries /\ entry'[e] = g
      /\ \A x \in Entries : x # e => entry'[x] = es[x]
  BY <1>7 DEF es
<1>9. \A f, h : SameFile(f, h) => h \in Handle /\ h # None
  BY NoneIsNoHandle DEF SameFile
<1>14. Overtaken
  <2> SUFFICES ASSUME NEW x \in Entries, entry[x] # None, Named(entry'[x]),
                      entry'[x].stale
               PROVE  entry[x].stale \/ Rival(x)
    BY DEF Overtaken
  <2>1. CASE x = e
    BY <2>1, <1>8 DEF NoOlder
  <2>2. CASE x # e /\ x \notin H
    BY <2>2, <1>2, <1>8
  <2>3. CASE x # e /\ x \in H
    <3>1. SameFile(entry[x], entry'[x])
      BY <2>3, <1>6, <1>8
    <3>2. entry[x].name \in Names
      BY <3>1 DEF SameFile, Named
    <3> QED BY <2>3, <3>2, OutdatedAreRivals DEF H
  <2> QED BY <2>1, <2>2, <2>3
<1>10. \A x \in Entries : /\ entry[x] = None => entry'[x] = None
                          /\ entry[x] # None => SameFile(entry[x], entry'[x])
  BY <1>5, <1>6, <1>8 DEF NoOlder
<1>11. \A x \in Entries : entry'[x] \in Handle \cup {None}
  BY <1>9, <1>10
<1>12. entry' = [x \in Entries |-> entry'[x]]
  <2>1. entry' = [x \in DOMAIN entry' |-> entry'[x]]
    BY DEF es
  <2> QED BY <2>1, <1>8
<1>13. entry' \in [Entries -> Handle \cup {None}]
  BY <1>11, <1>12
<1> QED BY <1>9, <1>10, <1>13, <1>14 DEF QuietEntry

LEMMA WrittenType ==
  ASSUME SharingInv, NEW f, NEW new \in [Drives -> [FileNames -> Seq(AnyByte) \cup {Absent}]],
         disk' \in Written(f, new), UNCHANGED <<buf, current>>
  PROVE  QuietRest
BY DEF SharingInv, Types, Written, QuietRest

LEMMA FlushKeeps ==
  ASSUME SharingInv, NEW t \in Threads, NEW s \in Slots,
         NEW rest \in Seq(Plain), Flush(t, s, rest)
  PROVE  SharingInv'
<1> DEFINE f == Base(t, s)
           e == user[t][s].e
           q == IF uh_ok(t, s) THEN rest ELSE Unwind(t)
<1>1. ASSUME uh_ok(t, s), f.mod
      PROVE  QuietEntry /\ QuietRest
  <2>1. e \in Entries /\ entry[e] \in Handle /\ entry[e] # None /\ f = entry[e]
        /\ f.fs
    BY <1>1, OkIsHeld, HeldHandle DEF uh_ok
  <2>2. f.d \in Drives /\ f.name \in FileNames /\ f.data \in Seq(AnyByte)
    <3> HIDE DEF f, e
    <3> QED BY <2>1 DEF Handle, HandleOf
  <2>3. disk' \in Written(f, [disk EXCEPT ![f.d][f.name] = f.data])
        /\ entry' = [Outdated(entry, f.d, {f.name}, e) EXCEPT ![e].mod = FALSE]
        /\ UNCHANGED <<buf, current>>
    BY <1>1 DEF Flush
  <2>4. QuietRest
    <3> HIDE DEF f
    <3> QED BY <2>2, <2>3, DiskType, WrittenType
  <2>5. [f EXCEPT !.mod = FALSE] \in Handle /\ NoOlder(f, [f EXCEPT !.mod = FALSE])
    <3> HIDE DEF f
    <3> QED BY <2>1 DEF NoOlder, SameFile, Handle, HandleOf
  <2>6. Outdated(entry, f.d, {f.name}, e)[e] = f
    BY <2>1 DEF Outdated
  <2>7. entry' = [Outdated(entry, f.d, {f.name}, e) EXCEPT ![e] = [f EXCEPT !.mod = FALSE]]
    BY <2>3, <2>6
  <2>8. QuietEntry
    <3> HIDE DEF f, e
    <3> QED BY <2>1, <2>5, <2>7, OutdatedQuiet
  <2> QED BY <2>4, <2>8
<1>2. ASSUME ~(uh_ok(t, s) /\ f.mod)
      PROVE  QuietEntry /\ QuietRest
  BY <1>2, UnchangedQuiet DEF Flush
<1>3. QuietUser /\ QuietTable
  BY UnchangedQuiet DEF Flush
<1>4. q \in Seq(Plain) /\ script' = [script EXCEPT ![t] = q]
  BY UnwindIsPlain DEF Flush, Proceed
<1> HIDE DEF q, f
<1> QED BY <1>1, <1>2, <1>3, <1>4, QuietKeeps

LEMMA DeleteKeeps ==
  ASSUME SharingInv, NEW t \in Threads, NEW s \in Slots,
         NEW rest \in Seq(Plain), DeleteFile(t, s, rest)
  PROVE  SharingInv'
<1> DEFINE f == Base(t, s)
           e == user[t][s].e
<1>1. ASSUME uh_ok(t, s)
      PROVE  QuietEntry /\ QuietRest
  <2>1. e \in Entries /\ entry[e] \in Handle /\ entry[e] # None /\ f = entry[e]
        /\ f.fs
    BY <1>1, OkIsHeld, HeldHandle DEF uh_ok
  <2>2. f.d \in Drives /\ f.name \in FileNames
    <3> HIDE DEF f, e
    <3> QED BY <2>1 DEF Handle, HandleOf
  <2>3. disk' \in Written(f, [disk EXCEPT ![f.d][f.name] = Absent])
        /\ entry' = [Outdated(entry, f.d, {f.name}, e) EXCEPT ![e] = Disconnected(f)]
        /\ UNCHANGED <<buf, current>>
    BY <1>1 DEF DeleteFile
  <2> HIDE DEF f, e
  <2>4. QuietRest
    BY <2>2, <2>3, DiskType, WrittenType
  <2>5. NoOlder(f, Disconnected(f))
    BY <2>1, DisconnectedType
  <2>6. QuietEntry
    BY <2>1, <2>3, <2>5, OutdatedQuiet
  <2> QED BY <2>4, <2>6
<1>2. ASSUME ~uh_ok(t, s)
      PROVE  QuietEntry /\ QuietRest
  BY <1>2, UnchangedQuiet DEF DeleteFile
<1>3. QuietUser /\ QuietTable
  BY UnchangedQuiet DEF DeleteFile
<1>4. script' = [script EXCEPT ![t] = rest]
  BY DEF DeleteFile, Proceed
<1> QED BY <1>1, <1>2, <1>3, <1>4, QuietKeeps

\* The new name is a path, and no path is one of the Names: the handle is not
\* found under a name any more.
LEMMA RenameKeeps ==
  ASSUME SharingInv, NEW t \in Threads, NEW s \in Slots, NEW name \in Paths,
         NEW failed \in Seq(Plain), NEW rest \in Seq(Plain),
         Rename(t, s, name, failed, rest)
  PROVE  SharingInv'
<1> DEFINE f == Base(t, s)
           e == user[t][s].e
           g == [f EXCEPT !.stale = @ \/ (f.name = name /\ disk[f.d][name] # Absent)]
           h == [g EXCEPT !.name = name, !.mod = FALSE]
           gone == [disk EXCEPT ![f.d][name] = Absent]
           new  == [gone EXCEPT ![f.d][f.name] = Absent, ![f.d][name] = f.data]
           q == IF uh_ok(t, s) THEN rest ELSE failed
<1>1. ASSUME uh_ok(t, s)
      PROVE  QuietEntry /\ QuietRest
  <2>1. e \in Entries /\ entry[e] \in Handle /\ entry[e] # None /\ f = entry[e]
        /\ f.fs
    BY <1>1, OkIsHeld, HeldHandle DEF uh_ok
  <2>2. f.d \in Drives /\ f.name \in FileNames /\ f.data \in Seq(AnyByte)
        /\ name \in FileNames /\ name \notin Names
    <3>1. name \in FileNames /\ name \notin Names
      BY NamesAssumption DEF Paths, FileNames
    <3> HIDE DEF f, e
    <3> QED BY <2>1, <3>1 DEF Handle, HandleOf
  <2>3. disk' \in {gone, new}
        /\ entry' = [Outdated(entry, f.d, {f.name, name}, e) EXCEPT ![e] = h]
        /\ UNCHANGED <<buf, current>>
    BY <1>1 DEF Rename
  <2>4. gone \in [Drives -> [FileNames -> Seq(AnyByte) \cup {Absent}]]
    <3> HIDE DEF f
    <3> QED BY <2>2, DiskType
  <2>5. new \in [Drives -> [FileNames -> Seq(AnyByte) \cup {Absent}]]
    <3> HIDE DEF f, gone
    <3> QED BY <2>2, <2>4
  <2>6. QuietRest
    <3> HIDE DEF new, gone
    <3> QED BY <2>3, <2>4, <2>5 DEF QuietRest, SharingInv, Types
  <2>7. SameFile(f, h)
    <3>1. g \in Handle /\ g.d = f.d /\ g.fs = f.fs /\ g.late = f.late
      <4> DEFINE b == f.stale \/ (f.name = name /\ disk[f.d][name] # Absent)
      <4>1. b \in BOOLEAN
        <5> HIDE DEF f
        <5> QED BY <2>1 DEF Handle, HandleOf
      <4> HIDE DEF b, f
      <4>2. g = [f EXCEPT !.stale = b]
        BY DEF b
      <4>3. [f EXCEPT !.stale = b] \in Handle /\ [f EXCEPT !.stale = b].d = f.d
            /\ [f EXCEPT !.stale = b].fs = f.fs
            /\ [f EXCEPT !.stale = b].late = f.late
        BY <2>1, <4>1 DEF Handle, HandleOf
      <4> QED BY <4>2, <4>3, Zenon
    <3> HIDE DEF g, f
    <3> QED BY <2>2, <3>1 DEF SameFile, Handle, HandleOf
  <2>8. QuietEntry
    <3>1. NoOlder(f, h)
      BY <2>2, <2>7 DEF NoOlder, Named
    <3> HIDE DEF f, e, h
    <3> QED BY <2>1, <2>2, <2>3, <3>1, OutdatedQuiet
  <2> QED BY <2>6, <2>8
<1>2. ASSUME ~uh_ok(t, s)
      PROVE  QuietEntry /\ QuietRest
  BY <1>2, UnchangedQuiet DEF Rename
<1>3. QuietUser /\ QuietTable
  BY UnchangedQuiet DEF Rename
<1>4. q \in Seq(Plain) /\ script' = [script EXCEPT ![t] = q]
  BY DEF Rename, Proceed
<1> HIDE DEF q
<1> QED BY <1>1, <1>2, <1>3, <1>4, QuietKeeps

LEMMA ServerCallsKeep ==
  ASSUME SharingInv, NEW t \in Threads, NEW rest \in Seq(Plain),
         \/ Cleanup(t, rest)
         \/ \E d \in Drives : Create(t, d, rest) \/ SetCurrentDrive(t, d, rest)
  PROVE  SharingInv'
<1>1. script' = [script EXCEPT ![t] = rest]
  BY DEF Cleanup, Create, SetCurrentDrive, Proceed
<1>2. QuietEntry /\ QuietUser
  BY UnchangedQuiet DEF Cleanup, Create, SetCurrentDrive
<1>3. CASE Cleanup(t, rest)
  <2>1. QuietRest
    BY <1>3, UnchangedQuiet DEF Cleanup
  <2>2. QuietTable
    BY <1>3, EntriesAreNat DEF Cleanup, QuietTable, SharingInv, Types
  <2> QED BY <1>1, <1>2, <2>1, <2>2, QuietKeeps
<1>4. ASSUME NEW d \in Drives, Create(t, d, rest) \/ SetCurrentDrive(t, d, rest)
      PROVE  SharingInv'
  <2>1. QuietTable
    BY <1>4, UnchangedQuiet DEF Create, SetCurrentDrive
  <2>2. CASE Create(t, d, rest)
    <3>1. [n \in FileNames |-> Absent] \in [FileNames -> Seq(AnyByte) \cup {Absent}]
      OBVIOUS
    <3>2. QuietRest
      BY <2>2, <3>1 DEF Create, QuietRest, SharingInv, Types
    <3> QED BY <1>1, <1>2, <2>1, <3>2, QuietKeeps
  <2>3. CASE SetCurrentDrive(t, d, rest)
    <3>1. QuietRest
      BY <2>3 DEF SetCurrentDrive, QuietRest, SharingInv, Types
    <3> QED BY <1>1, <1>2, <2>1, <3>1, QuietKeeps
  <2> QED BY <1>4, <2>2, <2>3
<1> QED BY <1>3, <1>4

(***************************************************************************)
(* open(): the base handle that is listed, or a new one that gets listed.  *)
(***************************************************************************)

\* Where a connected handle with a name belongs.
LEMMA PathIsPath ==
  ASSUME NEW f \in Handle, Named(f)
  PROVE  PathOf(f) \in Paths
BY DEF PathOf, Named, Paths, Handle, HandleOf

LEMMA HandleKeepsPath ==
  ASSUME NEW f, NEW g, SameFile(f, g), Named(g)
  PROVE  Named(f) /\ PathOf(f) = PathOf(g)
BY DEF SameFile, Named, PathOf

\* After open() the thread holds e, and e is what the path k is listed with.
OpenedAs(t, s, k, e) ==
  /\ entry' \in [Entries -> Handle \cup {None}]
  /\ \A x \in Entries : entry[x] # None => SameFile(entry[x], entry'[x])
  /\ \A x \in Entries : x # e /\ entry[x] = None => entry'[x] = None
  /\ entry'[e] # None
  /\ Named(entry'[e]) => k = PathOf(entry'[e])
  /\ table' \in [Paths -> Entries \cup {None, Expired}]
  /\ table'[k] = e
  /\ \A j \in Paths : j # k => table'[j] = table[j]
  /\ user' \in [Threads -> [Slots -> UserHandle \cup {None}]]
  /\ user'[t][s] # None /\ user'[t][s].e = e
  /\ \A u \in Threads, x \in Slots : u # t \/ x # s => user'[u][x] = user[u][x]

\* The handle k is listed with is one that others hold, too.
LEMMA SharedRaces ==
  ASSUME SharingInv, NEW t \in Threads, NEW s \in Slots, NEW k \in Paths,
         NEW e \in Entries, OpenedAs(t, s, k, e), Overtaken, table[k] = e
  PROVE  RivalsRace'
<1> USE DEF SharingInv
<1>1. Held(e) /\ entry[e] # None
  BY DEF ListedIsHeld, ListedByName
<1>2. \A x \in Entries : entry'[x] # None => entry[x] # None /\ SameFile(entry[x], entry'[x])
  BY <1>1 DEF OpenedAs
<1>3. \A x \in Entries : x # e /\ Held(x)' => Held(x)
  BY DEF Held, OpenedAs
<1> QED BY <1>1, <1>2, <1>3, RacesKept

\* A new handle of a file that has others is late, and nobody holds those.
LEMMA FreshRaces ==
  ASSUME SharingInv, NEW t \in Threads, NEW s \in Slots, NEW k \in Paths,
         NEW e \in Entries, OpenedAs(t, s, k, e), Overtaken,
         entry[e] = None, ~Shareable(k), ~entry'[e].stale,
         entry'[e].late = (Holders(k[1], k[2]) # {})
  PROVE  RivalsRace'
<1> USE DEF SharingInv
<1>1. \A x \in Entries : x # e /\ Held(x)' => Held(x)
  BY DEF Held, OpenedAs
<1>2. ASSUME NEW x \in Entries, entry'[x] # None, Named(entry'[x]), x # e
      PROVE  /\ entry[x] # None /\ SameFile(entry[x], entry'[x]) /\ Named(entry[x])
             /\ PathOf(entry[x]) = PathOf(entry'[x]) /\ entry'[x].late = entry[x].late
  BY <1>2 DEF OpenedAs, SameFile, Named, PathOf
<1>3. ASSUME NEW x \in Entries, entry[x] # None, Named(entry[x]), PathOf(entry[x]) = k
      PROVE  x \in Holders(k[1], k[2]) /\ ~Held(x)
  <2>1. x \in Holders(k[1], k[2])
    BY <1>3 DEF Holders, Named, PathOf
  <2>2. Held(x) => table[k] = x
    BY <1>3 DEF Held, HeldIsListed
  <2>3. table[k] # x
    BY <1>3, EntriesAreNat DEF Shareable, Named
  <2> QED BY <2>1, <2>2, <2>3
<1> SUFFICES ASSUME NEW x \in Entries, entry'[x] # None, Named(entry'[x]),
                    entry'[x].stale \/ Rival(x)'
             PROVE  Raced(x)'
  BY DEF RivalsRace
<1>4. ASSUME Rival(x)'
      PROVE  \E y \in Entries \ {x} : /\ entry'[y] # None /\ Named(entry'[y])
                                      /\ PathOf(entry'[y]) = PathOf(entry'[x])
  BY <1>4 DEF Rival
<1>5. CASE x = e
  <2>1. PICK y \in Entries \ {e} : /\ entry'[y] # None /\ Named(entry'[y])
                                   /\ PathOf(entry'[y]) = PathOf(entry'[e])
    BY <1>4, <1>5
  <2>2. PathOf(entry'[e]) = k
    BY <1>5 DEF OpenedAs
  <2>3. y \in Holders(k[1], k[2])
    BY <2>1, <2>2, <1>2, <1>3
  <2> QED BY <2>3, <1>5 DEF Raced
<1>6. CASE x # e /\ (entry[x].stale \/ Rival(x))
  <2>1. Raced(x)
    BY <1>2, <1>6 DEF RivalsRace
  <2> QED BY <2>1, <1>1, <1>2, <1>6 DEF Raced
<1>7. CASE x # e /\ ~(entry[x].stale \/ Rival(x))
  <2>1. ~entry'[x].stale
    BY <1>2, <1>7 DEF Overtaken
  <2>2. PICK y \in Entries \ {x} : /\ entry'[y] # None /\ Named(entry'[y])
                                   /\ PathOf(entry'[y]) = PathOf(entry'[x])
    BY <2>1, <1>4
  <2>3. y = e
    <3>1. ASSUME y # e
          PROVE  FALSE
      <4>1. entry[y] # None /\ Named(entry[y]) /\ PathOf(entry[y]) = PathOf(entry'[y])
        BY <2>2, <3>1, <1>2
      <4>2. Named(entry[x]) /\ PathOf(entry[x]) = PathOf(entry'[x])
        BY <1>2, <1>7
      <4> QED BY <4>1, <4>2, <2>2, <1>7 DEF Rival
    <3> QED BY <3>1
  <2>4. PathOf(entry[x]) = k /\ entry[x] # None /\ Named(entry[x])
    BY <2>2, <2>3, <1>2, <1>7 DEF OpenedAs
  <2>5. ~Held(x)
    BY <2>4, <1>3
  <2> QED BY <2>5, <1>1, <1>7 DEF Raced
<1> QED BY <1>5, <1>6, <1>7

LEMMA OpenedKeeps ==
  ASSUME SharingInv, NEW t \in Threads, NEW s \in Slots, NEW k \in Paths,
         NEW e \in Entries, NEW q \in Seq(Plain), script' = [script EXCEPT ![t] = q],
         user[t][s] = None, OpenedAs(t, s, k, e), Overtaken, QuietRest,
         \/ table[k] = e
         \/ /\ entry[e] = None /\ ~Shareable(k) /\ ~entry'[e].stale
            /\ entry'[e].late = (Holders(k[1], k[2]) # {})
  PROVE  SharingInv'
<1> USE DEF SharingInv
<1>1. /\ script' \in [Threads -> Scripts]
      /\ \A u \in Threads, y \in Entries : Destroying(u, y)' => Destroying(u, y)
  BY PlainDestroysNothing
<1>2. Types'
  BY <1>1 DEF Types, OpenedAs, QuietRest
<1>3. \A u \in Threads, x \in Slots : user[u][x] # None => user[u][x].e \in Entries
  BY HeldHandle
<1>4. \A y \in Entries : entry[y] # None => entry'[y] # None
  BY NoneIsNoHandle DEF OpenedAs, SameFile
<1>5. HeldExists'
  BY <1>3, <1>4 DEF HeldExists, OpenedAs
<1>6. \A y \in Entries : entry[y] # None /\ Named(entry[y]) /\ table[PathOf(entry[y])] = y
                        => table'[PathOf(entry[y])] = y
  <2> SUFFICES ASSUME NEW y \in Entries, entry[y] # None, Named(entry[y]),
                      table[PathOf(entry[y])] = y
               PROVE  table'[PathOf(entry[y])] = y
    OBVIOUS
  <2>1. PathOf(entry[y]) \in Paths
    BY PathIsPath DEF Types
  <2>2. CASE PathOf(entry[y]) # k
    BY <2>1, <2>2 DEF OpenedAs
  <2>3. CASE PathOf(entry[y]) = k
    <3>1. table[k] = y /\ Shareable(k)
      BY <2>3, EntriesAreNat DEF Shareable, Named
    <3> QED BY <3>1, <2>3 DEF OpenedAs
  <2> QED BY <2>2, <2>3
<1>7. HeldIsListed'
  <2> SUFFICES ASSUME NEW u \in Threads, NEW x \in Slots, user'[u][x] # None,
                      Named(entry'[user'[u][x].e])
               PROVE  table'[PathOf(entry'[user'[u][x].e])] = user'[u][x].e
    BY DEF HeldIsListed
  <2>1. CASE u = t /\ x = s
    BY <2>1 DEF OpenedAs
  <2>2. CASE u # t \/ x # s
    <3> DEFINE y == user[u][x].e
    <3>1. user[u][x] # None /\ user'[u][x].e = y /\ y \in Entries
      BY <2>2, <1>3 DEF OpenedAs
    <3>2. entry[y] # None /\ SameFile(entry[y], entry'[y])
      BY <3>1 DEF HeldExists, OpenedAs
    <3>3. Named(entry[y]) /\ PathOf(entry[y]) = PathOf(entry'[y])
      BY <3>1, <3>2, HandleKeepsPath
    <3>4. table[PathOf(entry[y])] = y
      BY <3>1, <3>3 DEF HeldIsListed
    <3> QED BY <3>1, <3>2, <3>3, <3>4, <1>6
  <2> QED BY <2>1, <2>2
<1>8. ListedByName'
  <2> SUFFICES ASSUME NEW j \in Paths, table'[j] \in Entries
               PROVE  /\ entry'[table'[j]] # None
                      /\ Named(entry'[table'[j]]) => j = PathOf(entry'[table'[j]])
    BY DEF ListedByName
  <2>1. CASE j = k
    BY <2>1 DEF OpenedAs
  <2>2. CASE j # k
    <3> DEFINE y == table[j]
    <3>1. table'[j] = y /\ y \in Entries
      BY <2>2 DEF OpenedAs
    <3>2. entry[y] # None /\ (Named(entry[y]) => j = PathOf(entry[y]))
      BY <3>1 DEF ListedByName
    <3>3. SameFile(entry[y], entry'[y]) /\ entry'[y] # None
      BY <3>1, <3>2, <1>4 DEF OpenedAs
    <3> QED BY <3>1, <3>2, <3>3, HandleKeepsPath
  <2> QED BY <2>1, <2>2
<1>9. DestroyedAlone'
  <2> SUFFICES ASSUME NEW u \in Threads, NEW y \in Entries, Destroying(u, y)'
               PROVE  /\ entry'[y] # None
                      /\ \A v \in Threads, x \in Slots :
                           user'[v][x] # None => user'[v][x].e # y
                      /\ \A j \in Paths : table'[j] # y
                      /\ \A v \in Threads : v # u => ~Destroying(v, y)'
    BY DEF DestroyedAlone
  <2>1. Destroying(u, y)
    BY <1>1
  <2>2. y # e
    BY <2>1 DEF DestroyedAlone
  <2>3. entry'[y] # None
    BY <2>1, <1>4 DEF DestroyedAlone
  <2>4. \A v \in Threads, x \in Slots : user'[v][x] # None => user'[v][x].e # y
    BY <2>1, <2>2 DEF DestroyedAlone, OpenedAs
  <2>5. \A j \in Paths : table'[j] # y
    BY <2>1, <2>2 DEF DestroyedAlone, OpenedAs
  <2>6. \A v \in Threads : v # u => ~Destroying(v, y)'
    BY <2>1, <1>1 DEF DestroyedAlone
  <2> QED BY <2>3, <2>4, <2>5, <2>6
<1>10. RivalsRace'
  BY SharedRaces, FreshRaces
<1>11. ListedIsHeld'
  <2>1. Held(e)'
    BY DEF Held, OpenedAs
  <2>2. \A x \in Entries : Held(x) => Held(x)'
    BY DEF Held, OpenedAs
  <2> QED BY <2>1, <2>2 DEF ListedIsHeld, OpenedAs
<1> QED BY <1>2, <1>5, <1>7, <1>8, <1>9, <1>10, <1>11

\* A failed open() drops what was listed: nobody can hold that connected.
LEMMA FailedKeeps ==
  ASSUME SharingInv, NEW t \in Threads, NEW k \in Paths, ~Shareable(k),
         NEW q \in Seq(Plain), script' = [script EXCEPT ![t] = q],
         table' = [table EXCEPT ![k] = None], UNCHANGED <<entry, user>>, QuietRest
  PROVE  SharingInv'
<1> USE DEF SharingInv
<1>1. /\ script' \in [Threads -> Scripts]
      /\ \A u \in Threads, y \in Entries : Destroying(u, y)' => Destroying(u, y)
  BY PlainDestroysNothing
<1>2. \A j \in Paths : table'[j] = IF j = k THEN None ELSE table[j]
  BY DEF Types
<1>3. Types'
  BY <1>1 DEF Types, QuietRest
<1>4. HeldExists' /\ ListedByName'
  BY <1>2, EntriesAreNat DEF HeldExists, ListedByName
<1>5. HeldIsListed'
  <2> SUFFICES ASSUME NEW u \in Threads, NEW x \in Slots, user[u][x] # None,
                      Named(entry[user[u][x].e])
               PROVE  table'[PathOf(entry[user[u][x].e])] = user[u][x].e
    BY DEF HeldIsListed
  <2> DEFINE y == user[u][x].e
  <2>1. y \in Entries /\ entry[y] \in Handle
    BY HeldHandle
  <2>2. PathOf(entry[y]) \in Paths /\ table[PathOf(entry[y])] = y
    BY <2>1, PathIsPath DEF HeldIsListed
  <2>3. PathOf(entry[y]) # k
    BY <2>1, <2>2, EntriesAreNat DEF Shareable, Named
  <2> QED BY <1>2, <2>2, <2>3
<1>6. DestroyedAlone'
  BY <1>1, <1>2, EntriesAreNat DEF DestroyedAlone
<1>7. Overtaken /\ \A x \in Entries : entry[x] # None => SameFile(entry[x], entry[x])
  BY UnchangedQuiet DEF QuietEntry
<1>8. RivalsRace' /\ ListedIsHeld'
  <2>1. \A x \in Entries : Held(x)' <=> Held(x)
    BY DEF Held
  <2>2. RivalsRace'
    BY <1>7, <2>1, RacesKept
  <2> QED BY <1>2, <2>1, <2>2, EntriesAreNat DEF ListedIsHeld
<1> QED BY <1>3, <1>4, <1>5, <1>6, <1>8

LEMMA OpenBaseType ==
  ASSUME SharingInv, NEW k \in Paths, k[1] # None, NEW mode,
         disk[k[1]][k[2]] = Absent \/ disk[k[1]][k[2]] \in Seq(AnyByte)
  PROVE  /\ OpenBase(k, mode) \in Handle /\ PathOf(OpenBase(k, mode)) = k
         /\ ~OpenBase(k, mode).stale
         /\ OpenBase(k, mode).late = (Holders(k[1], k[2]) # {})
<1> DEFINE old  == disk[k[1]][k[2]]
           data == IF old = Absent \/ "trunc" \in mode THEN <<>> ELSE old
           pos  == IF "ate" \in mode /\ data # <<>> THEN Len(data) - 1 ELSE 0
<1>1. data \in Seq(AnyByte)
  OBVIOUS
<1>2. pos \in Nat
  <2> HIDE DEF data
  <2> QED BY <1>1
<1>3. k[1] \in Drives /\ k[2] \in FileNames /\ k = <<k[1], k[2]>>
  BY DEF Paths, FileNames
<1>4. OpenBase(k, mode) =
        [d |-> k[1], name |-> k[2], data |-> data, pos |-> pos,
         app |-> "app" \in mode /\ (old = Absent \/ "trunc" \notin mode),
         mod |-> old = Absent, fs |-> TRUE, late |-> Holders(k[1], k[2]) # {},
         stale |-> FALSE]
  BY DEF OpenBase
<1> HIDE DEF data, pos, old
<1>5. OpenBase(k, mode) \in Handle
  BY <1>1, <1>2, <1>3, <1>4 DEF Handle, HandleOf
<1>6. PathOf(OpenBase(k, mode)) = k
  BY <1>3, <1>4 DEF PathOf
<1>7. ~OpenBase(k, mode).stale /\ OpenBase(k, mode).late = (Holders(k[1], k[2]) # {})
  BY <1>4
<1> QED BY <1>5, <1>6, <1>7

LEMMA ResolveType ==
  ASSUME SharingInv, NEW p \in Paths
  PROVE  Resolve(p) \in Paths
BY DEF Resolve, Paths, SharingInv, Types

LEMMA OpenKeeps ==
  ASSUME SharingInv, NEW t \in Threads, NEW s \in Slots, NEW p \in Paths, NEW mode,
         NEW rest \in Seq(Plain), Open(t, s, p, mode, rest)
  PROVE  SharingInv'
<1> DEFINE k == Resolve(p)
           r == ServerOpen(k, mode)
           h == [e |-> r.e, pos |-> IF r.e # None /\ "ate" \in mode
                                     THEN Len(r.es[r.e].data) ELSE 0,
                 app |-> "app" \in mode]
<1>1. /\ user[t][s] = None
      /\ \E e \in Entries : entry[e] = None
      /\ entry' = r.es /\ table' = r.table
      /\ r.e = None => script' = [script EXCEPT ![t] = Unwind(t)] /\ UNCHANGED user
      /\ r.e # None => /\ user' = [user EXCEPT ![t][s] = h]
                       /\ script' = [script EXCEPT ![t] = rest]
      /\ UNCHANGED <<disk, buf, current>>
  BY DEF Open, Proceed
<1>2. k \in Paths
  BY ResolveType
<1>3. QuietRest
  BY <1>1, UnchangedQuiet
<1> HIDE DEF k, h
<1>4. ASSUME NEW e \in Entries, r.e = e, r.es \in [Entries -> Handle \cup {None}],
             r.es[e] # None
      PROVE  /\ user' \in [Threads -> [Slots -> UserHandle \cup {None}]]
             /\ user'[t][s] # None /\ user'[t][s].e = e
             /\ \A u \in Threads, x \in Slots :
                  u # t \/ x # s => user'[u][x] = user[u][x]
             /\ script' = [script EXCEPT ![t] = rest]
  <2>1. r.es[e] \in Handle
    BY <1>4
  <2>2. Len(r.es[e].data) \in Nat
    <3> HIDE DEF r
    <3> QED BY <2>1 DEF Handle, HandleOf
  <2> HIDE DEF r
  <2>3. h \in UserHandle /\ h.e = e
    BY <1>4, <2>2 DEF h, UserHandle
  <2>4. e # None
    BY EntriesAreNat
  <2>5. user' = [user EXCEPT ![t][s] = h] /\ script' = [script EXCEPT ![t] = rest]
    BY <1>1, <1>4, <2>4
  <2> QED BY <2>3, <2>5, NoneIsNoHandle DEF SharingInv, Types
<1>5. CASE Shareable(k)
  <2> DEFINE e == table[k]
             es == IF "trunc" \in mode THEN [entry EXCEPT ![e] = CutTo(@, 0)] ELSE entry
  <2>1. r.e = e /\ r.table = table /\ r.es = es
    BY <1>5 DEF ServerOpen, Reuse
  <2>2. e \in Entries
    BY <1>2, <1>5 DEF Shareable, SharingInv, Types
  <2>3. entry[e] # None /\ (Named(entry[e]) => k = PathOf(entry[e]))
    BY <1>2, <2>2 DEF SharingInv, ListedByName
  <2>4. entry[e] \in Handle
    BY <2>2, <2>3 DEF SharingInv, Types
  <2>5. NoOlder(entry[e], CutTo(entry[e], 0)) /\ CutTo(entry[e], 0) \in Handle
    BY <2>4, CutToType DEF NoOlder, SameFile
  <2>6. entry' = es
    BY <1>1, <2>1
  <2>7. QuietEntry
    <3>1. CASE "trunc" \in mode
      BY <3>1, <2>2, <2>3, <2>5, <2>6, OneEntryQuiet
    <3>2. CASE "trunc" \notin mode
      BY <3>2, <2>6, UnchangedQuiet
    <3> QED BY <3>1, <3>2
  <2> HIDE DEF es, e
  <2>8. entry'[e] # None /\ SameFile(entry[e], entry'[e])
    BY <2>2, <2>3, <2>7 DEF QuietEntry
  <2>9. Named(entry'[e]) => k = PathOf(entry'[e])
    BY <2>3, <2>8, HandleKeepsPath
  <2>10. r.es = entry' /\ entry' \in [Entries -> Handle \cup {None}]
    BY <2>7, <1>1 DEF QuietEntry
  <2>11. table' = table
    BY <1>1, <2>1
  <2> HIDE DEF r
  <2>12. OpenedAs(t, s, k, e)
    BY <1>4, <2>1, <2>2, <2>7, <2>8, <2>9, <2>10, <2>11
       DEF OpenedAs, QuietEntry, SharingInv, Types, e
  <2>13. script' = [script EXCEPT ![t] = rest] /\ table[k] = e
    BY <1>4, <2>1, <2>2, <2>8, <2>10 DEF e
  <2> QED BY <1>1, <1>2, <1>3, <2>2, <2>7, <2>12, <2>13, OpenedKeeps DEF QuietEntry
<1>6. CASE ~Shareable(k) /\ (k[1] = None \/ (disk[k[1]][k[2]] = Absent
                                             /\ {"out", "app"} \cap mode = {}))
  <2>1. r.e = None /\ r.table = [table EXCEPT ![k] = None] /\ r.es = entry
    BY <1>6 DEF ServerOpen, Fresh
  <2> HIDE DEF r
  <2> QED BY <1>1, <1>2, <1>3, <1>6, <2>1, UnwindIsPlain, FailedKeeps
<1>7. CASE ~Shareable(k) /\ ~(k[1] = None \/ (disk[k[1]][k[2]] = Absent
                                              /\ {"out", "app"} \cap mode = {}))
  <2> DEFINE e == Unused
             f == OpenBase(k, mode)
  <2>1. r.e = e /\ r.table = [table EXCEPT ![k] = e] /\ r.es = [entry EXCEPT ![e] = f]
    BY <1>7 DEF ServerOpen, Fresh, Enlist
  <2>2. e \in Entries /\ entry[e] = None
    BY <1>1 DEF Unused
  <2>3. disk[k[1]][k[2]] = Absent \/ disk[k[1]][k[2]] \in Seq(AnyByte)
    BY <1>2, <1>7 DEF Paths, FileNames, SharingInv, Types
  <2>4. f \in Handle /\ PathOf(f) = k /\ ~f.stale
        /\ f.late = (Holders(k[1], k[2]) # {})
    BY <1>2, <1>7, <2>3, OpenBaseType
  <2>5. f # None
    BY <2>4, NoneIsNoHandle
  <2> HIDE DEF f, e, r
  <2>6. entry' = [entry EXCEPT ![e] = f] /\ table' = [table EXCEPT ![k] = e]
        /\ r.es = entry'
    BY <1>1, <2>1
  <2>7. entry' \in [Entries -> Handle \cup {None}] /\ entry'[e] = f
    BY <2>2, <2>4, <2>6 DEF SharingInv, Types
  <2>8. \A x \in Entries : entry[x] # None => SameFile(entry[x], entry'[x])
    BY <2>2, <2>6 DEF SharingInv, Types, SameFile
  <2>9. OpenedAs(t, s, k, e)
    BY <1>2, <1>4, <2>1, <2>2, <2>4, <2>5, <2>6, <2>7, <2>8
       DEF OpenedAs, SharingInv, Types
  <2>10. script' = [script EXCEPT ![t] = rest]
    BY <1>4, <2>1, <2>2, <2>5, <2>6, <2>7
  <2>11. Overtaken
    BY <2>2, <2>4, <2>6, <2>7 DEF Overtaken, SharingInv, Types
  <2>12. ~entry'[e].stale /\ entry'[e].late = (Holders(k[1], k[2]) # {})
    BY <2>4, <2>7
  <2> QED BY <1>1, <1>2, <1>3, <1>7, <2>2, <2>9, <2>10, <2>11, <2>12, OpenedKeeps
<1> QED BY <1>5, <1>6, <1>7

(***************************************************************************)
(* The end of a handle.                                                    *)
(***************************************************************************)

\* As long as no base handle changes, only those who let one go matter.
LEMMA UnchangedRaces ==
  ASSUME SharingInv, UNCHANGED entry, \A x \in Entries : Held(x)' => Held(x)
  PROVE  RivalsRace'
<1>1. Overtaken /\ \A x \in Entries : entry[x] # None => SameFile(entry[x], entry[x])
  BY UnchangedQuiet DEF QuietEntry
<1> QED BY <1>1, RacesKept DEF SharingInv

\* A handle that is not the last one goes, or there was none.
LEMMA SharedCloseKeeps ==
  ASSUME SharingInv, NEW t \in Threads, NEW s \in Slots, NEW q \in Seq(Plain),
         Refs(user[t][s].e) # {<<t, s>>},
         script' = [script EXCEPT ![t] = q], user' = [user EXCEPT ![t][s] = None],
         UNCHANGED <<disk, entry, table, buf, current>>
  PROVE  SharingInv'
<1> USE DEF SharingInv
<1>1. /\ script' \in [Threads -> Scripts]
      /\ \A u \in Threads, y \in Entries : Destroying(u, y)' => Destroying(u, y)
  BY PlainDestroysNothing
<1>2. \A u \in Threads, x \in Slots : user'[u][x] # None => user'[u][x] = user[u][x]
  BY DEF Types
<1>3. Types'
  BY <1>1 DEF Types
<1>4. HeldExists' /\ HeldIsListed' /\ ListedByName'
  BY <1>2 DEF HeldExists, HeldIsListed, ListedByName
<1>5. DestroyedAlone'
  BY <1>1, <1>2 DEF DestroyedAlone
<1>6. RivalsRace'
  BY <1>2, UnchangedRaces DEF Held
<1>7. ListedIsHeld'
  <2> SUFFICES ASSUME NEW k \in Paths, table[k] \in Entries
               PROVE  Held(table[k])'
    BY DEF ListedIsHeld
  <2> DEFINE e == table[k]
  <2>1. PICK u \in Threads, x \in Slots : user[u][x] # None /\ user[u][x].e = e
    BY DEF ListedIsHeld, Held
  <2>2. CASE u # t \/ x # s
    <3>1. user'[u][x] = user[u][x]
      BY <2>2 DEF Types
    <3> QED BY <2>1, <3>1 DEF Held
  <2>3. CASE u = t /\ x = s
    <3>1. <<t, s>> \in Refs(e)
      BY <2>1, <2>3 DEF Refs, Handles
    <3>2. PICK h \in Refs(e) : h # <<t, s>>
      BY <2>1, <2>3, <3>1
    <3>3. h \in Threads \X Slots /\ user[h[1]][h[2]] # None /\ user[h[1]][h[2]].e = e
          /\ h = <<h[1], h[2]>>
      BY <3>2 DEF Refs, Handles
    <3>4. user'[h[1]][h[2]] = user[h[1]][h[2]]
      BY <3>2, <3>3 DEF Types
    <3> QED BY <3>3, <3>4 DEF Held
  <2> QED BY <2>2, <2>3
<1> QED BY <1>3, <1>4, <1>5, <1>6, <1>7

\* With the last one the entry expires, and its thread goes on to destroy it.
LEMMA LastCloseKeeps ==
  ASSUME SharingInv, NEW t \in Threads, NEW s \in Slots, user[t][s] # None,
         Refs(user[t][s].e) = {<<t, s>>},
         NEW rest \in Seq(Plain), Close(t, s, rest)
  PROVE  SharingInv'
<1> USE DEF SharingInv
<1> DEFINE e == user[t][s].e
           c == Call("destroy", e)
<1>1. /\ user' = [user EXCEPT ![t][s] = None]
      /\ table' = [k \in DOMAIN table |-> IF table[k] = e THEN Expired ELSE table[k]]
      /\ script' = [script EXCEPT ![t] = <<c>> \o rest]
      /\ UNCHANGED <<disk, entry, buf, current>>
  BY DEF Close, Proceed
<1>2. e \in Entries /\ entry[e] # None
  BY HeldHandle
<1>3. <<c>> \o rest \in Scripts
  BY <1>2 DEF Scripts
<1>4. c.op = "destroy" /\ c.s = e
  BY DEF Call
<1> HIDE DEF c
<1>5. Head(<<c>> \o rest) = c
  BY HeadTailOfJoined
<1>6. script'[t] = <<c>> \o rest
      /\ \A u \in Threads : u # t => script'[u] = script[u]
  BY <1>1 DEF Types
<1>7. \A u \in Threads, x \in Slots :
        user'[u][x] # None => user'[u][x] = user[u][x] /\ user[u][x].e # e
  <2>1. \A u \in Threads, x \in Slots :
          user'[u][x] # None => user'[u][x] = user[u][x] /\ <<u, x>> # <<t, s>>
    BY <1>1 DEF Types
  <2>2. \A u \in Threads, x \in Slots :
          user[u][x] # None /\ user[u][x].e = e => <<u, x>> \in Refs(e)
    BY DEF Refs, Handles
  <2> QED BY <2>1, <2>2
<1> HIDE DEF e
<1>8. \A k \in Paths : table'[k] = IF table[k] = e THEN Expired ELSE table[k]
  BY <1>1 DEF Types
<1>9. Types'
  <2>1. script' \in [Threads -> Scripts]
    BY <1>1, <1>3 DEF Types
  <2>2. user' \in [Threads -> [Slots -> UserHandle \cup {None}]]
    BY <1>1 DEF Types
  <2>3. table' \in [Paths -> Entries \cup {None, Expired}]
    BY <1>1 DEF Types
  <2> QED BY <1>1, <2>1, <2>2, <2>3 DEF Types
<1>10. HeldExists'
  BY <1>1, <1>7 DEF HeldExists
<1>11. HeldIsListed'
  <2> SUFFICES ASSUME NEW u \in Threads, NEW x \in Slots, user'[u][x] # None,
                      Named(entry'[user'[u][x].e])
               PROVE  table'[PathOf(entry'[user'[u][x].e])] = user'[u][x].e
    BY DEF HeldIsListed
  <2> DEFINE y == user[u][x].e
  <2>1. user[u][x] # None /\ user'[u][x].e = y /\ y # e
    BY <1>7
  <2>2. y \in Entries /\ entry[y] \in Handle /\ entry'[y] = entry[y]
    BY <1>1, <2>1, HeldHandle
  <2>3. Named(entry[y])
    BY <2>1, <2>2
  <2>4. PathOf(entry[y]) \in Paths /\ table[PathOf(entry[y])] = y
    BY <2>1, <2>2, <2>3, PathIsPath DEF HeldIsListed
  <2>5. table'[PathOf(entry[y])] = y
    BY <2>1, <2>4, <1>8
  <2> QED BY <2>1, <2>2, <2>5
<1>12. ListedByName'
  BY <1>1, <1>8, EntriesAreNat DEF ListedByName
<1>13. DestroyedAlone'
  <2> SUFFICES ASSUME NEW u \in Threads, NEW y \in Entries, Destroying(u, y)'
               PROVE  /\ entry'[y] # None
                      /\ \A v \in Threads, x \in Slots :
                           user'[v][x] # None => user'[v][x].e # y
                      /\ \A j \in Paths : table'[j] # y
                      /\ \A v \in Threads : v # u => ~Destroying(v, y)'
    BY DEF DestroyedAlone
  <2>1. \A v \in Threads : v # t => (Destroying(v, y)' <=> Destroying(v, y))
    BY <1>6 DEF Destroying
  <2>2. Destroying(t, y)' => y = e
    BY <1>4, <1>5, <1>6 DEF Destroying
  <2>3. \A v \in Threads : ~Destroying(v, e)
    BY <1>2 DEF DestroyedAlone, e
  <2>4. CASE u = t
    <3>1. y = e
      BY <2>2, <2>4
    <3>2. \A v \in Threads : v # u => ~Destroying(v, y)'
      BY <2>1, <2>3, <2>4, <3>1
    <3>3. \A j \in Paths : table'[j] # y
      BY <1>8, <3>1, EntriesAreNat
    <3>4. \A v \in Threads, x \in Slots : user'[v][x] # None => user'[v][x].e # y
      BY <1>7, <3>1
    <3> QED BY <1>1, <1>2, <3>1, <3>2, <3>3, <3>4
  <2>5. CASE u # t
    <3>1. Destroying(u, y) /\ y # e
      BY <2>1, <2>3, <2>5
    <3>2. \A v \in Threads : v # u => ~Destroying(v, y)'
      BY <2>1, <2>2, <3>1 DEF DestroyedAlone
    <3>3. \A j \in Paths : table'[j] # y
      BY <1>8, <3>1, EntriesAreNat DEF DestroyedAlone
    <3>4. \A v \in Threads, x \in Slots : user'[v][x] # None => user'[v][x].e # y
      BY <1>7, <3>1 DEF DestroyedAlone
    <3> QED BY <1>1, <3>1, <3>2, <3>3, <3>4 DEF DestroyedAlone
  <2> QED BY <2>4, <2>5
<1>14. RivalsRace'
  BY <1>1, <1>7, UnchangedRaces DEF Held
<1>15. ListedIsHeld'
  <2> SUFFICES ASSUME NEW k \in Paths, table'[k] \in Entries
               PROVE  \E u \in Threads, x \in Slots :
                        user'[u][x] # None /\ user'[u][x].e = table'[k]
    BY DEF ListedIsHeld, Held
  <2>1. table'[k] = table[k] /\ table[k] # e
    BY <1>8, EntriesAreNat
  <2>2. PICK u \in Threads, x \in Slots : user[u][x] # None /\ user[u][x].e = table[k]
    BY <2>1 DEF ListedIsHeld, Held
  <2>3. user'[u][x] = user[u][x]
    <3>1. <<u, x>> # <<t, s>>
      BY <2>1, <2>2 DEF e
    <3> QED BY <1>1, <3>1 DEF Types
  <2> QED BY <2>1, <2>2, <2>3
<1> QED BY <1>9, <1>10, <1>11, <1>12, <1>13, <1>14, <1>15

LEMMA CloseKeeps ==
  ASSUME SharingInv, NEW t \in Threads, NEW s \in Slots, NEW rest \in Seq(Plain),
         Close(t, s, rest)
  PROVE  SharingInv'
<1>1. CASE user[t][s] # None /\ Refs(user[t][s].e) = {<<t, s>>}
  BY <1>1, LastCloseKeeps
<1>2. CASE ~(user[t][s] # None /\ Refs(user[t][s].e) = {<<t, s>>})
  <2>1. Refs(user[t][s].e) # {<<t, s>>}
    <3>1. CASE user[t][s] = None
      <4>1. <<t, s>> \notin Handles
        BY <3>1 DEF Handles
      <4> QED BY <4>1 DEF Refs
    <3> QED BY <1>2, <3>1
  <2>2. table' = table
    BY <2>1 DEF Close, SharingInv, Types
  <2>3. script' = [script EXCEPT ![t] = rest]
    BY <2>1 DEF Close, Proceed
  <2> QED BY <2>1, <2>2, <2>3, SharedCloseKeeps DEF Close
<1> QED BY <1>1, <1>2

\* Nobody can miss what is destroyed.
LEMMA DestroyKeeps ==
  ASSUME SharingInv, NEW t \in Threads, NEW e \in Entries, Destroying(t, e),
         NEW rest \in Seq(Plain), Destroy(t, e, rest)
  PROVE  SharingInv'
<1> USE DEF SharingInv
<1> DEFINE f == entry[e]
           es == IF f.fs /\ f.mod THEN Outdated(entry, f.d, {f.name}, e) ELSE entry
<1>1. entry' = [es EXCEPT ![e] = None]
  BY DEF Destroy
<1>2. /\ script' = [script EXCEPT ![t] = rest]
      /\ table' = table /\ user' = user /\ buf' = buf /\ current' = current
  BY DEF Destroy, Proceed
<1>3. disk' = disk \/ disk' \in Written(f, [disk EXCEPT ![f.d][f.name] = f.data])
  BY DEF Destroy
<1>4. f \in Handle /\ f # None
  BY DEF Types, DestroyedAlone
<1>5. QuietRest
  <2>1. f.d \in Drives /\ f.name \in FileNames /\ f.data \in Seq(AnyByte)
    <3> HIDE DEF f
    <3> QED BY <1>4 DEF Handle, HandleOf
  <2> HIDE DEF f, es
  <2>2. CASE disk' = disk
    BY <2>2, <1>2, UnchangedQuiet
  <2>3. CASE disk' \in Written(f, [disk EXCEPT ![f.d][f.name] = f.data])
    BY <2>1, <2>3, <1>2, DiskType, WrittenType
  <2> QED BY <1>3, <2>2, <2>3
<1>6. /\ script' \in [Threads -> Scripts]
      /\ \A u \in Threads, y \in Entries : Destroying(u, y)' => Destroying(u, y)
      /\ \A y \in Entries : ~Destroying(t, y)'
  BY <1>2, PlainDestroysNothing
<1>7. /\ DOMAIN es = Entries
      /\ \A x \in Entries : /\ entry[x] = None => es[x] = None
                            /\ entry[x] # None => SameFile(entry[x], es[x])
      /\ \A x \in Entries :
           entry[x] # None /\ Named(es[x]) /\ es[x].stale => entry[x].stale \/ Rival(x)
  <2>1. CASE f.fs /\ f.mod
    <3> DEFINE H == UNION {Holders(f.d, n) : n \in {f.name}}
    <3>1. \A x \in H : entry[x] # None
      BY DEF Holders
    <3>2. DOMAIN es = Entries /\ \A x \in Entries :
            es[x] = IF x # e /\ x \in H THEN [entry[x] EXCEPT !.stale = TRUE] ELSE entry[x]
      BY <2>1 DEF Outdated
    <3>3. \A g \in Handle : SameFile(g, g) /\ SameFile(g, [g EXCEPT !.stale = TRUE])
      BY DEF SameFile, Handle, HandleOf
    <3>4. \A x \in Entries : entry[x] # None => entry[x] \in Handle
      BY DEF Types
    <3>5. \A x \in H : x # e /\ entry[x].name \in Names => Rival(x)
      <4> DEFINE ns == {f.name}
      <4>1. ns \cap Names \subseteq {f.name}
        OBVIOUS
      <4>2. H = UNION {Holders(entry[e].d, n) : n \in ns} /\ H \subseteq Entries
        BY DEF Holders
      <4> HIDE DEF H, ns, es
      <4> QED BY <1>4, <2>1, <4>1, <4>2, OutdatedAreRivals
    <3> HIDE DEF H, es
    <3>6. \A x \in Entries : entry[x] # None => SameFile(entry[x], es[x])
      BY <3>2, <3>3, <3>4
    <3>7. \A x \in Entries : entry[x] # None /\ Named(es[x]) => entry[x].name \in Names
      BY <3>6 DEF SameFile, Named
    <3>8. \A x \in Entries :
            entry[x] # None /\ Named(es[x]) /\ es[x].stale => entry[x].stale \/ Rival(x)
      BY <3>2, <3>5, <3>7
    <3> QED BY <3>1, <3>2, <3>6, <3>8
  <2>2. CASE ~(f.fs /\ f.mod)
    BY <2>2 DEF Types, SameFile
  <2> QED BY <2>1, <2>2
<1>8. entry'[e] = None /\ entry' = [x \in Entries |-> entry'[x]]
      /\ \A x \in Entries : x # e => entry'[x] = es[x]
  <2> HIDE DEF es
  <2>1. DOMAIN es = Entries
    BY <1>7
  <2>2. entry' = [x \in Entries |-> IF x = e THEN None ELSE es[x]]
    BY <1>1, <2>1, Zenon
  <2> QED BY <2>2
<1> HIDE DEF es, f
<1>9. \A g, h : SameFile(g, h) => h \in Handle /\ h # None
  BY NoneIsNoHandle DEF SameFile
<1>10. \A x \in Entries : x # e /\ entry[x] # None
        => SameFile(entry[x], entry'[x]) /\ entry'[x] # None
  BY <1>7, <1>8, <1>9
<1>11. \A x \in Entries : x # e /\ entry[x] = None => entry'[x] = None
  BY <1>7, <1>8
<1>12. ASSUME NEW x \in Entries
      PROVE  entry'[x] \in Handle \cup {None}
  <2>1. CASE x = e
    BY <2>1, <1>8
  <2>3. CASE x # e /\ entry[x] = None
    BY <2>3, <1>11
  <2>2. CASE x # e /\ entry[x] # None
    <3>1. SameFile(entry[x], entry'[x])
      BY <2>2, <1>10
    <3> QED BY <3>1, <1>9
  <2> QED BY <2>1, <2>2, <2>3
<1>13. Types'
  BY <1>2, <1>5, <1>6, <1>8, <1>12 DEF Types, QuietRest
<1>14. \A u \in Threads, x \in Slots :
         user[u][x] # None => user[u][x].e \in Entries /\ user[u][x].e # e
                              /\ entry[user[u][x].e] # None
  BY HeldHandle DEF DestroyedAlone
<1>15. HeldExists'
  BY <1>2, <1>10, <1>14 DEF HeldExists
<1>16. HeldIsListed'
  <2> SUFFICES ASSUME NEW u \in Threads, NEW x \in Slots, user[u][x] # None,
                      Named(entry'[user[u][x].e])
               PROVE  table[PathOf(entry'[user[u][x].e])] = user[u][x].e
    BY <1>2 DEF HeldIsListed
  <2>1. SameFile(entry[user[u][x].e], entry'[user[u][x].e])
    BY <1>10, <1>14
  <2>2. Named(entry[user[u][x].e])
        /\ PathOf(entry[user[u][x].e]) = PathOf(entry'[user[u][x].e])
    BY <2>1, HandleKeepsPath
  <2> QED BY <2>2 DEF HeldIsListed
<1>17. ListedByName'
  <2> SUFFICES ASSUME NEW k \in Paths, table[k] \in Entries
               PROVE  /\ entry'[table[k]] # None
                      /\ Named(entry'[table[k]]) => k = PathOf(entry'[table[k]])
    BY <1>2 DEF ListedByName
  <2>1. table[k] # e /\ entry[table[k]] # None
        /\ (Named(entry[table[k]]) => k = PathOf(entry[table[k]]))
    BY DEF DestroyedAlone, ListedByName
  <2>2. SameFile(entry[table[k]], entry'[table[k]]) /\ entry'[table[k]] # None
    BY <2>1, <1>10
  <2> QED BY <2>1, <2>2, HandleKeepsPath
<1>18. DestroyedAlone'
  <2> SUFFICES ASSUME NEW u \in Threads, NEW y \in Entries, Destroying(u, y)'
               PROVE  /\ entry'[y] # None
                      /\ \A v \in Threads, x \in Slots :
                           user[v][x] # None => user[v][x].e # y
                      /\ \A j \in Paths : table[j] # y
                      /\ \A v \in Threads : v # u => ~Destroying(v, y)'
    BY <1>2 DEF DestroyedAlone
  <2>1. Destroying(u, y) /\ u # t
    BY <1>6
  <2>2. y # e
    BY <2>1 DEF DestroyedAlone
  <2>3. entry'[y] # None
    BY <2>1, <2>2, <1>10 DEF DestroyedAlone
  <2> QED BY <2>1, <2>3, <1>6 DEF DestroyedAlone
<1>19. \A x \in Entries : Held(x)' <=> Held(x)
  BY <1>2 DEF Held
<1>20. RivalsRace'
  <2>1. Overtaken
    BY <1>7, <1>8 DEF Overtaken
  <2>2. \A x \in Entries : entry'[x] # None => entry[x] # None /\ SameFile(entry[x], entry'[x])
    BY <1>8, <1>10, <1>11
  <2> QED BY <1>19, <2>1, <2>2, RacesKept
<1>21. ListedIsHeld'
  BY <1>2, <1>19 DEF ListedIsHeld
<1> QED BY <1>13, <1>15, <1>16, <1>17, <1>18, <1>20, <1>21

(***************************************************************************)
(* All steps.                                                              *)
(***************************************************************************)
LEMMA BeginKeeps ==
  ASSUME SharingInv, NEW t \in Threads, Begin(t)
  PROVE  SharingInv'
<1>1. Typed \subseteq Paths
  BY VfsAssumption DEF Typed, Paths
<1>2. \E q \in Seq(Plain) : script' = [script EXCEPT ![t] = q]
  <2>1. \E src \in Paths, dst \in Paths :
          \/ Proceed(t, Cat(src)) \/ Proceed(t, Remove(src)) \/ Proceed(t, Touch(dst))
          \/ Proceed(t, Copy(src, dst)) \/ Proceed(t, Move(src, dst))
    BY <1>1 DEF Begin
  <2> QED BY <2>1, CommandsArePlain DEF Proceed
<1>3. QuietEntry /\ QuietUser /\ QuietTable /\ QuietRest
  BY UnchangedQuiet DEF Begin
<1> QED BY <1>2, <1>3, QuietKeeps

LEMMA DoKeeps ==
  ASSUME SharingInv, NEW t \in Threads, NEW c \in Plain, NEW rest \in Seq(Plain),
         Do(t, c, rest)
  PROVE  SharingInv'
<1>1. /\ c.op \in Kinds /\ c.s \in Slots
      /\ c.op = "open" => c.p \in Paths
      /\ c.op = "rename" => c.p \in Paths \X Paths
  BY DEF Plain
<1>2. <<c>> \o rest \in Seq(Plain) /\ <<Call("put", 2), c>> \o rest \in Seq(Plain)
  <2>1. Call("put", 2) \in Plain
    BY CallIsPlain, SlotsAre DEF Kinds
  <2>2. <<c>> \in Seq(Plain) /\ <<Call("put", 2), c>> \in Seq(Plain)
    BY <2>1, ListsOfCalls
  <2> QED BY <2>2
<1>3. CASE c.op = "open" /\ Open(t, c.s, c.p, c.mode, rest)
  BY <1>1, <1>3, OpenKeeps
<1>4. CASE c.op = "drain" /\ Read(t, c.s, <<c>> \o rest, rest)
  BY <1>1, <1>2, <1>4, ReadKeeps
<1>5. CASE c.op = "pump" /\ Read(t, c.s, <<Call("put", 2), c>> \o rest, rest)
  BY <1>1, <1>2, <1>5, ReadKeeps
<1>6. CASE c.op = "put" /\ Write(t, c.s, buf[t], rest)
  <2>1. buf[t] \in AnyByte
    BY DEF SharingInv, Types
  <2> QED BY <1>1, <1>6, <2>1, WriteKeeps
<1>7. CASE c.op = "flush" /\ Flush(t, c.s, rest)
  BY <1>1, <1>7, FlushKeeps
<1>8. CASE c.op = "delete" /\ DeleteFile(t, c.s, rest)
  BY <1>1, <1>8, DeleteKeeps
<1>9. CASE c.op = "rename"
           /\ Rename(t, c.s, Resolve(c.p[2]),
                     CopyAndRemove(c.p[1], c.p[2]) \o rest, rest)
  <2>1. c.p[1] \in Paths /\ c.p[2] \in Paths
    BY <1>1, <1>9
  <2>2. CopyAndRemove(c.p[1], c.p[2]) \in Seq(Plain)
    <3>1. /\ Copy(c.p[1], c.p[2]) \in Seq(Plain)
          /\ Remove(c.p[1]) \in Seq(Plain)
      BY <2>1, CommandsArePlain
    <3> QED BY <3>1 DEF CopyAndRemove
  <2>3. CopyAndRemove(c.p[1], c.p[2]) \o rest \in Seq(Plain)
    BY <2>2
  <2>4. Resolve(c.p[2]) \in Paths
    BY <2>1, ResolveType
  <2> QED BY <1>1, <1>9, <2>3, <2>4, RenameKeeps
<1>10. CASE c.op = "close" /\ Close(t, c.s, rest)
  BY <1>1, <1>10, CloseKeeps
<1>11. c.op # "destroy"
  BY <1>1 DEF Kinds
<1> QED BY <1>3, <1>4, <1>5, <1>6, <1>7, <1>8, <1>9, <1>10, <1>11 DEF Do

LEMMA WorkKeeps ==
  ASSUME SharingInv, NEW t \in Threads, Work(t)
  PROVE  SharingInv'
<1> DEFINE c == Head(script[t])
           rest == Tail(script[t])
<1>1. script[t] # <<>> /\ Do(t, c, rest)
  BY DEF Work
<1>2. rest \in Seq(Plain) /\ (c \in Plain \/ \E e \in Entries : c = Call("destroy", e))
  BY <1>1, HeadOfScript DEF SharingInv
<1>3. CASE c \in Plain
  BY <1>1, <1>2, <1>3, DoKeeps
<1>4. ASSUME NEW e \in Entries, c = Call("destroy", e)
      PROVE  SharingInv'
  <2>1. c.op = "destroy" /\ c.s = e
    BY <1>4 DEF Call
  <2>2. Destroying(t, e)
    BY <1>1, <2>1 DEF Destroying
  <2> HIDE DEF c, rest
  <2>3. Destroy(t, e, rest)
    BY <1>1, <2>1 DEF Do
  <2> QED BY <1>2, <2>2, <2>3, DestroyKeeps
<1> QED BY <1>2, <1>3, <1>4

LEMMA OthersKeep ==
  ASSUME SharingInv, NEW t \in Threads, Short(t) \/ Keep(t) \/ Use(t)
  PROVE  SharingInv'
<1>1. <<>> \in Seq(Plain) /\ 1 \in Slots /\ Bytes \subseteq AnyByte
      /\ 0 .. MaxLen \subseteq Nat /\ Typed \subseteq Paths
  BY SlotsAre, VfsAssumption DEF AnyByte, Typed, Paths
<1>2. CASE Short(t)
  BY <1>1, <1>2, ServerCallsKeep DEF Short
<1>3. CASE Keep(t)
  BY <1>1, <1>3, OpenKeeps DEF Keep
<1>4. CASE Use(t)
  <2>1. user[t][1] # None
    BY <1>4 DEF Use
  <2>2. CASE \E b \in Bytes : Write(t, 1, b, <<>>)
    BY <1>1, <2>2, WriteKeeps
  <2>3. CASE \E p \in 0 .. MaxLen : Seek(t, 1, p, <<>>)
    BY <1>1, <2>1, <2>3, SeekKeeps
  <2>4. CASE \E n \in 0 .. MaxLen : Truncate(t, 1, n, <<>>)
    BY <1>1, <2>4, TruncateKeeps
  <2>5. CASE Close(t, 1, <<>>)
    BY <1>1, <2>5, CloseKeeps
  <2> QED BY <1>4, <2>2, <2>3, <2>4, <2>5 DEF Use
<1> QED BY <1>2, <1>3, <1>4

LEMMA NextKeeps ==
  ASSUME SharingInv, [Next]_vars
  PROVE  SharingInv'
<1>1. CASE Next
  BY <1>1, WorkKeeps, BeginKeeps, OthersKeep DEF Next
<1>2. CASE UNCHANGED vars
  BY <1>2 DEF vars, SharingInv, Types, HeldExists, HeldIsListed, ListedByName,
              DestroyedAlone, Destroying, ListedIsHeld, RivalsRace, Rival, Raced, Held
<1> QED BY <1>1, <1>2

LEMMA SharingHolds ==
  ASSUME Init
  PROVE  SharingInv
<1>1. /\ entry = [e \in Entries |-> None] /\ table = [k \in Paths |-> None]
      /\ user = [t \in Threads |-> [s \in Slots |-> None]]
      /\ script = [t \in Threads |-> <<>>]
      /\ buf = [t \in Threads |-> Nothing] /\ current = None
  BY DEF Init
<1>2. disk \in [Drives -> [FileNames -> Seq(AnyByte) \cup {Absent}]]
  <2>1. ASSUME NEW x \in [1 .. 1 -> Bytes]
        PROVE  x \in Seq(AnyByte)
    <3>1. x[1] \in AnyByte /\ x = [i \in 1 .. 1 |-> x[1]]
      BY DEF AnyByte
    <3>2. <<x[1]>> \in Seq(AnyByte) /\ <<x[1]>> = [i \in 1 .. 1 |-> x[1]]
      BY <3>1
    <3> QED BY <3>1, <3>2
  <2>2. \A x \in {Absent} \cup [1 .. 1 -> Bytes] :
          [n \in FileNames |-> IF n \in Names THEN x ELSE Absent]
            \in [FileNames -> Seq(AnyByte) \cup {Absent}]
    BY <2>1
  <2> QED BY <2>2 DEF Init
<1>3. <<>> \in Scripts
  BY DEF Scripts
<1>4. Types
  BY <1>1, <1>2, <1>3 DEF Types, AnyByte
<1>5. HeldExists /\ HeldIsListed /\ DestroyedAlone
  BY <1>1 DEF HeldExists, HeldIsListed, DestroyedAlone, Destroying
<1>6. ListedByName /\ ListedIsHeld
  BY <1>1, EntriesAreNat DEF ListedByName, ListedIsHeld
<1>7. RivalsRace
  BY <1>1 DEF RivalsRace
<1> QED BY <1>4, <1>5, <1>6, <1>7 DEF SharingInv

\* Two handles that can be reached under one name are one.
LEMMA SharingMeansOne ==
  ASSUME SharingInv
  PROVE  OneLiveHandle
<1> SUFFICES ASSUME NEW d \in Drives, NEW n \in Names,
                    NEW x \in Holders(d, n), NEW y \in Holders(d, n), Live(x), Live(y)
             PROVE  x = y
  BY DEF OneLiveHandle
<1>1. ASSUME NEW z \in Holders(d, n), Live(z)
      PROVE  table[<<d, n>>] = z
  <2>1. z \in Entries /\ Named(entry[z]) /\ PathOf(entry[z]) = <<d, n>>
    BY DEF Holders, Named, PathOf
  <2>2. PICK h \in Refs(z) : TRUE
    BY <1>1 DEF Live
  <2>3. h \in Threads \X Slots /\ user[h[1]][h[2]] # None /\ user[h[1]][h[2]].e = z
    BY <2>2 DEF Refs, Handles
  <2> QED BY <2>1, <2>3 DEF SharingInv, HeldIsListed
<1> QED BY <1>1

\* Of the base handles of a file all but one wait for their destruction, in
\* every behaviour (VfsServer.cc open(), ~ThreadedFileHandle()).
THEOREM HandlesAreShared == Spec => []OneLiveHandle
<1>1. Init => SharingInv
  BY SharingHolds
<1>2. SharingInv /\ [Next]_vars => SharingInv'
  BY NextKeeps
<1>3. SharingInv => OneLiveHandle
  BY SharingMeansOne
<1> QED BY <1>1, <1>2, <1>3, PTL DEF Spec

\* A stale handle is late, or waits for its destruction.
LEMMA RacesMeanLost ==
  ASSUME SharingInv
  PROVE  UpdatesLostOnlyByRace
<1> SUFFICES ASSUME NEW e \in Entries, entry[e] # None, entry[e].fs, entry[e].stale,
                    entry[e].name \in Names, ~entry[e].late
             PROVE  Dying(e)
  BY DEF UpdatesLostOnlyByRace
<1>1. ~Held(e)
  BY DEF SharingInv, RivalsRace, Named, Raced
<1>2. Refs(e) = {}
  BY <1>1 DEF Refs, Handles, Held
<1> QED BY <1>2 DEF Dying

\* An update of a file is lost only where a handle was opened while another
\* one of that file was being destroyed, in every behaviour (VfsServer.cc
\* open(), ~ThreadedFileHandle()).
THEOREM OnlyTheRaceLoses == Spec => []UpdatesLostOnlyByRace
<1>1. Init => SharingInv
  BY SharingHolds
<1>2. SharingInv /\ [Next]_vars => SharingInv'
  BY NextKeeps
<1>3. SharingInv => UpdatesLostOnlyByRace
  BY RacesMeanLost
<1> QED BY <1>1, <1>2, <1>3, PTL DEF Spec

(***************************************************************************)
(* What the files and the handles hold.  A cursor never gets behind the    *)
(* longest file, since read() and write() move it by what they did; so a   *)
(* seek of the base handle to it enlarges no file beyond that; and cp      *)
(* writes only a byte it has read.                                         *)
(***************************************************************************)
Fits(f) == f.data \in Content /\ f.pos <= MaxLen

FilesFit   == \A d \in Drives, n \in FileNames : disk[d][n] \in Content \cup {Absent}
HandlesFit == \A e \in Entries : entry[e] # None => Fits(entry[e])
CursorsFit ==
  \A t \in Threads, s \in Slots : user[t][s] # None => user[t][s].pos <= MaxLen

\* cp writes what it has read, and cp and cat read their first handle
CallsReady ==
  \A t \in Threads :
    script[t] # <<>>
      => /\ Tail(script[t]) \in Seq(Calm)
         /\ Head(script[t]).op = "put" => buf[t] \in Bytes
         /\ Head(script[t]).op \in {"drain", "pump"} => Head(script[t]).s = 1

FittingInv == SharingInv /\ FilesFit /\ HandlesFit /\ CursorsFit /\ CallsReady

LEMMA ContentIsShort ==
  ASSUME NEW q
  PROVE  q \in Content <=> q \in Seq(Bytes) /\ Len(q) <= MaxLen
<1>1. ASSUME q \in Content
      PROVE  q \in Seq(Bytes) /\ Len(q) <= MaxLen
  <2>1. PICK n \in 0 .. MaxLen : q \in [1 .. n -> Bytes]
    BY <1>1 DEF Content
  <2>2. n \in Nat /\ n <= MaxLen
    BY VfsAssumption
  <2> QED BY <2>1, <2>2
<1>2. ASSUME q \in Seq(Bytes), Len(q) <= MaxLen
      PROVE  q \in Content
  <2>1. Len(q) \in 0 .. MaxLen /\ q \in [1 .. Len(q) -> Bytes]
    BY <1>2, VfsAssumption
  <2> QED BY <2>1 DEF Content
<1> QED BY <1>1, <1>2

LEMMA PaddedFits ==
  ASSUME NEW q \in Content, NEW n \in Nat
  PROVE  Padded(q, n) \in Seq(Bytes) /\ Len(Padded(q, n)) = n
<1>1. q \in Seq(Bytes)
  BY ContentIsShort
<1>2. \A i \in 1 .. n : (IF i <= Len(q) THEN q[i] ELSE Zero) \in Bytes
  BY <1>1, VfsAssumption
<1> QED BY <1>2 DEF Padded

LEMMA SeekToFits ==
  ASSUME NEW f \in Handle, Fits(f), NEW p \in Nat, p <= MaxLen
  PROVE  Fits(SeekTo(f, p)) /\ SeekTo(f, p).pos = p
<1>1. f.data \in Content /\ f.data \in Seq(Bytes)
  BY ContentIsShort DEF Fits
<1>2. CASE p <= Len(f.data)
  BY <1>1, <1>2 DEF SeekTo, Fits, Handle, HandleOf
<1>3. CASE ~(p <= Len(f.data))
  <2>1. p - 1 \in Nat /\ p - 1 <= MaxLen
    BY <1>1, <1>3, VfsAssumption
  <2>2. Padded(f.data, p - 1) \in Content
    BY <1>1, <2>1, PaddedFits, ContentIsShort
  <2> QED BY <1>3, <2>2 DEF SeekTo, Fits, Handle, HandleOf
<1> QED BY <1>2, <1>3

LEMMA AtFits ==
  ASSUME NEW f \in Handle, Fits(f), NEW p \in Nat, p <= MaxLen
  PROVE  Fits(At(f, p)) /\ At(f, p).pos = p /\ At(f, p) \in Handle
BY SeekToFits, AtType DEF At, NoOlder, SameFile

LEMMA CutToFits ==
  ASSUME NEW f \in Handle, Fits(f), NEW n \in 0 .. MaxLen
  PROVE  Fits(CutTo(f, n))
<1>1. n \in Nat /\ n <= MaxLen
  BY VfsAssumption
<1>2. f.data \in Content
  BY DEF Fits
<1>3. Padded(f.data, n) \in Content
  BY <1>1, <1>2, PaddedFits, ContentIsShort
<1> QED BY <1>1, <1>3 DEF CutTo, Fits, Handle, HandleOf

LEMMA ReplacedType ==
  ASSUME NEW S, NEW q \in Seq(S), NEW i, NEW b \in S
  PROVE  [q EXCEPT ![i] = b] \in Seq(S) /\ Len([q EXCEPT ![i] = b]) = Len(q)
<1> DEFINE v(j) == IF j = i THEN b ELSE q[j]
           n    == Len(q)
<1>1. DOMAIN q = 1 .. n /\ n \in Nat
  OBVIOUS
<1>2. [q EXCEPT ![i] = b] = [j \in 1 .. n |-> v(j)]
  BY <1>1, Zenon
<1>3. \A j \in 1 .. n : v(j) \in S
  OBVIOUS
<1> HIDE DEF v, n
<1>4. [j \in 1 .. n |-> v(j)] \in Seq(S) /\ Len([j \in 1 .. n |-> v(j)]) = n
  BY <1>1, <1>3
<1> QED BY <1>2, <1>4 DEF n

\* What is put is where the cursor is after it, so it ends within the file.
LEMMA PutByteFits ==
  ASSUME NEW f \in Handle, Fits(f), NEW b \in Bytes,
         Len(PutByte(f, b).data) <= MaxLen
  PROVE  Fits(PutByte(f, b))
<1> DEFINE at == IF f.app THEN Len(f.data) ELSE f.pos
           n  == IF at < Len(f.data) THEN Len(f.data) ELSE at + 1
           q  == Padded(f.data, n)
           q2 == [q EXCEPT ![at + 1] = b]
<1>1. f.data \in Content /\ f.data \in Seq(Bytes) /\ at \in Nat /\ n \in Nat
      /\ Len(f.data) \in Nat
  BY ContentIsShort DEF Fits, Handle, HandleOf
<1>2. at + 1 <= n
  BY <1>1
<1>3. q \in Seq(Bytes) /\ Len(q) = n
  <2> HIDE DEF n
  <2> QED BY <1>1, PaddedFits
<1>4. q2 \in Seq(Bytes) /\ Len(q2) = n
  <2> HIDE DEF q, n, at
  <2> QED BY <1>3, ReplacedType
<1>5. PutByte(f, b) = [f EXCEPT !.data = q2, !.pos = at + 1, !.mod = TRUE]
  BY DEF PutByte
<1> HIDE DEF q2, q, n, at
<1>6. PutByte(f, b).data = q2 /\ PutByte(f, b).pos = at + 1
  BY <1>5 DEF Handle, HandleOf
<1>7. n <= MaxLen
  BY <1>4, <1>6
<1>8. at + 1 <= MaxLen
  BY <1>1, <1>2, <1>7, VfsAssumption
<1>9. q2 \in Content
  BY <1>4, <1>7, ContentIsShort
<1> QED BY <1>6, <1>8, <1>9 DEF Fits

LEMMA DisconnectedFits ==
  ASSUME NEW f \in Handle
  PROVE  Fits(Disconnected(f))
<1>1. <<>> \in Content
  <2>1. <<>> \in Seq(Bytes) /\ Len(<<>>) <= MaxLen
    BY VfsAssumption
  <2> QED BY <2>1, ContentIsShort
<1> QED BY <1>1, VfsAssumption DEF Disconnected, Fits, Handle, HandleOf

\* A byte that is read is one of the file, and the cursor is within it.
LEMMA GetByteFits ==
  ASSUME NEW f \in Handle, Fits(f), GetByte(f) # Nothing
  PROVE  GetByte(f) \in Bytes /\ f.pos < MaxLen
<1>1. f.data \in Content /\ f.pos \in Nat
  BY DEF Fits, Handle, HandleOf
<1>2. f.pos < MaxLen /\ GetByte(f) = Padded(f.data, f.pos + 1)[f.pos + 1]
  BY <1>1, VfsAssumption DEF GetByte
<1>3. Padded(f.data, f.pos + 1) \in Seq(Bytes)
      /\ Len(Padded(f.data, f.pos + 1)) = f.pos + 1
  BY <1>1, PaddedFits
<1> DEFINE q == Padded(f.data, f.pos + 1)
<1>4. f.pos + 1 \in 1 .. Len(q)
  <2>1. f.pos + 1 \in 1 .. f.pos + 1
    BY <1>1
  <2> QED BY <2>1, <1>3, Zenon
<1>5. q[f.pos + 1] \in Bytes
  <2> HIDE DEF q
  <2> QED BY <1>3, <1>4 DEF q
<1> QED BY <1>2, <1>5

\* The thread t goes on with q.
LEMMA CallsStayReady ==
  ASSUME FittingInv, NEW t \in Threads, NEW q, script' = [script EXCEPT ![t] = q],
         \A u \in Threads : u # t => buf'[u] = buf[u],
         \/ q \in Seq(Calm)
         \/ \E c : \E r \in Seq(Calm) :
              q = <<c>> \o r /\ c.op \in {"put", "destroy"}
              /\ (c.op = "put" => buf'[t] \in Bytes)
  PROVE  CallsReady'
<1>1. script'[t] = q /\ \A u \in Threads : u # t => script'[u] = script[u]
  BY DEF FittingInv, SharingInv, Types
<1>2. ASSUME q # <<>>
      PROVE  /\ Tail(q) \in Seq(Calm)
             /\ Head(q).op = "put" => buf'[t] \in Bytes
             /\ Head(q).op \in {"drain", "pump"} => Head(q).s = 1
  <2>1. CASE q \in Seq(Calm)
    <3>1. Tail(q) \in Seq(Calm) /\ Head(q) \in Calm
      BY <1>2, <2>1
    <3> QED BY <3>1 DEF Calm
  <2>2. ASSUME NEW c, NEW r \in Seq(Calm), q = <<c>> \o r,
               c.op \in {"put", "destroy"}, c.op = "put" => buf'[t] \in Bytes
        PROVE  /\ Tail(q) \in Seq(Calm)
               /\ Head(q).op = "put" => buf'[t] \in Bytes
               /\ Head(q).op \in {"drain", "pump"} => Head(q).s = 1
    <3>1. r \in Seq(Plain)
      BY CalmIsPlain
    <3>2. Tail(q) = r /\ Head(q) = c
      BY <2>2, <3>1, HeadTailOfJoined
    <3> QED BY <2>2, <3>2
  <2> QED BY <2>1, <2>2
<1> QED BY <1>1, <1>2 DEF FittingInv, CallsReady

\* Every other call leaves what is read alone.
LEMMA ScriptsStayReady ==
  ASSUME FittingInv, NEW t \in Threads, NEW q, script' = [script EXCEPT ![t] = q],
         UNCHANGED buf, q \in Seq(Calm)
  PROVE  CallsReady'
BY CallsStayReady

LEMMA HeldFits ==
  ASSUME FittingInv, NEW t \in Threads, NEW s \in Slots, user[t][s] # None
  PROVE  /\ user[t][s].e \in Entries /\ entry[user[t][s].e] # None
         /\ Base(t, s) = entry[user[t][s].e]
         /\ Base(t, s) \in Handle /\ Fits(Base(t, s))
         /\ user[t][s].pos \in Nat /\ user[t][s].pos <= MaxLen
<1>1. user[t][s] \in UserHandle /\ user[t][s].e \in Entries
      /\ entry[user[t][s].e] \in Handle /\ entry[user[t][s].e] # None
  BY HeldHandle DEF FittingInv
<1> QED BY <1>1 DEF FittingInv, HandlesFit, CursorsFit, UserHandle, Base

LEMMA LeftFits ==
  ASSUME FittingInv, NEW t \in Threads, NEW s \in Slots, user[t][s] # None,
         NEW g, Fits(g), Left(t, s, g)
  PROVE  HandlesFit' /\ CursorsFit'
<1> DEFINE e == user[t][s].e
<1>1. e \in Entries /\ entry \in [Entries -> Handle \cup {None}]
  BY HeldFits DEF FittingInv, SharingInv, Types
<1>2. \A x \in Entries : entry'[x] = IF x = e THEN g ELSE entry[x]
  BY <1>1 DEF Left
<1>3. HandlesFit'
  BY <1>2 DEF FittingInv, HandlesFit, Fits
<1>4. user[t][s] \in UserHandle
  BY HeldHandle DEF FittingInv
<1>5. /\ user'[t][s].pos = g.pos
      /\ \A u \in Threads, x \in Slots :
           u # t \/ x # s => user'[u][x] = user[u][x]
  BY <1>4 DEF Left, UserHandle, FittingInv, SharingInv, Types
<1>6. CursorsFit'
  BY <1>5 DEF FittingInv, CursorsFit, Fits
<1> QED BY <1>3, <1>6

LEMMA ReadFits ==
  ASSUME FittingInv, NEW t \in Threads, NEW s \in Slots,
         NEW c, c.op = "put", NEW more, NEW tail \in Seq(Calm), NEW rest \in Seq(Calm),
         more \in Seq(Calm) \/ more = <<c>> \o tail,
         Read(t, s, more, rest)
  PROVE  FilesFit' /\ HandlesFit' /\ CursorsFit' /\ CallsReady'
<1> DEFINE f == At(Base(t, s), user[t][s].pos)
           b == IF uh_ok(t, s) THEN GetByte(f) ELSE Nothing
           g == IF b = Nothing THEN f ELSE [f EXCEPT !.pos = @ + 1]
           q == IF b = Nothing THEN rest ELSE more
<1>1. /\ IF uh_ok(t, s) THEN Left(t, s, g) ELSE UNCHANGED <<entry, user>>
      /\ buf' = [buf EXCEPT ![t] = b] /\ script' = [script EXCEPT ![t] = q]
      /\ UNCHANGED <<disk, table, current>>
  BY DEF Read, Proceed
<1>2. ASSUME uh_ok(t, s)
      PROVE  /\ user[t][s] # None /\ f \in Handle /\ Fits(f)
             /\ GetByte(f) # Nothing => GetByte(f) \in Bytes /\ f.pos < MaxLen
  <2>1. user[t][s] # None
    BY <1>2, OkIsHeld DEF FittingInv
  <2>2. f \in Handle /\ Fits(f)
    BY <2>1, HeldFits, AtFits
  <2> QED BY <2>1, <2>2, GetByteFits
<1> HIDE DEF f
<1>3. ASSUME uh_ok(t, s)
      PROVE  Fits(g)
  BY <1>2, <1>3, VfsAssumption DEF Fits, Handle, HandleOf
<1>4. HandlesFit' /\ CursorsFit'
  <2> HIDE DEF g
  <2>1. CASE uh_ok(t, s)
    BY <2>1, <1>1, <1>2, <1>3, LeftFits
  <2>2. CASE ~uh_ok(t, s)
    BY <2>2, <1>1 DEF FittingInv, HandlesFit, CursorsFit, Fits
  <2> QED BY <2>1, <2>2
<1>5. b = Nothing \/ b \in Bytes
  BY <1>2
<1>6. CallsReady'
  <2>1. buf'[t] = b /\ \A u \in Threads : u # t => buf'[u] = buf[u]
    BY <1>1 DEF FittingInv, SharingInv, Types
  <2>2. CASE b = Nothing
    BY <2>1, <2>2, <1>1, CallsStayReady
  <2>3. CASE b # Nothing
    <3>1. buf'[t] \in Bytes
      BY <2>1, <2>3, <1>5
    <3>2. q = more
      BY <2>3
    <3> HIDE DEF b, q
    <3>3. \/ q \in Seq(Calm)
          \/ \E x : \E r \in Seq(Calm) :
               q = <<x>> \o r /\ x.op \in {"put", "destroy"}
               /\ (x.op = "put" => buf'[t] \in Bytes)
      BY <3>1, <3>2
    <3> QED BY <2>1, <3>3, <1>1, CallsStayReady
  <2> QED BY <2>2, <2>3
<1>7. FilesFit'
  BY <1>1 DEF FittingInv, FilesFit
<1> QED BY <1>4, <1>6, <1>7

LEMMA WriteFits ==
  ASSUME FittingInv, NEW t \in Threads, NEW s \in Slots, NEW b \in Bytes,
         NEW rest \in Seq(Calm), Write(t, s, b, rest)
  PROVE  FilesFit' /\ HandlesFit' /\ CursorsFit' /\ CallsReady'
<1> DEFINE f  == Base(t, s)
           p  == IF user[t][s].app THEN Len(f.data) ELSE user[t][s].pos
           g  == At(f, p)
           ok == Len(PutByte(g, b).data) <= MaxLen
           h  == IF ok THEN PutByte(g, b) ELSE g
           q  == IF uh_ok(t, s) /\ ok THEN rest ELSE Unwind(t)
<1>1. /\ IF uh_ok(t, s) THEN Left(t, s, h) ELSE UNCHANGED <<entry, user>>
      /\ script' = [script EXCEPT ![t] = q]
      /\ UNCHANGED <<disk, table, buf, current>>
  BY DEF Write, Proceed
<1>2. ASSUME uh_ok(t, s)
      PROVE  user[t][s] # None /\ Fits(h)
  <2>1. user[t][s] # None
    BY <1>2, OkIsHeld DEF FittingInv
  <2>2. f \in Handle /\ Fits(f) /\ user[t][s].pos \in Nat /\ user[t][s].pos <= MaxLen
    BY <2>1, HeldFits
  <2>3. f.data \in Seq(Bytes) /\ Len(f.data) <= MaxLen
    BY <2>2, ContentIsShort DEF Fits
  <2>4. p \in Nat /\ p <= MaxLen
    <3> HIDE DEF f
    <3> QED BY <2>2, <2>3
  <2> HIDE DEF f, p
  <2>5. g \in Handle /\ Fits(g)
    BY <2>2, <2>4, AtFits
  <2> HIDE DEF g
  <2>6. ok => Fits(PutByte(g, b))
    BY <2>5, PutByteFits
  <2> QED BY <2>1, <2>5, <2>6
<1> HIDE DEF h, ok
<1>3. HandlesFit' /\ CursorsFit'
  <2>1. CASE uh_ok(t, s)
    BY <2>1, <1>1, <1>2, LeftFits
  <2>2. CASE ~uh_ok(t, s)
    BY <2>2, <1>1 DEF FittingInv, HandlesFit, CursorsFit, Fits
  <2> QED BY <2>1, <2>2
<1>4. q \in Seq(Calm)
  BY UnwindIsPlain
<1> HIDE DEF q
<1>5. CallsReady'
  BY <1>1, <1>4, ScriptsStayReady
<1>6. FilesFit'
  BY <1>1 DEF FittingInv, FilesFit
<1> QED BY <1>3, <1>5, <1>6

LEMMA SeekFits ==
  ASSUME FittingInv, NEW t \in Threads, NEW s \in Slots, NEW p \in 0 .. MaxLen,
         user[t][s] # None, NEW rest \in Seq(Calm), Seek(t, s, p, rest)
  PROVE  FilesFit' /\ HandlesFit' /\ CursorsFit' /\ CallsReady'
<1>1. user[t][s] \in UserHandle
  BY HeldHandle DEF FittingInv
<1>2. /\ user'[t][s].pos = p
      /\ \A u \in Threads, x \in Slots :
           u # t \/ x # s => user'[u][x] = user[u][x]
  BY <1>1 DEF Seek, UserHandle, FittingInv, SharingInv, Types
<1>3. CursorsFit'
  BY <1>2, VfsAssumption DEF FittingInv, CursorsFit
<1>4. FilesFit' /\ HandlesFit'
  BY DEF Seek, FittingInv, FilesFit, HandlesFit, Fits
<1>5. CallsReady'
  BY ScriptsStayReady DEF Seek, Proceed
<1> QED BY <1>3, <1>4, <1>5

LEMMA TruncateFits ==
  ASSUME FittingInv, NEW t \in Threads, NEW s \in Slots, NEW n \in 0 .. MaxLen,
         NEW rest \in Seq(Calm), Truncate(t, s, n, rest)
  PROVE  FilesFit' /\ HandlesFit' /\ CursorsFit' /\ CallsReady'
<1> DEFINE e == user[t][s].e
           p == IF user[t][s].pos > n THEN n ELSE user[t][s].pos
<1>1. user[t][s] # None
  BY OkIsHeld DEF Truncate, FittingInv
<1>2. user[t][s] \in UserHandle /\ e \in Entries /\ entry[e] \in Handle /\ entry[e] # None
      /\ Fits(entry[e]) /\ user[t][s].pos \in Nat /\ user[t][s].pos <= MaxLen
  BY <1>1, HeldHandle, HeldFits DEF FittingInv
<1>3. Fits(CutTo(entry[e], n))
  BY <1>2, CutToFits
<1>4. \A x \in Entries : entry'[x] = IF x = e THEN CutTo(entry[e], n) ELSE entry[x]
  BY <1>2 DEF Truncate, FittingInv, SharingInv, Types
<1>5. HandlesFit'
  BY <1>3, <1>4 DEF FittingInv, HandlesFit, Fits
<1>6. p <= MaxLen
  BY <1>2, VfsAssumption
<1>7. /\ user'[t][s].pos = p
      /\ \A u \in Threads, x \in Slots :
           u # t \/ x # s => user'[u][x] = user[u][x]
  BY <1>2 DEF Truncate, UserHandle, FittingInv, SharingInv, Types
<1>8. CursorsFit'
  BY <1>6, <1>7 DEF FittingInv, CursorsFit
<1>9. FilesFit'
  BY DEF Truncate, FittingInv, FilesFit
<1>10. CallsReady'
  BY ScriptsStayReady DEF Truncate, Proceed
<1> QED BY <1>5, <1>8, <1>9, <1>10

\* What another handle has written is not in the others yet.
LEMMA OutdatedFits ==
  ASSUME FittingInv, NEW d, NEW ns, NEW e \in Entries, NEW g, Fits(g),
         entry' = [Outdated(entry, d, ns, e) EXCEPT ![e] = g]
  PROVE  HandlesFit'
<1> SUFFICES ASSUME NEW x \in Entries, entry'[x] # None
             PROVE  Fits(entry'[x])
  BY DEF HandlesFit, Fits
<1>1. CASE x = e
  BY <1>1 DEF Outdated
<1>2. CASE x # e
  <2>1. \/ entry'[x] = entry[x]
        \/ /\ entry'[x] = [entry[x] EXCEPT !.stale = TRUE]
           /\ \E n \in ns : x \in Holders(d, n)
    BY <1>2 DEF Outdated
  <2>2. CASE entry'[x] = entry[x]
    BY <2>2 DEF FittingInv, HandlesFit
  <2>3. CASE entry'[x] = [entry[x] EXCEPT !.stale = TRUE] /\ entry[x] # None
    <3>1. entry[x] \in Handle /\ Fits(entry[x])
      BY <2>3 DEF FittingInv, HandlesFit, SharingInv, Types
    <3> QED BY <2>3, <3>1 DEF Fits, Handle, HandleOf
  <2> QED BY <2>1, <2>2, <2>3 DEF Holders
<1> QED BY <1>1, <1>2

\* A drive where one file is what a handle holds, or is gone.
LEMMA StoredFits ==
  ASSUME FittingInv, NEW n, NEW d, NEW x \in Content \cup {Absent},
         NEW new, new = [disk EXCEPT ![d][n] = x],
         NEW f, disk' \in Written(f, new)
  PROVE  FilesFit'
<1>1. \A a \in Drives, m \in FileNames : new[a][m] = disk[a][m] \/ new[a][m] = x
  BY DEF FittingInv, SharingInv, Types
<1>2. disk' = disk \/ disk' = new
  BY DEF Written
<1>3. \A a \in Drives, m \in FileNames : disk'[a][m] = disk[a][m] \/ disk'[a][m] = x
  BY <1>1, <1>2, Zenon
<1>4. \A a \in Drives, m \in FileNames : disk[a][m] \in Content \cup {Absent}
  BY DEF FittingInv, FilesFit
<1>5. \A a \in Drives, m \in FileNames : disk'[a][m] \in Content \cup {Absent}
  BY <1>3, <1>4, Zenon
<1> QED BY <1>5 DEF FilesFit

LEMMA FlushFits ==
  ASSUME FittingInv, NEW t \in Threads, NEW s \in Slots,
         NEW rest \in Seq(Calm), Flush(t, s, rest)
  PROVE  FilesFit' /\ HandlesFit' /\ CursorsFit' /\ CallsReady'
<1> DEFINE f == Base(t, s)
           e == user[t][s].e
           q == IF uh_ok(t, s) THEN rest ELSE Unwind(t)
<1>1. ASSUME uh_ok(t, s), f.mod
      PROVE  FilesFit' /\ HandlesFit'
  <2>1. e \in Entries /\ f = entry[e] /\ f \in Handle /\ Fits(f)
    BY <1>1, OkIsHeld, HeldFits DEF FittingInv
  <2>2. disk' \in Written(f, [disk EXCEPT ![f.d][f.name] = f.data])
        /\ entry' = [Outdated(entry, f.d, {f.name}, e) EXCEPT ![e].mod = FALSE]
    BY <1>1 DEF Flush
  <2>3. Outdated(entry, f.d, {f.name}, e)[e] = f
    BY <2>1 DEF Outdated
  <2>4. entry' = [Outdated(entry, f.d, {f.name}, e) EXCEPT ![e] = [f EXCEPT !.mod = FALSE]]
    BY <2>2, <2>3
  <2> HIDE DEF f, e
  <2>5. Fits([f EXCEPT !.mod = FALSE]) /\ f.data \in Content
    BY <2>1 DEF Fits, Handle, HandleOf
  <2>6. HandlesFit'
    BY <2>1, <2>4, <2>5, OutdatedFits
  <2> QED BY <2>2, <2>5, <2>6, StoredFits
<1>2. ASSUME ~(uh_ok(t, s) /\ f.mod)
      PROVE  FilesFit' /\ HandlesFit'
  BY <1>2 DEF Flush, FittingInv, FilesFit, HandlesFit, Fits
<1>3. CursorsFit'
  BY DEF Flush, FittingInv, CursorsFit
<1>4. q \in Seq(Calm) /\ script' = [script EXCEPT ![t] = q] /\ UNCHANGED buf
  BY UnwindIsPlain DEF Flush, Proceed
<1> HIDE DEF q, f
<1>5. CallsReady'
  BY <1>4, ScriptsStayReady
<1> QED BY <1>1, <1>2, <1>3, <1>5

LEMMA DeleteFits ==
  ASSUME FittingInv, NEW t \in Threads, NEW s \in Slots,
         NEW rest \in Seq(Calm), DeleteFile(t, s, rest)
  PROVE  FilesFit' /\ HandlesFit' /\ CursorsFit' /\ CallsReady'
<1> DEFINE f == Base(t, s)
           e == user[t][s].e
<1>1. ASSUME uh_ok(t, s)
      PROVE  FilesFit' /\ HandlesFit'
  <2>1. e \in Entries /\ f = entry[e] /\ f \in Handle
    BY <1>1, OkIsHeld, HeldFits DEF FittingInv
  <2>2. disk' \in Written(f, [disk EXCEPT ![f.d][f.name] = Absent])
        /\ entry' = [Outdated(entry, f.d, {f.name}, e) EXCEPT ![e] = Disconnected(f)]
    BY <1>1 DEF DeleteFile
  <2> HIDE DEF f, e
  <2>3. Fits(Disconnected(f))
    BY <2>1, DisconnectedFits
  <2> QED BY <2>1, <2>2, <2>3, OutdatedFits, StoredFits
<1>2. ASSUME ~uh_ok(t, s)
      PROVE  FilesFit' /\ HandlesFit'
  BY <1>2 DEF DeleteFile, FittingInv, FilesFit, HandlesFit, Fits
<1>3. CursorsFit'
  BY DEF DeleteFile, FittingInv, CursorsFit
<1>4. CallsReady'
  BY ScriptsStayReady DEF DeleteFile, Proceed
<1> QED BY <1>1, <1>2, <1>3, <1>4

LEMMA RenameFits ==
  ASSUME FittingInv, NEW t \in Threads, NEW s \in Slots, NEW name,
         NEW failed \in Seq(Calm), NEW rest \in Seq(Calm),
         Rename(t, s, name, failed, rest)
  PROVE  FilesFit' /\ HandlesFit' /\ CursorsFit' /\ CallsReady'
<1> DEFINE f == Base(t, s)
           e == user[t][s].e
           g == [f EXCEPT !.stale = @ \/ (f.name = name /\ disk[f.d][name] # Absent)]
           h == [g EXCEPT !.name = name, !.mod = FALSE]
           gone == [disk EXCEPT ![f.d][name] = Absent]
           new  == [gone EXCEPT ![f.d][f.name] = Absent, ![f.d][name] = f.data]
           q == IF uh_ok(t, s) THEN rest ELSE failed
<1>1. ASSUME uh_ok(t, s)
      PROVE  FilesFit' /\ HandlesFit'
  <2>1. e \in Entries /\ f = entry[e] /\ f \in Handle /\ Fits(f)
    BY <1>1, OkIsHeld, HeldFits DEF FittingInv
  <2>2. disk' \in {gone, new}
        /\ entry' = [Outdated(entry, f.d, {f.name, name}, e) EXCEPT ![e] = h]
    BY <1>1 DEF Rename
  <2>3. h.data = f.data /\ h.pos = f.pos
    <3> HIDE DEF f
    <3> QED BY <2>1 DEF Handle, HandleOf
  <2> HIDE DEF f, e, h
  <2>4. Fits(h) /\ f.data \in Content
    BY <2>1, <2>3 DEF Fits
  <2>5. HandlesFit'
    BY <2>1, <2>2, <2>4, OutdatedFits
  <2>6. \A a \in Drives, m \in FileNames :
          gone[a][m] \in {disk[a][m], Absent}
    BY DEF FittingInv, SharingInv, Types
  <2>7. \A a \in Drives, m \in FileNames :
          new[a][m] \in {gone[a][m], Absent, f.data}
    BY DEF FittingInv, SharingInv, Types
  <2> HIDE DEF gone, new
  <2>8. FilesFit'
    BY <2>2, <2>4, <2>6, <2>7 DEF FittingInv, FilesFit
  <2> QED BY <2>5, <2>8
<1>2. ASSUME ~uh_ok(t, s)
      PROVE  FilesFit' /\ HandlesFit'
  BY <1>2 DEF Rename, FittingInv, FilesFit, HandlesFit, Fits
<1>3. CursorsFit'
  BY DEF Rename, FittingInv, CursorsFit
<1>4. q \in Seq(Calm) /\ script' = [script EXCEPT ![t] = q] /\ UNCHANGED buf
  BY DEF Rename, Proceed
<1> HIDE DEF q
<1>5. CallsReady'
  BY <1>4, ScriptsStayReady
<1> QED BY <1>1, <1>2, <1>3, <1>5

LEMMA OpenBaseFits ==
  ASSUME FittingInv, NEW k \in Paths, k[1] # None, NEW mode
  PROVE  Fits(OpenBase(k, mode))
<1> DEFINE old  == disk[k[1]][k[2]]
           data == IF old = Absent \/ "trunc" \in mode THEN <<>> ELSE old
           pos  == IF "ate" \in mode /\ data # <<>> THEN Len(data) - 1 ELSE 0
<1>1. OpenBase(k, mode).data = data /\ OpenBase(k, mode).pos = pos
  BY DEF OpenBase
<1>2. k[1] \in Drives /\ k[2] \in FileNames
  BY DEF Paths, FileNames
<1>3. <<>> \in Content
  <2>1. <<>> \in Seq(Bytes) /\ Len(<<>>) <= MaxLen
    BY VfsAssumption
  <2> QED BY <2>1, ContentIsShort
<1>4. data \in Content
  BY <1>2, <1>3 DEF FittingInv, FilesFit
<1> HIDE DEF data
<1>5. data \in Seq(Bytes) /\ Len(data) <= MaxLen
  BY <1>4, ContentIsShort
<1>6. pos <= MaxLen
  BY <1>5, VfsAssumption
<1> QED BY <1>1, <1>4, <1>6 DEF Fits

LEMMA OpenFits ==
  ASSUME FittingInv, NEW t \in Threads, NEW s \in Slots, NEW p \in Paths, NEW mode,
         NEW rest \in Seq(Calm), Open(t, s, p, mode, rest)
  PROVE  FilesFit' /\ HandlesFit' /\ CursorsFit' /\ CallsReady'
<1> DEFINE k == Resolve(p)
           r == ServerOpen(k, mode)
           h == [e |-> r.e, pos |-> IF r.e # None /\ "ate" \in mode
                                     THEN Len(r.es[r.e].data) ELSE 0,
                 app |-> "app" \in mode]
           q == IF r.e = None THEN Unwind(t) ELSE rest
<1>1. /\ \E e \in Entries : entry[e] = None
      /\ entry' = r.es
      /\ IF r.e = None THEN UNCHANGED user ELSE user' = [user EXCEPT ![t][s] = h]
      /\ script' = [script EXCEPT ![t] = q]
      /\ UNCHANGED <<disk, buf, current>>
  BY DEF Open, Proceed
<1>2. k \in Paths
  BY ResolveType DEF FittingInv
<1>3. entry \in [Entries -> Handle \cup {None}] /\ HandlesFit
  BY DEF FittingInv, SharingInv, Types
<1> HIDE DEF k
<1>4. HandlesFit' /\ (r.e # None => r.e \in Entries /\ r.es[r.e] # None)
  <2>1. CASE Shareable(k)
    <3> DEFINE e == table[k]
               es == IF "trunc" \in mode THEN [entry EXCEPT ![e] = CutTo(@, 0)] ELSE entry
    <3>1. r.e = e /\ r.es = es
      BY <2>1 DEF ServerOpen, Reuse
    <3>2. e \in Entries /\ entry[e] # None
      BY <1>2, <2>1 DEF Shareable, FittingInv, SharingInv, Types, ListedByName
    <3>3. entry[e] \in Handle /\ Fits(entry[e])
      BY <1>3, <3>2 DEF HandlesFit
    <3>4. Fits(CutTo(entry[e], 0)) /\ CutTo(entry[e], 0) \in Handle
      BY <3>3, CutToFits, CutToType, VfsAssumption DEF NoOlder, SameFile
    <3>5. CutTo(entry[e], 0) # None
      BY <3>4, NoneIsNoHandle
    <3> HIDE DEF e
    <3>6. \A x \in Entries : es[x] = entry[x] \/ (x = e /\ es[x] = CutTo(entry[e], 0))
      BY <1>3, <3>2
    <3>7. es[e] # None
      BY <3>2, <3>5, <3>6
    <3>8. entry' = es
      BY <1>1, <3>1
    <3> HIDE DEF es
    <3>9. HandlesFit'
      BY <1>3, <3>4, <3>6, <3>8 DEF HandlesFit, Fits
    <3> QED BY <3>1, <3>2, <3>7, <3>9
  <2>2. CASE ~Shareable(k) /\ (k[1] = None \/ (disk[k[1]][k[2]] = Absent
                                               /\ {"out", "app"} \cap mode = {}))
    <3>1. r.e = None /\ r.es = entry
      BY <2>2 DEF ServerOpen, Fresh
    <3> HIDE DEF r
    <3> QED BY <1>1, <1>3, <3>1 DEF HandlesFit, Fits
  <2>3. CASE ~Shareable(k) /\ ~(k[1] = None \/ (disk[k[1]][k[2]] = Absent
                                                /\ {"out", "app"} \cap mode = {}))
    <3> DEFINE e == Unused
               f == OpenBase(k, mode)
    <3>1. r.e = e /\ r.es = [entry EXCEPT ![e] = f]
      BY <2>3 DEF ServerOpen, Fresh
    <3>2. e \in Entries
      BY <1>1 DEF Unused
    <3>3. Fits(f)
      BY <1>2, <2>3, OpenBaseFits
    <3>4. f # None
      <4>1. disk[k[1]][k[2]] = Absent \/ disk[k[1]][k[2]] \in Seq(AnyByte)
        BY <1>2, <2>3 DEF Paths, FileNames, FittingInv, SharingInv, Types
      <4>2. f \in Handle
        BY <1>2, <2>3, <4>1, OpenBaseType DEF FittingInv
      <4> QED BY <4>2, NoneIsNoHandle
    <3> HIDE DEF e, f, r
    <3>5. \A x \in Entries : entry'[x] = IF x = e THEN f ELSE entry[x]
      BY <1>1, <1>3, <3>1
    <3>6. HandlesFit'
      BY <1>3, <3>3, <3>5 DEF HandlesFit, Fits
    <3>7. r.es[e] # None
      BY <1>1, <3>2, <3>4, <3>5
    <3> QED BY <3>1, <3>2, <3>6, <3>7
  <2> QED BY <2>1, <2>2, <2>3
<1> HIDE DEF r
<1>5. r.e # None => h.pos <= MaxLen
  <2>1. ASSUME r.e # None
        PROVE  r.es[r.e].data \in Content
    BY <1>1, <1>4, <2>1 DEF HandlesFit, Fits
  <2>2. r.e # None => Len(r.es[r.e].data) <= MaxLen
    BY <2>1, ContentIsShort
  <2>3. 0 <= MaxLen
    BY VfsAssumption
  <2> QED BY <2>2, <2>3
<1> HIDE DEF h
<1>6. CursorsFit'
  <2>1. \A u \in Threads, x \in Slots :
          user'[u][x] = user[u][x] \/ (r.e # None /\ user'[u][x] = h)
    BY <1>1, SMTT(30) DEF FittingInv, SharingInv, Types
  <2> QED BY <1>5, <2>1 DEF FittingInv, CursorsFit
<1>7. FilesFit'
  BY <1>1 DEF FittingInv, FilesFit
<1>8. q \in Seq(Calm)
  BY UnwindIsPlain
<1> HIDE DEF q
<1>9. CallsReady'
  BY <1>1, <1>8, ScriptsStayReady
<1> QED BY <1>4, <1>6, <1>7, <1>9

LEMMA CloseFits ==
  ASSUME FittingInv, NEW t \in Threads, NEW s \in Slots,
         NEW rest \in Seq(Calm), Close(t, s, rest)
  PROVE  FilesFit' /\ HandlesFit' /\ CursorsFit' /\ CallsReady'
<1> DEFINE e == user[t][s].e
           c == Call("destroy", e)
           q == IF Refs(e) = {<<t, s>>} THEN <<c>> \o rest ELSE rest
<1>1. FilesFit' /\ HandlesFit'
  BY DEF Close, FittingInv, FilesFit, HandlesFit, Fits
<1>2. \A u \in Threads, x \in Slots :
        user'[u][x] = user[u][x] \/ user'[u][x] = None
  BY DEF Close, FittingInv, SharingInv, Types
<1>3. CursorsFit'
  BY <1>2 DEF FittingInv, CursorsFit
<1>4. script' = [script EXCEPT ![t] = q] /\ UNCHANGED buf
  BY DEF Close, Proceed
<1>5. c.op = "destroy"
  BY DEF Call
<1>6. q \in Seq(Calm) \/ \E x : \E r \in Seq(Calm) :
                           q = <<x>> \o r /\ x.op \in {"put", "destroy"}
                           /\ (x.op = "put" => buf'[t] \in Bytes)
  <2> HIDE DEF c
  <2> QED BY <1>5
<1> HIDE DEF q
<1> QED BY <1>1, <1>3, <1>4, <1>6, CallsStayReady

LEMMA DestroyFits ==
  ASSUME FittingInv, NEW t \in Threads, NEW e \in Entries, entry[e] # None,
         NEW rest \in Seq(Calm), Destroy(t, e, rest)
  PROVE  FilesFit' /\ HandlesFit' /\ CursorsFit' /\ CallsReady'
<1> DEFINE f == entry[e]
<1>1. f \in Handle /\ Fits(f)
  BY DEF FittingInv, HandlesFit, SharingInv, Types
<1>2. FilesFit'
  <2>1. CASE f.fs /\ f.mod
    <3>1. disk' \in Written(f, [disk EXCEPT ![f.d][f.name] = f.data])
      BY <2>1 DEF Destroy
    <3> QED BY <1>1, <3>1, StoredFits DEF Fits
  <2>2. CASE ~(f.fs /\ f.mod)
    BY <2>2 DEF Destroy, FittingInv, FilesFit
  <2> QED BY <2>1, <2>2
<1>3. HandlesFit'
  <2> DEFINE es == IF f.fs /\ f.mod THEN Outdated(entry, f.d, {f.name}, e) ELSE entry
             en == [Outdated(entry, f.d, {f.name}, e) EXCEPT ![e] = f]
  <2>1. entry' = [es EXCEPT ![e] = None] /\ entry \in [Entries -> Handle \cup {None}]
    BY DEF Destroy, FittingInv, SharingInv, Types
  <2>2. \A x \in Entries : Fits(entry[x]) \/ entry[x] = None
    BY DEF FittingInv, HandlesFit
  <2>3. \A x \in Entries :
          entry'[x] \in {None, entry[x]}
          \/ (entry[x] # None /\ entry'[x] = [entry[x] EXCEPT !.stale = TRUE])
    BY <2>1, ZenonT(40) DEF Outdated, Holders
  <2>4. \A x \in Entries : entry[x] # None =>
          Fits([entry[x] EXCEPT !.stale = TRUE])
    BY <2>1, <2>2 DEF Fits, Handle, HandleOf
  <2>5. \A x \in Entries : entry'[x] = None \/ Fits(entry'[x])
    BY <2>2, <2>3, <2>4, Zenon
  <2> QED BY <2>5 DEF HandlesFit, Fits
<1>4. CursorsFit'
  BY DEF Destroy, FittingInv, CursorsFit
<1>5. CallsReady'
  BY ScriptsStayReady DEF Destroy, Proceed
<1> QED BY <1>2, <1>3, <1>4, <1>5

LEMMA ServerCallsFit ==
  ASSUME FittingInv, NEW t \in Threads, NEW rest \in Seq(Calm),
         \/ Cleanup(t, rest)
         \/ \E d \in Drives : Create(t, d, rest) \/ SetCurrentDrive(t, d, rest)
  PROVE  FilesFit' /\ HandlesFit' /\ CursorsFit' /\ CallsReady'
<1>1. HandlesFit' /\ CursorsFit'
  BY DEF Cleanup, Create, SetCurrentDrive, FittingInv, HandlesFit, CursorsFit, Fits
<1>2. CallsReady'
  BY ScriptsStayReady DEF Cleanup, Create, SetCurrentDrive, Proceed
<1>3. UNCHANGED disk => FilesFit'
  BY DEF FittingInv, FilesFit
<1>4. ASSUME NEW d \in Drives, Create(t, d, rest)
      PROVE  FilesFit'
  <2>1. \A a \in Drives, n \in FileNames : disk'[a][n] \in {disk[a][n], Absent}
    BY <1>4 DEF Create, FittingInv, SharingInv, Types
  <2> QED BY <2>1 DEF FittingInv, FilesFit
<1> QED BY <1>1, <1>2, <1>3, <1>4 DEF Cleanup, Create, SetCurrentDrive

LEMMA BeginFits ==
  ASSUME FittingInv, NEW t \in Threads, Begin(t)
  PROVE  FilesFit' /\ HandlesFit' /\ CursorsFit' /\ CallsReady'
<1>1. \E q \in Seq(Calm) : script' = [script EXCEPT ![t] = q]
  <2>1. Typed \subseteq Paths
    BY VfsAssumption DEF Typed, Paths
  <2>2. \A src \in Typed, dst \in Typed :
          {Cat(src), Remove(src), Touch(dst), Copy(src, dst), Move(src, dst)}
            \subseteq Seq(Calm)
    BY <2>1, CommandsArePlain
  <2> QED BY <2>2 DEF Begin, Proceed
<1>2. FilesFit' /\ HandlesFit' /\ CursorsFit'
  BY DEF Begin, FittingInv, FilesFit, HandlesFit, CursorsFit, Fits
<1>3. CallsReady'
  BY <1>1, ScriptsStayReady DEF Begin
<1> QED BY <1>2, <1>3

LEMMA DoFits ==
  ASSUME FittingInv, NEW t \in Threads, NEW c \in Plain, NEW rest \in Seq(Calm),
         c.op = "put" => buf[t] \in Bytes,
         c.op \in {"drain", "pump"} => c.s = 1, Do(t, c, rest)
  PROVE  FilesFit' /\ HandlesFit' /\ CursorsFit' /\ CallsReady'
<1>1. /\ c.op \in Kinds /\ c.s \in Slots
      /\ c.op = "open" => c.p \in Paths
      /\ c.op = "rename" => c.p \in Paths \X Paths
      /\ c.op # "put" => c \in Calm
  BY DEF Plain, Calm
<1>2. Call("put", 2).op = "put"
  BY DEF Call
<1>3. CASE c.op = "open" /\ Open(t, c.s, c.p, c.mode, rest)
  BY <1>1, <1>3, OpenFits
<1>4. CASE c.op = "drain" /\ Read(t, c.s, <<c>> \o rest, rest)
  <2>1. c \in Calm
    BY <1>1, <1>4
  <2>2. <<c>> \o rest \in Seq(Calm)
    BY <2>1
  <2> QED BY <1>1, <1>2, <1>4, <2>2, ReadFits
<1>5. CASE c.op = "pump" /\ Read(t, c.s, <<Call("put", 2), c>> \o rest, rest)
  <2> DEFINE d == Call("put", 2)
  <2>1. c \in Calm
    BY <1>1, <1>5
  <2>2. <<c>> \o rest \in Seq(Calm)
    BY <2>1
  <2> HIDE DEF d
  <2>3. <<d, c>> \o rest = <<d>> \o (<<c>> \o rest)
    <3>1. /\ <<d, c>> \in Seq({d} \cup Calm) /\ <<c>> \in Seq({d} \cup Calm)
          /\ <<d>> \in Seq({d} \cup Calm) /\ rest \in Seq({d} \cup Calm)
      BY <2>1
    <3> QED BY <3>1
  <2>4. Read(t, c.s, <<d, c>> \o rest, rest)
    BY <1>5 DEF d
  <2>5. d.op = "put"
    BY <1>2 DEF d
  <2> QED BY <1>1, <2>2, <2>3, <2>4, <2>5, ReadFits
<1>6. CASE c.op = "put" /\ Write(t, c.s, buf[t], rest)
  BY <1>1, <1>6, WriteFits
<1>7. CASE c.op = "flush" /\ Flush(t, c.s, rest)
  BY <1>1, <1>7, FlushFits
<1>8. CASE c.op = "delete" /\ DeleteFile(t, c.s, rest)
  BY <1>1, <1>8, DeleteFits
<1>9. CASE c.op = "rename"
           /\ Rename(t, c.s, Resolve(c.p[2]),
                     CopyAndRemove(c.p[1], c.p[2]) \o rest, rest)
  <2>1. c.p[1] \in Paths /\ c.p[2] \in Paths
    BY <1>1, <1>9
  <2>2. CopyAndRemove(c.p[1], c.p[2]) \in Seq(Calm)
    <3>1. /\ Copy(c.p[1], c.p[2]) \in Seq(Calm)
          /\ Remove(c.p[1]) \in Seq(Calm)
      BY <2>1, CommandsArePlain
    <3> QED BY <3>1 DEF CopyAndRemove
  <2>3. CopyAndRemove(c.p[1], c.p[2]) \o rest \in Seq(Calm)
    BY <2>2
  <2> QED BY <1>1, <1>9, <2>3, RenameFits
<1>10. CASE c.op = "close" /\ Close(t, c.s, rest)
  BY <1>1, <1>10, CloseFits
<1>11. c.op # "destroy"
  BY <1>1 DEF Kinds
<1> QED BY <1>3, <1>4, <1>5, <1>6, <1>7, <1>8, <1>9, <1>10, <1>11 DEF Do

LEMMA WorkFits ==
  ASSUME FittingInv, NEW t \in Threads, Work(t)
  PROVE  FilesFit' /\ HandlesFit' /\ CursorsFit' /\ CallsReady'
<1> DEFINE c == Head(script[t])
           rest == Tail(script[t])
<1>1. script[t] # <<>> /\ Do(t, c, rest)
  BY DEF Work
<1>2. /\ rest \in Seq(Calm) /\ (c.op = "put" => buf[t] \in Bytes)
      /\ c.op \in {"drain", "pump"} => c.s = 1
  BY <1>1 DEF FittingInv, CallsReady
<1>3. c \in Plain \/ \E e \in Entries : c = Call("destroy", e)
  BY <1>1, HeadOfScript DEF FittingInv, SharingInv
<1>4. CASE c \in Plain
  BY <1>1, <1>2, <1>4, DoFits
<1>5. ASSUME NEW e \in Entries, c = Call("destroy", e)
      PROVE  FilesFit' /\ HandlesFit' /\ CursorsFit' /\ CallsReady'
  <2>1. c.op = "destroy" /\ c.s = e
    BY <1>5 DEF Call
  <2>2. Destroying(t, e)
    BY <1>1, <2>1 DEF Destroying
  <2>3. entry[e] # None
    BY <2>2 DEF FittingInv, SharingInv, DestroyedAlone
  <2> HIDE DEF c, rest
  <2>4. Destroy(t, e, rest)
    BY <1>1, <2>1 DEF Do
  <2> QED BY <1>2, <2>3, <2>4, DestroyFits
<1> QED BY <1>3, <1>4, <1>5

LEMMA OthersFit ==
  ASSUME FittingInv, NEW t \in Threads, Short(t) \/ Keep(t) \/ Use(t)
  PROVE  FilesFit' /\ HandlesFit' /\ CursorsFit' /\ CallsReady'
<1>1. <<>> \in Seq(Calm) /\ 1 \in Slots /\ Typed \subseteq Paths
  BY SlotsAre, VfsAssumption DEF Typed, Paths
<1>2. CASE Short(t)
  BY <1>1, <1>2, ServerCallsFit DEF Short
<1>3. CASE Keep(t)
  BY <1>1, <1>3, OpenFits DEF Keep
<1>4. CASE Use(t)
  <2>1. user[t][1] # None
    BY <1>4 DEF Use
  <2>2. CASE \E b \in Bytes : Write(t, 1, b, <<>>)
    BY <1>1, <2>2, WriteFits
  <2>3. CASE \E p \in 0 .. MaxLen : Seek(t, 1, p, <<>>)
    BY <1>1, <2>1, <2>3, SeekFits
  <2>4. CASE \E n \in 0 .. MaxLen : Truncate(t, 1, n, <<>>)
    BY <1>1, <2>4, TruncateFits
  <2>5. CASE Close(t, 1, <<>>)
    BY <1>1, <2>5, CloseFits
  <2> QED BY <1>4, <2>2, <2>3, <2>4, <2>5 DEF Use
<1> QED BY <1>2, <1>3, <1>4

LEMMA FittingKept ==
  ASSUME FittingInv, [Next]_vars
  PROVE  FittingInv'
<1>1. SharingInv'
  BY NextKeeps DEF FittingInv
<1>2. CASE Next
  <2>1. FilesFit' /\ HandlesFit' /\ CursorsFit' /\ CallsReady'
    BY <1>2, WorkFits, BeginFits, OthersFit DEF Next
  <2> QED BY <1>1, <2>1 DEF FittingInv
<1>3. CASE UNCHANGED vars
  BY <1>1, <1>3 DEF vars, FittingInv, FilesFit, HandlesFit, CursorsFit, CallsReady, Fits
<1> QED BY <1>2, <1>3

LEMMA FittingHolds ==
  ASSUME Init
  PROVE  FittingInv
<1>1. SharingInv
  BY SharingHolds
<1>2. /\ entry = [e \in Entries |-> None]
      /\ user = [t \in Threads |-> [s \in Slots |-> None]]
      /\ script = [t \in Threads |-> <<>>]
  BY DEF Init
<1>3. HandlesFit /\ CursorsFit /\ CallsReady
  BY <1>2 DEF HandlesFit, CursorsFit, CallsReady
<1>4. FilesFit
  <2>1. [1 .. 1 -> Bytes] \subseteq Content
    <3>1. 1 \in 0 .. MaxLen
      BY VfsAssumption
    <3> QED BY <3>1 DEF Content
  <2>2. ASSUME NEW d \in Drives
        PROVE  \E x \in Content \cup {Absent} :
                 disk[d] = [n \in FileNames |-> IF n \in Names THEN x ELSE Absent]
    BY <2>1 DEF Init
  <2> QED BY <2>2 DEF FilesFit
<1> QED BY <1>1, <1>3, <1>4 DEF FittingInv

\* No file is longer than MaxLen and no position behind that, in every
\* behaviour: a thread reads what is in a file, and writes what it has read
\* (SimpleFlashFsVfsServer.cc, FilesystemCommands.cc).
THEOREM HandlesStayTyped == Spec => []TypeOK
<1>1. ASSUME FittingInv
      PROVE  TypeOK
  <2>1. disk \in [Drives -> [FileNames -> Content \cup {Absent}]]
    BY <1>1 DEF FittingInv, FilesFit, SharingInv, Types
  <2>2. ASSUME NEW e \in Entries, entry[e] # None
        PROVE  entry[e] \in BaseHandle
    <3>1. entry[e] \in Handle /\ Fits(entry[e])
      BY <1>1, <2>2 DEF FittingInv, HandlesFit, SharingInv, Types
    <3>2. entry[e].pos \in 0 .. MaxLen + 1 /\ entry[e].data \in Content
      BY <3>1, VfsAssumption DEF Fits, Handle, HandleOf
    <3> QED BY <3>1, <3>2 DEF BaseHandle, Handle, HandleOf
  <2>3. entry \in [Entries -> BaseHandle \cup {None}]
    BY <1>1, <2>2 DEF FittingInv, SharingInv, Types
  <2> QED BY <1>1, <2>1, <2>3 DEF TypeOK, FittingInv, SharingInv, Types, HeldExists, AnyByte
<1>2. Init => FittingInv
  BY FittingHolds
<1>3. FittingInv /\ [Next]_vars => FittingInv'
  BY FittingKept
<1> QED BY <1>1, <1>2, <1>3, PTL DEF Spec

(***************************************************************************)
(* The cursors.                                                            *)
(***************************************************************************)

\* A thread's script and its handles are its own.
LEMMA OthersAreLeftAlone ==
  ASSUME SharingInv, NEW t \in Threads, NEW u \in Threads, u # t,
         Work(u) \/ Begin(u) \/ Short(u) \/ Keep(u) \/ Use(u)
  PROVE  user'[t] = user[t] /\ script'[t] = script[t]
<1> DEFINE Own == /\ \/ UNCHANGED user
                     \/ \E v : user' = [user EXCEPT ![u] = v]
                  /\ \E q : script' = [script EXCEPT ![u] = q]
<1>1. ASSUME NEW s, NEW p, NEW mode, NEW rest, Open(u, s, p, mode, rest)
      PROVE  Own
  BY <1>1 DEF Open, Proceed
<1>2. ASSUME NEW s, NEW more, NEW rest, Read(u, s, more, rest)
      PROVE  Own
  BY <1>2 DEF Read, Left, Proceed
<1>3. ASSUME NEW s, NEW b, NEW rest, Write(u, s, b, rest)
      PROVE  Own
  BY <1>3 DEF Write, Left, Proceed
<1>4. ASSUME NEW s, NEW p, NEW rest,
             \/ Seek(u, s, p, rest) \/ Truncate(u, s, p, rest) \/ Close(u, s, rest)
             \/ Flush(u, s, rest) \/ DeleteFile(u, s, rest) \/ Destroy(u, s, rest)
             \/ Cleanup(u, rest) \/ Create(u, s, rest) \/ SetCurrentDrive(u, s, rest)
      PROVE  Own
  BY <1>4 DEF Seek, Truncate, Close, Flush, DeleteFile, Destroy, Cleanup, Create,
              SetCurrentDrive, Proceed
<1>5. ASSUME NEW s, NEW name, NEW failed, NEW rest, Rename(u, s, name, failed, rest)
      PROVE  Own
  BY <1>5 DEF Rename, Proceed
<1>6. Begin(u) => Own
  BY DEF Begin, Proceed
<1>7. user \in [Threads -> [Slots -> UserHandle \cup {None}]]
      /\ script \in [Threads -> Scripts]
  BY DEF SharingInv, Types
<1>8. Own => user'[t] = user[t] /\ script'[t] = script[t]
  BY <1>7
<1> HIDE DEF Own
<1>9. Work(u) => Own
  BY <1>1, <1>2, <1>3, <1>4, <1>5 DEF Work, Do
<1>10. Short(u) \/ Keep(u) \/ Use(u) => Own
  BY <1>1, <1>3, <1>4 DEF Short, Keep, Use
<1> QED BY <1>6, <1>8, <1>9, <1>10

\* The cursor is within the file, and the base handle is moved there first.
LEMMA ReadsAtItsCursor ==
  ASSUME FittingInv, NEW t \in Threads, NEW more, NEW rest, uh_ok(t, 1),
         user[t][1].pos < Len(Base(t, 1).data), Read(t, 1, more, rest)
  PROVE  /\ buf'[t] = Base(t, 1).data[user[t][1].pos + 1]
         /\ user'[t][1].pos = user[t][1].pos + 1
<1> DEFINE f == Base(t, 1)
           p == user[t][1].pos
           g == At(f, p)
           b == GetByte(g)
<1>1. 1 \in Slots /\ user[t][1] # None
  BY SlotsAre, OkIsHeld DEF FittingInv
<1>2. /\ f \in Handle /\ Fits(f) /\ p \in Nat /\ user[t][1] \in UserHandle
      /\ f.data \in Seq(Bytes) /\ Len(f.data) <= MaxLen
  BY <1>1, HeldFits, HeldHandle, ContentIsShort DEF FittingInv, Fits
<1>3. g \in Handle /\ g.pos = p /\ g.data = f.data
  <2> HIDE DEF f, p
  <2>1. p <= Len(f.data) /\ p <= MaxLen
    BY <1>2, VfsAssumption DEF f, p
  <2>2. g \in Handle /\ g.pos = p
    BY <1>2, <2>1, AtFits
  <2>3. g.data = f.data
    BY <1>2, <2>1 DEF At, SeekTo, Handle, HandleOf
  <2> QED BY <2>2, <2>3
<1>4. b = f.data[p + 1] /\ b # Nothing
  <2> HIDE DEF f, p, g
  <2>1. p < Len(f.data) /\ p # Len(f.data) /\ ~(p >= MaxLen)
    BY <1>2, VfsAssumption DEF f, p
  <2>2. b = Padded(g.data, p + 1)[p + 1]
    BY <1>3, <2>1 DEF GetByte
  <2>3. p + 1 \in 1 .. p + 1 /\ p + 1 <= Len(f.data)
    BY <1>2, <2>1
  <2>4. Padded(f.data, p + 1)[p + 1] = f.data[p + 1]
    BY <2>3 DEF Padded
  <2>5. f.data[p + 1] \in Bytes
    BY <1>2, <2>3
  <2> QED BY <1>3, <2>2, <2>4, <2>5, VfsAssumption
<1>5. buf' = [buf EXCEPT ![t] = b] /\ Left(t, 1, [g EXCEPT !.pos = @ + 1])
  <2> HIDE DEF b
  <2> QED BY <1>4 DEF Read, b
<1> HIDE DEF b, g, f
<1>6. buf'[t] = b
  BY <1>5 DEF FittingInv, SharingInv, Types
<1>7. [g EXCEPT !.pos = @ + 1].pos = p + 1
  BY <1>3 DEF Handle, HandleOf
<1>8. user'[t][1].pos = p + 1
  BY <1>1, <1>2, <1>5, <1>7 DEF Left, UserHandle, FittingInv, SharingInv, Types
<1> QED BY <1>4, <1>6, <1>8 DEF f

\* Whatever the other openers do with the position of the base handle, cat and
\* cp get the byte at their own cursor, which moves by that byte, in every
\* step of every behaviour (ThreadedFileHandle::read(), write()).
THEOREM CursorsAreKept == Spec => CursorsIndependent
<1> DEFINE A == \A t \in Threads :
                  LET p == user[t][1].pos IN
                  Reading(t) /\ uh_ok(t, 1) /\ p < Len(Base(t, 1).data)
                    => /\ buf'[t] = Base(t, 1).data[p + 1]
                       /\ user'[t][1].pos = p + 1
<1>1. ASSUME FittingInv, Next
      PROVE  A
  <2> SUFFICES ASSUME NEW t \in Threads, Reading(t), uh_ok(t, 1),
                      user[t][1].pos < Len(Base(t, 1).data)
               PROVE  /\ buf'[t] = Base(t, 1).data[user[t][1].pos + 1]
                      /\ user'[t][1].pos = user[t][1].pos + 1
    OBVIOUS
  <2>1. PICK u \in Threads : Work(u) \/ Begin(u) \/ Short(u) \/ Keep(u) \/ Use(u)
    BY <1>1 DEF Next
  <2>2. u = t
    BY <1>1, <2>1, OthersAreLeftAlone DEF Reading, FittingInv
  <2>3. script[t] # <<>> /\ Head(script[t]).op \in {"drain", "pump"}
        /\ Head(script[t]).s = 1
    BY <1>1 DEF Reading, FittingInv, CallsReady
  <2>4. Work(t)
    BY <2>1, <2>2, <2>3 DEF Begin, Short, Keep, Use, Idle
  <2>5. \E more, rest : Read(t, 1, more, rest)
    BY <2>3, <2>4 DEF Work, Do
  <2> QED BY <1>1, <2>5, ReadsAtItsCursor
<1>2. FittingInv /\ [Next]_vars => [A]_vars
  BY <1>1
<1>3. Init => FittingInv
  BY FittingHolds
<1>4. FittingInv /\ [Next]_vars => FittingInv'
  BY FittingKept
<1>5. CursorsIndependent <=> [][A]_vars
  BY DEF CursorsIndependent
<1> HIDE DEF A
<1> QED BY <1>2, <1>3, <1>4, <1>5, PTL DEF Spec
=============================================================================
