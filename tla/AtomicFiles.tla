----------------------------- MODULE AtomicFiles -----------------------------
(***************************************************************************)
(* What the flash file system promises its user.  A store keeps the last   *)
(* committed state of every file, under the file's number.  An open file   *)
(* is a draft that only its own user changes; a commit replaces the stored *)
(* file by the whole draft in one step, and nothing else ever changes the  *)
(* store.  Losing power forgets the drafts and nothing more.               *)
(***************************************************************************)
EXTENDS Naturals, Sequences

CONSTANTS
  Actors, Names, NoName, Vals, Zero, Inos, MaxLen,
  Refusals   \* TRUE: a write may be refused after some of its pages

VARIABLES store, draft

NoFile == [name |-> NoName, content |-> <<>>]
Closed == [open |-> FALSE, ino |-> 0, name |-> NoName, content |-> <<>>,
           dirty |-> FALSE]

Init ==
  /\ store = [i \in Inos |-> NoFile]
  /\ draft = [h \in Actors |-> Closed]

Becomes(h, d) == draft' = [draft EXCEPT ![h] = d] /\ UNCHANGED store

Create(h, n) ==
  /\ ~draft[h].open
  /\ Becomes(h, [Closed EXCEPT !.open = TRUE, !.name = n, !.dirty = TRUE])

Load(h, i) ==
  /\ ~draft[h].open
  /\ store[i].name # NoName
  /\ \E dirty \in BOOLEAN :
       Becomes(h, [open |-> TRUE, ino |-> i, name |-> store[i].name,
                   content |-> store[i].content, dirty |-> dirty])

\* a draft changes hands
HandOver(g, h) ==
  /\ draft[g].open /\ ~draft[h].open
  /\ draft' = [draft EXCEPT ![h] = draft[g], ![g] = Closed]
  /\ UNCHANGED store

\* an empty draft of a file that another handle has open
StartOver(g, h) ==
  /\ draft[g].open /\ ~draft[h].open
  /\ Becomes(h, [draft[g] EXCEPT !.content = <<>>, !.dirty = FALSE])

\* a write of the pages that vs has values for, one after the other
Overwrite(h, vs) ==
  LET content == draft[h].content
      pages   == 1 .. Len(content) \cup DOMAIN vs
  IN
  /\ draft[h].open
  /\ Becomes(h, [draft[h] EXCEPT
       !.content = [j \in pages |-> IF j \in DOMAIN vs THEN vs[j] ELSE @[j]],
       !.dirty = TRUE])

\* a refused write leaves its first pages in the draft
Spoil(h, k, v) ==
  /\ Refusals
  /\ draft[h].open
  /\ k <= Len(draft[h].content)
  /\ Becomes(h, [draft[h] EXCEPT !.content[k] = v])

\* what a longer draft has behind its old end: zeros, or what a refused
\* write has left there
Fillings(n) == IF Refusals THEN [1 .. n -> Vals] ELSE {[j \in 1 .. n |-> Zero]}

Resize(h, n) ==
  /\ draft[h].open
  /\ \E fill \in Fillings(n) :
       Becomes(h, [draft[h] EXCEPT
         !.content = [j \in 1 .. n |-> IF j <= Len(@) THEN @[j] ELSE fill[j]],
         !.dirty = TRUE])

Retitle(h, n) ==
  /\ draft[h].open
  /\ Becomes(h, [draft[h] EXCEPT !.name = n, !.dirty = TRUE])

\* the draft of a deleted file has no name and no content
Discard(h) ==
  /\ draft[h].open
  /\ Becomes(h, [draft[h] EXCEPT !.name = NoName, !.content = <<>>,
                                 !.dirty = TRUE])

\* a new file gets a number no file and no draft has
Number(h, i) ==
  /\ draft[h].open /\ draft[h].dirty /\ draft[h].ino = 0
  /\ store[i] = NoFile
  /\ \A g \in Actors : draft[g].ino # i
  /\ Becomes(h, [draft[h] EXCEPT !.ino = i])

Commit(h) ==
  /\ draft[h].dirty /\ draft[h].ino # 0
  /\ store' = [store EXCEPT ![draft[h].ino] =
                 [name |-> draft[h].name, content |-> draft[h].content]]
  /\ draft' = [draft EXCEPT ![h].dirty = FALSE]

Close(h) == Becomes(h, Closed)

PowerLoss == draft' = [h \in Actors |-> Closed] /\ UNCHANGED store

Next ==
  \/ \E h \in Actors :
       \/ \E n \in Names : Create(h, n) \/ Retitle(h, n)
       \/ \E i \in Inos : Load(h, i) \/ Number(h, i)
       \/ \E g \in Actors : HandOver(g, h) \/ StartOver(g, h)
       \/ \E j \in 1 .. Len(draft[h].content) + 1 :
            \E k \in j .. MaxLen : \E vs \in [j .. k -> Vals] : Overwrite(h, vs)
       \/ \E k \in 1 .. MaxLen, v \in Vals : Spoil(h, k, v)
       \/ \E n \in 0 .. MaxLen : Resize(h, n)
       \/ Discard(h) \/ Commit(h) \/ Close(h)
  \/ PowerLoss

Spec == Init /\ [][Next]_<<store, draft>>
=============================================================================
