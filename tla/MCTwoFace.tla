----------------------------- MODULE MCTwoFace -----------------------------
EXTENDS TwoFace, TLC
MCMaxIno == [in |-> 5, trunc |-> 5, recreate |-> 6, out |-> 10, look |-> 10]
MCStaleMaxIno == [out |-> 11]
MCSym == Permutations(Names) \cup Permutations(Vals) \cup Permutations(Threads)
=============================================================================
