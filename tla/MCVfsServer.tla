---------------------------- MODULE MCVfsServer ----------------------------
EXTENDS VfsServer, TLC
MCModes == {{"out", "trunc"}}
MCSym == Permutations(Threads)
=============================================================================
