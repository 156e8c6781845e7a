------------------------------ MODULE MCFlashFs ------------------------------
(***************************************************************************)
(* Model checking FlashFs: file names, handles and the contents other than *)
(* zero are interchangeable.                                               *)
(***************************************************************************)
EXTENDS FlashFsProperties, TLC

Symmetry ==
  Permutations(Names) \cup Permutations(Handles) \cup Permutations(Vals \ {Zero})
=============================================================================
