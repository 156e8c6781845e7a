-------------------------- MODULE MCDataStructures --------------------------
(* An instance of DataStructures: two sections with two keys each. *)
EXTENDS DataStructures, TLC

CONSTANTS A, B1, k, m

MCType == (A :> ((k :> "char") @@ (m :> "blob")))
            @@ (B1 :> ((k :> "float") @@ (m :> "int")))
MCData == [char |-> {0, 3}, float |-> {0, 15}, int |-> {1, 2},
           blob |-> {<<>>, <<1>>, <<1, 2, 3>>}]
MCFiles ==
  { <<>>,
    <<Sign, NL, A, NL, NL, B1, NL, k, Hex, 0, NL>>,
    <<NL, A, NL, NL, Sign, NL, m, 1, NL>>,
    <<B1, NL, k, Hex, 15, NL, NL>> }
=============================================================================
