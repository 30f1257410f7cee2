---------------------------- MODULE MCUserDictSync ----------------------------
(* Two devices; the word has been deleted on one and is in use on the other. *)
EXTENDS UserDictSyncProperties, TLC

CONSTANTS d1, d2, w1

MCWords == {w1}

MCBefore == (d1 :> [w \in MCWords |-> -2]) @@ (d2 :> [w \in MCWords |-> 1])
=============================================================================
