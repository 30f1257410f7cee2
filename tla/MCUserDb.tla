------------------------------- MODULE MCUserDb -------------------------------
(* Two sessions on one database: the first has a script and a table translator, *)
(* the second a script translator.                                              *)
EXTENDS UserDbProperties, TLC

CONSTANTS s1, s2, script1, table1, script2

MCSessions == {s1, s2}

MCMemoriesOf == (s1 :> <<script1, table1>>) @@ (s2 :> <<script2>>)
=============================================================================
