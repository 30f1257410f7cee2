------------------------------ MODULE MCService ------------------------------
(***************************************************************************)
(* Small instances of Service for TLC.                                     *)
(***************************************************************************)
EXTENDS ServiceProperties

CONSTANTS s1, s2, db1

MCSessions == {s1, s2}
MCDbs      == {db1}
=============================================================================
