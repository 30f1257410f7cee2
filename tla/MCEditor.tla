------------------------------ MODULE MCEditor ------------------------------
(***************************************************************************)
(* Small instances of Editor for TLC: two letters, of which only one can   *)
(* begin a syllable, and punctuation marks of one, two or three shapes.    *)
(***************************************************************************)
EXTENDS EditorProperties

CONSTANTS a, b, p, q, r

MCChars      == {a, b, p}
MCAlphabet   == {a, b}
MCInitials   == {a}
MCPuncts     == {p}
MCList       == [ ch \in MCPuncts |-> "list" ]
MCNone       == [ ch \in {} |-> "list" ]
MCSegmentors == << "ascii_segmentor", "abc_segmentor", "punct_segmentor",
                   "fallback_segmentor" >>
MCAllChars   == {a, b, p, q, r}
MCAllPuncts  == {p, q, r}
MCAllKinds   == (p :> "unique") @@ (q :> "commit") @@ (r :> "list")
MCNoFallback == SubSeq(MCSegmentors, 1, 3)
=============================================================================
