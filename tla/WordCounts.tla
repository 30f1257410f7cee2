----------------------------- MODULE WordCounts ------------------------------
(* Counts of words: functions from some words to integers, where the count of a *)
(* deleted word is negative.                                                    *)
EXTENDS Integers

NoWords == [e \in {} |-> 0]

IsCounts(words) == words \in [DOMAIN words -> Int]

Magnitude(n) == IF n < 0 THEN -n ELSE n

\* A word that is not there has the count 0.
CountIn(words, e) == IF e \in DOMAIN words THEN words[e] ELSE 0

\* The counts of `words', with those of `newer' written over them
Overwritten(words, newer) ==
    [e \in DOMAIN words \cup DOMAIN newer |->
        IF e \in DOMAIN newer THEN newer[e] ELSE words[e]]

\* ... with one word's count written over them
OverwrittenAt(words, e, n) == Overwritten(words, [d \in {e} |-> n])

\* The count UpdateEntry writes for a word that had the count n: a committed word
\* counts once more and is revived, a part of a phrase keeps its count, ...
Counted(n, commits) == IF commits > 0 THEN Magnitude(n) + commits ELSE n

\* ... and a deleted word is marked by the sign.
MarkedDeleted(n) == IF -n < -1 THEN -n ELSE -1
=============================================================================
