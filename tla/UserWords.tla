------------------------------ MODULE UserWords ------------------------------
(* What a user dictionary promises.  A word has a count: how often it has been *)
(* committed, negative once it is deleted.  The words of the latest commit are *)
(* only tentative: they are known for good when they are settled, and until    *)
(* then all of them can be forgotten, none can be lost one by one.             *)
EXTENDS WordCounts

VARIABLES
    learned,    \* the words known for good, with their counts
    tentative   \* the words of the latest commit, with the counts they will have

vars == <<learned, tentative>>

Settled == Overwritten(learned, tentative)

Init == learned = NoWords /\ tentative = NoWords

\* A commit settles the one before it; its words build on what is known then:
\* a committed word counts once more, a part of a phrase stays what it was.
Learn ==
    /\ learned' = Settled
    /\ IsCounts(tentative')
    /\ \A e \in DOMAIN tentative' :
           tentative'[e] \in {CountIn(Settled, e),
                              Magnitude(CountIn(Settled, e)) + 1}

Settle == learned' = Settled /\ tentative' = NoWords

Forget == tentative' = NoWords /\ UNCHANGED learned

\* A deletion is not tentative, and settles what is.
Delete ==
    /\ \E e \in DOMAIN learned' : \E n \in {-1, -CountIn(learned, e)} :
           n < 0 /\ learned' = OverwrittenAt(Settled, e, n)
    /\ tentative' = NoWords

Next == Learn \/ Settle \/ Forget \/ Delete

Spec == Init /\ [][Next]_vars
=============================================================================
