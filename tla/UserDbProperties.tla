--------------------------- MODULE UserDbProperties ---------------------------
(* What the memories of sessions that share a database owe the user. *)
EXTENDS UserDb

Entries == Seq(Words) \ {<<>>}

\* Types, and that a transaction is open only while somebody has the database
\* open: LevelDb::Close ends it, and the next one to open the database must not
\* find its writes caught in a batch.
TypeOK ==
    /\ IsCounts(store)
    /\ DOMAIN store \subseteq Entries
    /\ IsCounts(batch)
    /\ DOMAIN batch \subseteq Entries
    /\ in_transaction \in BOOLEAN
    /\ batch # NoWords => in_transaction
    /\ in_transaction => open # {}
    /\ recent \in Seq(Memories) /\ IsInjective(recent)
    /\ queue \in [Memories -> Seq(Entries)]
    /\ open \subseteq Sessions
    /\ composing \subseteq open
    /\ slots \in Seq(Memories)

Vocabulary == INSTANCE UserWords WITH learned <- store, tentative <- batch

\* The database and its transactions, whoever uses them, keep the promise of a
\* user dictionary: each commit is built on all those before it, is settled or
\* forgotten as a whole, and a deletion is never taken back (Memory, and
\* UserDictionary::NewTransaction).
LearnsWords == Vocabulary!Spec

\* What has been learnt is lost only when BackSpace is typed, or the process dies:
\* never to the transaction of another session, to a deletion or to the closing
\* of a session.
OnlyBackSpaceForgets ==
    [][(\E e \in DOMAIN batch : e \notin DOMAIN batch' /\ e \notin DOMAIN store')
           => \/ signal.event = "key" /\ signal.backspace /\ slots' # slots
              \/ open' = {} /\ slots' = <<>>]_vars

\* No word is removed from the database, and unless it is deleted it is known to
\* have been committed at least as often as before (UserDictionary::UpdateEntry
\* revives a deleted word with its count).
WordsAreKept ==
    [][\A e \in DOMAIN store :
           /\ e \in DOMAIN store'
           /\ \/ Magnitude(store'[e]) >= Magnitude(store[e])
              \/ signal.event = "delete" /\ signal.candidate = e]_vars

\* "Cancel memorizing newly committed phrases that has been immediately erased
\* with BackSpace": the transaction a memory takes back is its own, the words of
\* its latest commit, and not one that another memory has begun since.
BackSpaceForgetsOwnCommit ==
    [][(/\ signal.event = "key" /\ signal' = signal /\ slots # slots'
        /\ \E e \in DOMAIN batch : e \notin DOMAIN batch' /\ e \notin DOMAIN store')
           => Head(slots) = Last(recent)]_vars

\* "Delete a candidate at the given index": no word is marked as deleted but the
\* one that was at the index (Context::DeleteCandidate, Memory::OnDeleteEntry).
DeletesTheCandidate ==
    [][signal.event = "delete" =>
           \A e \in DOMAIN store' :
               store'[e] < 0 /\ CountIn(Known, e) >= 0 => e = signal.at_index]_vars
=============================================================================
