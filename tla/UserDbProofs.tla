----------------------------- MODULE UserDbProofs -----------------------------
(* The database keeps the promise of a user dictionary, however many memories   *)
(* share it.  The argument needs to know two things of the pending transaction: *)
(* that there is nothing in the batch outside of one, and that its counts are   *)
(* built on those of the database, which nobody has changed since.  What a      *)
(* commit memorizes, which is computed by a fold over its segments, is of no    *)
(* matter to it.                                                                *)
EXTENDS UserDbProperties, TLAPS

DbTypeOK == IsCounts(store) /\ IsCounts(batch) /\ in_transaction \in BOOLEAN

NothingOutsideTransaction == ~in_transaction => batch = NoWords

BatchBuildsOnStore ==
    \A e \in DOMAIN batch : Magnitude(batch[e]) >= Magnitude(CountIn(store, e))

DbInv == DbTypeOK /\ NothingOutsideTransaction /\ BatchBuildsOnStore

-----------------------------------------------------------------------------
(* Counts *)

\* LevelDbWrapper::CommitBatch: the batch wins where it has an entry.
LEMMA OverwrittenCounts ==
    ASSUME NEW f, NEW g, IsCounts(f), IsCounts(g)
    PROVE  /\ IsCounts(Overwritten(f, g))
           /\ DOMAIN Overwritten(f, g) = DOMAIN f \cup DOMAIN g
           /\ \A e : CountIn(Overwritten(f, g), e)
                         = IF e \in DOMAIN g THEN g[e] ELSE CountIn(f, e)
  BY DEF IsCounts, Overwritten, CountIn

LEMMA CountsAreIntegers ==
    ASSUME NEW words, IsCounts(words)
    PROVE  \A e : CountIn(words, e) \in Int /\ Magnitude(CountIn(words, e)) \in Nat
  BY DEF IsCounts, CountIn, Magnitude

LEMMA NoWordsAreCounts == IsCounts(NoWords) /\ DOMAIN NoWords = {}
  BY DEF IsCounts, NoWords

\* What is written in one transaction counts each word once more or not at all.
LEMMA WrittenCounts ==
    ASSUME NEW updates, NEW known, IsCounts(known)
    PROVE  /\ IsCounts(Written(updates, known))
           /\ \A e \in DOMAIN Written(updates, known) :
                  Written(updates, known)[e] \in {CountIn(known, e),
                                                  Magnitude(CountIn(known, e)) + 1}
<1>1. \A n \in Int : Counted(n, 0) = n /\ Counted(n, 1) = Magnitude(n) + 1
                     /\ Magnitude(n) + 1 \in Int
  BY DEF Counted, Magnitude
<1>2. \A e : CountIn(known, e) \in Int
  BY CountsAreIntegers
<1> QED
  BY <1>1, <1>2 DEF Written, IsCounts

\* A deletion writes -1, or turns the sign of the count.
LEMMA MarkedDeletedIsNegative ==
    ASSUME NEW n \in Int
    PROVE  MarkedDeleted(n) \in {-1, -n} /\ MarkedDeleted(n) < 0 /\ MarkedDeleted(n) \in Int
  BY DEF MarkedDeleted

-----------------------------------------------------------------------------
(* The steps, as far as the database is concerned *)

Learns(updates) ==
    store' = Known /\ batch' = Written(updates, Known) /\ in_transaction' = TRUE

Settles == store' = Known /\ batch' = NoWords /\ in_transaction' = FALSE

Forgets == store' = store /\ batch' = NoWords /\ in_transaction' = FALSE

Deletes ==
    /\ signal.event = "delete"
    /\ store' = OverwrittenAt(Known, signal.candidate,
                              MarkedDeleted(CountIn(store, signal.candidate)))
    /\ batch' = NoWords
    /\ in_transaction' = FALSE

\* A memory forgets the transaction at a BackSpace, everybody at a crash.
MayForget ==
    \/ signal.event = "key" /\ signal.backspace /\ slots' # slots
    \/ open' = {} /\ slots' = <<>>

LEMMA StepsOfTheDatabase ==
    ASSUME [Next]_vars
    PROVE  \/ \E updates : Learns(updates)
           \/ Settles
           \/ Forgets /\ MayForget
           \/ Deletes
           \/ UNCHANGED dbVars
<1>1. CASE Handle
  <2>0. slots # <<>> /\ slots' = Tail(slots)
    BY <1>1 DEF Handle
  <2>1. CASE OnCommit(Head(slots))
    BY <2>1 DEF OnCommit, NewTransaction, Learns
  <2>2. CASE OnDeleteEntry(Head(slots))
    BY <2>2 DEF OnDeleteEntry, Deletes, dbVars
  <2>3. CASE OnUnhandledKey(Head(slots))
    <3>1. CASE signal.backspace /\ in_transaction /\ Head(slots) \in Range(recent)
      <4>1. AbortTransaction /\ signal.event = "key" /\ signal.backspace
        BY <2>3, <3>1 DEF OnUnhandledKey
      <4>2. slots' # slots
        BY <2>0
      <4> QED
        BY <4>1, <4>2 DEF AbortTransaction, Forgets, MayForget
    <3>2. CASE ~(signal.backspace /\ in_transaction /\ Head(slots) \in Range(recent))
      BY <2>3, <3>2 DEF OnUnhandledKey, CommitPendingTransaction, Settles
    <3> QED
      BY <3>1, <3>2
  <2> QED
    BY <1>1, <2>1, <2>2, <2>3 DEF Handle
<1>2. CASE TimePasses
  BY <1>2 DEF TimePasses, dbVars
<1>3. CASE Crash
  BY <1>3 DEF Crash, Forgets, MayForget
<1>4. ASSUME NEW s \in Sessions,
             Commit(s) \/ DeleteCandidate(s) \/ UnhandledKey(s)
      PROVE  UNCHANGED dbVars
  BY <1>4 DEF Commit, DeleteCandidate, UnhandledKey, Announce, dbVars
<1>5. ASSUME NEW s \in Sessions, ClearInput(s) \/ Load(s)
      PROVE  UNCHANGED dbVars
  BY <1>5 DEF ClearInput, Load, dbVars
<1>6. ASSUME NEW s \in Sessions, Query(s) \/ Unload(s)
      PROVE  Settles \/ UNCHANGED dbVars
  BY <1>6 DEF Query, Unload, CommitPendingTransaction, Settles, dbVars
<1>7. CASE UNCHANGED vars
  BY <1>7 DEF vars, dbVars
<1> QED
  BY <1>1, <1>2, <1>3, <1>4, <1>5, <1>6, <1>7 DEF Next

LEMMA KnownCounts ==
    ASSUME DbInv
    PROVE  /\ IsCounts(Known)
           /\ DOMAIN Known = DOMAIN store \cup DOMAIN batch
           /\ \A e : CountIn(Known, e) = IF e \in DOMAIN batch THEN batch[e] ELSE CountIn(store, e)
           /\ \A e \in DOMAIN store : Magnitude(Known[e]) >= Magnitude(store[e])
<1>1. IsCounts(store) /\ IsCounts(batch)
  BY DEF DbInv, DbTypeOK
<1>2. /\ IsCounts(Known)
      /\ DOMAIN Known = DOMAIN store \cup DOMAIN batch
      /\ \A e : CountIn(Known, e) = IF e \in DOMAIN batch THEN batch[e] ELSE CountIn(store, e)
  BY <1>1, OverwrittenCounts DEF Known
<1>3. ASSUME NEW e \in DOMAIN store
      PROVE  Magnitude(Known[e]) >= Magnitude(store[e])
  <2>1. Known[e] = CountIn(Known, e) /\ store[e] = CountIn(store, e)
    BY <1>2, <1>3 DEF CountIn
  <2>2. CASE e \in DOMAIN batch
    BY <1>2, <2>1, <2>2 DEF DbInv, BatchBuildsOnStore
  <2>3. CASE e \notin DOMAIN batch
    <3>1. Known[e] = store[e]
      BY <1>2, <2>1, <2>3
    <3>2. Magnitude(store[e]) \in Nat
      BY <1>1, <2>1, CountsAreIntegers
    <3> QED
      BY <3>1, <3>2
  <2> QED
    BY <2>2, <2>3
<1> QED
  BY <1>2, <1>3

\* A deletion leaves the counts of all other words.
LEMMA DeletedCounts ==
    ASSUME DbInv, Deletes
    PROVE  /\ IsCounts(store')
           /\ signal.candidate \in DOMAIN store'
           /\ \A e \in DOMAIN Known :
                  /\ e \in DOMAIN store'
                  /\ e # signal.candidate => store'[e] = Known[e]
<1> DEFINE mark == [d \in {signal.candidate} |-> MarkedDeleted(CountIn(store, signal.candidate))]
<1>1. IsCounts(Known) /\ IsCounts(store)
  BY KnownCounts DEF DbInv, DbTypeOK
<1>2. MarkedDeleted(CountIn(store, signal.candidate)) \in Int
  BY <1>1, CountsAreIntegers, MarkedDeletedIsNegative
<1>3. IsCounts(mark) /\ DOMAIN mark = {signal.candidate}
  BY <1>2 DEF IsCounts
<1>4. store' = Overwritten(Known, mark)
  BY DEF Deletes, OverwrittenAt
<1> HIDE DEF mark
<1> QED
  BY <1>1, <1>3, <1>4 DEF IsCounts, Overwritten

LEMMA InitDbInv == Init => DbInv
  BY NoWordsAreCounts
  DEF Init, DbInv, DbTypeOK, NothingOutsideTransaction, BatchBuildsOnStore

LEMMA NextDbInv == DbInv /\ [Next]_vars => DbInv'
<1> SUFFICES ASSUME DbInv, [Next]_vars
             PROVE  DbInv'
  OBVIOUS
<1>1. IsCounts(store) /\ IsCounts(batch) /\ in_transaction \in BOOLEAN
  BY DEF DbInv, DbTypeOK
<1>2. IsCounts(Known)
  BY KnownCounts
\* Outside of a transaction the batch has no word to build on the store.
<1>3. ASSUME batch' = NoWords, IsCounts(store'), in_transaction' = FALSE
      PROVE  DbInv'
  BY <1>3, NoWordsAreCounts
  DEF DbInv, DbTypeOK, NothingOutsideTransaction, BatchBuildsOnStore
<1>4. ASSUME NEW updates, Learns(updates)
      PROVE  DbInv'
  <2>1. /\ IsCounts(batch')
        /\ \A e \in DOMAIN batch' :
               batch'[e] \in {CountIn(store', e), Magnitude(CountIn(store', e)) + 1}
    BY <1>2, <1>4, WrittenCounts DEF Learns
  <2>2. DbTypeOK' /\ NothingOutsideTransaction'
    BY <1>2, <1>4, <2>1 DEF Learns, DbTypeOK, NothingOutsideTransaction
  <2>3. ASSUME NEW e \in DOMAIN batch'
        PROVE  Magnitude(batch'[e]) >= Magnitude(CountIn(store', e))
    <3>1. CountIn(store', e) \in Int
      BY <2>2, CountsAreIntegers DEF DbTypeOK
    <3>2. \A n \in Int : Magnitude(n) >= Magnitude(n) /\ Magnitude(Magnitude(n) + 1) >= Magnitude(n)
      BY DEF Magnitude
    <3> QED
      BY <2>1, <3>1, <3>2
  <2> QED
    BY <2>2, <2>3 DEF DbInv, BatchBuildsOnStore
<1>5. CASE Settles
  BY <1>2, <1>3, <1>5 DEF Settles
<1>6. CASE Forgets
  BY <1>1, <1>3, <1>6 DEF Forgets
<1>7. CASE Deletes
  BY <1>3, <1>7, DeletedCounts DEF Deletes
<1>8. CASE UNCHANGED dbVars
  BY <1>8 DEF dbVars, DbInv, DbTypeOK, NothingOutsideTransaction, BatchBuildsOnStore
<1> QED
  BY <1>4, <1>5, <1>6, <1>7, <1>8, StepsOfTheDatabase

\* The pending transaction is built on the database as it is
\* (LevelDb::BeginTransaction, UserDictionary::UpdateEntry).
THEOREM Invariance == Spec => []DbInv
  BY InitDbInv, NextDbInv, PTL DEF Spec

-----------------------------------------------------------------------------

\* The vocabulary counts as the database does.
LEMMA VocabularyCounts ==
    /\ Vocabulary!NoWords = NoWords
    /\ Vocabulary!Settled = Known
    /\ \A f : Vocabulary!IsCounts(f) <=> IsCounts(f)
    /\ \A f, e : Vocabulary!CountIn(f, e) = CountIn(f, e)
    /\ \A n : Vocabulary!Magnitude(n) = Magnitude(n)
    /\ \A f, e, n : Vocabulary!OverwrittenAt(f, e, n) = OverwrittenAt(f, e, n)
  BY DEF Vocabulary!NoWords, NoWords, Vocabulary!Settled, Known, Vocabulary!Overwritten,
         Overwritten, Vocabulary!IsCounts, IsCounts, Vocabulary!CountIn, CountIn,
         Vocabulary!Magnitude, Magnitude, Vocabulary!OverwrittenAt, OverwrittenAt

\* Every step of the memories is one of the vocabulary, or none
\* (UserDictionary::NewTransaction, RevertRecentTransaction).
THEOREM KeepsThePromise == Spec => LearnsWords
<1>1. Init => Vocabulary!Init
  BY VocabularyCounts DEF Init, Vocabulary!Init
<1>2. DbInv /\ [Next]_vars => [Vocabulary!Next]_(Vocabulary!vars)
  <2> SUFFICES ASSUME DbInv, [Next]_vars
               PROVE  Vocabulary!Next \/ UNCHANGED Vocabulary!vars
    OBVIOUS
  <2>1. Known = Vocabulary!Settled /\ NoWords = Vocabulary!NoWords
    BY VocabularyCounts
  <2>2. IsCounts(Known) /\ IsCounts(store)
    BY KnownCounts DEF DbInv, DbTypeOK
  <2>3. ASSUME NEW updates, Learns(updates)
        PROVE  Vocabulary!Learn
    BY <2>1, <2>2, <2>3, WrittenCounts, VocabularyCounts DEF Learns, Vocabulary!Learn
  <2>4. CASE Settles
    BY <2>1, <2>4 DEF Settles, Vocabulary!Settle, Vocabulary!Next
  <2>5. CASE Forgets
    BY <2>1, <2>5 DEF Forgets, Vocabulary!Forget, Vocabulary!Next
  <2>6. CASE Deletes
    <3> DEFINE e == signal.candidate
               n == MarkedDeleted(CountIn(store, e))
    <3>1. n \in {-1, -CountIn(store, e)} /\ n < 0 /\ n \in Int
      BY <2>2, CountsAreIntegers, MarkedDeletedIsNegative
    <3>2. store' = OverwrittenAt(Vocabulary!Settled, e, n) /\ batch' = Vocabulary!NoWords
      BY <2>1, <2>6 DEF Deletes
    <3>3. e \in DOMAIN store'
      BY <2>6, DeletedCounts
    <3> QED
      BY <3>1, <3>2, <3>3, VocabularyCounts DEF Vocabulary!Delete, Vocabulary!Next
  <2>7. CASE UNCHANGED dbVars
    BY <2>7 DEF dbVars, Vocabulary!vars
  <2> QED
    BY <2>3, <2>4, <2>5, <2>6, <2>7, StepsOfTheDatabase DEF Vocabulary!Next
<1> QED
  BY <1>1, <1>2, Invariance, PTL DEF Spec, LearnsWords, Vocabulary!Spec

\* Whoever begins, ends or closes: only BackSpace and a crash lose what has been
\* learnt (Memory::OnUnhandledKey).
THEOREM NothingElseForgets == Spec => OnlyBackSpaceForgets
<1>1. ASSUME DbInv, [Next]_vars, NEW e \in DOMAIN batch,
             e \notin DOMAIN batch', e \notin DOMAIN store'
      PROVE  MayForget
  <2>1. e \in DOMAIN Known /\ IsCounts(Known) /\ IsCounts(store)
    BY <1>1, KnownCounts DEF DbInv, DbTypeOK
  <2>2. ~Settles /\ ~UNCHANGED dbVars /\ \A updates : ~Learns(updates)
    BY <1>1, <2>1 DEF Settles, Learns, dbVars
  <2>3. ~Deletes
    BY <1>1, <2>1, DeletedCounts
  <2> QED
    BY <1>1, <2>2, <2>3, StepsOfTheDatabase
<1>2. DbInv /\ [Next]_vars =>
          [(\E e \in DOMAIN batch : e \notin DOMAIN batch' /\ e \notin DOMAIN store')
               => \/ signal.event = "key" /\ signal.backspace /\ slots' # slots
                  \/ open' = {} /\ slots' = <<>>]_vars
  BY <1>1 DEF MayForget
<1> QED
  BY <1>2, Invariance, PTL DEF Spec, OnlyBackSpaceForgets

\* A word stays in the database with all its count, if it is not the one that is
\* deleted (UserDictionary::UpdateEntry).
THEOREM CountsAreKept == Spec => WordsAreKept
<1>1. ASSUME DbInv, [Next]_vars, NEW e \in DOMAIN store
      PROVE  /\ e \in DOMAIN store'
             /\ \/ Magnitude(store'[e]) >= Magnitude(store[e])
                \/ signal.event = "delete" /\ signal.candidate = e
  <2>1. /\ IsCounts(Known) /\ IsCounts(store)
        /\ e \in DOMAIN Known
        /\ Magnitude(Known[e]) >= Magnitude(store[e])
    BY <1>1, KnownCounts DEF DbInv, DbTypeOK
  <2>2. CASE store' = Known
    BY <2>1, <2>2
  <2>3. CASE store' = store
    <3>1. store[e] = CountIn(store, e)
      BY DEF CountIn
    <3>2. Magnitude(store[e]) \in Nat
      BY <2>1, <3>1, CountsAreIntegers
    <3> QED
      BY <2>3, <3>2
  <2>4. CASE Deletes
    <3>1. CASE signal.candidate = e
      BY <1>1, <2>1, <2>4, <3>1, DeletedCounts DEF Deletes
    <3>2. CASE signal.candidate # e
      BY <1>1, <2>1, <2>4, <3>2, DeletedCounts
    <3> QED
      BY <3>1, <3>2
  <2> QED
    BY <1>1, <2>2, <2>3, <2>4, StepsOfTheDatabase
    DEF Learns, Settles, Forgets, dbVars
<1>2. DbInv /\ [Next]_vars =>
          [\A e \in DOMAIN store :
               /\ e \in DOMAIN store'
               /\ \/ Magnitude(store'[e]) >= Magnitude(store[e])
                  \/ signal.event = "delete" /\ signal.candidate = e]_vars
  BY <1>1
<1> QED
  BY <1>2, Invariance, PTL DEF Spec, WordsAreKept
=============================================================================
