------------------------------- MODULE UserDb --------------------------------
(* Learning from what the user commits: the Memory of each translator, its     *)
(* UserDictionary, and the LevelDb they share.  A database is opened once and  *)
(* serves every user dictionary of its name: those of several sessions, and    *)
(* those of several translators of one session.  A commit, an unhandled key    *)
(* and a deletion are announced by the session's context, and the memories     *)
(* connected to it handle them one after the other.                            *)
(*                                                                             *)
(* A count is all that is kept of a value: the ticks and the decaying weight   *)
(* (`dee') only order candidates.  An entry is the sequence of its words.      *)
(* Writing never fails here, and the database is not read-only.                *)
EXTENDS WordCounts, Sequences, SequencesExt

CONSTANTS
    Sessions,
    MemoriesOf,     \* the memories of a session, in the order they connected
    ScriptMemories, \* those of script translators; the others' are tables'
    Words,
    Characters,     \* the words of a single syllable
    NoCandidate,    \* no candidate, or one of another language
    MaxCount,       \* bounds of the model: a count, ...
    MaxWords,       \* ... the words of a commit and the queue before it, ...
    MaxSegments     \* ... and the segments of a composition

Memories == UNION {Range(MemoriesOf[s]) : s \in Sessions}

ASSUME SessionsAssumption ==
    /\ MemoriesOf \in [Sessions -> Seq(Memories)]
    /\ ScriptMemories \subseteq Memories
    /\ Characters \subseteq Words
    /\ NoCandidate \notin Words \cup Seq(Words)

VARIABLES
    store,          \* what the database file holds: a count for some entries
    batch,          \* LevelDbWrapper::batch_, the writes of the transaction
    in_transaction,
    recent,         \* the memories whose transaction_time_ is at most three
                    \* seconds ago, in the order of these times
    queue,          \* ScriptTranslator::queue_, for each memory
    open,           \* the sessions with an engine, their dictionaries loaded
    composing,      \* the sessions with input
    signal,         \* what a context is announcing,
    slots           \* and the memories that have not handled it yet

dbVars == <<store, batch, in_transaction>>
vars == <<store, batch, in_transaction, recent, queue, open, composing, signal, slots>>

\* What the menus offer: the words of the dictionary, and what has been learnt
\* unless it is deleted.
Candidates == {<<w>> : w \in Words} \cup {e \in DOMAIN store : store[e] >= 0}

\* What a segment of the composition tells when it is committed
Segments == [phrase : Candidates \cup {NoCandidate}, confirmed : BOOLEAN]

Silence == [event |-> "none"]

Init ==
    /\ store = NoWords
    /\ batch = NoWords
    /\ in_transaction = FALSE
    /\ recent = <<>>
    /\ queue = [m \in Memories |-> <<>>]
    /\ open = {}
    /\ composing = {}
    /\ signal = Silence
    /\ slots = <<>>

-----------------------------------------------------------------------------
(* LevelDb *)

\* The database with the writes of the transaction; there are none in the batch
\* outside of one.
Known == Overwritten(store, batch)

CommitPendingTransaction ==
    /\ store' = Known
    /\ batch' = NoWords
    /\ in_transaction' = FALSE

AbortTransaction ==
    /\ batch' = NoWords
    /\ in_transaction' = FALSE
    /\ UNCHANGED store

-----------------------------------------------------------------------------
(* UserDictionary *)

\* The writes of several calls of UpdateEntry in one transaction: each of them
\* reads the words known before the transaction, and the last one on an entry
\* stays.  An update is a pair of an entry and 0 or 1 commits.
Written(updates, known) ==
    [e \in {u[1] : u \in Range(updates)} |->
        Counted(CountIn(known, e),
                IF \E i \in DOMAIN updates :
                       /\ updates[i] = <<e, 1>>
                       /\ \A j \in DOMAIN updates : updates[j][1] = e => j <= i
                THEN 1 ELSE 0)]

\* Mutant of NewTransaction: BeginTransaction clears the batch, and nobody has committed it.
NewTransactionAtOnce(m, updates) ==
    /\ store' = store
    /\ batch' = Written(updates, store)
    /\ in_transaction' = TRUE
    /\ recent' = Append(SelectSeq(recent, LAMBDA x : x # m), m)

\* NewTransaction and the updates that follow in the same handler
NewTransaction(m, updates) ==
    /\ store' = Known
    /\ batch' = Written(updates, Known)
    /\ in_transaction' = TRUE
    /\ recent' = Append(SelectSeq(recent, LAMBDA x : x # m), m)

TimePasses ==
    /\ recent # <<>>
    /\ recent' = Tail(recent)
    /\ UNCHANGED <<dbVars, queue, open, composing, signal, slots>>

-----------------------------------------------------------------------------
(* Memory *)

IsCharacter(e) == Len(e) = 1 /\ e[1] \in Characters

Updates(phrases, commits) == [i \in DOMAIN phrases |-> <<phrases[i], commits>>]

\* A table translator counts the phrases of an entry, a script translator the one
\* that they make up; it refreshes its parts, unless all are single characters.
Memorize(m, phrases) ==
    IF m \notin ScriptMemories
    THEN Updates(phrases, 1)
    ELSE LET whole == <<<<FlattenSeq(phrases), 1>>>>
         IN  IF Len(phrases) > 1 /\ \E e \in Range(phrases) : ~IsCharacter(e)
             THEN Updates(phrases, 0) \o whole
             ELSE whole

\* A segment adds its phrase to the entry; a confirmed one ends the entry, and
\* so does one that is of another language.
ProcessSegmentOnCommit(m, entry, seg) ==
    LET recognized == seg.phrase # NoCandidate
        phrases == IF recognized THEN Append(entry.phrases, seg.phrase) ELSE entry.phrases
        saved == (seg.confirmed \/ ~recognized) /\ phrases # <<>>
    IN  [phrases |-> IF seg.confirmed \/ ~recognized THEN <<>> ELSE phrases,
         updates |-> entry.updates \o (IF saved THEN Memorize(m, phrases) ELSE <<>>)]

\* A table translator begins each commit with an empty entry; what a script
\* translator has in its queue stays there for the next commit.
OnCommit(m) ==
    /\ signal.event = "commit"
    /\ LET begun == [phrases |-> IF m \in ScriptMemories THEN queue[m] ELSE <<>>,
                     updates |-> <<>>]
           entry == FoldLeft(LAMBDA e, seg : ProcessSegmentOnCommit(m, e, seg),
                             begun, signal.segments)
       IN  /\ NewTransaction(m, entry.updates)
           /\ queue' = IF m \in ScriptMemories
                       THEN [queue EXCEPT ![m] = entry.phrases] ELSE queue
    /\ UNCHANGED signal

\* The word is marked as deleted and the composition refreshed: translators are
\* asked again, the one that had the word among them, and each finishes its
\* session, so the mark is in the database either way.  The count is read from
\* the database, whatever the transaction.  The memory that is next finds
\* another candidate selected, the first of the new menu.
OnDeleteEntry(m) ==
    /\ signal.event = "delete"
    /\ IF signal.candidate = NoCandidate
       THEN UNCHANGED <<dbVars, signal>>
       ELSE /\ store' = OverwrittenAt(Known, signal.candidate,
                                      MarkedDeleted(CountIn(store, signal.candidate)))
            /\ batch' = NoWords
            /\ in_transaction' = FALSE
            /\ \E c \in Candidates' \cup {NoCandidate} :
                   signal' = [signal EXCEPT !.candidate = c]
    /\ UNCHANGED <<recent, queue>>

\* BackSpace takes back a commit of the last three seconds.
OnUnhandledKey(m) ==
    /\ signal.event = "key"
    /\ IF signal.backspace /\ in_transaction /\ m \in Range(recent)
       THEN AbortTransaction
       ELSE CommitPendingTransaction
    /\ UNCHANGED <<recent, queue, signal>>

\* The first of the slots left handles the signal.
Handle ==
    /\ slots # <<>>
    /\ \/ OnCommit(Head(slots))
       \/ OnDeleteEntry(Head(slots))
       \/ OnUnhandledKey(Head(slots))
    /\ slots' = Tail(slots)
    /\ UNCHANGED <<open, composing>>

-----------------------------------------------------------------------------
(* Sessions *)

\* The context of a session announces an event, when the last one is dealt with.
Announce(s, event) ==
    /\ slots = <<>>
    /\ s \in open
    /\ signal' = event
    /\ slots' = MemoriesOf[s]
    /\ UNCHANGED <<dbVars, recent, queue, open>>

BelowBound == \A e \in DOMAIN Known : Magnitude(Known[e]) < MaxCount

WordsIn(phrases, segments) ==
    LET recognized == SelectSeq(segments, LAMBDA seg : seg.phrase # NoCandidate)
    IN  Len(FlattenSeq(phrases \o [i \in DOMAIN recognized |-> recognized[i].phrase]))

\* Context::Commit, which clears the composition when all are told
Commit(s) ==
    /\ s \in composing
    /\ BelowBound
    /\ \E n \in 1..MaxSegments : \E segments \in [1..n -> Segments] :
           /\ \A m \in Range(MemoriesOf[s]) : WordsIn(queue[m], segments) <= MaxWords
           /\ Announce(s, [event |-> "commit", segments |-> segments])
    /\ composing' = composing \ {s}

\* Context::DeleteCandidate, on a composition with a menu: the candidate at the
\* index becomes the selected one, and it is the selected one that is deleted.
DeleteCandidate(s) ==
    /\ s \in composing
    /\ \E c \in Candidates :
           Announce(s, [event |-> "delete", candidate |-> c, at_index |-> c])
    /\ UNCHANGED composing

\* A key that no processor takes.  With input, BackSpace is the editor's.
UnhandledKey(s) ==
    /\ \E backspace \in BOOLEAN :
           /\ backspace => s \notin composing
           /\ Announce(s, [event |-> "key", backspace |-> backspace])
    /\ UNCHANGED composing

\* The composition of a session changes, and the translators of its segments are
\* asked: all or some, or none that has a memory.  Each finishes its session.
Query(s) ==
    /\ slots = <<>>
    /\ s \in open
    /\ composing' = composing \cup {s}
    /\ CommitPendingTransaction \/ UNCHANGED dbVars
    /\ UNCHANGED <<recent, queue, open, signal, slots>>

\* The input of a session is erased or cleared.
ClearInput(s) ==
    /\ slots = <<>>
    /\ composing' = composing \ {s}
    /\ UNCHANGED <<dbVars, recent, queue, open, signal, slots>>

\* An engine is created, and its memories load their dictionaries.
Load(s) ==
    /\ slots = <<>>
    /\ open' = open \cup {s}
    /\ UNCHANGED <<dbVars, recent, queue, composing, signal, slots>>

Leave(s) ==
    /\ slots = <<>>
    /\ s \in open
    /\ open' = open \ {s}
    /\ composing' = composing \ {s}
    /\ queue' = [m \in Memories |-> IF m \in Range(MemoriesOf[s]) THEN <<>> ELSE queue[m]]
    /\ recent' = SelectSeq(recent, LAMBDA m : m \notin Range(MemoriesOf[s]))
    /\ UNCHANGED <<signal, slots>>

\* Mutant of Unload: the database is closed and its batch with it.
UnloadDropsPending(s) == Leave(s) /\ AbortTransaction

\* Mutant of Unload: the database is closed in the middle of its transaction.
UnloadKeepsPending(s) == Leave(s) /\ UNCHANGED dbVars

\* An engine goes: each of its dictionaries commits what is pending, and the last
\* of all closes the database.
Unload(s) == Leave(s) /\ CommitPendingTransaction

\* The process ends, wherever it is; only the file stays.
Crash ==
    /\ open # {}
    /\ store' = store
    /\ batch' = NoWords
    /\ in_transaction' = FALSE
    /\ recent' = <<>>
    /\ queue' = [m \in Memories |-> <<>>]
    /\ open' = {}
    /\ composing' = {}
    /\ signal' = Silence
    /\ slots' = <<>>

Next ==
    \/ Handle
    \/ TimePasses
    \/ Crash
    \/ \E s \in Sessions :
           \/ Commit(s)
           \/ DeleteCandidate(s)
           \/ UnhandledKey(s)
           \/ Query(s)
           \/ ClearInput(s)
           \/ Load(s)
           \/ Unload(s)

Spec == Init /\ [][Next]_vars
=============================================================================
