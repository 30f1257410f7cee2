----------------------- MODULE UserDictSyncProperties ------------------------
(* What a user may expect of dictionaries that are synchronized. *)
EXTENDS UserDictSync

Snapshots == [head : {"missing", "cut", "named"}, counts : Counts]

Stages == [at : {"idle", "visit", "merge", "backup"},
           todo : SUBSET Devices,
           temp : Counts,
           left : SUBSET Words]

\* Types, and that the dictionary is held by its synchronization exactly while
\* one merges into it or writes it out, with no words left over from before: a
\* lock that outlives its step would shut out the sessions, and every later
\* synchronization (UserDictManager::Restore, Backup).
TypeOK ==
    /\ db \in [Devices -> Counts]
    /\ holder \in [Devices -> {"nobody", "session", "sync"}]
    /\ sync \in [Devices -> Stages]
    /\ folder \in [Devices -> [Devices -> Snapshots]]
    /\ edits \in 0..MaxEdits
    /\ mishaps \in 0..MaxMishaps
    /\ \A d \in Devices :
           /\ holder[d] = "sync" <=> sync[d].at \in {"merge", "backup"}
           /\ sync[d].at \in {"idle", "visit"} => sync[d].left = {}

\* No synchronization, however often it is repeated or broken off, counts a
\* commit twice: no count is larger than what there was and what the users of
\* all devices have done (UserDbMerger::Put takes the larger count and not the sum).
NoCommitCountsTwice ==
    \A d \in Devices : \A w \in Words : Magnitude(db[d][w]) <= MaxBefore + edits

\* A count gets smaller only when a deleted word is deleted again or imported, or
\* with the recovery of a database that is lost: what comes from another device,
\* old, cut off or out of order, takes nothing away (UserDbMerger::Put).
MergeTakesNothingAway ==
    [][\A d \in Devices : \A w \in Words :
           Magnitude(db'[d][w]) < Magnitude(db[d][w])
               => \/ db[d][w] < 0 /\ edits' > edits
                  \/ db'[d] = folder[d][d].counts /\ holder' # holder]_vars

\* When the user has done with editing and no more mishaps come, all devices
\* agree at last on how often every word has been committed, whatever snapshots
\* have been cut off on the way (UserDictManager::Synchronize).
Converges ==
    <>[](\A d, e \in Devices : \A w \in Words :
             Magnitude(db[d][w]) = Magnitude(db[e][w]))
=============================================================================
