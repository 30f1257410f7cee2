---------------------------- MODULE UserDictSync -----------------------------
(* Synchronizing a user dictionary between the devices of a user.  Each device  *)
(* has its database, and a copy of a folder with a snapshot of every device's   *)
(* database, each in a directory of its own.  To synchronize, a device merges   *)
(* all the snapshots that it finds into its database, and writes its own anew   *)
(* (UserDictManager).  What carries the snapshots from one device's folder to   *)
(* another's is not part of the program: a copy comes late or not at all, but a *)
(* file that comes is one that was at rest.                                     *)
(*                                                                              *)
(* A word of the database or of a snapshot has a count; one that is not there   *)
(* has the count 0, which merges in the same way.  Ticks and weights are left   *)
(* out, and so are the transactions of a session (UserDb): it has learnt a word *)
(* when it is written.  A file is cut off between two lines only, since         *)
(* TsvWriter flushes every line.                                                *)
EXTENDS WordCounts

CONSTANTS
    Devices,
    Words,
    Before,         \* what each device has learnt before it is ever synchronized, ...
    MaxBefore,      \* ... with no larger counts than this
    Imports,        \* the counts that an imported file may give a word
    MaxEdits,       \* bounds of the model: what the user does to words, ...
    MaxMishaps      \* ... and what befalls a device

ASSUME CountsAssumption ==
    /\ MaxBefore \in Nat
    /\ Before \in [Devices -> [Words -> -MaxBefore..MaxBefore]]
    /\ Imports \subseteq Int

ASSUME BoundsAssumption == MaxEdits \in Nat /\ MaxMishaps \in Nat

VARIABLES
    db,             \* the counts in the database of each device
    holder,         \* who has it open: LevelDB lets in one at a time
    sync,           \* UserDictManager, on the work thread of each device
    folder,         \* each device's copy of each device's snapshot
    edits,          \* how often words have been counted by users
    mishaps

vars == <<db, holder, sync, folder, edits, mishaps>>

Counts == [Words -> Int]

NoCounts == [w \in Words |-> 0]

\* A file that is cut off before the line with the name of its dictionary cannot
\* be restored.
NoSnapshot == [head |-> "missing", counts |-> NoCounts]
CutSnapshot == [head |-> "cut", counts |-> NoCounts]

\* `todo': the directories that are still to be visited; `temp': the restored
\* snapshot; `left': the words of it still to be merged, or of the database still
\* to be written
Idle == [at |-> "idle", todo |-> {}, temp |-> NoCounts, left |-> {}]

Init ==
    /\ db = Before
    /\ holder = [d \in Devices |-> "nobody"]
    /\ sync = [d \in Devices |-> Idle]
    /\ folder = [d \in Devices |-> [f \in Devices |-> NoSnapshot]]
    /\ edits = 0
    /\ mishaps = 0

Known(counts) == {w \in Words : counts[w] # 0}

-----------------------------------------------------------------------------
(* The user *)

Edit(d, w, n, cost) ==
    /\ edits + cost <= MaxEdits
    /\ edits' = edits + cost
    /\ db' = [db EXCEPT ![d][w] = n]
    /\ UNCHANGED <<holder, sync, folder, mishaps>>

Learn(d, w) == holder[d] = "session" /\ Edit(d, w, Counted(db[d][w], 1), 1)

Delete(d, w) == holder[d] = "session" /\ Edit(d, w, MarkedDeleted(db[d][w]), 1)

Larger(m, n) == IF m < n THEN n ELSE m

\* UserDbImporter::Put: the larger count of a word, the smaller of a deleted one
Imported(ours, theirs) ==
    CASE theirs > 0 -> Larger(ours, theirs)
      [] theirs < 0 -> -Larger(-theirs, Magnitude(ours))
      [] OTHER -> ours

\* A file with a line for the word is imported while the dictionary is not in use.
Import(d, w) ==
    /\ holder[d] = "nobody"
    /\ \E n \in Imports : Edit(d, w, Imported(db[d][w], n), Magnitude(n))

Mishap == mishaps < MaxMishaps /\ mishaps' = mishaps + 1

\* A session opens the dictionary.  While a synchronization runs none is created,
\* unless a recovery has kept the service out of maintenance mode.
Load(d) ==
    /\ holder[d] = "nobody"
    /\ holder' = [holder EXCEPT ![d] = "session"]
    /\ IF sync[d].at = "idle" THEN UNCHANGED mishaps ELSE Mishap
    /\ UNCHANGED <<db, sync, folder, edits>>

Unload(d) ==
    /\ holder[d] = "session"
    /\ holder' = [holder EXCEPT ![d] = "nobody"]
    /\ UNCHANGED <<db, sync, folder, edits, mishaps>>

-----------------------------------------------------------------------------
(* Synchronizing *)

Step(d, s) == sync' = [sync EXCEPT ![d] = s] /\ UNCHANGED <<edits, mishaps>>

\* RimeSyncUserData ends all sessions and has the task run.
StartSync(d) ==
    /\ sync[d].at = "idle"
    /\ Step(d, [Idle EXCEPT !.at = "visit", !.todo = Devices])
    /\ holder' = [holder EXCEPT ![d] = "nobody"]
    /\ UNCHANGED <<db, folder>>

\* A snapshot is restored into a temporary database, and the dictionary is opened
\* to merge it.
BeginMerge(d, f) ==
    /\ sync[d].at = "visit"
    /\ f \in sync[d].todo
    /\ folder[d][f].head = "named"
    /\ holder[d] = "nobody"
    /\ LET counts == folder[d][f].counts
       IN  Step(d, [sync[d] EXCEPT !.at = "merge", !.todo = @ \ {f},
                                   !.temp = counts, !.left = Known(counts)])
    /\ holder' = [holder EXCEPT ![d] = "sync"]
    /\ UNCHANGED <<db, folder>>

\* There is none, it is cut off, or the dictionary is in use.
PassOver(d, f) ==
    /\ sync[d].at = "visit"
    /\ f \in sync[d].todo
    /\ folder[d][f].head # "named" \/ holder[d] # "nobody"
    /\ Step(d, [sync[d] EXCEPT !.todo = @ \ {f}])
    /\ UNCHANGED <<db, holder, folder>>

\* Mutant of Visit: a synchronization ends at a snapshot that is cut off.
VisitOrGiveUp(d, f) ==
    \/ BeginMerge(d, f)
    \/ folder[d][f].head # "cut" /\ PassOver(d, f)
    \/ /\ sync[d].at = "visit"
       /\ folder[d][f].head = "cut"
       /\ Step(d, Idle)
       /\ UNCHANGED <<db, holder, folder>>

\* The directories are visited in whatever order the file system has.
Visit(d, f) == BeginMerge(d, f) \/ PassOver(d, f)

\* Mutant of Merged: the counts of the devices are added up.
MergedSum(ours, theirs) ==
    IF ours < 0 THEN ours - Magnitude(theirs) ELSE ours + Magnitude(theirs)

\* Mutant of Merged: the signs are compared with the counts.
MergedSigned(ours, theirs) == IF ours < theirs THEN theirs ELSE ours

\* UserDbMerger::Put: the count with the larger magnitude
Merged(ours, theirs) == IF Magnitude(ours) < Magnitude(theirs) THEN theirs ELSE ours

Put(d, w) ==
    /\ sync[d].at = "merge"
    /\ w \in sync[d].left
    /\ db' = [db EXCEPT ![d][w] = Merged(@, sync[d].temp[w])]
    /\ Step(d, [sync[d] EXCEPT !.left = @ \ {w}])
    /\ UNCHANGED <<holder, folder>>

\* Mutant of CloseMerge: the dictionary is not closed.
CloseMergeKeepsOpen(d) ==
    /\ sync[d].at = "merge"
    /\ sync[d].left = {}
    /\ Step(d, [sync[d] EXCEPT !.at = "visit", !.temp = NoCounts])
    /\ UNCHANGED <<db, holder, folder>>

CloseMerge(d) ==
    /\ sync[d].at = "merge"
    /\ sync[d].left = {}
    /\ Step(d, [sync[d] EXCEPT !.at = "visit", !.temp = NoCounts])
    /\ holder' = [holder EXCEPT ![d] = "nobody"]
    /\ UNCHANGED <<db, folder>>

\* All snapshots are merged: the device's own is written over, unless the
\* database is in use.
Backup(d) ==
    /\ sync[d].at = "visit"
    /\ sync[d].todo = {}
    /\ IF holder[d] = "nobody"
       THEN /\ Step(d, [Idle EXCEPT !.at = "backup", !.left = Known(db[d])])
            /\ holder' = [holder EXCEPT ![d] = "sync"]
            /\ folder' = [folder EXCEPT ![d][d] = CutSnapshot]
       ELSE Step(d, Idle) /\ UNCHANGED <<holder, folder>>
    /\ UNCHANGED db

WriteMetadata(d) ==
    /\ sync[d].at = "backup"
    /\ folder[d][d].head = "cut"
    /\ folder' = [folder EXCEPT ![d][d].head = "named"]
    /\ UNCHANGED <<db, holder, sync, edits, mishaps>>

WriteEntry(d, w) ==
    /\ sync[d].at = "backup"
    /\ folder[d][d].head = "named"
    /\ w \in sync[d].left
    /\ folder' = [folder EXCEPT ![d][d].counts[w] = db[d][w]]
    /\ Step(d, [sync[d] EXCEPT !.left = @ \ {w}])
    /\ UNCHANGED <<db, holder>>

EndBackup(d) ==
    /\ sync[d].at = "backup"
    /\ folder[d][d].head = "named"
    /\ sync[d].left = {}
    /\ Step(d, Idle)
    /\ holder' = [holder EXCEPT ![d] = "nobody"]
    /\ UNCHANGED <<db, folder>>

Synchronize(d) ==
    \/ \E f \in Devices : Visit(d, f)
    \/ \E w \in Words : Put(d, w) \/ WriteEntry(d, w)
    \/ CloseMerge(d)
    \/ Backup(d)
    \/ WriteMetadata(d)
    \/ EndBackup(d)

-----------------------------------------------------------------------------
(* What befalls the devices *)

\* The process ends; what it has written stays.
Crash(d) ==
    /\ Mishap
    /\ sync' = [sync EXCEPT ![d] = Idle]
    /\ holder' = [holder EXCEPT ![d] = "nobody"]
    /\ UNCHANGED <<db, folder, edits>>

\* A session finds the database damaged, and beyond repair: it is moved away, and
\* created anew with what the device's own snapshot has.
Recover(d) ==
    /\ Mishap
    /\ sync[d].at = "idle"
    /\ holder[d] = "nobody"
    /\ holder' = [holder EXCEPT ![d] = "session"]
    /\ db' = [db EXCEPT ![d] = folder[d][d].counts]
    /\ UNCHANGED <<sync, folder, edits>>

\* f's snapshot comes to d.
Transfer(d, f) ==
    /\ d # f
    /\ sync[f].at # "backup"
    /\ folder' = [folder EXCEPT ![d][f] = folder[f][f]]
    /\ UNCHANGED <<db, holder, sync, edits, mishaps>>

-----------------------------------------------------------------------------
Next ==
    \E d \in Devices :
        \/ \E w \in Words : Learn(d, w) \/ Delete(d, w) \/ Import(d, w)
        \/ Load(d)
        \/ Unload(d)
        \/ StartSync(d)
        \/ Synchronize(d)
        \/ Crash(d)
        \/ Recover(d)
        \/ \E f \in Devices : Transfer(d, f)

\* A synchronization that has begun goes on to its end.  That the user begins one
\* from time to time, and that a snapshot which is sent again and again comes at
\* last, is not for the program to see to.
Fairness ==
    \A d \in Devices :
        /\ WF_vars(Synchronize(d))
        /\ WF_vars(StartSync(d))
        /\ \A f \in Devices : SF_vars(Transfer(d, f))

Spec == Init /\ [][Next]_vars /\ Fairness
=============================================================================
