------------------------- MODULE UserDictSyncProofs --------------------------
(* The invariant of UserDictSync, and what it gives: wherever a count is kept,  *)
(* in a database, in a snapshot or in the temporary database of a merge, it is  *)
(* no larger than what there was and what the users have done.                  *)
EXTENDS UserDictSyncProperties, TLAPS

Bound == MaxBefore + edits

Bounded(counts) == \A w \in Words : Magnitude(counts[w]) <= Bound

\* A snapshot keeps the counts of the day on which it was written, so the bound
\* has to be known of every place from which a count can come back.
SyncInv ==
    /\ TypeOK
    /\ \A d \in Devices :
           /\ Bounded(db[d])
           /\ Bounded(sync[d].temp)
           /\ \A f \in Devices : Bounded(folder[d][f].counts)

-----------------------------------------------------------------------------
(* Counts *)

\* A magnitude is a natural number (std::abs).
LEMMA MagnitudeType ==
    ASSUME NEW n \in Int
    PROVE  Magnitude(n) \in Nat
BY DEF Magnitude

\* A committed word counts one more than before (UserDictionary::UpdateEntry).
LEMMA CountedFacts ==
    ASSUME NEW n \in Int
    PROVE  /\ Counted(n, 1) \in Int
           /\ Magnitude(Counted(n, 1)) = Magnitude(n) + 1
BY DEF Counted, Magnitude

\* A deletion makes no count larger than one more, and none smaller unless the
\* word has been deleted before (UserDictionary::UpdateEntry).
LEMMA MarkedDeletedFacts ==
    ASSUME NEW n \in Int
    PROVE  /\ MarkedDeleted(n) \in Int
           /\ Magnitude(MarkedDeleted(n)) <= Magnitude(n) + 1
           /\ n >= 0 => Magnitude(n) <= Magnitude(MarkedDeleted(n))
BY DEF MarkedDeleted, Magnitude

\* An import gives a word one of the two counts, and a smaller one only to a
\* word that is deleted (UserDbImporter::Put).
LEMMA ImportedFacts ==
    ASSUME NEW n \in Int, NEW m \in Int
    PROVE  /\ Imported(n, m) \in Int
           /\ Magnitude(Imported(n, m)) <= Magnitude(n) + Magnitude(m)
           /\ n >= 0 \/ m = 0 => Magnitude(n) <= Magnitude(Imported(n, m))
<1>1. CASE m > 0
  BY <1>1 DEF Imported, Larger, Magnitude
<1>2. CASE m < 0
  BY <1>2 DEF Imported, Larger, Magnitude
<1>3. CASE m = 0
  BY <1>3 DEF Imported, Magnitude
<1> QED
  BY <1>1, <1>2, <1>3

\* A merge takes one of the two counts, and no smaller one (UserDbMerger::Put).
LEMMA MergedFacts ==
    ASSUME NEW n \in Int, NEW m \in Int
    PROVE  /\ Merged(n, m) \in {n, m}
           /\ Magnitude(n) <= Magnitude(Merged(n, m))
BY DEF Merged, Magnitude

-----------------------------------------------------------------------------
(* What the user does *)

\* An edit keeps the invariant, if it costs what it adds to a count.
LEMMA EditKeeps ==
    ASSUME SyncInv, NEW d \in Devices, NEW w \in Words,
           NEW n \in Int, NEW cost \in Nat, Edit(d, w, n, cost),
           Magnitude(n) <= Magnitude(db[d][w]) + cost
    PROVE  SyncInv'
<1> USE CountsAssumption, BoundsAssumption
<1>1. edits' = edits + cost /\ edits' \in 0..MaxEdits /\ edits \in Nat
  BY DEF Edit, SyncInv, TypeOK
<1>2. TypeOK'
  BY <1>1 DEF Edit, SyncInv, TypeOK, Counts
<1>3. \A c \in Counts : Bounded(c) => \A v \in Words : Magnitude(c[v]) <= Bound'
  BY <1>1, MagnitudeType DEF Bounded, Bound, Counts
<1>4. ASSUME NEW e \in Devices
      PROVE  Bounded(db[e])'
  <2> SUFFICES ASSUME NEW v \in Words
               PROVE  Magnitude(db'[e][v]) <= Bound'
    BY DEF Bounded
  <2>1. db[e] \in Counts /\ db[d] \in Counts
    BY DEF SyncInv, TypeOK
  <2>2. CASE e = d /\ v = w
    <3>1. db'[e][v] = n
      BY <2>1, <2>2 DEF Edit, SyncInv, TypeOK, Counts
    <3>2. Magnitude(db[d][w]) <= Bound
      BY DEF SyncInv, Bounded
    <3>3. Magnitude(db[d][w]) \in Nat /\ Magnitude(n) \in Nat
      BY <2>1, MagnitudeType DEF Counts
    <3> QED
      BY <3>1, <3>2, <3>3, <1>1 DEF Bound
  <2>3. CASE ~(e = d /\ v = w)
    <3>1. db'[e][v] = db[e][v]
      BY <2>1, <2>3 DEF Edit, SyncInv, TypeOK, Counts
    <3> QED
      BY <3>1, <2>1, <1>3 DEF SyncInv
  <2> QED
    BY <2>2, <2>3
<1>5. ASSUME NEW e \in Devices
      PROVE  Bounded(sync[e].temp)'
  <2>1. sync[e].temp \in Counts /\ sync' = sync
    BY DEF Edit, SyncInv, TypeOK, Stages
  <2> QED
    BY <2>1, <1>3 DEF SyncInv, Bounded
<1>6. ASSUME NEW e \in Devices, NEW f \in Devices
      PROVE  Bounded(folder[e][f].counts)'
  <2>1. folder[e][f].counts \in Counts /\ folder' = folder
    BY DEF Edit, SyncInv, TypeOK, Snapshots
  <2> QED
    BY <2>1, <1>3 DEF SyncInv, Bounded
<1> QED
  BY <1>2, <1>4, <1>5, <1>6 DEF SyncInv

-----------------------------------------------------------------------------
(* The steps of a synchronization *)

\* A step of a synchronization changes the stage of one device.
LEMMA StepFacts ==
    ASSUME TypeOK, NEW d \in Devices, NEW s \in Stages, Step(d, s)
    PROVE  /\ sync' \in [Devices -> Stages]
           /\ sync'[d] = s
           /\ \A e \in Devices : e # d => sync'[e] = sync[e]
           /\ edits' = edits /\ mishaps' = mishaps
BY DEF TypeOK, Step

\* The stages keep their types, and their locks, if the one of this device does.
LEMMA StagesKept ==
    ASSUME TypeOK, NEW d \in Devices,
           sync' \in [Devices -> Stages],
           \A e \in Devices : e # d => sync'[e] = sync[e],
           NEW h \in {"nobody", "session", "sync"},
           holder' = [holder EXCEPT ![d] = h],
           h = "sync" <=> sync'[d].at \in {"merge", "backup"},
           sync'[d].at \in {"idle", "visit"} => sync'[d].left = {}
    PROVE  /\ holder' \in [Devices -> {"nobody", "session", "sync"}]
           /\ \A e \in Devices :
                  /\ holder'[e] = "sync" <=> sync'[e].at \in {"merge", "backup"}
                  /\ sync'[e].at \in {"idle", "visit"} => sync'[e].left = {}
BY DEF TypeOK

\* Writing its own snapshot changes one file of the device.
LEMMA FolderFacts ==
    ASSUME TypeOK, NEW d \in Devices, NEW f \in Devices, NEW s \in Snapshots,
           folder' = [folder EXCEPT ![d][f] = s]
    PROVE  /\ folder' \in [Devices -> [Devices -> Snapshots]]
           /\ \A e, g \in Devices :
                  folder'[e][g] = IF e = d /\ g = f THEN s ELSE folder[e][g]
BY DEF TypeOK

\* What a stage and a snapshot are made of.
LEMMA Typed ==
    ASSUME TypeOK, NEW d \in Devices
    PROVE  /\ db[d] \in Counts
           /\ sync[d] \in Stages
           /\ sync[d].temp \in Counts
           /\ \A f \in Devices : folder[d][f] \in Snapshots /\ folder[d][f].counts \in Counts
BY DEF TypeOK, Stages, Snapshots

\* A step keeps the invariant if what it leaves in the stage, the database and
\* the folder of its device is typed and in bounds, and its lock is right.
LEMMA StepKeeps ==
    ASSUME SyncInv, NEW d \in Devices, NEW s \in Stages, Step(d, s), Bounded(s.temp),
           NEW h \in {"nobody", "session", "sync"},
           holder' = [holder EXCEPT ![d] = h],
           h = "sync" <=> s.at \in {"merge", "backup"},
           s.at \in {"idle", "visit"} => s.left = {},
           db' \in [Devices -> Counts],
           \A e \in Devices : Bounded(db'[e]),
           folder' \in [Devices -> [Devices -> Snapshots]],
           \A e, f \in Devices : Bounded(folder'[e][f].counts)
    PROVE  SyncInv'
<1>0. TypeOK
  BY DEF SyncInv
<1>1. /\ sync' \in [Devices -> Stages]
      /\ sync'[d] = s
      /\ \A e \in Devices : e # d => sync'[e] = sync[e]
      /\ edits' = edits /\ mishaps' = mishaps
  BY <1>0, StepFacts
<1>2. /\ holder' \in [Devices -> {"nobody", "session", "sync"}]
      /\ \A e \in Devices :
             /\ holder'[e] = "sync" <=> sync'[e].at \in {"merge", "backup"}
             /\ sync'[e].at \in {"idle", "visit"} => sync'[e].left = {}
  BY <1>0, <1>1, StagesKept
<1>3. TypeOK'
  BY <1>0, <1>1, <1>2 DEF TypeOK
<1>4. \A e \in Devices : Bounded(sync'[e].temp)
  BY <1>1 DEF SyncInv
<1> QED
  BY <1>1, <1>3, <1>4 DEF SyncInv, Bounded, Bound

\* A word that is not there is in bounds, and so is a stage with nothing to do.
LEMMA NoCountsBounded ==
    ASSUME SyncInv
    PROVE  /\ NoCounts \in Counts /\ Bounded(NoCounts)
           /\ Idle \in Stages /\ Idle.temp = NoCounts /\ Idle.left = {} /\ Idle.at = "idle"
<1>1. MaxBefore + edits \in Nat
  BY CountsAssumption, BoundsAssumption DEF SyncInv, TypeOK
<1>2. NoCounts \in Counts /\ Bounded(NoCounts)
  BY <1>1 DEF Bounded, Bound, NoCounts, Counts, Magnitude
<1> QED
  BY <1>2 DEF Idle, Stages

\* What the invariant says of one device.
LEMMA OfDevice ==
    ASSUME SyncInv, NEW d \in Devices
    PROVE  /\ TypeOK
           /\ db \in [Devices -> Counts] /\ \A e \in Devices : Bounded(db[e])
           /\ folder \in [Devices -> [Devices -> Snapshots]]
           /\ \A e, f \in Devices : Bounded(folder[e][f].counts)
           /\ sync[d] \in Stages /\ Bounded(sync[d].temp)
           /\ holder = [holder EXCEPT ![d] = holder[d]]
           /\ holder[d] \in {"nobody", "session", "sync"}
           /\ holder[d] = "sync" <=> sync[d].at \in {"merge", "backup"}
           /\ sync[d].at \in {"idle", "visit"} => sync[d].left = {}
BY DEF SyncInv, TypeOK

\* RimeSyncUserData begins with nothing in the temporary database.
LEMMA StartSyncKeeps ==
    ASSUME SyncInv, NEW d \in Devices, StartSync(d)
    PROVE  SyncInv'
<1> DEFINE s == [Idle EXCEPT !.at = "visit", !.todo = Devices]
<1>1. s \in Stages /\ s.temp = NoCounts /\ s.left = {} /\ s.at = "visit"
  BY NoCountsBounded DEF Stages
<1>2. Step(d, s) /\ holder' = [holder EXCEPT ![d] = "nobody"] /\ db' = db /\ folder' = folder
  BY DEF StartSync
<1> HIDE DEF s
<1> QED
  BY <1>1, <1>2, OfDevice, NoCountsBounded, StepKeeps

\* Beginning a merge carries the counts of a snapshot into the temporary database.
LEMMA BeginMergeKeeps ==
    ASSUME SyncInv, NEW d \in Devices, NEW f \in Devices, BeginMerge(d, f)
    PROVE  SyncInv'
<1> DEFINE c == folder[d][f].counts
           k == Known(c)
           s == [sync[d] EXCEPT !.at = "merge", !.todo = @ \ {f},
                                !.temp = c, !.left = k]
<1>1. c \in Counts /\ Bounded(c) /\ k \in SUBSET Words
  BY OfDevice, Typed DEF Known
<1>2. Step(d, s) /\ holder' = [holder EXCEPT ![d] = "sync"] /\ db' = db /\ folder' = folder
  BY DEF BeginMerge
<1> HIDE DEF c, k
<1>3. sync[d] \in Stages
  BY OfDevice
<1>4. s \in Stages /\ s.temp = c /\ s.at = "merge"
  BY <1>1, <1>3 DEF Stages
<1> HIDE DEF s
<1> QED
  BY <1>1, <1>2, <1>4, OfDevice, StepKeeps

LEMMA PassOverKeeps ==
    ASSUME SyncInv, NEW d \in Devices, NEW f \in Devices, PassOver(d, f)
    PROVE  SyncInv'
<1> DEFINE s == [sync[d] EXCEPT !.todo = @ \ {f}]
<1>1. s \in Stages /\ s.temp = sync[d].temp /\ s.at = sync[d].at /\ s.left = sync[d].left
  BY OfDevice DEF Stages
<1>2. Step(d, s) /\ holder' = holder /\ db' = db /\ folder' = folder
  BY DEF PassOver
<1> HIDE DEF s
<1> QED
  BY <1>1, <1>2, OfDevice, StepKeeps

\* A merged count is one of two that are in bounds.
LEMMA PutKeeps ==
    ASSUME SyncInv, NEW d \in Devices, NEW w \in Words, Put(d, w)
    PROVE  SyncInv'
<1> DEFINE s == [sync[d] EXCEPT !.left = @ \ {w}]
           n == Merged(db[d][w], sync[d].temp[w])
<1>1. n \in {db[d][w], sync[d].temp[w]} /\ db[d][w] \in Int /\ sync[d].temp[w] \in Int
  BY OfDevice, Typed, MergedFacts DEF Counts
<1>2. n \in Int /\ Magnitude(n) <= Bound
  BY <1>1, OfDevice DEF Bounded
<1>3. db' = [db EXCEPT ![d][w] = n]
  BY DEF Put
<1> HIDE DEF n
<1>4. db' \in [Devices -> Counts] /\ \A e \in Devices : Bounded(db'[e])
  BY <1>2, <1>3, OfDevice DEF Counts, Bounded
<1>5. s \in Stages /\ s.temp = sync[d].temp /\ s.at = sync[d].at /\ sync[d].at = "merge"
  BY OfDevice DEF Stages, Put
<1>6. Step(d, s) /\ holder' = holder /\ folder' = folder
  BY DEF Put
<1> HIDE DEF s
<1> QED
  BY <1>4, <1>5, <1>6, OfDevice, StepKeeps

LEMMA CloseMergeKeeps ==
    ASSUME SyncInv, NEW d \in Devices, CloseMerge(d)
    PROVE  SyncInv'
<1> DEFINE s == [sync[d] EXCEPT !.at = "visit", !.temp = NoCounts]
<1>1. s \in Stages /\ s.temp = NoCounts /\ s.at = "visit" /\ s.left = {}
  BY OfDevice, NoCountsBounded DEF Stages, CloseMerge
<1>2. Step(d, s) /\ holder' = [holder EXCEPT ![d] = "nobody"] /\ db' = db /\ folder' = folder
  BY DEF CloseMerge
<1> HIDE DEF s
<1> QED
  BY <1>1, <1>2, OfDevice, NoCountsBounded, StepKeeps

\* The device's own snapshot is emptied before it is written anew.
LEMMA BackupKeeps ==
    ASSUME SyncInv, NEW d \in Devices, Backup(d)
    PROVE  SyncInv'
<1>1. CASE holder[d] = "nobody"
  <2> DEFINE s == [Idle EXCEPT !.at = "backup", !.left = Known(db[d])]
  <2>1. s \in Stages /\ s.temp = NoCounts /\ s.at = "backup"
    BY NoCountsBounded DEF Stages, Known
  <2>2. /\ Step(d, s) /\ holder' = [holder EXCEPT ![d] = "sync"] /\ db' = db
        /\ folder' = [folder EXCEPT ![d][d] = CutSnapshot]
    BY <1>1 DEF Backup
  <2>3. CutSnapshot \in Snapshots /\ CutSnapshot.counts = NoCounts
    BY NoCountsBounded DEF CutSnapshot, Snapshots
  <2>4. /\ folder' \in [Devices -> [Devices -> Snapshots]]
        /\ \A e, f \in Devices : folder'[e][f] \in {folder[e][f], CutSnapshot}
    BY <2>2, <2>3, OfDevice, FolderFacts
  <2>5. \A e, f \in Devices : Bounded(folder'[e][f].counts)
    BY <2>3, <2>4, OfDevice, NoCountsBounded
  <2> HIDE DEF s
  <2> QED
    BY <2>1, <2>2, <2>4, <2>5, OfDevice, NoCountsBounded, StepKeeps
<1>2. CASE holder[d] # "nobody"
  <2>1. Step(d, Idle) /\ holder' = holder /\ db' = db /\ folder' = folder /\ sync[d].at = "visit"
    BY <1>2 DEF Backup
  <2> QED
    BY <2>1, OfDevice, NoCountsBounded, StepKeeps
<1> QED
  BY <1>1, <1>2

LEMMA WriteMetadataKeeps ==
    ASSUME SyncInv, NEW d \in Devices, WriteMetadata(d)
    PROVE  SyncInv'
<1> DEFINE s == [folder[d][d] EXCEPT !.head = "named"]
<1>1. s \in Snapshots /\ s.counts = folder[d][d].counts
  BY OfDevice DEF Snapshots
<1>2. folder' = [folder EXCEPT ![d][d] = s]
  BY DEF WriteMetadata
<1> HIDE DEF s
<1>3. /\ folder' \in [Devices -> [Devices -> Snapshots]]
      /\ \A e, f \in Devices : folder'[e][f].counts = folder[e][f].counts
  BY <1>1, <1>2, OfDevice, FolderFacts
<1>4. TypeOK'
  BY <1>3, OfDevice DEF TypeOK, WriteMetadata
<1> QED
  BY <1>3, <1>4 DEF SyncInv, WriteMetadata, Bounded, Bound

\* A snapshot is given a count of the database.
LEMMA WriteEntryKeeps ==
    ASSUME SyncInv, NEW d \in Devices, NEW w \in Words, WriteEntry(d, w)
    PROVE  SyncInv'
<1> DEFINE c == [folder[d][d].counts EXCEPT ![w] = db[d][w]]
           n == [folder[d][d] EXCEPT !.counts = c]
           s == [sync[d] EXCEPT !.left = @ \ {w}]
<1>1. db[d][w] \in Int /\ Magnitude(db[d][w]) <= Bound
  BY OfDevice DEF Counts, Bounded
<1>2. c \in Counts /\ Bounded(c)
  BY <1>1, OfDevice, Typed DEF Counts, Bounded
<1>3. folder' = [folder EXCEPT ![d][d] = n]
  BY DEF WriteEntry
<1> HIDE DEF c
<1>4. folder[d][d] \in Snapshots
  BY OfDevice
<1>5. n \in Snapshots /\ n.counts = c
  BY <1>2, <1>4 DEF Snapshots
<1>6. s \in Stages /\ s.temp = sync[d].temp /\ s.at = sync[d].at /\ sync[d].at = "backup"
  BY OfDevice DEF Stages, WriteEntry
<1>7. Step(d, s) /\ holder' = holder /\ db' = db
  BY DEF WriteEntry
<1> HIDE DEF n, s
<1>8. /\ folder' \in [Devices -> [Devices -> Snapshots]]
      /\ \A e, f \in Devices : folder'[e][f] \in {folder[e][f], n}
  BY <1>5, <1>3, OfDevice, FolderFacts
<1>9. \A e, f \in Devices : Bounded(folder'[e][f].counts)
  BY <1>2, <1>5, <1>8, OfDevice
<1> QED
  BY <1>6, <1>7, <1>8, <1>9, OfDevice, StepKeeps

LEMMA EndBackupKeeps ==
    ASSUME SyncInv, NEW d \in Devices, EndBackup(d)
    PROVE  SyncInv'
<1>1. Step(d, Idle) /\ holder' = [holder EXCEPT ![d] = "nobody"] /\ db' = db /\ folder' = folder
  BY DEF EndBackup
<1> QED
  BY <1>1, OfDevice, NoCountsBounded, StepKeeps

LEMMA SynchronizeKeeps ==
    ASSUME SyncInv, NEW d \in Devices, Synchronize(d)
    PROVE  SyncInv'
BY BeginMergeKeeps, PassOverKeeps, PutKeeps, CloseMergeKeeps, BackupKeeps,
   WriteMetadataKeeps, WriteEntryKeeps, EndBackupKeeps
   DEF Synchronize, Visit

-----------------------------------------------------------------------------
(* The invariant *)

\* Sessions come and go without touching a count.
LEMMA HolderKeeps ==
    ASSUME SyncInv, NEW d \in Devices, Load(d) \/ Unload(d)
    PROVE  SyncInv'
<1>1. \E h \in {"nobody", "session"} :
          holder[d] # "sync" /\ holder' = [holder EXCEPT ![d] = h]
  BY DEF Load, Unload
<1>2. mishaps' \in 0..MaxMishaps /\ UNCHANGED <<db, sync, folder, edits>>
  BY BoundsAssumption DEF SyncInv, TypeOK, Load, Unload, Mishap
<1>3. TypeOK'
  BY <1>1, <1>2 DEF SyncInv, TypeOK
<1> QED
  BY <1>2, <1>3 DEF SyncInv, Bounded, Bound

\* A process that ends leaves its files, and no lock.
LEMMA CrashKeeps ==
    ASSUME SyncInv, NEW d \in Devices, Crash(d)
    PROVE  SyncInv'
<1>1. sync' \in [Devices -> Stages] /\ \A e \in Devices : sync'[e] \in {sync[e], Idle}
  BY NoCountsBounded, OfDevice DEF Crash, SyncInv, TypeOK
<1>2. TypeOK'
  BY <1>1, NoCountsBounded, BoundsAssumption DEF SyncInv, TypeOK, Crash, Mishap
<1>3. \A e \in Devices : Bounded(sync'[e].temp)
  BY <1>1, NoCountsBounded DEF SyncInv
<1> QED
  BY <1>2, <1>3 DEF SyncInv, Crash, Bounded, Bound

\* A recovered database has the counts of a snapshot, which are in bounds.
LEMMA RecoverKeeps ==
    ASSUME SyncInv, NEW d \in Devices, Recover(d)
    PROVE  SyncInv'
<1>1. folder[d][d].counts \in Counts
  BY OfDevice, Typed
<1>2. TypeOK'
  BY <1>1, BoundsAssumption DEF SyncInv, TypeOK, Recover, Mishap
<1>3. \A e \in Devices : db'[e] \in {db[e], folder[d][d].counts}
  BY OfDevice DEF Recover
<1> QED
  BY <1>2, <1>3 DEF SyncInv, Recover, Bounded, Bound

\* A transferred snapshot is one that another device has.
LEMMA TransferKeeps ==
    ASSUME SyncInv, NEW d \in Devices, NEW f \in Devices, Transfer(d, f)
    PROVE  SyncInv'
<1>1. folder' = [folder EXCEPT ![d][f] = folder[f][f]] /\ folder[f][f] \in Snapshots
  BY OfDevice DEF Transfer
<1>2. /\ folder' \in [Devices -> [Devices -> Snapshots]]
      /\ \A e, g \in Devices : folder'[e][g] \in {folder[e][g], folder[f][f]}
  BY <1>1, OfDevice, FolderFacts
<1>3. TypeOK'
  BY <1>2 DEF SyncInv, TypeOK, Transfer
<1> QED
  BY <1>2, <1>3 DEF SyncInv, Transfer, Bounded, Bound

\* SyncInv is an invariant: whatever is learnt, merged, cut off, transferred late
\* or recovered, every count that is kept anywhere is in bounds and every lock is
\* held by the one who works under it.
THEOREM Invariance == Spec => []SyncInv
<1>1. Init => SyncInv
  <2> SUFFICES ASSUME Init PROVE SyncInv
    OBVIOUS
  <2>1. /\ edits = 0 /\ MaxBefore \in Nat /\ -MaxBefore \in Int
        /\ \A n \in -MaxBefore..MaxBefore : n \in Int /\ Magnitude(n) <= Bound
    BY CountsAssumption DEF Init, Magnitude, Bound
  <2>2. db \in [Devices -> Counts] /\ \A d \in Devices : Bounded(db[d])
    BY <2>1, CountsAssumption DEF Init, Counts, Bounded
  <2>3. /\ NoCounts \in Counts /\ Bounded(NoCounts)
        /\ Idle \in Stages /\ Idle.temp = NoCounts /\ Idle.left = {} /\ Idle.at = "idle"
        /\ NoSnapshot \in Snapshots /\ NoSnapshot.counts = NoCounts
    BY <2>1 DEF NoCounts, Counts, Bounded, Bound, Magnitude, Idle, Stages, NoSnapshot, Snapshots
  <2>4. TypeOK
    BY <2>2, <2>3, BoundsAssumption DEF Init, TypeOK
  <2> QED
    BY <2>2, <2>3, <2>4 DEF Init, SyncInv
<1>2. SyncInv /\ [Next]_vars => SyncInv'
  <2> SUFFICES ASSUME SyncInv, [Next]_vars PROVE SyncInv'
    OBVIOUS
  <2>1. CASE UNCHANGED vars
    BY <2>1 DEF vars, SyncInv, TypeOK, Bounded, Bound
  <2>2. ASSUME NEW d \in Devices, NEW w \in Words, Learn(d, w) \/ Delete(d, w)
        PROVE  SyncInv'
    <3>1. db[d][w] \in Int
      BY OfDevice DEF Counts
    <3>2. CASE Learn(d, w)
      BY <3>1, <3>2, CountedFacts, MagnitudeType, EditKeeps DEF Learn
    <3>3. CASE Delete(d, w)
      BY <3>1, <3>3, MarkedDeletedFacts, EditKeeps DEF Delete
    <3> QED
      BY <2>2, <3>2, <3>3
  <2>3. ASSUME NEW d \in Devices, NEW w \in Words, Import(d, w)
        PROVE  SyncInv'
    <3>1. PICK n \in Imports : Edit(d, w, Imported(db[d][w], n), Magnitude(n))
      BY <2>3 DEF Import
    <3>2. n \in Int /\ db[d][w] \in Int
      BY OfDevice, CountsAssumption DEF Counts
    <3> QED
      BY <3>1, <3>2, ImportedFacts, MagnitudeType, EditKeeps
  <2> QED
    BY <2>1, <2>2, <2>3, HolderKeeps, StartSyncKeeps, SynchronizeKeeps, CrashKeeps,
       RecoverKeeps, TransferKeeps DEF Next
<1> QED
  BY <1>1, <1>2, PTL DEF Spec

\* Types are kept, and a dictionary is locked by its synchronization exactly while
\* one merges into it or writes it out.
THEOREM TypeCorrect == Spec => []TypeOK
<1>1. SyncInv => TypeOK
  BY DEF SyncInv
<1> QED
  BY <1>1, Invariance, PTL

\* However often devices synchronize, no commit is counted twice.
THEOREM CountsOnce == Spec => []NoCommitCountsTwice
<1>1. SyncInv => NoCommitCountsTwice
  BY DEF SyncInv, NoCommitCountsTwice, Bounded, Bound
<1> QED
  BY <1>1, Invariance, PTL

\* What comes from other devices takes nothing away: a count gets smaller with an
\* edit of a deleted word, or with the recovery of a lost database only.
THEOREM NothingTakenAway == Spec => MergeTakesNothingAway
<1> DEFINE Smaller(d, w) == Magnitude(db'[d][w]) < Magnitude(db[d][w])
           Excused(d, w) == \/ db[d][w] < 0 /\ edits' > edits
                            \/ db'[d] = folder[d][d].counts /\ holder' # holder
           Kept == \A d \in Devices : \A w \in Words : Smaller(d, w) => Excused(d, w)
<1>1. SyncInv /\ [Next]_vars => [Kept]_vars
  <2> SUFFICES ASSUME SyncInv, Next, NEW d \in Devices, NEW w \in Words, Smaller(d, w)
               PROVE  Excused(d, w)
    BY DEF vars
  <2>1. db[d] \in Counts /\ db[d][w] \in Int /\ edits \in Nat
    BY OfDevice, BoundsAssumption DEF Counts, TypeOK
  <2>2. db'[d][w] # db[d][w] /\ db' # db
    BY <2>1, MagnitudeType
  <2>3. ASSUME NEW e \in Devices, NEW v \in Words, NEW n \in Int, NEW cost \in Nat,
               Edit(e, v, n, cost), db[e][v] >= 0 \/ cost = 0 => Magnitude(db[e][v]) <= Magnitude(n)
        PROVE  Excused(d, w)
    <3>1. db' = [db EXCEPT ![e][v] = n] /\ edits' = edits + cost
      BY <2>3 DEF Edit
    <3>2. e = d /\ v = w /\ db'[d][w] = n
      BY <2>1, <2>2, <3>1, OfDevice DEF Counts
    <3>3. Magnitude(n) \in Nat /\ Magnitude(db[d][w]) \in Nat
      BY <2>1, MagnitudeType
    <3> QED
      BY <2>1, <2>3, <3>1, <3>2, <3>3
  <2>4. ASSUME NEW e \in Devices, NEW v \in Words, Learn(e, v)
        PROVE  Excused(d, w)
    <3>1. db[e][v] \in Int
      BY OfDevice DEF Counts
    <3> QED
      BY <2>3, <2>4, <3>1, CountedFacts, MagnitudeType DEF Learn
  <2>5. ASSUME NEW e \in Devices, NEW v \in Words, Delete(e, v)
        PROVE  Excused(d, w)
    <3>1. db[e][v] \in Int
      BY OfDevice DEF Counts
    <3> QED
      BY <2>3, <2>5, <3>1, MarkedDeletedFacts DEF Delete
  <2>6. ASSUME NEW e \in Devices, NEW v \in Words, Import(e, v)
        PROVE  Excused(d, w)
    <3>1. PICK n \in Imports : Edit(e, v, Imported(db[e][v], n), Magnitude(n))
      BY <2>6 DEF Import
    <3>2. n \in Int /\ db[e][v] \in Int
      BY OfDevice, CountsAssumption DEF Counts
    <3>3. Magnitude(n) = 0 => n = 0
      BY <3>2 DEF Magnitude
    <3> QED
      BY <2>3, <3>1, <3>2, <3>3, ImportedFacts, MagnitudeType
  <2>7. ASSUME NEW e \in Devices, NEW v \in Words, Put(e, v)
        PROVE  Excused(d, w)
    <3>1. db[e][v] \in Int /\ sync[e].temp[v] \in Int
      BY OfDevice, Typed DEF Counts
    <3>2. /\ db'[d][w] \in {db[d][w], Merged(db[e][v], sync[e].temp[v])}
          /\ \/ e = d /\ v = w
             \/ db'[d][w] = db[d][w]
      BY <2>1, <2>7, OfDevice DEF Put, Counts
    <3>3. e = d /\ v = w /\ db'[d][w] = Merged(db[d][w], sync[d].temp[w])
      BY <2>2, <3>2
    <3> QED
      BY <2>1, <3>1, <3>3, MergedFacts, MagnitudeType
  <2>8. ASSUME NEW e \in Devices, Recover(e)
        PROVE  Excused(d, w)
    <3>1. e = d /\ db'[d] = folder[d][d].counts
      BY <2>2, <2>8, OfDevice DEF Recover
    <3>2. holder[e] = "nobody" /\ holder'[e] = "session"
      BY <2>8, OfDevice DEF Recover, TypeOK
    <3> QED
      BY <3>1, <3>2
  <2> QED
    BY <2>2, <2>4, <2>5, <2>6, <2>7, <2>8
       DEF Next, Load, Unload, StartSync, Synchronize, Visit, BeginMerge, PassOver,
           CloseMerge, Backup, WriteMetadata, WriteEntry, EndBackup, Crash, Transfer
<1> QED
  BY <1>1, Invariance, PTL DEF Spec, MergeTakesNothingAway
=============================================================================
