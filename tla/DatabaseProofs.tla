---------------------------- MODULE DatabaseProofs ----------------------------
(***************************************************************************)
(* A transaction of a database is kept as a whole or not at all, and what  *)
(* a text file has when it is closed it has when it is opened again,       *)
(* whatever the keys, the values, the order of the calls and the crashes.  *)
(***************************************************************************)
EXTENDS Databases, TLAPS

Files   == [ exists : BOOLEAN, owner : Owners, rows : Rows ]
Batches == [ owner : Owners \cup {Untouched},
             rows : [ Keys -> DbRecord \cup {NoRow, Untouched} ] ]

TypeInv ==
  /\ class \in {"userdb", "plain_userdb", "tabledb", "stabledb"}
  /\ db_file \in Files /\ snapshot \in Files
  /\ db_loaded \in BOOLEAN /\ readonly \in BOOLEAN
  /\ metadata \in Owners /\ records \in Rows
  /\ modified \in BOOLEAN /\ restored \in BOOLEAN
  /\ in_transaction \in BOOLEAN /\ batch \in Batches
  /\ stored \in Rows /\ intended \in Rows
  /\ updates \in Nat

\* The file has what was stored.  A batch is filled in a transaction only, and what it
\* would give the file is what the updates have asked for: so much is stored when it
\* is committed.
BatchInv ==
  /\ in_transaction => db_loaded /\ ~IsText
  /\ ~in_transaction => batch = NoWrites
  /\ ~IsText => /\ db_file.rows = stored
                /\ Overlaid(stored, batch.rows) = intended

\* A table has no deleted words on disk.
HasNoDeleted(rows) == IsTable => \A k \in Keys : ~IsDeleted(rows[k])

\* A text that has not been modified is the one on disk.
TextInv ==
  /\ HasNoDeleted(db_file.rows) /\ HasNoDeleted(snapshot.rows)
  /\ db_loaded /\ IsText /\ ~modified /\ ~restored => records = Parsed(db_file.rows)

DatabaseInv == TypeInv /\ BatchInv /\ TextInv

-----------------------------------------------------------------------------
(* Rows, files and batches                                                  *)

LEMMA RowTypes ==
  ASSUME NEW rows \in Rows, NEW key \in Keys, NEW value \in RowValues
  PROVE  /\ NoRows \in Rows /\ OnlyRow(key, value) \in Rows
         /\ PutRow(rows, key, value) \in Rows /\ DeleteRow(rows, key) \in Rows
BY DatabasesAssumption DEF Rows, NoRows, OnlyRow, PutRow, DeleteRow

LEMMA NoRowsType == NoRows \in Rows
BY DEF Rows, NoRows

\* What is written as text and read again.
LEMMA TextTypes ==
  ASSUME NEW rows \in Rows
  PROVE  Formatted(rows) \in Rows /\ Parsed(rows) \in Rows
<1>1. \A k \in Keys : rows[k] # NoRow => TableRecord(rows[k]) \in DbRecord
  BY DatabasesAssumption DEF Rows, TableRecord, DbRecord
<1> QED
  BY <1>1 DEF Rows, Formatted, Parsed

LEMMA FormattedHasNoDeleted ==
  ASSUME NEW rows \in Rows
  PROVE  HasNoDeleted(Formatted(rows))
BY DEF HasNoDeleted, Formatted, IsDeleted, Rows

LEMMA WritesTypes ==
  ASSUME NEW key \in Keys, NEW value \in RowValues, NEW owner \in Owners
  PROVE  /\ NoWrites \in Batches
         /\ Putting(key, value) \in Batches /\ Erasing(key) \in Batches
         /\ Naming(owner) \in Batches
BY DatabasesAssumption DEF Batches, NoWrites, Putting, Erasing, Naming

LEMMA NoWritesType == NoWrites \in Batches
BY DEF Batches, NoWrites

\* A later write counts; nothing is left to write for the keys of an empty batch.
LEMMA OverlaidRows ==
  ASSUME NEW rows \in Rows, NEW first \in Batches, NEW second \in Batches
  PROVE  /\ Overlaid(rows, NoWrites.rows) = rows
         /\ Overlaid(rows, first.rows) \in Rows
         /\ Overlaid(first.rows, second.rows) \in [ Keys -> DbRecord \cup {NoRow, Untouched} ]
         /\ Overlaid(Overlaid(rows, first.rows), second.rows) =
              Overlaid(rows, Overlaid(first.rows, second.rows))
<1>1. /\ first.rows \in [ Keys -> DbRecord \cup {NoRow, Untouched} ]
      /\ second.rows \in [ Keys -> DbRecord \cup {NoRow, Untouched} ]
  BY DEF Batches
<1>2. NoWrites.rows = [ k \in Keys |-> Untouched ]
  BY DEF NoWrites
<1>3. Overlaid(rows, NoWrites.rows) = rows
  BY <1>2 DEF Overlaid, Over, Rows
<1>4. Overlaid(rows, first.rows) \in Rows
  BY <1>1, DatabasesAssumption DEF Overlaid, Over, Rows
<1>5. Overlaid(first.rows, second.rows) \in [ Keys -> DbRecord \cup {NoRow, Untouched} ]
  BY <1>1 DEF Overlaid, Over
<1>6. Overlaid(Overlaid(rows, first.rows), second.rows) =
        Overlaid(rows, Overlaid(first.rows, second.rows))
  BY <1>1 DEF Overlaid, Over
<1> QED
  BY <1>3, <1>4, <1>5, <1>6

LEMMA WrittenFile ==
  ASSUME NEW old \in Files, NEW writes \in Batches
  PROVE  /\ Written(old, writes) \in Files
         /\ Written(old, writes).rows = Overlaid(old.rows, writes.rows)
<1> DEFINE owner == Over(writes.owner, old.owner)
           rows  == Overlaid(old.rows, writes.rows)
<1>1. owner \in Owners /\ rows \in Rows
  BY OverlaidRows, DatabasesAssumption DEF Files, Batches, Over, Owners
<1>2. Written(old, writes) = [ old EXCEPT !.owner = owner, !.rows = rows ]
  BY DEF Written
<1> HIDE DEF owner
<1>3. rows = Overlaid(old.rows, writes.rows)
  OBVIOUS
<1> HIDE DEF rows
<1> QED
  BY <1>1, <1>2, <1>3 DEF Files

LEMMA WrittenBatch ==
  ASSUME NEW old \in Batches, NEW writes \in Batches
  PROVE  /\ Written(old, writes) \in Batches
         /\ Written(old, writes).rows = Overlaid(old.rows, writes.rows)
<1> DEFINE owner == Over(writes.owner, old.owner)
           rows  == Overlaid(old.rows, writes.rows)
<1>1. /\ owner \in Owners \cup {Untouched}
      /\ rows \in [ Keys -> DbRecord \cup {NoRow, Untouched} ]
  BY OverlaidRows, NoRowsType DEF Batches, Over
<1>2. Written(old, writes) = [ old EXCEPT !.owner = owner, !.rows = rows ]
  BY DEF Written
<1> HIDE DEF owner
<1>3. rows = Overlaid(old.rows, writes.rows)
  OBVIOUS
<1> HIDE DEF rows
<1> QED
  BY <1>1, <1>2, <1>3 DEF Batches

LEMMA SnapshotTypes ==
  ASSUME TypeInv
  PROVE  SnapshotWrites \in Batches
BY DEF TypeInv, Files, Rows, Batches, SnapshotWrites

LEMMA FileTypes ==
  ASSUME NEW owner \in Owners, NEW rows \in Rows
  PROVE  /\ File(owner, rows) \in Files /\ File(owner, rows).rows = rows
         /\ NoFile \in Files /\ NoFile.rows = NoRows /\ NoFile.owner = "none"
BY NoRowsType DEF File, Files, NoFile, Owners

-----------------------------------------------------------------------------
(* Updates                                                                  *)

\* A write goes to the batch in a transaction, else to the file.
LEMMA WriteLevelStep ==
  ASSUME DatabaseInv, ~IsText, Writable, NEW writes \in Batches, WriteLevel(writes)
  PROVE  DatabaseInv'
<1>1. /\ class' = class /\ snapshot' = snapshot /\ updates' = updates + 1
      /\ UNCHANGED << in_transaction, db_loaded, readonly, metadata, records, modified, restored >>
      /\ intended' = Overlaid(intended, writes.rows)
      /\ stored' = IF in_transaction THEN stored ELSE intended'
  BY DEF Writable, WriteLevel, Asked, memory
<1>2. /\ db_file \in Files /\ batch \in Batches /\ intended \in Rows /\ db_file.rows \in Rows
      /\ stored \in Rows /\ stored = db_file.rows
      /\ intended = Overlaid(db_file.rows, batch.rows)
      /\ ~in_transaction => batch = NoWrites
  BY DEF DatabaseInv, TypeInv, BatchInv, Files
<1>3. intended' \in Rows /\ stored' \in Rows
  BY <1>1, <1>2, OverlaidRows
<1>4. /\ db_file' \in Files /\ batch' \in Batches
      /\ db_file'.rows = stored'
      /\ intended' = Overlaid(stored', batch'.rows)
      /\ ~in_transaction => batch' = NoWrites
  <2>1. CASE in_transaction
    <3>1. batch' = Written(batch, writes) /\ db_file' = db_file
      BY <2>1 DEF WriteLevel
    <3>2. batch' \in Batches /\ batch'.rows = Overlaid(batch.rows, writes.rows)
      BY <1>2, <3>1, WrittenBatch
    <3>3. Overlaid(intended, writes.rows) =
            Overlaid(db_file.rows, Overlaid(batch.rows, writes.rows))
      BY <1>2, OverlaidRows
    <3> QED
      BY <1>1, <1>2, <2>1, <3>1, <3>2, <3>3
  <2>2. CASE ~in_transaction
    <3>1. batch' = batch /\ batch = NoWrites /\ db_file' = Written(db_file, writes)
      BY <1>2, <2>2 DEF WriteLevel
    <3>2. db_file' \in Files /\ db_file'.rows = Overlaid(db_file.rows, writes.rows)
      BY <1>2, <3>1, WrittenFile
    <3>3. intended = db_file.rows
      BY <1>2, <3>1, OverlaidRows
    <3>4. Overlaid(db_file'.rows, NoWrites.rows) = db_file'.rows
      <4>1. db_file'.rows \in Rows
        BY <3>2 DEF Files
      <4> QED
        BY <1>2, <4>1, OverlaidRows
    <3>5. stored' = intended' /\ intended' = db_file'.rows
      BY <1>1, <2>2, <3>2, <3>3
    <3>6. intended' = Overlaid(stored', batch'.rows) /\ batch' = NoWrites
      BY <3>1, <3>4, <3>5
    <3> QED
      BY <1>2, <3>1, <3>2, <3>5, <3>6
  <2> QED
    BY <2>1, <2>2
<1>5. TypeInv'
  BY <1>1, <1>3, <1>4 DEF DatabaseInv, TypeInv
<1>6. BatchInv'
  BY <1>1, <1>4 DEF DatabaseInv, BatchInv, IsText, Writable
<1>7. TextInv'
  BY <1>1 DEF DatabaseInv, TextInv, HasNoDeleted, IsText, IsTable
<1> QED
  BY <1>5, <1>6, <1>7 DEF DatabaseInv

LEMMA LevelUpdates ==
  ASSUME DatabaseInv,
         \/ \E k \in Keys, v \in RowValues : UpdateLevel(k, v)
         \/ \E k \in Keys : EraseLevel(k)
         \/ MetaUpdateLevel("us")
         \/ RestoreLevel
  PROVE  DatabaseInv'
<1>1. "us" \in Owners /\ SnapshotWrites \in Batches
  BY SnapshotTypes DEF Owners, DatabaseInv
<1>2. ~IsText /\ Writable /\ \E writes \in Batches : WriteLevel(writes)
  <2>1. CASE \E k \in Keys, v \in RowValues : UpdateLevel(k, v)
    BY <1>1, <2>1, WritesTypes DEF UpdateLevel
  <2>2. CASE \E k \in Keys : EraseLevel(k)
    <3>1. PICK k \in Keys : EraseLevel(k)
      BY <2>2
    <3>2. Erasing(k) \in Batches
      BY DEF Erasing, Putting, Batches
    <3> QED
      BY <3>1, <3>2 DEF EraseLevel
  <2>3. CASE MetaUpdateLevel("us")
    <3>1. Naming("us") \in Batches
      BY <1>1 DEF Naming, Batches
    <3> QED
      BY <2>3, <3>1 DEF MetaUpdateLevel
  <2>4. CASE RestoreLevel
    BY <1>1, <2>4 DEF RestoreLevel
  <2> QED
    BY <2>1, <2>2, <2>3, <2>4
<1> QED
  BY <1>2, WriteLevelStep

\* A text that is modified is kept in memory until it is closed.
LEMMA TextStep ==
  ASSUME DatabaseInv, IsText, Writable, records' \in Rows, metadata' \in Owners,
         \/ modified'
         \/ restored'
         \/ records' = records /\ modified' = modified /\ restored' = restored,
         modified' \in BOOLEAN, restored' \in BOOLEAN,
         UNCHANGED << db_file, db_loaded, readonly, in_transaction, batch, stored, intended >>
  PROVE  DatabaseInv'
<1>1. class' = class /\ snapshot' = snapshot /\ updates' = updates + 1
  BY DEF Writable
<1>2. TypeInv'
  BY <1>1 DEF DatabaseInv, TypeInv
<1>3. BatchInv'
  BY <1>1 DEF DatabaseInv, BatchInv, IsText
<1>4. TextInv'
  BY <1>1 DEF DatabaseInv, TextInv, HasNoDeleted, IsText, IsTable, Parsed
<1> QED
  BY <1>2, <1>3, <1>4 DEF DatabaseInv

LEMMA TextUpdates ==
  ASSUME DatabaseInv,
         \/ \E k \in Keys, v \in RowValues : UpdateText(k, v)
         \/ \E k \in Keys : EraseText(k)
         \/ MetaUpdateText("us")
         \/ UniformRestoreText
         \/ RestoreText
  PROVE  DatabaseInv'
<1>1. /\ records \in Rows /\ metadata \in Owners /\ "us" \in Owners /\ snapshot \in Files
      /\ SnapshotWrites \in Batches /\ intended \in Rows
      /\ modified \in BOOLEAN /\ restored \in BOOLEAN
  BY SnapshotTypes DEF DatabaseInv, TypeInv, Owners
<1>2. CASE \/ \E k \in Keys, v \in RowValues : UpdateText(k, v)
           \/ \E k \in Keys : EraseText(k)
           \/ MetaUpdateText("us")
  <2>1. /\ IsText /\ Writable /\ Modified
        /\ records' \in Rows /\ metadata' \in Owners
    <3>1. CASE \E k \in Keys, v \in RowValues : UpdateText(k, v)
      BY <1>1, <3>1, RowTypes DEF UpdateText
    <3>2. CASE \E k \in Keys : EraseText(k)
      BY <1>1, <3>2 DEF EraseText, DeleteRow, Rows
    <3>3. CASE MetaUpdateText("us")
      BY <1>1, <3>3 DEF MetaUpdateText
    <3> QED
      BY <1>2, <3>1, <3>2, <3>3
  <2>2. /\ modified' = TRUE /\ restored' = restored
        /\ UNCHANGED << db_file, db_loaded, readonly, in_transaction, batch, stored, intended >>
    BY <2>1 DEF Modified, transactions
  <2> QED
    BY <1>1, <2>1, <2>2, TextStep
<1>3. CASE UniformRestoreText
  <2>1. /\ records' = Overlaid(records, SnapshotWrites.rows)
        /\ metadata' = Over(SnapshotWrites.owner, metadata)
        /\ IsText /\ Writable
    BY <1>3 DEF UniformRestoreText, IsText
  <2>2. records' \in Rows
    BY <1>1, <2>1, OverlaidRows
  <2>3. metadata' \in Owners
    BY <1>1, <2>1 DEF Over, Batches
  <2>4. CASE SnapshotWrites # NoWrites
    <3>1. /\ modified' = TRUE /\ restored' = restored
          /\ UNCHANGED << db_file, db_loaded, readonly, in_transaction, batch, stored, intended >>
      BY <1>3, <2>4 DEF UniformRestoreText, Modified, transactions
    <3> QED
      BY <1>1, <2>1, <2>2, <2>3, <3>1, TextStep
  <2>5. CASE SnapshotWrites = NoWrites
    <3>1. records' = records
      BY <1>1, <2>1, <2>5, OverlaidRows
    <3>2. UNCHANGED << db_file, db_loaded, readonly, modified, restored,
                       in_transaction, batch, stored, intended >>
      BY <1>3, <2>5 DEF UniformRestoreText, transactions
    <3> QED
      BY <1>1, <2>1, <2>2, <2>3, <3>1, <3>2, TextStep
  <2> QED
    BY <2>4, <2>5
<1>4. CASE RestoreText
  <2>1. /\ IsText /\ Writable /\ modified' = FALSE /\ restored' = TRUE
        /\ UNCHANGED << db_file, db_loaded, readonly, in_transaction, batch, stored, intended >>
        /\ records' = Parsed(snapshot.rows)
        /\ metadata' \in { "none", snapshot.owner }
    BY <1>4 DEF RestoreText, LoadRows, transactions
  <2>2. records' \in Rows /\ metadata' \in Owners
    BY <1>1, <2>1, TextTypes DEF Files, Owners
  <2> QED
    BY <1>1, <2>1, <2>2, TextStep
<1> QED
  BY <1>2, <1>3, <1>4

-----------------------------------------------------------------------------
(* The start                                                                *)

LEMMA InitDatabaseInv == DatabaseInit => DatabaseInv
<1> SUFFICES ASSUME DatabaseInit PROVE DatabaseInv
  OBVIOUS
<1>1. \A file : \/ file = NoFile
                \/ \E k \in Keys, v \in RowValues : \E owner \in {"none", "them"} :
                     file = File(owner, Formatted(OnlyRow(k, v)))
                => file \in Files /\ HasNoDeleted(file.rows)
  <2> TAKE file
  <2>1. CASE file = NoFile
    <3>1. NoFile \in Files /\ NoFile.rows = NoRows
      BY NoRowsType DEF NoFile, Files, Owners
    <3> QED
      BY <2>1, <3>1 DEF HasNoDeleted, NoRows, IsDeleted
  <2>2. ASSUME NEW k \in Keys, NEW v \in RowValues, NEW owner \in {"none", "them"},
               file = File(owner, Formatted(OnlyRow(k, v)))
        PROVE  file \in Files /\ HasNoDeleted(file.rows)
    <3>1. OnlyRow(k, v) \in Rows
      BY RowTypes, NoRowsType
    <3>2. Formatted(OnlyRow(k, v)) \in Rows /\ HasNoDeleted(Formatted(OnlyRow(k, v)))
      BY <3>1, TextTypes, FormattedHasNoDeleted
    <3>3. owner \in Owners
      BY DEF Owners
    <3> QED
      BY <2>2, <3>2, <3>3, FileTypes
  <2> QED
    BY <2>1, <2>2
<1>2. /\ db_file \in Files /\ HasNoDeleted(db_file.rows)
      /\ snapshot \in Files /\ HasNoDeleted(snapshot.rows)
  BY <1>1 DEF DatabaseInit
<1>3. db_file.rows \in Rows
  BY <1>2 DEF Files
<1>4. TypeInv
  BY <1>2, <1>3, NoRowsType, NoWritesType DEF DatabaseInit, TypeInv, Owners
<1>5. BatchInv
  BY <1>3, OverlaidRows, NoWritesType DEF DatabaseInit, BatchInv
<1>6. TextInv
  BY <1>2 DEF DatabaseInit, TextInv
<1> QED
  BY <1>4, <1>5, <1>6 DEF DatabaseInv

-----------------------------------------------------------------------------
(* Opening and closing                                                      *)

LEMMA OpenLevelSteps ==
  ASSUME DatabaseInv, OpenLevel \/ OpenLevelReadOnly
  PROVE  DatabaseInv'
<1>1. /\ ~IsText /\ db_loaded' = TRUE /\ readonly' \in BOOLEAN
      /\ restored' = FALSE /\ modified' = FALSE
      /\ UNCHANGED << class, snapshot, in_transaction, updates, metadata, records >>
      /\ batch' = NoWrites /\ UNCHANGED << stored, intended >> /\ ~db_loaded
  BY DEF OpenLevel, OpenLevelReadOnly, Opening, Initialized
<1>2. db_file \in Files /\ db_file.rows \in Rows
  BY DEF DatabaseInv, TypeInv, Files
<1>3. db_file' \in Files /\ db_file'.rows = db_file.rows
  <2>1. CASE OpenLevelReadOnly
    BY <1>2, <2>1 DEF OpenLevelReadOnly
  <2>2. CASE OpenLevel
    <3> DEFINE owner == IF db_file.owner = "none" THEN "us" ELSE db_file.owner
    <3>1. owner \in Owners
      BY <1>2 DEF Files, Owners
    <3>2. db_file' = [ db_file EXCEPT !.exists = TRUE, !.owner = owner ]
      BY <2>2 DEF OpenLevel
    <3> HIDE DEF owner
    <3> QED
      BY <1>2, <3>1, <3>2 DEF Files
  <2> QED
    BY <2>1, <2>2
<1>4. TypeInv'
  BY <1>1, <1>2, <1>3, NoWritesType DEF DatabaseInv, TypeInv
<1>5. BatchInv'
  BY <1>1, <1>2, <1>3, OverlaidRows, NoWritesType DEF DatabaseInv, BatchInv, IsText
<1>6. TextInv'
  BY <1>1, <1>3 DEF DatabaseInv, TextInv, HasNoDeleted, IsText, IsTable
<1> QED
  BY <1>4, <1>5, <1>6 DEF DatabaseInv

LEMMA OpenTextSteps ==
  ASSUME DatabaseInv, OpenText \/ OpenTextReadOnly
  PROVE  DatabaseInv'
<1>1. /\ IsText /\ db_loaded' = TRUE /\ readonly' \in BOOLEAN
      /\ restored' = FALSE /\ modified' = FALSE
      /\ UNCHANGED << class, snapshot, in_transaction, updates, db_file, batch, stored, intended >>
      /\ records' = Parsed(db_file.rows)
      /\ metadata' \in { "us", "none", db_file.owner } /\ ~db_loaded
  BY DEF OpenText, OpenTextReadOnly, Opening, LoadText, LoadRows
<1>2. db_file \in Files /\ db_file.rows \in Rows /\ db_file.owner \in Owners
  BY DEF DatabaseInv, TypeInv, Files
<1>3. records' \in Rows /\ metadata' \in Owners
  BY <1>1, <1>2, TextTypes DEF Owners
<1>4. TypeInv'
  BY <1>1, <1>3 DEF DatabaseInv, TypeInv
<1>5. BatchInv'
  BY <1>1 DEF DatabaseInv, BatchInv, IsText
<1>6. TextInv'
  BY <1>1 DEF DatabaseInv, TextInv, HasNoDeleted, IsText, IsTable, Parsed
<1> QED
  BY <1>4, <1>5, <1>6 DEF DatabaseInv

\* Whatever is left on disk, nothing of the database is left in memory.
LEMMA ClearedStep ==
  ASSUME DatabaseInv, Cleared, db_file' \in Files, HasNoDeleted(db_file'.rows),
         ~IsText => db_file' = db_file
  PROVE  DatabaseInv'
<1>1. /\ db_loaded' = FALSE /\ readonly' = FALSE
      /\ metadata' = "none" /\ records' = NoRows /\ modified' = FALSE /\ restored' = FALSE
      /\ in_transaction' = FALSE /\ batch' = NoWrites /\ intended' = stored
      /\ UNCHANGED << class, snapshot, stored, updates >>
  BY DEF Cleared
<1>2. stored \in Rows /\ (~IsText => db_file.rows = stored)
  BY DEF DatabaseInv, TypeInv, BatchInv
<1>3. TypeInv'
  BY <1>1, <1>2, NoRowsType, NoWritesType DEF DatabaseInv, TypeInv, Owners
<1>4. BatchInv'
  BY <1>1, <1>2, OverlaidRows, NoWritesType DEF BatchInv, IsText
<1>5. TextInv'
  BY <1>1 DEF DatabaseInv, TextInv, HasNoDeleted, IsTable
<1> QED
  BY <1>3, <1>4, <1>5 DEF DatabaseInv

LEMMA SavedFile ==
  ASSUME DatabaseInv
  PROVE  /\ SaveToFile \in Files /\ SaveToFile.rows = Formatted(records)
         /\ HasNoDeleted(SaveToFile.rows)
<1>1. metadata \in Owners /\ records \in Rows
  BY DEF DatabaseInv, TypeInv
<1>2. Formatted(records) \in Rows /\ HasNoDeleted(Formatted(records))
  BY <1>1, TextTypes, FormattedHasNoDeleted
<1> QED
  BY <1>1, <1>2, FileTypes DEF SaveToFile

LEMMA CloseSteps ==
  ASSUME DatabaseInv, CloseLevel \/ CloseText
  PROVE  DatabaseInv'
<1>1. Cleared /\ db_file' \in { db_file, SaveToFile } /\ (~IsText => db_file' = db_file)
  BY DEF CloseLevel, CloseText
<1>2. db_file \in Files /\ HasNoDeleted(db_file.rows)
  BY DEF DatabaseInv, TypeInv, TextInv
<1>3. db_file' \in Files /\ HasNoDeleted(db_file'.rows)
  BY <1>1, <1>2, SavedFile
<1> QED
  BY <1>1, <1>3, ClearedStep

\* A part of a text has no deleted words either.
LEMMA CrashStep ==
  ASSUME DatabaseInv, DatabaseCrash
  PROVE  DatabaseInv'
<1>1. Cleared
  BY DEF DatabaseCrash
<1>2. CASE db_file' = db_file
  <2>1. db_file' \in Files /\ HasNoDeleted(db_file'.rows)
    BY <1>2 DEF DatabaseInv, TypeInv, TextInv
  <2> QED
    BY <1>1, <1>2, <2>1, ClearedStep
<1>3. ASSUME NEW kept \in SUBSET Keys, IsText,
             db_file' = [ SaveToFile EXCEPT !.rows = [ k \in Keys |-> IF k \in kept THEN @[k] ELSE NoRow ] ]
      PROVE  DatabaseInv'
  <2> DEFINE part == [ k \in Keys |-> IF k \in kept THEN SaveToFile.rows[k] ELSE NoRow ]
  <2>1. SaveToFile \in Files /\ SaveToFile.rows \in Rows /\ HasNoDeleted(SaveToFile.rows)
    BY SavedFile DEF Files
  <2>2. part \in Rows
    BY <2>1 DEF Rows
  <2>3. HasNoDeleted(part)
    BY <2>1 DEF HasNoDeleted, IsDeleted
  <2>4. db_file' = [ SaveToFile EXCEPT !.rows = part ]
    BY <1>3
  <2> HIDE DEF part
  <2>5. db_file' \in Files /\ db_file'.rows = part
    BY <2>1, <2>2, <2>4 DEF Files
  <2> QED
    BY <1>1, <1>3, <2>3, <2>5, ClearedStep
<1> QED
  BY <1>2, <1>3 DEF DatabaseCrash

LEMMA RemoveStep ==
  ASSUME DatabaseInv, RemoveDb
  PROVE  DatabaseInv'
<1>1. /\ ~db_loaded /\ db_file' = NoFile /\ stored' = NoRows /\ intended' = NoRows
      /\ UNCHANGED << class, snapshot, db_loaded, readonly, metadata, records, modified, restored,
                      in_transaction, batch, updates >>
  BY DEF RemoveDb, memory
<1>2. NoFile \in Files /\ NoFile.rows = NoRows /\ NoRows \in Rows
  BY NoRowsType DEF NoFile, Files, Owners
<1>3. batch = NoWrites
  BY <1>1 DEF DatabaseInv, BatchInv
<1>4. TypeInv'
  BY <1>1, <1>2 DEF DatabaseInv, TypeInv
<1>5. BatchInv'
  BY <1>1, <1>2, <1>3, OverlaidRows, NoWritesType DEF DatabaseInv, BatchInv
<1>6. TextInv'
  BY <1>1, <1>2 DEF DatabaseInv, TextInv, HasNoDeleted, IsTable, IsDeleted, NoRows
<1> QED
  BY <1>4, <1>5, <1>6 DEF DatabaseInv

-----------------------------------------------------------------------------
(* Transactions and snapshots                                               *)

LEMMA TransactionSteps ==
  ASSUME DatabaseInv, BeginTransaction \/ AbortTransaction \/ CommitTransaction
  PROVE  DatabaseInv'
<1>1. /\ db_loaded /\ batch' = NoWrites /\ in_transaction' \in BOOLEAN
      /\ UNCHANGED << class, snapshot, db_loaded, readonly, metadata, records, modified,
                      restored, updates >>
  BY DEF BeginTransaction, AbortTransaction, CommitTransaction, EmptyBatch, memory
<1>2. /\ db_file \in Files /\ db_file.rows \in Rows /\ batch \in Batches
      /\ stored \in Rows /\ intended \in Rows
      /\ ~IsText => db_file.rows = stored /\ Overlaid(stored, batch.rows) = intended
  BY DEF DatabaseInv, TypeInv, BatchInv, Files
<1>3. /\ db_file' \in Files
      /\ stored' \in Rows /\ intended' = stored'
      /\ ~IsText => db_file'.rows = stored'
      /\ IsText => db_file' = db_file
  <2>1. CASE db_file' = db_file /\ stored' = stored /\ intended' = stored
    BY <1>2, <2>1
  <2>2. CASE /\ in_transaction /\ db_file' = CommitBatch(db_file)
             /\ stored' = intended /\ intended' = intended
    <3>1. db_file' \in Files /\ db_file'.rows = Overlaid(db_file.rows, batch.rows)
      BY <1>2, <2>2, WrittenFile DEF CommitBatch
    <3>2. ~IsText
      BY <2>2 DEF DatabaseInv, BatchInv
    <3> QED
      BY <1>2, <2>2, <3>1, <3>2
  <2> QED
    BY <2>1, <2>2 DEF BeginTransaction, AbortTransaction, CommitTransaction
<1>4. TypeInv'
  BY <1>1, <1>3, NoWritesType DEF DatabaseInv, TypeInv
<1>5. BatchInv'
  <2>1. db_file'.rows \in Rows
    BY <1>3 DEF Files
  <2>2. in_transaction' => ~IsText
    BY DEF BeginTransaction, AbortTransaction, CommitTransaction, DatabaseInv, BatchInv
  <2> QED
    BY <1>1, <1>3, <2>1, <2>2, OverlaidRows, NoWritesType DEF BatchInv, IsText
<1>6. TextInv'
  <2>1. CASE IsText
    <3>1. db_file' = db_file
      BY <1>3, <2>1
    <3> QED
      BY <1>1, <3>1 DEF DatabaseInv, TextInv, HasNoDeleted, IsText, IsTable, Parsed
  <2>2. CASE ~IsText
    <3>1. ~IsText' /\ ~IsTable'
      BY <1>1, <2>2 DEF IsText, IsTable
    <3> QED
      BY <3>1 DEF TextInv, HasNoDeleted
  <2> QED
    BY <2>1, <2>2
<1> QED
  BY <1>4, <1>5, <1>6 DEF DatabaseInv

\* A snapshot of a table has no deleted words.
LEMMA BackupSteps ==
  ASSUME DatabaseInv, BackupLevel \/ BackupText
  PROVE  DatabaseInv'
<1>1. UNCHANGED << class, db_file, db_loaded, readonly, metadata, records, modified, restored,
                   in_transaction, batch, stored, intended, updates >>
  BY DEF BackupLevel, BackupText, BackupKeeps, memory, transactions
<1>2. /\ db_file \in Files /\ db_file.rows \in Rows /\ db_file.owner \in Owners
      /\ metadata \in Owners /\ records \in Rows /\ HasNoDeleted(db_file.rows)
  BY DEF DatabaseInv, TypeInv, TextInv, Files
<1>3. snapshot' \in Files /\ HasNoDeleted(snapshot'.rows)
  <2>1. CASE BackupLevel
    <3>1. snapshot' = File(db_file.owner, db_file.rows)
      BY <2>1 DEF BackupLevel, LevelContents
    <3> QED
      BY <1>2, <3>1, FileTypes
  <2>2. CASE BackupText
    <3>1. snapshot' = File(metadata, Formatted(records))
      BY <2>2 DEF BackupText, TextContents
    <3>2. Formatted(records) \in Rows /\ HasNoDeleted(Formatted(records))
      BY <1>2, TextTypes, FormattedHasNoDeleted
    <3> QED
      BY <1>2, <3>1, <3>2, FileTypes
  <2> QED
    BY <2>1, <2>2
<1>4. TypeInv'
  BY <1>1, <1>3 DEF DatabaseInv, TypeInv
<1>5. BatchInv'
  BY <1>1 DEF DatabaseInv, BatchInv, IsText
<1>6. TextInv'
  BY <1>1, <1>3 DEF DatabaseInv, TextInv, HasNoDeleted, IsText, IsTable, Parsed
<1> QED
  BY <1>4, <1>5, <1>6 DEF DatabaseInv

-----------------------------------------------------------------------------
(* The theorems                                                             *)

LEMMA NextDatabaseInv == DatabaseInv /\ [DatabaseNext]_databaseVars => DatabaseInv'
<1> SUFFICES ASSUME DatabaseInv, [DatabaseNext]_databaseVars PROVE DatabaseInv'
  OBVIOUS
<1>1. CASE UNCHANGED databaseVars
  <2>1. UNCHANGED << class, db_file, snapshot, db_loaded, readonly, metadata, records, modified,
                     restored, in_transaction, batch, stored, intended, updates >>
    BY <1>1 DEF databaseVars, memory, transactions
  <2>2. TypeInv' /\ BatchInv' /\ TextInv'
    BY <2>1 DEF DatabaseInv, TypeInv, BatchInv, TextInv, HasNoDeleted, IsText, IsTable, Parsed
  <2> QED
    BY <2>2 DEF DatabaseInv
<1>2. CASE Open \/ OpenReadOnly
  <2>1. CASE OpenFails
    BY <1>1, <2>1 DEF OpenFails
  <2> QED
    BY <1>2, <2>1, OpenLevelSteps, OpenTextSteps DEF Open, OpenReadOnly, OpenStable
<1>3. CASE Close \/ DatabaseCrash \/ RemoveDb
  BY <1>3, CloseSteps, CrashStep, RemoveStep DEF Close
<1>4. CASE \/ \E k \in Keys, v \in RowValues : UpdateLevel(k, v) \/ UpdateText(k, v)
           \/ \E k \in Keys : EraseLevel(k) \/ EraseText(k)
           \/ MetaUpdateLevel("us") \/ MetaUpdateText("us")
           \/ RestoreLevel \/ UniformRestoreText \/ RestoreText
  BY <1>4, LevelUpdates, TextUpdates
<1>5. CASE \/ BeginTransaction \/ AbortTransaction \/ CommitTransaction
           \/ BackupLevel \/ BackupText
  BY <1>5, TransactionSteps, BackupSteps
<1> QED
  BY <1>1, <1>2, <1>3, <1>4, <1>5 DEF DatabaseNext

LEMMA DatabaseInvariant == DatabaseSpec => []DatabaseInv
BY InitDatabaseInv, NextDatabaseInv, PTL DEF DatabaseSpec

\* LevelDB has all of the updates of a transaction, from when it has been committed, or
\* none of them, whatever is written, committed, aborted, restored or lost
\* (LevelDb::Update, CommitTransaction).
THEOREM TransactionsAtomic == DatabaseSpec => []TransactionsAreAtomic
<1>1. DatabaseInv => TransactionsAreAtomic
  BY DEF DatabaseInv, BatchInv, TransactionsAreAtomic
<1> QED
  BY <1>1, DatabaseInvariant, PTL

\* A text file has, when it is opened, the lasting records that the database had
\* when it was closed, whether or not it was written then: what has not been
\* modified is on disk already (TextDb::Close, LoadFromFile).
THEOREM ClosedAsOpened == DatabaseSpec => OpensAsClosed
<1> DEFINE Kept(k) ==
             LET row == Parsed(db_file'.rows)[k]
             IN  /\ row # NoRow <=> IsLasting(k)
                 /\ IsLasting(k) => row.commits = records[k].commits
<1>1. ASSUME DatabaseInv, CloseText, restored => modified
      PROVE  \A k \in Keys : Kept(k)
  <2>1. /\ class' = class /\ IsText /\ db_loaded /\ records \in Rows /\ db_file.rows \in Rows
        /\ HasNoDeleted(db_file.rows)
    BY <1>1 DEF DatabaseInv, TypeInv, TextInv, CloseText, Cleared, Files
  <2>2. \A rows \in Rows, k \in Keys :
          rows[k] # NoRow => /\ rows[k] \in DbRecord /\ TableRecord(rows[k]) # NoRow
                             /\ TableRecord(rows[k]).commits = rows[k].commits
                             /\ rows[k].commits \in Int
    <3>1. \A row \in DbRecord : /\ TableRecord(row) \in DbRecord
                                /\ TableRecord(row).commits = row.commits /\ row.commits \in Int
      BY DEF DbRecord, TableRecord
    <3>2. \A rows \in Rows, k \in Keys : rows[k] # NoRow => rows[k] \in DbRecord
      BY DEF Rows
    <3> HIDE DEF DbRecord
    <3> QED
      BY <3>1, <3>2, DatabasesAssumption
  <2>3. TAKE k \in Keys
  <2>4. CASE modified
    <3>1. db_file'.rows = Formatted(records)
      BY <1>1, <2>4, SavedFile DEF CloseText
    <3>2. CASE IsTable
      <4>1. Formatted(records)[k] = IF IsDeleted(records[k]) THEN NoRow ELSE records[k]
        BY <3>2 DEF Formatted
      <4>2. Parsed(db_file'.rows)[k] =
              IF k \in Commented \/ Formatted(records)[k] = NoRow
              THEN NoRow ELSE TableRecord(Formatted(records)[k])
        BY <3>1, <3>2 DEF Parsed
      <4> QED
        BY <2>1, <2>2, <3>2, <4>1, <4>2 DEF IsLasting, IsDeleted
    <3>3. CASE ~IsTable
      <4>1. Parsed(db_file'.rows)[k] = records[k]
        BY <3>1, <3>3 DEF Parsed, Formatted
      <4> QED
        BY <3>3, <4>1 DEF IsLasting
    <3> QED
      BY <3>2, <3>3
  <2>5. CASE ~modified
    <3>1. db_file' = db_file /\ records = Parsed(db_file.rows)
      BY <1>1, <2>1, <2>5 DEF CloseText, DatabaseInv, TextInv
    <3>2. Parsed(db_file'.rows)[k] = records[k]
      BY <3>1
    <3>3. IsTable /\ records[k] # NoRow => /\ k \notin Commented
                                           /\ records[k].commits >= 0
      <4> SUFFICES ASSUME IsTable, records[k] # NoRow
                   PROVE  k \notin Commented /\ records[k].commits >= 0
        OBVIOUS
      <4>1. records[k] = IF k \in Commented \/ db_file.rows[k] = NoRow
                         THEN NoRow ELSE TableRecord(db_file.rows[k])
        BY <3>1 DEF Parsed
      <4>2. /\ k \notin Commented /\ db_file.rows[k] # NoRow
            /\ records[k] = TableRecord(db_file.rows[k])
        BY <4>1
      <4>3. ~IsDeleted(db_file.rows[k])
        BY <2>1 DEF HasNoDeleted
      <4> QED
        BY <2>1, <2>2, <4>2, <4>3 DEF IsDeleted
    <3> QED
      BY <3>2, <3>3 DEF IsLasting
  <2> QED
    BY <2>4, <2>5
<1>2. DatabaseInv => [CloseText /\ (restored => modified)
                      => \A k \in Keys : Kept(k)]_databaseVars
  BY <1>1
<1> QED
  BY <1>2, DatabaseInvariant, PTL DEF OpensAsClosed
=============================================================================
