------------------------------ MODULE Databases ------------------------------
(***************************************************************************)
(* A database of words: a user dictionary in LevelDB (level_db.cc, class   *)
(* "userdb"), or a text file that is read into memory when it is opened    *)
(* and written when it is closed (text_db.cc): a "plain_userdb", a         *)
(* "tabledb", or a "stabledb" that is never written (table_db.cc).         *)
(* Snapshots of all of them are text files (tsv.cc, db_utils.cc).          *)
(*                                                                         *)
(* A record has a key, which is a code and a word, and a value, of which   *)
(* the commits (negative: the word is deleted) and the tick are kept; of   *)
(* the metadata, whose database it is.  LevelDB itself is not part of the  *)
(* program: it writes a batch as a whole or not at all, and of two writes  *)
(* for a key in a batch the later one counts.                              *)
(***************************************************************************)
EXTENDS Integers

CONSTANTS
  Keys,
  Commented,           \* the keys whose word begins with "#"
  RowValues,           \* what is written as a value
  NoRow,               \* a key has no record
  Untouched,           \* a batch has nothing for a key
  MaxUpdates           \* bound of the model: calls that change records

DbRecord == [ commits : Int, tick : Nat ]

ASSUME DatabasesAssumption ==
  /\ Commented \subseteq Keys
  /\ RowValues \subseteq DbRecord
  /\ NoRow \notin DbRecord
  /\ Untouched \notin DbRecord \cup {NoRow, "none", "us", "them"}
  /\ MaxUpdates \in Nat

VARIABLES
  class,               \* the class of the database
  db_file,                \* Db::file_path_, on disk
  snapshot,            \* a file that the database is backed up to or restored from
  db_loaded, readonly,    \* Db::loaded_, readonly_
  metadata, records,   \* TextDb::metadata_, data_
  modified,            \* TextDb::modified_
  in_transaction,      \* Transactional::in_transaction_
  batch,               \* LevelDbWrapper::batch
  stored,              \* history: what plain updates and committed transactions have
                       \* given LevelDB
  intended,            \* history: and the updates of the transaction
  restored,            \* history: TextDb::Restore has replaced the records
  updates

memory       == << db_loaded, readonly, metadata, records, modified, restored >>
transactions == << in_transaction, batch, stored, intended >>
databaseVars == << class, db_file, snapshot, memory, transactions, updates >>

Rows   == [ Keys -> DbRecord \cup {NoRow} ]
Owners == {"none", "us", "them"}

NoRows == [ k \in Keys |-> NoRow ]
NoFile == [ exists |-> FALSE, owner |-> "none", rows |-> NoRows ]
File(owner, rows) == [ exists |-> TRUE, owner |-> owner, rows |-> rows ]

IsText  == class # "userdb"
IsTable == class \in {"tabledb", "stabledb"}

PutRow(rows, key, value) == [ rows EXCEPT ![key] = value ]
DeleteRow(rows, key)     == [ rows EXCEPT ![key] = NoRow ]
OnlyRow(key, value)      == PutRow(NoRows, key, value)

\* A table has the commits of a word alone, and no deleted words; the other files
\* have the text of every value.
IsDeleted(row)   == row # NoRow /\ row.commits < 0
TableRecord(row) == [ commits |-> row.commits, tick |-> 0 ]

\* TsvWriter
Formatted(rows) ==
  IF IsTable THEN [ k \in Keys |-> IF IsDeleted(rows[k]) THEN NoRow ELSE rows[k] ] ELSE rows

\* TsvReader: rows of a table that begin with the character of a comment are
\* skipped.
Parsed(rows) ==
  IF IsTable
  THEN [ k \in Keys |-> IF k \in Commented \/ rows[k] = NoRow THEN NoRow ELSE TableRecord(rows[k]) ]
  ELSE rows

\* A batch without writes.
NoWrites == [ owner |-> Untouched, rows |-> [ k \in Keys |-> Untouched ] ]

\* A missing file is read as one without rows.
LoadRows(from, before) ==
  /\ records' = Parsed(from.rows)
  /\ metadata' = IF from.owner = "none" THEN before ELSE from.owner

SaveToFile == File(metadata, Formatted(records))

DatabaseInit ==
  /\ class \in {"userdb", "plain_userdb", "tabledb", "stabledb"}
  /\ \/ db_file = NoFile
     \/ \E k \in Keys, v \in RowValues : db_file = File("none", Formatted(OnlyRow(k, v)))
  /\ \/ snapshot = NoFile
     \/ \E k \in Keys, v \in RowValues : snapshot = File("them", Formatted(OnlyRow(k, v)))
  /\ db_loaded = FALSE /\ readonly = FALSE
  /\ metadata = "none" /\ records = NoRows /\ modified = FALSE
  /\ in_transaction = FALSE /\ batch = NoWrites
  /\ stored = IF IsText THEN NoRows ELSE db_file.rows
  /\ intended = stored /\ restored = FALSE
  /\ updates = 0
-----------------------------------------------------------------------------
(* Updates.  A batch is not looked into by those who read. *)

Putting(key, value) == [ owner |-> Untouched,
                         rows  |-> [ k \in Keys |-> IF k = key THEN value ELSE Untouched ] ]
Erasing(key)        == Putting(key, NoRow)
Naming(owner)       == [ owner |-> owner, rows |-> [ k \in Keys |-> Untouched ] ]

Over(new, old) == IF new = Untouched THEN old ELSE new

Overlaid(old, new) == [ k \in Keys |-> Over(new[k], old[k]) ]

\* A file, or a batch, with some more writes.
Written(old, writes) ==
  [ old EXCEPT !.owner = Over(writes.owner, @), !.rows = Overlaid(@, writes.rows) ]

CommitBatch(old) == Written(old, batch)

\* The histories follow the calls, and not what is written.
Asked(writes) ==
  /\ intended' = Overlaid(intended, writes.rows)
  /\ stored' = IF in_transaction THEN stored ELSE intended'

\* Mutant of WriteLevel: an update is written at once in a transaction, too.
WriteThrough(writes) ==
  /\ db_file' = Written(db_file, writes) /\ UNCHANGED batch
  /\ Asked(writes)
  /\ UNCHANGED << in_transaction, memory >>

WriteLevel(writes) ==
  /\ IF in_transaction
       THEN batch' = Written(batch, writes) /\ UNCHANGED db_file
       ELSE db_file' = Written(db_file, writes) /\ UNCHANGED batch
  /\ Asked(writes)
  /\ UNCHANGED << in_transaction, memory >>

Modified ==
  /\ modified' = TRUE
  /\ UNCHANGED << db_file, db_loaded, readonly, restored, transactions >>

Writable ==
  /\ db_loaded /\ ~readonly
  /\ updates < MaxUpdates
  /\ updates' = updates + 1
  /\ UNCHANGED << class, snapshot >>

UpdateLevel(key, value) == ~IsText /\ Writable /\ WriteLevel(Putting(key, value))
EraseLevel(key)         == ~IsText /\ Writable /\ WriteLevel(Erasing(key))

UpdateText(key, value) ==
  /\ IsText /\ Writable
  /\ records' = PutRow(records, key, value)
  /\ Modified /\ UNCHANGED metadata

\* Mutant of EraseText: an erased record does not count as a modification.
EraseUnmarked(key) ==
  /\ IsText /\ Writable
  /\ records[key] # NoRow
  /\ records' = DeleteRow(records, key)
  /\ UNCHANGED << db_file, db_loaded, readonly, metadata, modified, restored, transactions >>

\* A text database knows what it does not have.
EraseText(key) ==
  /\ IsText /\ Writable
  /\ records[key] # NoRow
  /\ records' = DeleteRow(records, key)
  /\ Modified /\ UNCHANGED metadata

MetaUpdateLevel(owner) == ~IsText /\ Writable /\ WriteLevel(Naming(owner))

MetaUpdateText(owner) ==
  /\ IsText /\ Writable
  /\ metadata' = owner
  /\ UNCHANGED records /\ Modified
-----------------------------------------------------------------------------
(* Opening and closing *)

Opening(read_only) ==
  /\ ~db_loaded
  /\ db_loaded' = TRUE /\ readonly' = read_only
  /\ restored' = FALSE /\ modified' = FALSE
  /\ UNCHANGED << class, snapshot, in_transaction, updates >>

Initialized ==
  /\ batch' = NoWrites
  /\ UNCHANGED << metadata, records, stored, intended >>

\* Metadata is created in a database that has none.
OpenLevel ==
  /\ ~IsText
  /\ Opening(FALSE) /\ Initialized
  /\ db_file' = [ db_file EXCEPT !.exists = TRUE, !.owner = IF @ = "none" THEN "us" ELSE @ ]

OpenLevelReadOnly ==
  /\ ~IsText /\ db_file.exists
  /\ Opening(TRUE) /\ Initialized
  /\ UNCHANGED db_file

LoadText(created) ==
  /\ LoadRows(db_file, created)
  /\ UNCHANGED << db_file, batch, stored, intended >>

\* New metadata does not count as a modification.
OpenText ==
  /\ IsText /\ class # "stabledb"
  /\ Opening(FALSE) /\ LoadText("us")

OpenTextReadOnly ==
  /\ IsText /\ db_file.exists
  /\ Opening(TRUE) /\ LoadText("none")

OpenStable == class = "stabledb" /\ OpenTextReadOnly

\* LevelDB may be in use elsewhere, and the file of a database that is not to be
\* created may be missing.
OpenFails ==
  /\ ~db_loaded
  /\ ~IsText \/ ~db_file.exists
  /\ UNCHANGED databaseVars

Open         == OpenLevel \/ OpenText \/ OpenStable \/ OpenFails
OpenReadOnly == OpenLevelReadOnly \/ OpenTextReadOnly

Cleared ==
  /\ db_loaded' = FALSE /\ readonly' = FALSE
  /\ metadata' = "none" /\ records' = NoRows /\ modified' = FALSE
  /\ restored' = FALSE
  /\ in_transaction' = FALSE /\ batch' = NoWrites
  /\ intended' = stored
  /\ UNCHANGED << class, snapshot, stored, updates >>

\* The batch of a transaction that has not been committed is left behind.
CloseLevel == ~IsText /\ db_loaded /\ UNCHANGED db_file /\ Cleared

CloseText ==
  /\ IsText /\ db_loaded
  /\ db_file' = IF modified THEN SaveToFile ELSE db_file
  /\ Cleared

Close == CloseLevel \/ CloseText

\* The process ends, perhaps while a text file is being written from its start.  A file
\* that cannot be written to its end is left the same way: TsvWriter does not look at
\* its stream, and Close takes it for saved.
DatabaseCrash ==
  /\ db_loaded
  /\ \/ UNCHANGED db_file
     \/ /\ IsText /\ modified
        /\ \E kept \in SUBSET Keys :
             db_file' = [ SaveToFile EXCEPT !.rows = [ k \in Keys |-> IF k \in kept THEN @[k] ELSE NoRow ] ]
  /\ Cleared

RemoveDb ==
  /\ ~db_loaded /\ db_file.exists
  /\ db_file' = NoFile
  /\ stored' = NoRows /\ intended' = NoRows
  /\ UNCHANGED << class, snapshot, memory, in_transaction, batch, updates >>
-----------------------------------------------------------------------------
(* Transactions *)

EmptyBatch ==
  /\ batch' = NoWrites
  /\ UNCHANGED << class, snapshot, memory, updates >>

\* What was in a batch before is cleared.
BeginTransaction ==
  /\ ~IsText /\ db_loaded
  /\ EmptyBatch
  /\ in_transaction' = TRUE
  /\ intended' = stored /\ UNCHANGED << db_file, stored >>

AbortTransaction ==
  /\ db_loaded /\ in_transaction
  /\ EmptyBatch
  /\ in_transaction' = FALSE
  /\ intended' = stored /\ UNCHANGED << db_file, stored >>

\* The batch is cleared although LevelDB may have failed to write it.
CommitTransaction ==
  /\ db_loaded /\ in_transaction
  /\ EmptyBatch
  /\ in_transaction' = FALSE
  /\ \/ db_file' = CommitBatch(db_file) /\ stored' = intended /\ UNCHANGED intended
     \/ intended' = stored /\ UNCHANGED << db_file, stored >>
-----------------------------------------------------------------------------
(* Snapshots *)

LevelContents == File(db_file.owner, db_file.rows)
TextContents  == File(metadata, Formatted(records))

BackupKeeps == << class, db_file, memory, transactions, updates >>

BackupLevel == ~IsText /\ db_loaded /\ snapshot' = LevelContents /\ UNCHANGED BackupKeeps
BackupText  == IsText /\ db_loaded /\ snapshot' = TextContents /\ UNCHANGED BackupKeeps

\* The metadata and the rows of a file.
SnapshotWrites ==
  [ owner |-> IF snapshot.owner = "none" THEN Untouched ELSE snapshot.owner,
    rows  |-> [ k \in Keys |-> IF snapshot.rows[k] = NoRow THEN Untouched ELSE snapshot.rows[k] ] ]

\* A file with the name of a snapshot of user dictionaries is put into the
\* database row by row, on top of what it has.
RestoreLevel == ~IsText /\ Writable /\ WriteLevel(SnapshotWrites)

UniformRestoreText ==
  /\ class = "plain_userdb" /\ Writable
  /\ records' = Overlaid(records, SnapshotWrites.rows)
  /\ metadata' = Over(SnapshotWrites.owner, metadata)
  /\ IF SnapshotWrites # NoWrites THEN Modified
     ELSE UNCHANGED << db_file, db_loaded, readonly, modified, restored, transactions >>

\* Another file takes the place of all records, which then count as unmodified.
RestoreText ==
  /\ IsText /\ Writable
  /\ LoadRows(snapshot, "none")
  /\ modified' = FALSE /\ restored' = TRUE
  /\ UNCHANGED << db_file, db_loaded, readonly, transactions >>

DatabaseNext ==
  \/ Open
  \/ OpenReadOnly
  \/ Close
  \/ DatabaseCrash
  \/ RemoveDb
  \/ \E k \in Keys, v \in RowValues : UpdateLevel(k, v) \/ UpdateText(k, v)
  \/ \E k \in Keys : EraseLevel(k) \/ EraseText(k)
  \/ MetaUpdateLevel("us") \/ MetaUpdateText("us")
  \/ BeginTransaction
  \/ AbortTransaction
  \/ CommitTransaction
  \/ BackupLevel \/ BackupText
  \/ RestoreLevel \/ UniformRestoreText \/ RestoreText

DatabaseSpec == DatabaseInit /\ [][DatabaseNext]_databaseVars
-----------------------------------------------------------------------------
\* LevelDB has every update that was made outside of a transaction, and of each
\* transaction all updates, from when it has been committed, or none: nothing of one
\* that is still open, was aborted, failed to be written, or was dropped by the next
\* one, by closing or by a crash; of two updates for a key it has the later
\* (LevelDb::Update, Erase, BeginTransaction, CommitTransaction, Close).
TransactionsAreAtomic == ~IsText => db_file.rows = stored

\* What a database has when it is closed, it has when it is opened again, but for
\* deleted words of a table, words that would be read as comments, and what
\* TextDb::Restore has left unmodified: however it has been written, restored and
\* reopened before, no record is taken for saved that is not (TextDb::Close, Open).
IsLasting(key) ==
  /\ records[key] # NoRow
  /\ IsTable => key \notin Commented /\ records[key].commits >= 0
OpensAsClosed ==
  [][CloseText /\ (restored => modified)
     => \A k \in Keys :
          LET row == Parsed(db_file'.rows)[k]
          IN  /\ row # NoRow <=> IsLasting(k)
              /\ IsLasting(k) => row.commits = records[k].commits]_databaseVars
=============================================================================
