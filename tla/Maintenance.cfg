CONSTANTS
  NoDb = NoDb
  s1 = s1
  s2 = s2
  db1 = db1
  Sessions <- MCSessions
  Dbs <- MCDbs
  MaxPending = 4

  word = word
  hash = hash
  Keys = {word, hash}
  Commented = {hash}
  RowValues <- MCRowValues
  NoRow = NoRow
  Untouched = Untouched
  MaxUpdates = 3

  Dictionaries <- MCDictionaries
  CodeLetters <- MCCodeLetters
  kEncoderDfsLimit = 4
  kMaxPhraseLength = 4

SPECIFICATION MaintenanceSpec

INVARIANTS
  RecoveryIsSafe
  QuietAfterFinalize
  TransactionsAreAtomic
  TakesLettersForward

PROPERTIES
  RunsTasksInOrder
  DictionaryComesBack
  LateTasksRun
  CallReturns
  OpensAsClosed
  EncodesEveryReading

CHECK_DEADLOCK FALSE
