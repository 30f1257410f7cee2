CONSTANTS
  NoDb = NoDb
  s1 = s1
  s2 = s2
  db1 = db1
  Sessions <- MCSessions
  Dbs <- MCDbs
  MaxPending = 4

SPECIFICATION Spec

PROPERTIES
  NothingLeftToDo
