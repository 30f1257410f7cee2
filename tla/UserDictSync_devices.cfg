CONSTANTS
  d1 = d1
  d2 = d2
  w1 = w1
  Devices = {d1, d2}
  Words <- MCWords
  Before <- MCBefore
  MaxBefore = 2
  Imports = {1}
  MaxEdits = 1
  MaxMishaps = 1

SPECIFICATION Spec

INVARIANTS
  NoCommitCountsTwice

PROPERTIES
  MergeTakesNothingAway
  Converges
