CONSTANTS
  NoMenu = NoMenu
  a = a
  b = b
  p = p
  q = q
  r = r
  Chars <- MCAllChars
  Alphabet <- MCAlphabet
  Delimiters = {}
  Initials <- MCInitials
  Finals = {}
  Puncts <- MCAllPuncts
  PunctKind <- MCAllKinds
  Segmentors <- MCNoFallback
  MaxCandidates = 1
  MaxInput = 2
  Handlers = {"punctuator", "direct_commit", "api", "options"}

SPECIFICATION Spec

PROPERTIES
  CallReturns
