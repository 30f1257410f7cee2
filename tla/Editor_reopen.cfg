CONSTANTS
  NoMenu = NoMenu
  a = a
  b = b
  p = p
  q = q
  r = r
  Chars <- MCChars
  Alphabet <- MCAlphabet
  Delimiters = {}
  Initials <- MCInitials
  Finals = {}
  Puncts <- MCPuncts
  PunctKind <- MCList
  Segmentors <- MCSegmentors
  MaxCandidates = 1
  MaxInput = 3
  Handlers = {"speller", "punctuator", "selector", "editor"}

SPECIFICATION Spec

PROPERTIES
  ReopensUnedited
