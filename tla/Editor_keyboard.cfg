CONSTANTS
  NoMenu = NoMenu
  a = a
  b = b
  p = p
  q = q
  r = r
  Chars <- MCAlphabet
  Alphabet <- MCAlphabet
  Delimiters = {}
  Initials <- MCInitials
  Finals = {}
  Puncts = {}
  PunctKind <- MCNone
  Segmentors <- MCSegmentors
  MaxCandidates = 1
  MaxInput = 3
  Handlers = {"speller", "add_to_input", "selector", "navigator", "editor"}

SPECIFICATION Spec

INVARIANTS
  SegmentsTile
  UpToDate
  OneSegmentPastCaret

PROPERTIES
  SelectionSurvives
