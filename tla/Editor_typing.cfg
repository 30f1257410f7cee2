CONSTANTS
  NoMenu = NoMenu
  a = a
  b = b
  p = p
  q = q
  r = r
  Chars <- MCChars
  Alphabet <- MCInitials
  Delimiters <- MCPuncts
  Initials <- MCInitials
  Finals = {}
  Puncts = {}
  PunctKind <- MCNone
  Segmentors <- MCSegmentors
  MaxCandidates = 2
  MaxInput = 3
  Handlers = {"speller", "selector", "paging", "editor"}

SPECIFICATION Spec

INVARIANTS
  MenuFresh
  PagingFindsSegment
