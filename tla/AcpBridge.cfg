CONSTANTS
  NLines = 2
  NWords = 2
  Vals = {0, 1}
  MaxLen = 2
  Duplex = FALSE
  Cores = {0}
  None = None
SPECIFICATION Spec
INVARIANTS ReadsOwnWord WritesOwnLine
PROPERTY BurstsEnd
