CONSTANTS
  x = x  y = y  z = z
  Refused = Refused
  Error = Error
  Kinds = {"files"}
  Lines = {x, y, z}
  MaxLen = 3
  Bases <- MCPlainBases
  NewLines <- MCNewLines
  MaxEdits = 3
  Words = {"a", "b", "cafe", "landed", "heads", "q"}
  IdWords <- MCIdWords
  Context <- MCContext
  MaxTokens = 6
  MaxOccurrences = 3
  MaxOps = 4
  Bodies <- MCBodies
  Bytes = {0, 1}
  MaxEntries = 3
  MAX_DELTA_DEPTH = 1
  Objects <- MCObjects
  Oids <- MCOids
  Names <- MCNames
  Branches = {"c1", "c3", "c4", "c5", "c6", "g1"}
  MaxDirEdits = 4
  NameOrder <- MCNameOrder
  HexOids = {"h1", "h2"}
  OID_LEN = 2
  MAX_PAYLOAD = 2
  MaxBytes = 9
  MaxParts = 4
SPECIFICATION Spec
SYMMETRY Symmetric
INVARIANT TriviaConserved
CHECK_DEADLOCK FALSE
