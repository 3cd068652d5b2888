CONSTANTS
  x = x  y = y  z = z
  Refused = Refused
  Error = Error
  Kinds = {"documents", "files", "query", "graph", "stack", "pack", "git", "encoded"}
  Lines = {x, y, z}
  MaxLen = 3
  Bases <- MCBases
  NewLines <- MCNewLines
  MaxEdits = 3
  Words = {"a", "b", "cafe", "landed", "heads", "q"}
  IdWords <- MCIdWords
  Context <- MCContext
  MaxTokens = 6
  MaxOccurrences = 3
  MaxOps = 4
  Bodies <- MCBodies
  Bytes = {0, 1}
  MaxEntries = 3
  MAX_DELTA_DEPTH = 1
  Objects <- MCObjects
  Oids <- MCOids
  Names <- MCNames
  Branches = {"c1", "c3", "c4", "c5", "c6", "g1"}
  MaxDirEdits = 4
  NameOrder <- MCNameOrder
  HexOids = {"h1", "h2"}
  OID_LEN = 2
  MAX_PAYLOAD = 2
  MaxBytes = 9
  MaxParts = 4
SPECIFICATION Spec
SYMMETRY Symmetric
INVARIANTS
  OrdersAgree
  AdmissionsVerify
  CleanMergeIsCommutation
  KernelTrustsNobody
  ConflictsRide
  EditsSurvive
  QueriesMeanWhatTheySay
  IdentityFollowsJoins
  StackKeepsItsChanges
  PackReadersTell
  ImportTakesTheReachable
  ExportsRoundTrip
  CodecsAgree
CHECK_DEADLOCK FALSE
