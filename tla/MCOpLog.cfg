CONSTANTS
  Refs = {c1, main}
  Changes = {c1}
  Commits = {empty, a}
  EmptyTree = empty
  None = None
  MaxOps = 5
SPECIFICATION Spec
INVARIANTS
  TypeOK
  UndoIsInverse
  RecordsBefore
PROPERTY HistoryIsStable
CHECK_DEADLOCK FALSE
