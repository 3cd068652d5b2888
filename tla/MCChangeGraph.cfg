CONSTANTS
  Changes = {c1, c2}
  Commits = {a, b, c}
  None = None
  MaxRevisions = 2
  MaxRebases = 3
SPECIFICATION Spec
INVARIANTS
  TypeOK
  SupersessionWellFormed
  JointlyQueryable
PROPERTIES
  PublicTipIsFinal
SYMMETRY Symmetry
CHECK_DEADLOCK FALSE
