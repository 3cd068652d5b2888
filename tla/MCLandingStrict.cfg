CONSTANTS
  a = a  b = b  s = s  t = t  f = f  g = g  v = v  w = w
  Procs = {p1, p2}
  Names <- MCNames
  Remote = {b}
  Queues = {trunk}
  Strict = {trunk}
  Approving = {trunk}
  Validating = {trunk}
  Subs = {s, t}
  SubChanges <- MCSubChanges
  Batches <- Nested
  Paths = {f, g}
  Versions = {v, w}
  Writes <- Clashing
  FailsToBuild <- MCFailsToBuild
  None = None
  NoText = NoText
  Commands = {"land", "push", "reconcile", "undo"}
  MaxOps = 4
SPECIFICATION Spec
SYMMETRY Symmetry
INVARIANTS
  StrictStaysClean
  PublicPassedValidation
CHECK_DEADLOCK FALSE
