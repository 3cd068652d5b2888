CONSTANTS
  a = a  b = b  s = s  t = t  f = f  g = g  v = v  w = w
  Procs = {p1, p2}
  Names <- MCNames
  Remote = {b}
  Queues = {trunk}
  Strict = {}
  Approving = {trunk}
  Validating = {}
  Subs = {s, t}
  SubChanges <- MCSubChanges
  Batches <- Nested
  Paths = {f, g}
  Versions = {v, w}
  Writes <- Clashing
  FailsToBuild <- MCFailsToBuild
  None = None
  NoText = NoText
  Commands = {"land", "push", "undo"}
  MaxOps = 6
SPECIFICATION Spec
SYMMETRY Symmetry
INVARIANT TrunkIsLanded
PROPERTY ExactlyOwnEditsLand
CHECK_DEADLOCK FALSE
