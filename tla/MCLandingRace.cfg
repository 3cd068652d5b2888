CONSTANTS
  a = a  b = b  s = s  t = t  f = f  g = g  v = v  w = w
  Procs = {p1, p2}
  Names <- MCNames
  Remote = {}
  Queues = {trunk}
  Strict = {}
  Approving = {trunk}
  Validating = {}
  Subs = {s, t}
  SubChanges <- MCSubChanges
  Batches <- Alone
  Paths = {f, g}
  Versions = {v, w}
  Writes <- Apart
  FailsToBuild <- MCFailsToBuild
  None = None
  NoText = NoText
  Commands = {"land"}
  MaxOps = 6
SPECIFICATION Spec
PROPERTY RacingLandingsKeepOthersWork
CHECK_DEADLOCK FALSE
