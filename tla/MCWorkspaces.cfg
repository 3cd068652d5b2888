CONSTANTS
  dir = dir  x = x  y = y  a = a  b = b
  Procs = {p, q}
  Names = {a, b}
  Local = {a}
  Dirs = {dir}
  NumPaths = 2
  Versions = {x, y}
  Edits <- MCEdits
  Upstream <- MCUpstream
  Targets <- MCTargets
  None = None
  Absent = Absent
  MaxOps = 2
  MaxFaults = 1
SPECIFICATION Spec
SYMMETRY Symmetric
INVARIANTS
  TypeOK
  NoEditLost
PROPERTY SwitchDelivers
CHECK_DEADLOCK FALSE
