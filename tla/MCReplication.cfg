CONSTANTS
  r1 = r1  r2 = r2  t = t  x = x
  Procs = {p, q}
  Objects = {r1, r2, t, x}
  Entries <- MCEntries
  Roots = {r1, r2}
  Changes = {c}
  Here = Here
  There = There
  None = None
  MaxMoves = 5
  MaxFaults = 2
SPECIFICATION Spec
INVARIANTS
  TypeOK
  RefsComplete
  OnlyPublicTravels
PROPERTY CatchesUp
CHECK_DEADLOCK FALSE
