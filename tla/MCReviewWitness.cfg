CONSTANTS
  f = f  d = d  e = e  x = x
  Procs = {p}
  Subs = {s}
  Changes <- MCChanges
  Submitted <- MCSubmitted
  Trunk = "trunk"
  Queues = {"release"}
  Waiving = {}
  NameOrder <- MCNameOrder
  Files = {f}
  Defs = {d, e}
  Texts = {x}
  Gone = Gone
  Opaque = {}
  Writes <- Dropping
  None = None
  MaxCommits = 3
  MaxLandings = 3
  MaxCertificates = 1
SPECIFICATION Spec
INVARIANT ReviewedDefinitionsIntact
CHECK_DEADLOCK FALSE
