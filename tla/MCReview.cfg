CONSTANTS
  f = f  d = d  e = e  x = x
  Procs = {p, q}
  Subs = {s}
  Changes <- MCChanges
  Submitted <- MCSubmitted
  Trunk = "trunk"
  Queues = {"release"}
  Waiving = {}
  NameOrder <- MCNameOrder
  Files = {f}
  Defs = {d, e}
  Texts = {x}
  Gone = Gone
  Opaque = {}
  Writes <- Overtaking
  None = None
  MaxCommits = 3
  MaxLandings = 3
  MaxCertificates = 2
SPECIFICATION Spec
SYMMETRY Symmetric
INVARIANTS
  TypeOK
  LandedWasReviewed
  BackportsAreWitnessed
  QueuesHoldTheirLandings
CHECK_DEADLOCK FALSE
