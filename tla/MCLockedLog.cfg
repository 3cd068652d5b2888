CONSTANTS
  Procs = {p1, p2}
  NoProc = NoProc
  NoValue = NoValue
  MaxCalls = 2
  MaxCrashes = 2
  DirSyncMayFail = FALSE
SPECIFICATION FairSpec
INVARIANTS
  TypeOK
  LogIsSound
PROPERTIES
  ImplementsAtomicLog
  CallsEnd
CHECK_DEADLOCK FALSE
