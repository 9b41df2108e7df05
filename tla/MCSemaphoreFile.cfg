CONSTANTS
  p1 = p1
  p2 = p2
  p3 = p3
  NoFile = NoFile
  Procs <- MCProcs
SPECIFICATION FairSpec
INVARIANTS
  TypeOK
  MutualExclusion
  NoFileLeftBehind
  OwnFileStays
PROPERTIES
  TimedCallsEnd
  WaitsOnlyWhileBarred
  IsMutex
