CONSTANTS
  p1 = p1
  p2 = p2
  p3 = p3
  short = short
  long = long
  other = other
  None = None
  Hole = Hole
  Procs <- MCProcs
  Vals <- MCVals
  Size <- MCSize
SPECIFICATION FairSpec
INVARIANTS
  LoadedWasSaved
  LastSaveLeads
PROPERTIES
  LockedAgainstWriting
  LocksAreReleased
