CONSTANTS
  p1 = p1
  p2 = p2
  a = a
  b = b
  Hole = Hole
  Tries = 2
  MaxRecords = 2
  Procs <- MCProcs
  Records <- MCRecords
  Jobs <- MCJobs
SPECIFICATION FairSpec
INVARIANTS
  OperationsAtomic
  WritersAlone
PROPERTIES
  OpensGiveUp
