CONSTANTS
  p1 = p1
  p2 = p2
  NoFile = NoFile
  Procs <- MCProcs
SPECIFICATION MovedSpec
INVARIANT AcquiredByOne
CHECK_DEADLOCK FALSE
