CONSTANTS
  p1 = p1
  p2 = p2
  p3 = p3
  Nobody = Nobody
  Procs <- MCProcs
  MaxUpdates = 2
  MaxCopies = 2
SPECIFICATION Spec
SYMMETRY MCSymmetry
CHECK_DEADLOCK FALSE
INVARIANTS
  LockedIffWriting
  MemoryIsCurrent
PROPERTY
  LostOnlyBySwap
