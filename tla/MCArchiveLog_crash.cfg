CONSTANTS
  p1 = p1
  p2 = p2
  c1 = c1
  c2 = c2
  r1 = r1
  Paths <- MCPaths
  Contents <- MCContents
  Images <- MCImages
  Readers <- MCReaders
  Absent = Absent
  NoArchive = NoArchive
  NoHandle = NoHandle
  MaxCandidates = 64
  MaxOps = 3
  MaxStops = 2
  MaxRot = 0
SPECIFICATION Spec
SYMMETRY MCSymmetry
CHECK_DEADLOCK FALSE
INVARIANTS
  CrashIsNotDamage
  AckedSurvives
  ReadersUndisturbed
  GenerationsIncrease
PROPERTY
  StoreRefined
