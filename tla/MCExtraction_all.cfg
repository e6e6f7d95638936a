CONSTANTS
  w1 = w1
  w2 = w2
  d1 = d1
  d2 = d2
  e1 = e1
  e2 = e2
  e3 = e3
  Workers <- MCWorkers
  Entries <- MCEntries
  Dirs <- MCDirs
  Parent <- MCParent
  MaxOthers = 1
  MaxFaults = 2
SPECIFICATION Spec
INVARIANTS
  NothingPartial
  EachIsReportedOnce
  LossIsReported
  ClocksAreRestored
PROPERTY
  ExtractionEnds
