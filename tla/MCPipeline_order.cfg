CONSTANTS
  w1 = w1
  w2 = w2
  Workers <- MCTwo
  N = 4
  Through <- MCMixed
  Hard = 8
  Floor = 4
  MaxPanics = 1
SPECIFICATION Spec
INVARIANTS
  IndexesAreTrue
  BudgetExact
  MemoryBounded
PROPERTY
  Terminates
