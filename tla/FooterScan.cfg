CONSTANTS
  H = 1
  F = 3
  W = 4
  MaxTries = 2
  MaxLen = 14
SPECIFICATION Spec
CHECK_DEADLOCK FALSE
INVARIANTS
  OpensTheNewest
  FailsForAReason
  DamageIsTrue
PROPERTY
  OpenReturns
