CONSTANTS
  w1 = w1
  w2 = w2
  w3 = w3
  Workers <- MCThree
  Wants <- MCWants
  N = 4
  MaxRaces = 2
SPECIFICATION PoolSpec
SYMMETRY MCSymmetry
CHECK_DEADLOCK FALSE
INVARIANTS
  CodecRunsBounded
  NoSlotOfAJobIsLent
