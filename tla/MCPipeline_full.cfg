CONSTANTS
  w1 = w1
  w2 = w2
  Workers <- MCOne
  N = 7
  Through <- MCEven
  Hard = 8
  Floor = 4
  MaxPanics = 0
SPECIFICATION Spec
PROPERTY
  Terminates
