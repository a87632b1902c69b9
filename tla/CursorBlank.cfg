SPECIFICATION Spec
CONSTANTS
  NumDocs = 2
  BatchSize = 2
  c1 = c1
  c2 = c2
  Consumers <- MCConsumers
SYMMETRY MCSymmetry
CHECK_DEADLOCK FALSE
INVARIANTS
  ForLoopSeesAll
