SPECIFICATION Spec
CONSTANTS
  Handler <- Luamongo
  Batching <- Batches
  Writes = {w1, w2}
  MaxCalls = 1
CHECK_DEADLOCK FALSE
INVARIANTS
  BracketsAreOptional
