SPECIFICATION Spec
CONSTANTS
  Handler <- Luamongo
  Batching <- Batches
  Writes = {w1, w2}
  MaxCalls = 3
CHECK_DEADLOCK FALSE
INVARIANTS
  TypeOK
  ReportsMatchExecutions
  OneDoubtPerConnection
  OwnResults
  KnownLeaks
  KnownEscapes
  
