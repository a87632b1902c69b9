SPECIFICATION Spec
CONSTANTS
  Types = {"NumberInt", "Code"}
  Names = {"a", "b"}
  MinStack = 4
  MaxTables = 1
  MaxElements = 2
CHECK_DEADLOCK FALSE
INVARIANTS
  FullyMarshalled
