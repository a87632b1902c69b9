SPECIFICATION Spec
CONSTANTS
  Types = {"NumberInt", "Undefined", "Date", "Timestamp", "Code", "Object", "Array"}
  Names = {"a", "b"}
  MinStack = 4
  MaxTables = 3
  MaxElements = 4
CHECK_DEADLOCK FALSE
INVARIANTS
  TypeOK
  HandledMarshalled
  StackRoom
