SPECIFICATION Spec
CONSTANTS
  MaxObjects = 3
  Scripts <- OrderedOnly
CHECK_DEADLOCK FALSE
INVARIANTS
  NoDanglingUse
