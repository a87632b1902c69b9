SPECIFICATION Spec
CONSTANTS
  MaxObjects = 3
  Scripts <- MCScripts
CHECK_DEADLOCK FALSE
INVARIANTS
  TypeOK
  SafeScriptNoDanglingUse
  FinalizersMatch
  DanglingNeedsEarlierCycle
PROPERTIES
  NativesInOrder
