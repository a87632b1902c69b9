CONSTANTS
  IntMax = 3
  LongMax = 15
  Doubles <- MCDoubles
  Round <- MCRound
  Short <- MCShort
  Written <- MCWritten
  Keys <- MCKeys
  Values <- MCValues
  Arguments <- MCArguments
  Foreign <- MCForeign
  Junk = {0, 16, 31}
  MaxEntries = 2
SPECIFICATION Spec
INVARIANTS
  TypeOK
PROPERTIES
  ValuesSurvive
  Settled
  Untouched
  OrderKept
CHECK_DEADLOCK FALSE
