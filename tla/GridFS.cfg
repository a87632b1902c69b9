SPECIFICATION FairSpec
CONSTANTS
  c1 = c1
  c2 = c2
  Clients <- MCClients
  Roles <- MCRoles
  Names = {n1}
  p = p
  q = q
  Pieces <- MCPieces
  Texts <- MCTexts
  Parts <- MCParts
  MaxChunks = 2
  MaxFiles = 2
  MaxFaults = 1
CHECK_DEADLOCK FALSE
INVARIANTS
  TypeOK
  VisibleComplete
  OrphansExplained
  LocalFileIsPrefix
PROPERTIES
  ReportsHold
  FilesComeWhole
  CallsReturn
