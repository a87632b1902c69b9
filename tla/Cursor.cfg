SPECIFICATION FairSpec
CONSTANTS
  NumDocs = 2
  BatchSize = 2
  c1 = c1
  c2 = c2
  Consumers <- MCConsumers
CHECK_DEADLOCK FALSE
INVARIANTS
  TypeOK
  ForLoopSeesAllNonEmpty
  WhileLoopSeesAll
  AnnouncedDocument
PROPERTIES
  ImplementsResultStream
  LoopsEnd
