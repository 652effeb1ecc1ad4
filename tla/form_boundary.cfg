SPECIFICATION FairSpec
CONSTANTS
  Buffer = 2
  Merged = 2
  MaxEvents = 4
  FileRequests <- Asked
  Chunk = 2
  FileSize = 3
  MaxEdits = 2
  Root <- ServedRoot
  Exchanges <- AllExchanges
  Frame = 2
  Ratio = 1
  Floor = 2
  Empty <- NoBytes
  Collides <- Collisions
  Forms <- AllForms
INVARIANT ContentTypeNamesBoundary
CHECK_DEADLOCK FALSE
