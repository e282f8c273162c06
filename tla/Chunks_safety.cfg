CONSTANTS
  Target = 4
  Overlap = 3
  Level = {1, 2}
  MaxLength = 8
CHECK_DEADLOCK FALSE
SPECIFICATION FairSpec
INVARIANTS
  NothingLost
  ChunksFit
  PathsEnclose
PROPERTIES
  Terminates
