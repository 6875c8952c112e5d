CONSTANTS
  Index <- MCIndex
  Layouts <- MCLayouts
  Names <- MCNames
  MaxRun = 2
  Threads = 2
  Blocks = 3
  FileBlocks <- MCFileBlocks
  Unmappable = {2}
SPECIFICATION FFairSpec
INVARIANTS
  FTypeOK
  FinalWhole
  OkMeansComplete
  AnnouncedInPlace
  NoWriterOutlivesTheCall
  NoOutputBeforeAllScanned
PROPERTIES
  RunEnds
  KeepsPromise
CHECK_DEADLOCK FALSE
