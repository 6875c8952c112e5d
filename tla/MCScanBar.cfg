CONSTANTS
  Workers = {w1, w2, w3}
  Slices = 5
  Stride = 2
  FileCount = 2
  EncodeStride = 3
  Sizes = {1, 2, 3, 4, 5, 6, 7, 8, 9, 10}
  SliceSizes = {1, 2, 3, 4, 7}
  HASH16K_LEN = 5
  ReaderStride = 2
SPECIFICATION BarFairSpec
INVARIANTS
  ToldOnce
  TotalIsTold
  BarInBounds
  ReaderMatchesMmap
  TicksAreTold
PROPERTY ScanEnds
CHECK_DEADLOCK FALSE
