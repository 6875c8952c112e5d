CONSTANTS
  FileWords <- MCFileWords
  SliceWords = 3
  Scanned = {2, 3, 4}
  Recovery = 5
  Threads = 3
  Windows = {1, 2, 3}
  Comments <- MCComments
  NameLens <- MCNameLens
  IdTables <- MCIdTables
  Layouts <- MCLayouts
SPECIFICATION FFairSpec
INVARIANTS
  SlicesEncodedOnce
  VolumesStandAlone
  BlocksOnce
  SurvivesABurst
PROPERTY SetIsWritten
CHECK_DEADLOCK FALSE
