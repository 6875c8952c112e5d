CONSTANTS
  FileWords <- MCFileWords
  SliceWords = 3
  Scanned = {3}
  Recovery = 5
  Threads = 3
  Windows = {3}
  Comments <- MCComments
  NameLens <- MCNameLens
  IdTables <- MCIdTables
  Layouts <- MCLayouts
SPECIFICATION FFairSpec
INVARIANT RecoveryMatchesMainPacket
CHECK_DEADLOCK FALSE
