CONSTANTS
  MAX_RECOVERY_BLOCKS = 12
  U16_MAX = 12
  Schemes <- MCSchemes
SPECIFICATION FairSpec
INVARIANTS
  TypeOK
  CoversAllBlocks
  WithinCaps
  SplitShape
PROPERTY Answered
CHECK_DEADLOCK FALSE
