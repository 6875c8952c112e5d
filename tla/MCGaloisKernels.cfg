CONSTANTS
  FIELD_BITS = 8
  FIELD_GENERATOR = {0, 2, 3, 4, 8}
  MAX_INPUT_BLOCKS = 128
  MAX_RECOVERY_BLOCKS = 255
  Requests <- MCRequests
  Losses <- MCLosses
  Lengths <- MCLengths
  CPUs <- MCCPUs
  Batches <- MCBatches
SPECIFICATION MCSpec
INVARIANTS
  BasesGenerate
  VolumeRepairs
  PathsAgree
  Defined
  SameAsScalar
  DigestsAreScalar
PROPERTY ArithmeticIsExact
CHECK_DEADLOCK FALSE
