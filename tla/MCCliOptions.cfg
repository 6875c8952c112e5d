CONSTANTS
  MAX_FILES = 3
  MAX_INPUT_BLOCKS = 8
  MAX_RECOVERY_BLOCKS = 15
  FileLists <- MCFileLists
  SliceSizes = {0, 3, 4, 8, 12}
  RecoveryCounts = {0, 1, 3, 15, 16}
  U64_BITS = 8
  U32_BITS = 5
  Shift <- MCShift
  Sizes <- MCSizes
  Redundancies <- MCRedundancies
  VolumeCounts = {0, 2, 20}
  CliFileLists <- MCCliFileLists
SPECIFICATION Spec
INVARIANTS
  SuggestionIsLeast
  EntryPointsAgree
  RedundancyIsMet
  DefaultsAreAccepted
CHECK_DEADLOCK FALSE
