CONSTANTS
  Byte = {x, nl}
  x = x
  nl = nl
  Newline = nl
  MaxRecordBytes = 4
  ChunkTargetBytes = 3
  MaxFileBytes = 9
SPECIFICATION Spec
INVARIANTS RangesTileTheRecords NothingLeftBehind RangesOnlyGrowWithTheFile
CHECK_DEADLOCK FALSE
