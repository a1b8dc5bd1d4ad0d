SPECIFICATION Spec
CONSTANTS
  Cards <- MCCards
  SS = 4
  SZ_DIRE = 2
  MinFat16 = 4
  MinFat32 = 5
  Paths <- MCPaths
  ReadSizes = {9}
  SeekTo = {8}
  IndexLimit = 8
  Bad = 99
  Values = {0, 2, 98}
  Strays <- MCStrays
  MaxFaults = 1
  MaxMounts = 2
INVARIANTS TypeOK ReadGivesFile FindsWhatIsThere ListsEachOnce AsksInsideVolume NoEndlessCall
CHECK_DEADLOCK FALSE
