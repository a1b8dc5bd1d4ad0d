SPECIFICATION Spec
CONSTANTS
  Cards = {a, b}
  NoCard = NoCard
  Polls = 1
  Busy = 1
  Rcas = {1, 2}
  MaxLost = 2
  LastSector = 1
  MaxCount = 2
  Chars = {"m", "f", "u", "I", "i", "CR"}
  LineMax = 2
  MaxTyped = 2
  MaxKeys = 1
CHECK_DEADLOCK FALSE
INVARIANTS TypeOK InitSelects LineIsWhatTerminalSent SectorsInPlace
PROPERTIES MountFindsCard ReadsOwnVolume
SYMMETRY Alike
