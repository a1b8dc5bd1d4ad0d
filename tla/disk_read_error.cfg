SPECIFICATION Spec
CONSTANTS
  LastSector = 3
  MaxCount = 3
PROPERTIES ReadErrorReported
