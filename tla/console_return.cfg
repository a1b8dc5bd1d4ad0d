SPECIFICATION Spec
CONSTANTS
  Chars = {"m", "CR", "LF"}
  LineMax = 3
  MaxTyped = 4
  MaxKeys = 1
CHECK_DEADLOCK FALSE
PROPERTIES ReturnEndsLine
