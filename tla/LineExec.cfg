SPECIFICATION USpec
CONSTANTS
  NBUF = 6
  ArgvSizes = {2, 3}
  Letters = {"a"}
  EXIT <- Exit
  Keys = {"a", "space", "newline", "return", "<", ">", "|"}
  MaxTyped = 7
  PGSIZE = 5
  WORD = 50
  BUF = 7
  MaxLen = 11
  MaxStr = {3, 9}
  SIZEOF = 3
CHECK_DEADLOCK FALSE
INVARIANTS
  ParsedRight
  UTypeOK
  CopyExact
  StringExact
  WordArrives
