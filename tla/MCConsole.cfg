SPECIFICATION Spec
CONSTANTS
  Columns = 2
  Lines = 3
  VideoMem = 9
  TabStop = 2
  NPAR = 2
  ULONG = 4
  Glyph = {"a", " "}
  Blank = " "
  Digit = {1, 2}
  Foreign = "#"
  MaxMarks = 1
INVARIANTS CursorIsInWindow OthersMemoryKept
PROPERTIES ImplementsTerminal
