\* Pid 1 and a child, two lines each of two bytes.
SPECIFICATION Spec
CONSTANTS
  Writers = {pid1, child}
  Length = 2
  MaxLines = 2
INVARIANTS
  TypeOK
  LinesLandOnce
CHECK_DEADLOCK FALSE
