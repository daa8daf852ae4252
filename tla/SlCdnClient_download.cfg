SPECIFICATION Spec
CONSTANTS
  Servers = {s1, s2}
  None = none
  MaxSize = 14
  ALIGNMENT = 4
  BUF_LEN = 8
  MaxFiles = 3
SYMMETRY Symmetry
INVARIANTS WholeOwnFile NoOpenHandle
CHECK_DEADLOCK FALSE
