SPECIFICATION Spec
CONSTANTS
  Buffers = {b1, b2, b3}
  Addresses = {a1, a2, a3, a4}
  Bytes = {x, y}
  JUNK = JUNK
  NULL = NULL
  Habits = {}
  MaxSize = 3
SYMMETRY Symmetry
INVARIANTS TypeOK StorageExact
PROPERTIES ValueSemantics
