\* Two runs larger than the buffer.
SPECIFICATION LogSpec
CONSTANTS
  Runs = {p, q}
  Sizes = {2}
  Pieces = 3
  Capacity = 4
INVARIANTS NeverMidRecord
CHECK_DEADLOCK FALSE
