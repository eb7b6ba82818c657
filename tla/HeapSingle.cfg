CONSTANTS
  Keys = {1, 2}
  Lengths = {1}
  Width = 2
  Offset = 0
SPECIFICATION SortSpec
INVARIANTS InBounds
CHECK_DEADLOCK FALSE
