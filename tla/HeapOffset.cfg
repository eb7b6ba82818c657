CONSTANTS
  Keys = {1, 2, 3}
  Lengths = {2, 3, 4}
  Width = 2
  Offset = 1
SPECIFICATION SortSpec
INVARIANTS Sorts
CHECK_DEADLOCK FALSE
