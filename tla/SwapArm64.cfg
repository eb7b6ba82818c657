CONSTANTS
  Processors = {"arm64"}
  SwapLengths = {1, 8, 16, 17, 31, 32, 33}
  Margin = 8
SPECIFICATION SwapSpec
INVARIANTS Exchanged
CHECK_DEADLOCK FALSE
