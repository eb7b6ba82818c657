CONSTANTS
  Arrays = {A}
  Keys = {1, 2}
  Batches = {}
  NULL = NULL
  OFFSET_THRESHOLD = 2
  MaxOffset = 2
  MaxLength = 4
SPECIFICATION ArraySpec
PROPERTIES StableDeleteIsFirst
