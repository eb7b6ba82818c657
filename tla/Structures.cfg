CONSTANTS
  Structure = {"arrays", "table", "search"}
  Arrays = {A, B}
  Keys = {1, 2}
  Batches <- TwoBatches
  NULL = NULL
  OFFSET_THRESHOLD = 2
  MaxOffset = 1
  MaxLength = 4
  HashKeys = {0, 1, 2, 6}
  Payloads = {5, 7}
  Hash <- KeyItself
  NoBuckets = NoBuckets
  MinSizes = {1, 2}
  Shrinks = {0, 1}
  Expands = {0, 1, 2}
  MaxSize = 8
  States <- FourStates
  Start = 1
  Problems <- FourStateProblems
  MaxFailures = 2
SPECIFICATION StructureSpec
INVARIANTS InsideBlock Placed Exhausted NearestFirst LeastNext
PROPERTIES ImplementsBag ImplementsKeyedSet
PROPERTIES EagerGoal SearchEnds ImplementsSearch
CHECK_DEADLOCK FALSE
