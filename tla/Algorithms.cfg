CONSTANTS
  Machines = {"sort", "sieve", "allocator", "swap", "bitfield", "dequeue", "logger", "hash"}
  JobSizes = {1, 2, 3, 4, 5, 7, 8, 12, 16, 24, 40}
  MaxEnd = 130
  Keys = {1, 2, 3}
  Lengths = {2, 3, 4, 5, 6}
  Width = 2
  Offset = 0
  Platforms = {"linux", "mac", "windows"}
  StackSize = 4
  PageSize = 4
  Requests = {0, 1, 3, 6}
  Alignments = {1, 2, 4}
  MaxStack = 13
  MaxBlocks = 3
  Processors = {"x86_64", "i386", "arm"}
  SwapLengths = {0, 1, 2, 3, 4, 5, 7, 8, 9, 15, 16, 17, 31, 32, 33, 47, 63, 64, 65, 95, 96, 127, 128, 129, 191, 192, 200}
  Margin = 8
  CHAR_BIT = 2
  FieldSizes = {3, 4, 5}
  Memory = {{}, {1}, {0, 1}}
  MaxTouched = 2
  Nodes = {n1, n2, n3, n4}
  Values = {a, b}
  NULL = NULL
  NoData = NoData
  Threads = {t1, t2}
  MessageLevels = {2}
  Thresholds = {2, 3, 8}
  MaxLogs = 2
  HashFunctions = {"spooky64", "spooky128", "xxhash32"}
  MessageLengths = {0, 1, 2, 3, 4, 5, 6, 7, 8, 9, 10, 11, 12, 13, 14, 15, 16, 17, 23, 31, 32, 33, 47, 48, 63, 64, 95, 96, 127, 191, 192, 193, 194, 200, 287, 288, 289}
  Skews = {0, 1, 4}
SPECIFICATION OneSpec
INVARIANTS InBounds HeapOrder Sorts
INVARIANTS EachPrimeOnce
INVARIANTS Carved Drained Exchanged VisitsSelected
INVARIANTS Linked NoUseAfterFree MessagesOut NothingHeld
INVARIANTS AbsorbsOnce HashOfAll
PROPERTIES Terminates ImplementsBitSet ImplementsDeque
CHECK_DEADLOCK FALSE
