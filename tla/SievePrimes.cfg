CONSTANTS
  JobSizes = {8}
  MaxEnd = 40
SPECIFICATION SieveSpec
INVARIANTS OnlyPrimes
CHECK_DEADLOCK FALSE
