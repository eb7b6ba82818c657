CONSTANTS
  Clients = {c1, c2}
  JobBits = 2
  JobResults = {{0,1}}
  LowWater = 1
  Slack = 1
  Estimates = {5}
  Creation = {TRUE}
  Spurious = {}
  MaxIndex = 5
  MaxEnd = 10
SPECIFICATION Spec
INVARIANTS AbortMeansNoPrimes
CHECK_DEADLOCK FALSE
