CONSTANTS
  Clients = {c1}
  JobBits = 3
  JobResults = {{0,1,2}, {1}}
  LowWater = 2
  Slack = 1
  Estimates = {5, 6}
  Creation = {TRUE}
  Spurious = {}
  MaxIndex = 9
  MaxEnd = 12
SPECIFICATION FairSpec
INVARIANTS TypeOK CleanRead ResultIsEntry NoAbort
PROPERTIES CallReturnsOrLeak ExitJoinsOrLeak
CHECK_DEADLOCK FALSE
