CONSTANTS
  Clients = {c1}
  JobBits = 2
  JobResults = {{0,1}}
  LowWater = 1
  Slack = 1
  Estimates = {5}
  Creation = {TRUE}
  Spurious = {}
  MaxIndex = 8
  MaxEnd = 10
SPECIFICATION FairSpec
PROPERTIES CallReturns
CHECK_DEADLOCK FALSE
