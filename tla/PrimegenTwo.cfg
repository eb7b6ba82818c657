CONSTANTS
  Clients = {c1, c2}
  JobBits = 2
  JobResults = {{0,1}, {1}}
  LowWater = 1
  Slack = 1
  Estimates = {3, 5}
  Creation = {TRUE, FALSE}
  Spurious = {"run"}
  MaxIndex = 5
  MaxEnd = 10
SPECIFICATION Spec
INVARIANTS LockDiscipline WriteInCapacity
PROPERTIES PublishedStable
CHECK_DEADLOCK FALSE
