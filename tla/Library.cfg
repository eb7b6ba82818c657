CONSTANTS
  CacheLines = {64}
  Systems <- SomeSystems
  OperatingSystems = {"linux", "mac", "windows"}
  Apps = {t1, t2}
  MICRO2NANO = 1
  SEC2NANO = 4
  Delays = {0, 1, 3, 4}
  MaxTime = 8
  MaxSamples = 2
SPECIFICATION LibrarySpec
INVARIANTS UsesLive Supported Measured
PROPERTIES LoadsAndUnloads
CHECK_DEADLOCK FALSE
