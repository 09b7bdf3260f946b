SPECIFICATION Spec
CONSTANTS
  s1 = s1
  w1 = w1
  c1 = c1  c2 = c2  c3 = c3
  Servers  <- OneServer
  Workers  <- OneWorker
  Calls    <- OneCall
  Settings <- ComposeSettings
  Fragile  <- SomeFragile
  MaxEvents = 7
  Limit = 7
  MaxChanges = 1
  MaxJobs = 1
  MaxCrashes = 0
INVARIANT OutageIsListed
CHECK_DEADLOCK FALSE
