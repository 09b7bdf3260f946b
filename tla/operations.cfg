SPECIFICATION Spec
CONSTANTS
  s1 = s1
  w1 = w1
  c1 = c1  c2 = c2  c3 = c3
  Servers  <- OneServer
  Workers  <- OneWorker
  Calls    <- ThreeCalls
  Settings <- FiveSettings
  Fragile  <- SomeFragile
  MaxEvents = 7
  Limit = 7
  MaxChanges = 2
  MaxJobs = 1
  MaxCrashes = 1
INVARIANTS
  TypeOK
  AnswersAreTrue
  FailuresAreListed
PROPERTY PageIsLatest
SYMMETRY CallSymmetry
CHECK_DEADLOCK FALSE
