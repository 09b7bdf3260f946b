SPECIFICATION Spec
CONSTANTS
  d1 = d1  d2 = d2
  j1 = j1  j2 = j2  j3 = j3
  s1 = s1  s2 = s2
  w1 = w1  w2 = w2
  Documents <- OneDocument
  Jobs <- TwoJobs
  Servers <- OneServer
  Workers <- OneWorker
  MaxAttempts = 2
  MaxLength = 1
  MaxBatch = 1
  Backend = "redis"
  Operations = {"upload", "delete"}
  Faults = {}
INVARIANT DeletedRowStaysGone
CHECK_DEADLOCK FALSE
