SPECIFICATION Spec
CONSTANTS
  d1 = d1  d2 = d2
  j1 = j1  j2 = j2  j3 = j3
  s1 = s1  s2 = s2
  w1 = w1  w2 = w2
  Documents <- OneDocument
  Jobs <- ThreeJobs
  Servers <- TwoServers
  Workers <- OneWorker
  MaxAttempts = 2
  MaxLength = 10
  MaxBatch = 3
  Backend = "redis"
  Operations = {"upload", "delete", "reindex"}
  Faults = {"pipeline_error", "upsert_lost_reply", "enqueue_lost_reply", "abort_upload"}
INVARIANTS
  CompletedIsSearchable
  ProcessingIsHeld
  SearchableInFull
  FoundByOwnVectors
SYMMETRY Interchangeable
CHECK_DEADLOCK FALSE
