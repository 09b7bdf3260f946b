SPECIFICATION Spec
CONSTANTS
  d1 = d1  d2 = d2
  j1 = j1  j2 = j2  j3 = j3
  s1 = s1  s2 = s2
  w1 = w1  w2 = w2
  Documents <- TwoDocuments
  Jobs <- ThreeJobs
  Servers <- OneServer
  Workers <- OneWorker
  MaxAttempts = 2
  MaxLength = 1
  MaxBatch = 1
  Backend = "inprocess"
  Operations = {"upload", "delete", "reindex"}
  Faults = {"pipeline_error", "upsert_lost_reply", "abort_delete", "abort_reindex"}
INVARIANTS
  NoOrphans
  DeletedStaysDeleted
PROPERTY ImplementsCatalog
CHECK_DEADLOCK FALSE
