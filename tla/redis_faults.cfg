SPECIFICATION FairSpec
CONSTANTS
  d1 = d1  d2 = d2
  j1 = j1  j2 = j2  j3 = j3
  s1 = s1  s2 = s2
  w1 = w1  w2 = w2
  Documents <- OneDocument
  Jobs <- TwoJobs
  Servers <- OneServer
  Workers <- TwoWorkers
  MaxAttempts = 2
  MaxLength = 1
  MaxBatch = 1
  Backend = "redis"
  Operations = {"upload", "delete", "reindex"}
  Faults = {"pipeline_error", "upsert_lost_reply", "enqueue_error", "enqueue_lost_reply",
            "lost_pop", "worker_crash", "abort_upload", "abort_delete", "abort_reindex"}
INVARIANTS
  TypeOK
  RunsWithinMaxAttempts
  OneDeliveryPerJob
  DeliveryInv
PROPERTY DrainsWhenClientsStop
CHECK_DEADLOCK FALSE
