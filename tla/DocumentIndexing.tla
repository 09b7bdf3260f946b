-------------------------- MODULE DocumentIndexing --------------------------
(***************************************************************************)
(* The document pipeline of DocSearch AI: the upload, delete and reindex   *)
(* handlers of DocumentService, the indexing queue (RedisJobQueue or       *)
(* InProcessJobQueue) and the IndexingJobWorker, over the four shared      *)
(* stores: originals in MinIO, metadata in PostgreSQL, chunks in Qdrant    *)
(* and jobs in a Redis list.                                               *)
(*                                                                         *)
(* A handler runs one external call per action, so that handlers of other  *)
(* API processes and workers interleave between any two calls.  Everything *)
(* a handler computes between two calls belongs to the action of the call  *)
(* before it.  A request that ends before it changes anything (validation, *)
(* 404, 403) is the guard of the first action, not an action.              *)
(*                                                                         *)
(* Data are abstracted: a document is an identifier whose content never    *)
(* changes, chunk_count is the Boolean "chunk_count > 0", error texts and  *)
(* operation events are left out.                                          *)
(***************************************************************************)
EXTENDS Naturals, Sequences, SequencesExt

CONSTANTS
  Documents,    \* document ids (uuid4: never drawn twice)
  Jobs,         \* indexing job ids (uuid4: never drawn twice)
  Servers,      \* API processes; one event loop each, so one handler at a time
  Workers,      \* worker processes
  MaxAttempts,  \* settings.indexing_queue_max_attempts
  Backend,      \* settings.indexing_queue_backend: "redis" or "inprocess"
  Operations,   \* the requests clients send
  Faults        \* the failures the environment may inject

Operation == {"upload", "delete", "reindex"}

Fault == {"pipeline_error",     \* download, parse or embedding raises
          "upsert_lost_reply",  \* Qdrant applied the upsert, the call raised
          "enqueue_error",      \* rpush raised and was not applied
          "enqueue_lost_reply", \* rpush was applied and raised
          "lost_pop",           \* brpop answered a client that timed out
          "worker_crash",       \* process exits, or metadata call raises
          "abort_upload",       \* handler dies, or a call in it raises
          "abort_delete",
          "abort_reindex"}

ASSUME ConstantsAssumption ==
  /\ MaxAttempts \in Nat \ {0}
  /\ Backend \in {"redis", "inprocess"}
  /\ Operations \subseteq Operation
  /\ Faults \subseteq Fault

JobStatus == {"queued", "processing", "completed", "failed"}
Record    == [job : Jobs, status : JobStatus, chunks : BOOLEAN]
NoRecord  == [job |-> "none"]
Job       == [id : Jobs, doc : Documents, attempt : 1..MaxAttempts]

VARIABLES
  objects,   \* documents whose original is in the bucket
  meta,      \* the document_metadata row of each document, or NoRecord
  vectors,   \* documents whose chunks are in the Qdrant collection
  queue,     \* the Redis list; its right end is the end of the sequence
  server,    \* the request each API process is serving
  worker,    \* the job each worker holds
  issued,    \* job ids drawn so far
  known,     \* document ids drawn so far
  deleted,   \* history: documents whose delete request got to its end
  runs       \* history: how many times a job was handed to the pipeline

stores  == <<objects, meta, vectors, queue>>
ids     == <<issued, known>>
history == <<deleted, runs>>
vars    == <<stores, server, worker, ids, history>>

Idle == [pc |-> "idle"]

ServerStep == {"enqueue", "upsert", "record", "download", "drop_vectors",
               "delete_vectors", "delete_object", "delete_metadata"}
Request    == [pc : ServerStep, op : Operation, doc : Documents,
               job : Jobs \cup {"none"}, status : JobStatus \ {"processing"}]

WorkerStep == {"get", "put", "download", "upsert", "retry"}
Task       == [pc : WorkerStep, job : Job, status : JobStatus,
               read : Record \cup {NoRecord}]

Init ==
  /\ objects = {}
  /\ meta    = [d \in Documents |-> NoRecord]
  /\ vectors = {}
  /\ queue   = <<>>
  /\ server  = [s \in Servers |-> Idle]
  /\ worker  = [w \in Workers |-> Idle]
  /\ issued  = {}
  /\ known   = {}
  /\ deleted = {}
  /\ runs    = [j \in Jobs |-> 0]

-----------------------------------------------------------------------------
(* RedisJobQueue.  rpush and brpop both work on the right end of the list. *)

\* Mutant of Push: the client repeats rpush when the first reply is late.
PushTwice(job, status) ==
  /\ status = "queued"
  /\ queue' = queue \o <<job, job>>

\* enqueue(): the status it reports, and what it did to the list.
Push(job, status) ==
  \/ /\ status = "queued"
     /\ queue' = Append(queue, job)
  \/ /\ status = "failed"
     /\ "enqueue_error" \in Faults
     /\ UNCHANGED queue
  \/ /\ status = "failed"
     /\ "enqueue_lost_reply" \in Faults
     /\ queue' = Append(queue, job)

-----------------------------------------------------------------------------
(* DocumentService, run by API process s.                                  *)

Goto(s, step)   == server' = [server EXCEPT ![s].pc = step]
Settle(s, st)   == server' = [server EXCEPT ![s].pc = "record", ![s].status = st]
Finish(s)       == server' = [server EXCEPT ![s] = Idle]
At(s, step)     == server[s].pc = step

\* Mutant of UploadObject: the document id is not fresh, only unlisted.
UploadReusedId(s) ==
  /\ At(s, "idle")
  /\ "upload" \in Operations
  /\ \E d \in Documents, j \in Jobs \ issued :
       /\ meta[d] = NoRecord
       /\ server' = [server EXCEPT ![s] =
                       [pc |-> "enqueue", op |-> "upload", doc |-> d,
                        job |-> j, status |-> "queued"]]
       /\ objects' = objects \cup {d}
       /\ known'   = known \cup {d}
       /\ issued'  = issued \cup {j}
  /\ UNCHANGED <<meta, vectors, queue, worker, history>>

\* upload_document up to the storage call: both ids are drawn, the size and
\* the parser have accepted the file, the original is stored.
UploadObject(s) ==
  /\ At(s, "idle")
  /\ "upload" \in Operations
  /\ \E d \in Documents \ known, j \in Jobs \ issued :
       /\ server' = [server EXCEPT ![s] =
                       [pc |-> "enqueue", op |-> "upload", doc |-> d,
                        job |-> j, status |-> "queued"]]
       /\ objects' = objects \cup {d}
       /\ known'   = known \cup {d}
       /\ issued'  = issued \cup {j}
  /\ UNCHANGED <<meta, vectors, queue, worker, history>>

\* upload_document and reindex_document hand the job to the Redis queue.
Enqueue(s) ==
  /\ At(s, "enqueue")
  /\ Backend = "redis"
  /\ \E st \in {"queued", "failed"} :
       /\ Push([id |-> server[s].job, doc |-> server[s].doc, attempt |-> 1], st)
       /\ Settle(s, st)
  /\ UNCHANGED <<objects, meta, vectors, worker, ids, history>>

\* InProcessJobQueue.enqueue: the pipeline runs inside the request.  First
\* its read of the original; a missing original or any exception of the
\* pipeline makes the dispatch "failed".
RunInProcess(s) ==
  /\ At(s, "enqueue")
  /\ Backend = "inprocess"
  /\ runs' = [runs EXCEPT ![server[s].job] = @ + 1]
  /\ \/ /\ server[s].doc \in objects
        /\ Goto(s, "upsert")
     \/ /\ server[s].doc \notin objects \/ "pipeline_error" \in Faults
        /\ Settle(s, "failed")
  /\ UNCHANGED <<stores, worker, ids, deleted>>

\* ... then its upsert of the chunks.
UpsertInProcess(s) ==
  /\ At(s, "upsert")
  /\ \/ /\ vectors' = vectors \cup {server[s].doc}
        /\ \/ Settle(s, "completed")
           \/ /\ "upsert_lost_reply" \in Faults
              /\ Settle(s, "failed")
     \/ /\ "pipeline_error" \in Faults
        /\ UNCHANGED vectors
        /\ Settle(s, "failed")
  /\ UNCHANGED <<objects, meta, queue, worker, ids, history>>

\* record_document at the end of upload and reindex: an upsert of the whole
\* row, from what the request computed.
RecordDocument(s) ==
  /\ At(s, "record")
  /\ meta' = [meta EXCEPT ![server[s].doc] =
                [job    |-> server[s].job,
                 status |-> server[s].status,
                 chunks |-> server[s].status = "completed"]]
  /\ Finish(s)
  /\ UNCHANGED <<objects, vectors, queue, worker, ids, deleted, runs>>

\* delete_document and reindex_document look the document up.  Which users
\* may touch it depends on its security level; some user always may.
BeginDelete(s) ==
  /\ At(s, "idle")
  /\ "delete" \in Operations
  /\ \E d \in Documents :
       /\ meta[d] # NoRecord
       /\ server' = [server EXCEPT ![s] =
                       [pc |-> "delete_vectors", op |-> "delete", doc |-> d,
                        job |-> "none", status |-> "queued"]]
  /\ UNCHANGED <<stores, worker, ids, history>>

\* Mutants of DeleteVectors: the chunks are forgotten; the row goes first.
KeepVectors(s) ==
  /\ At(s, "delete_vectors")
  /\ Goto(s, "delete_object")
  /\ UNCHANGED <<objects, meta, vectors, queue, worker, ids, history>>

DeleteRowFirst(s) ==
  /\ At(s, "delete_vectors")
  /\ vectors' = vectors \ {server[s].doc}
  /\ meta' = [meta EXCEPT ![server[s].doc] = NoRecord]
  /\ Goto(s, "delete_object")
  /\ UNCHANGED <<objects, queue, worker, ids, history>>

DeleteVectors(s) ==
  /\ At(s, "delete_vectors")
  /\ vectors' = vectors \ {server[s].doc}
  /\ Goto(s, "delete_object")
  /\ UNCHANGED <<objects, meta, queue, worker, ids, history>>

DeleteObject(s) ==
  /\ At(s, "delete_object")
  /\ objects' = objects \ {server[s].doc}
  /\ Goto(s, "delete_metadata")
  /\ UNCHANGED <<meta, vectors, queue, worker, ids, history>>

DeleteMetadata(s) ==
  /\ At(s, "delete_metadata")
  /\ meta'    = [meta EXCEPT ![server[s].doc] = NoRecord]
  /\ deleted' = deleted \cup {server[s].doc}
  /\ Finish(s)
  /\ UNCHANGED <<objects, vectors, queue, worker, ids, runs>>

BeginReindex(s) ==
  /\ At(s, "idle")
  /\ "reindex" \in Operations
  /\ \E d \in Documents, j \in Jobs \ issued :
       /\ meta[d] # NoRecord
       /\ server' = [server EXCEPT ![s] =
                       [pc |-> "download", op |-> "reindex", doc |-> d,
                        job |-> j, status |-> "queued"]]
       /\ issued' = issued \cup {j}
  /\ UNCHANGED <<stores, worker, known, history>>

\* download, size check and parse; a missing original ends the request.
ReindexDownload(s) ==
  /\ At(s, "download")
  /\ \/ /\ server[s].doc \in objects
        /\ Goto(s, "drop_vectors")
     \/ /\ server[s].doc \notin objects
        /\ Finish(s)
  /\ UNCHANGED <<stores, worker, ids, history>>

ReindexDropVectors(s) ==
  /\ At(s, "drop_vectors")
  /\ vectors' = vectors \ {server[s].doc}
  /\ Goto(s, "enqueue")
  /\ UNCHANGED <<objects, meta, queue, worker, ids, history>>

\* The process dies, or an external call raises and the handler answers 500.
Abort(s) ==
  /\ ~At(s, "idle")
  /\ \/ server[s].op = "upload"  /\ "abort_upload"  \in Faults
     \/ server[s].op = "delete"  /\ "abort_delete"  \in Faults
     \/ server[s].op = "reindex" /\ "abort_reindex" \in Faults
  /\ Finish(s)
  /\ UNCHANGED <<stores, worker, ids, history>>

Serve(s) ==
  \/ Enqueue(s) \/ RunInProcess(s) \/ UpsertInProcess(s) \/ RecordDocument(s)
  \/ DeleteVectors(s) \/ DeleteObject(s) \/ DeleteMetadata(s)
  \/ ReindexDownload(s) \/ ReindexDropVectors(s)

-----------------------------------------------------------------------------
(* IndexingJobWorker, run by worker process w.                             *)

Holds(w, step) == worker[w].pc = step
Release(w)     == worker' = [worker EXCEPT ![w] = Idle]

\* The next status to write, through _update_document_status.
Report(w, st) ==
  worker' = [worker EXCEPT ![w].pc = "get", ![w].status = st]

\* process_next: pop, then report "processing".
Pop(w) ==
  /\ Holds(w, "idle")
  /\ queue # <<>>
  /\ queue'  = Front(queue)
  /\ worker' = [worker EXCEPT ![w] =
                  [pc |-> "get", job |-> Last(queue), status |-> "processing",
                   read |-> NoRecord]]
  /\ runs' = [runs EXCEPT ![Last(queue).id] = @ + 1]
  /\ UNCHANGED <<objects, meta, vectors, server, ids, deleted>>

\* The client gives up on brpop (socket_timeout 1 s, brpop timeout 5 s) while
\* the server is handing it an element.
LosePop(w) ==
  /\ "lost_pop" \in Faults
  /\ Holds(w, "idle")
  /\ queue # <<>>
  /\ queue' = Front(queue)
  /\ UNCHANGED <<objects, meta, vectors, server, worker, ids, history>>

\* Where process_next goes on once a status has been written (or skipped).
AfterReport(w) ==
  IF worker[w].status = "processing"
    THEN worker' = [worker EXCEPT ![w].pc = "download", ![w].read = NoRecord]
    ELSE Release(w)

\* Mutant of GetRecord: it waits for a missing row.
AwaitRecord(w) ==
  /\ Holds(w, "get")
  /\ LET row == meta[worker[w].job.doc] IN
       /\ row # NoRecord
       /\ worker' = [worker EXCEPT ![w].pc = "put", ![w].read = row]
  /\ UNCHANGED <<stores, server, ids, history>>

\* _update_document_status reads the row; a missing row ends the update.
GetRecord(w) ==
  /\ Holds(w, "get")
  /\ LET row == meta[worker[w].job.doc] IN
       \/ /\ row # NoRecord
          /\ worker' = [worker EXCEPT ![w].pc = "put", ![w].read = row]
       \/ /\ row = NoRecord
          /\ AfterReport(w)
  /\ UNCHANGED <<stores, server, ids, history>>

\* ... and writes back the whole row it read, with the new status; the chunk
\* count changes only when the outcome is known.
PutRecord(w) ==
  /\ Holds(w, "put")
  /\ meta' = [meta EXCEPT ![worker[w].job.doc] =
                [worker[w].read EXCEPT
                   !.status = worker[w].status,
                   !.chunks = \/ worker[w].status = "completed"
                              \/ worker[w].status # "failed" /\ @]]
  /\ AfterReport(w)
  /\ UNCHANGED <<objects, vectors, queue, server, ids, history>>

\* Mutants of HandleFailure: one attempt too many; a job given up in silence.
HandleFailureOnceMore(w) ==
  IF worker[w].job.attempt <= MaxAttempts
    THEN worker' = [worker EXCEPT ![w].pc = "retry"]
    ELSE Report(w, "failed")

HandleFailureSilently(w) ==
  IF worker[w].job.attempt < MaxAttempts
    THEN worker' = [worker EXCEPT ![w].pc = "retry"]
    ELSE Release(w)

\* _handle_failure decides between a retry and the final "failed".
HandleFailure(w) ==
  IF worker[w].job.attempt < MaxAttempts
    THEN worker' = [worker EXCEPT ![w].pc = "retry"]
    ELSE Report(w, "failed")

\* IndexingPipeline.run up to the embeddings.
Download(w) ==
  /\ Holds(w, "download")
  /\ \/ /\ worker[w].job.doc \in objects
        /\ worker' = [worker EXCEPT ![w].pc = "upsert"]
     \/ /\ worker[w].job.doc \notin objects \/ "pipeline_error" \in Faults
        /\ HandleFailure(w)
  /\ UNCHANGED <<stores, server, ids, history>>

\* Mutant of Upsert: an exception of the vector store is swallowed.
UpsertSwallowsError(w) ==
  /\ Holds(w, "upsert")
  /\ \/ vectors' = vectors \cup {worker[w].job.doc}
     \/ "pipeline_error" \in Faults /\ UNCHANGED vectors
  /\ Report(w, "completed")
  /\ UNCHANGED <<objects, meta, queue, server, ids, history>>

\* IndexingPipeline.run, its last call.
Upsert(w) ==
  /\ Holds(w, "upsert")
  /\ \/ /\ vectors' = vectors \cup {worker[w].job.doc}
        /\ \/ Report(w, "completed")
           \/ /\ "upsert_lost_reply" \in Faults
              /\ HandleFailure(w)
     \/ /\ "pipeline_error" \in Faults
        /\ UNCHANGED vectors
        /\ HandleFailure(w)
  /\ UNCHANGED <<objects, meta, queue, server, ids, history>>

\* Mutant of Retry: the job goes back with the attempt number it had.
RetrySameAttempt(w) ==
  /\ Holds(w, "retry")
  /\ \E st \in {"queued", "failed"} :
       /\ Push(worker[w].job, st)
       /\ Report(w, st)
  /\ UNCHANGED <<objects, meta, vectors, server, ids, history>>

\* _handle_failure re-enqueues the job with the next attempt number before it
\* writes any status.
Retry(w) ==
  /\ Holds(w, "retry")
  /\ \E st \in {"queued", "failed"} :
       /\ Push([worker[w].job EXCEPT !.attempt = @ + 1], st)
       /\ Report(w, st)
  /\ UNCHANGED <<objects, meta, vectors, server, ids, history>>

\* The process dies with the job in hand (nothing puts it back in the list)
\* and is started again by the operator.
Crash(w) ==
  /\ "worker_crash" \in Faults
  /\ ~Holds(w, "idle")
  /\ Release(w)
  /\ UNCHANGED <<stores, server, ids, history>>

Work(w) ==
  Pop(w) \/ GetRecord(w) \/ PutRecord(w) \/ Download(w) \/ Upsert(w) \/ Retry(w)

-----------------------------------------------------------------------------

\* A state in which nothing is under way: the system really stops there once
\* clients send nothing more.
Quiescent ==
  /\ queue = <<>>
  /\ \A s \in Servers : At(s, "idle")
  /\ \A w \in Workers : Holds(w, "idle")

Next ==
  \/ \E s \in Servers :
       UploadObject(s) \/ BeginDelete(s) \/ BeginReindex(s) \/ Serve(s) \/ Abort(s)
  \/ \E w \in Workers : Work(w) \/ LosePop(w) \/ Crash(w)

Spec == Init /\ [][Next]_vars

\* A handler in progress and a worker loop keep running; nobody has to send
\* a request.
Fairness ==
  /\ \A s \in Servers : WF_vars(Serve(s))
  /\ \A w \in Workers : WF_vars(Work(w))

FairSpec == Spec /\ Fairness

-----------------------------------------------------------------------------
(* Properties.                                                             *)

TypeOK ==
  /\ objects \subseteq Documents
  /\ meta    \in [Documents -> Record \cup {NoRecord}]
  /\ vectors \subseteq Documents
  /\ queue   \in Seq(Job)
  /\ server  \in [Servers -> Request \cup {Idle}]
  /\ worker  \in [Workers -> Task \cup {Idle}]
  /\ issued  \subseteq Jobs
  /\ known   \subseteq Documents
  /\ deleted \subseteq Documents
  /\ runs    \in [Jobs -> Nat]

\* What each step may rely on: the part of the type that depends on the step.
StepsOK ==
  /\ \A s \in Servers :
       server[s].pc \in {"download", "drop_vectors", "enqueue", "upsert", "record"} =>
         server[s].job \in issued
  /\ \A w \in Workers : Holds(w, "put") => worker[w].read \in Record
  /\ \A w \in Workers : Holds(w, "retry") => worker[w].job.attempt < MaxAttempts

\* A worker is still running its job: it may yet put it back in the list.
Running(w) ==
  \/ worker[w].pc \in {"download", "upsert", "retry"}
  \/ worker[w].pc \in {"get", "put"} /\ worker[w].status = "processing"

\* A worker has said "processing" and still has another status to write.
Engaged(w) ==
  \/ worker[w].pc \in {"download", "upsert", "retry"}
  \/ worker[w].pc \in {"get", "put"} /\ worker[w].status # "processing"

\* A job is never handed to the pipeline more than MaxAttempts times, however
\* enqueue replies are lost, workers crash and several workers race for the
\* list (IndexingJobWorker._handle_failure).
RunsWithinMaxAttempts == \A j \in Jobs : runs[j] <= MaxAttempts

\* A job is delivered to one worker at a time: no two entries of the list are
\* the same job, no entry is a job that some worker is still running, and no
\* two workers run the same job.  This is what the order "enqueue the retry,
\* then only report" of _handle_failure must not break.
OneDeliveryPerJob ==
  /\ \A i, k \in 1..Len(queue) : queue[i].id = queue[k].id => i = k
  /\ \A w \in Workers : Running(w) =>
       /\ \A i \in 1..Len(queue) : queue[i].id # worker[w].job.id
       /\ \A v \in Workers :
            Running(v) /\ worker[v].job.id = worker[w].job.id => v = w

\* A request is still going to hand its job to the queue or the pipeline.
Dispatching(s) == server[s].pc \in {"download", "drop_vectors", "enqueue"}

\* Why the two hold: the job ids in circulation are distinct, and a job was run
\* fewer times than the attempt number it carries says.
DeliveryInv ==
  /\ RunsWithinMaxAttempts
  /\ OneDeliveryPerJob
  /\ \A j \in Jobs \ issued : runs[j] = 0
  /\ \A i \in 1..Len(queue) :
       queue[i].id \in issued /\ runs[queue[i].id] < queue[i].attempt
  /\ \A w \in Workers : Running(w) =>
       worker[w].job.id \in issued /\ runs[worker[w].job.id] <= worker[w].job.attempt
  /\ \A s \in Servers : Dispatching(s) =>
       /\ runs[server[s].job] = 0
       /\ \A i \in 1..Len(queue) : queue[i].id # server[s].job
       /\ \A w \in Workers : Running(w) => worker[w].job.id # server[s].job
       /\ \A t \in Servers :
            Dispatching(t) /\ server[t].job = server[s].job => t = s

\* A document whose row says "processing" is in the hands of a worker that
\* still has to write another status, unless workers crash: no interleaving
\* of workers and handlers leaves "processing" behind.
ProcessingIsHeld ==
  "worker_crash" \notin Faults =>
    \A d \in Documents : meta[d] # NoRecord /\ meta[d].status = "processing" =>
      \E w \in Workers : Engaged(w) /\ worker[w].job.doc = d

\* When nothing is under way, a document shown as "completed" is searchable,
\* unless it was deleted while a worker had its row in hand.
CompletedIsSearchable ==
  Quiescent => \A d \in Documents \ deleted :
    meta[d] # NoRecord /\ meta[d].status = "completed" => d \in vectors

\* Delete cleans up original, chunks and row for good: when nothing is under way
\* nothing is left of a deleted document, whatever died or failed on the way.
\* It takes the in-process queue and one API process.
DeletedStaysDeleted ==
  Quiescent => \A d \in deleted : meta[d] = NoRecord /\ d \notin objects \cup vectors

\* Whatever a document still has in the bucket or in the collection can be
\* removed by a delete request: its row is there (delete removes the row
\* last), or the request that will write the row is still running.
NoOrphans ==
  \A d \in objects \cup vectors :
    \/ meta[d] # NoRecord
    \/ \E s \in Servers :
         ~At(s, "idle") /\ server[s].op \in {"upload", "reindex"} /\ server[s].doc = d

\* The life of a document as its clients see it (module DocumentCatalog).
Listing(d) ==
  IF meta[d] # NoRecord THEN meta[d].status
  ELSE IF d \in deleted THEN "gone" ELSE "unknown"

Catalog == INSTANCE DocumentCatalog
             WITH catalog <- [d \in Documents |-> Listing(d)]

\* With the in-process queue and one API process every document has one life,
\* whatever call fails: nothing relists a deleted document.
ImplementsCatalog == Catalog!Spec

\* Why it holds: no worker ever runs, an upload works on a document never
\* listed, and the row a delete or a reindex found is still there.
OneLifeInv ==
  /\ queue = <<>> /\ \A w \in Workers : Holds(w, "idle")
  /\ \A d \in Documents : meta[d] # NoRecord \/ d \in deleted => d \in known
  /\ \A s \in Servers : ~At(s, "idle") =>
       LET d == server[s].doc IN
         /\ server[s].op = "upload" => meta[d] = NoRecord /\ d \notin deleted
         /\ server[s].op # "upload" => meta[d] # NoRecord
         /\ server[s].op = "delete" <=>
              server[s].pc \in {"delete_vectors", "delete_object", "delete_metadata"}
         /\ d \in known

\* Once clients stop, the list is emptied and every worker comes to rest:
\* bounded retries cannot keep a job circulating.
DrainsWhenClientsStop ==
  (<>[](\A s \in Servers : At(s, "idle"))) => <>[]Quiescent

\* The documentation's claims, which the code does not keep.

\* docs/architecture.md:108: the reason of a failure is stored in the metadata,
\* so a document that could not be indexed is shown as "failed" once nothing
\* is under way.
FailureIsShown ==
  Quiescent => \A d \in Documents :
    meta[d] # NoRecord /\ d \notin vectors => meta[d].status = "failed"

\* docs/plans/2026-05-15-document-lifecycle-design.md:11: delete cleans up the
\* metadata too, so once nothing is under way a deleted document has no row.
DeletedRowStaysGone == Quiescent => \A d \in deleted : meta[d] = NoRecord

=============================================================================
