# DocSearch AI in TLA+

A verification development of DocSearch AI: what its document pipeline, its
search and chat, its accounts, its request limits, its operations page and its
document page do when several API processes, workers and clients run at the same
time and any external call may fail. The modules are translated from the source under `src/backend/app` and
`src/frontend/src`; every definition is tied to its lines by `map` in
`PROJECT.json`.

## 1. The system

A FastAPI application serves `/v1/*`. Employees of a workspace log in, upload
documents, search them and ask questions that are answered from them. Handlers
are `async def` functions that run their synchronous work to the end, so **one
API process serves one handler at a time**; middleware and dependencies run in
a thread pool. Several API processes and worker processes may share the stores.

| Component | State it keeps | Operations | Talks to |
| --- | --- | --- | --- |
| `DocumentService` and router (`documents/service.py`, `router.py`) | none of its own | upload, list, delete, reindex | object store, queue, metadata store, Qdrant |
| Metadata store (`documents/postgres_store.py`, `store.py`) | one row per document: job id, status, chunk count, ... | record (upsert of the whole row), get, delete, list | PostgreSQL, or process memory |
| Indexing queue (`jobs/redis_queue.py`, `jobs/inprocess.py`) | a Redis list of jobs; none for the in-process one | enqueue, pop, pending_count | Redis; the pipeline |
| Worker (`jobs/worker.py`, `worker.py`) | the job in hand | process_next, retry, status update | queue, metadata store, pipeline |
| Indexing pipeline (`indexing/`) | none | download, parse, chunk, embed, upsert | object store, embedding service, Qdrant |
| Vector store (`retrieval/qdrant_store.py`) | chunks of each document | upsert, search, delete | Qdrant |
| Retriever, search (`retrieval/`, `search/`) | none | dense and hybrid retrieval | embedding service, Qdrant |
| Chat (`chat/`, `reranking/`, `llm/`) | none | retrieve, rerank, generate with retries, cite, audit | reranker, vLLM, audit log |
| Audit log (`audit/`) | chat events | record, list, export | PostgreSQL, or memory |
| Authentication (`auth/`) | users | sign up, log in, validate token or API key | PostgreSQL, or memory |
| Document security (`documents/security.py`) | none | which levels a role may use | every document, search and chat handler |
| Rate limit (`middleware/rate_limit.py`) | the stamps of recent requests of a bucket | check | process memory, or Redis |
| Operations (`core/operation_events.py`, `core/operations.py`, `core/dependency_health.py`, `admin/`) | the last 200 events | record, list, readiness | every probe |
| Frontend (`frontend/src`) | what each page shows | the calls of the user, answered in any order | the API |

Interactions that matter most:

* **upload** stores the original, enqueues the job, *then* records the row;
* **worker**: pops a job (it is gone from Redis at once), writes "processing",
  runs the pipeline, writes the outcome. Each status write reads the row and
  writes the whole row back;
* **failure** of the pipeline: the job is put back with the next attempt number
  *before* any status is written; after `max_attempts` it is reported failed;
* **delete** removes chunks, original, row, in this order;
* **reindex** reads the row and the original, drops the chunks, enqueues, and
  writes the row;
* every `/v1/*` request first passes the **rate limit**.

What is hard: handlers and workers interleave between any two external calls; a
row read earlier is written back later; replies are lost; processes die with a
job in hand; several calls that belong together fail one by one; clocks of
several processes are compared. `hazards` in `PROJECT.json` lists each at its
line, with the properties that watch it.

What makes each component correct: a job is delivered to one worker at a time
and a bounded number of times; a row's status tells the truth and is not left
behind; nothing is left in a store that no request can remove; a deleted
document stays deleted; the queue drains; the rate limit admits at most its
limit in any window; a 429's `Retry-After` can be relied on; chat answers only
from chunks the role may see, and every answer is audited; a sign-up race makes
one user; a readiness answer names every failing dependency; the pages show
what the server has.

## 2. Modules

| Module | Models |
| --- | --- |
| `DocumentIndexing` | upload, delete, reindex, both queues and the worker, over the four stores |
| `DocumentCatalog` | what the document API promises: each document has one life |
| `DocumentChunks` | pure functions: how a text is cut into chunks, and how an embedding response is read |
| `IndexedContent` | both together: what is in the collection once a document is searchable |
| `MCDocumentIndexing` | values of the constants of both for TLC |
| `DocumentIndexingProofs` | theorems: delivery, "processing", "completed", what a delete leaves behind, the refinement of `DocumentCatalog` |
| `DocumentChunksProofs` | theorems: chunks keep their text, vectors belong to their chunks |
| `ChatService` | search and chat: security levels, both retrievers, both rerankers, the model's retry loop, the audit record |
| `MCChatService` | values of the constants for TLC |
| `ChatServiceProofs` | theorems: what is shown is allowed, short results are complete, answers are audited, no request is forgotten |
| `RequestWindow` | what a sliding window promises, on an outside observer's clock |
| `RateLimiter` | the in-memory backend of the rate limit: threads, one bucket |
| `RedisRateLimit` | the Redis backend: API processes with clocks of their own, one sorted set |
| `MCRateLimiter`, `MCRedisRateLimit` | values of the constants for TLC |
| `RateLimiterProofs`, `RedisRateLimitProofs` | theorems: both implement `RequestWindow`, and `Retry-After` is long enough |
| `DocumentPage` | the document page of the frontend and its API calls, answered in any order |
| `DocumentPageProofs` | theorems: what the page shows is true of every row that did not change since, and its marks stand for calls |
| `AccountBook` | what sign-up and log-in promise, as if each took effect at one instant |
| `Accounts` | sign-up, log-in and tokens: several processes, two user stores, configured users, the login card |
| `Operations` | readiness and operations page, probes, event stores and who records in them |
| `MCAccounts`, `MCOperations` | values of the constants for TLC |
| `AccountsProofs`, `OperationsProofs` | theorems: every property of the two modules, the refinement of `AccountBook` included |

### DocumentIndexing

**State.** `objects` (originals in the bucket), `meta` (rows), `vectors`
(documents with chunks in Qdrant), `queue` (the Redis list, right end last);
`server[s]`, the request an API process is serving, and `worker[w]`, the job a
worker holds, with the external call each makes next (`pc`) and what its local
variables hold; `issued` and `known`, the ids drawn (`uuid4`, never drawn
twice); and the history variables `deleted`, `runs`.

**Actions.** One action is one external call together with everything the code
computes up to its next call.

| Action | Code |
| --- | --- |
| `UploadObject`, `Enqueue` / `RunInProcess`+`UpsertInProcess`, `RecordDocument` | `upload_document`, and the end of `reindex_document` |
| `BeginDelete`, `DeleteVectors`, `DeleteObject`, `DeleteMetadata` | `delete_document` |
| `BeginReindex`, `ReindexDownload`, `ReindexDropVectors` | `reindex_document` |
| `Abort` | a call raises in the handler (500), or the process dies |
| `Pop`, `LosePop` | `RedisJobQueue.pop`; the 1 s socket timeout is below the 5 s brpop timeout, so a reply can be lost |
| `GetRecord`, `PutRecord` | `_update_document_status` |
| `Download`, `Upsert` | `IndexingPipeline.run` |
| `Retry`, `HandleFailure`, `AfterReport` | `_handle_failure`, the order in `process_next` |
| `Crash` | the worker process ends (`main` catches nothing) |

`Faults` chooses the failures a run allows; `Backend` the queue; `Operations`
the requests clients send. A lost reply is a call that was applied and raised
(`enqueue_lost_reply`, `upsert_lost_reply`).

**Abstractions.** A document's content never changes, so the original and the
chunks of a document are present or absent; `chunk_count` is "some" or "none"
(a parsed document is never empty, so an indexed one has a chunk); requests
refused before they change anything (validation, 404, 403) are guards; messages,
previews and error texts are left out; operation events are in `Operations`. All rows are
in one workspace: every statement filters by workspace and document ids are
unique, so workspaces do not interact here. API and workers share PostgreSQL, as
the Compose files configure; the code also accepts a Redis queue with in-memory
metadata, where the worker's updates find no row.

### DocumentChunks

No state: `Chunks` is the loop of `CharacterChunker.chunk` as a recursive
function of the start, `FindChunkEnd` and `NextStart` its two decisions;
`ParseEmbeddingResponse` is the function of that name. A text is its length and
where its spaces are, which is what `" ".join(text.split())` leaves to tell; a
vector is the number of the text it embeds. `DocumentIndexing` has the
functions inside one step, between the download and the upsert, and needs to
know of them only that a parsed document has a chunk. `IndexedContent` has both: once a
document is searchable, `ChunksKeepText` and `VectorsBelong` must be true of what is found.

### DocumentCatalog

The listing of a document goes unknown, then one of the four statuses, then any
status again, then gone for ever. `ImplementsCatalog` instantiates it with
`Listing`, what the list request would show, plus "gone" for a document whose
delete request got to its end.

### ChatService

**State.** `index`, the documents whose chunks are in the collection (other
processes change it, at most `MaxChanges` times); `asked` and `reply`, what the
client of each request sent and got; `inbox`, requests no process has begun to
serve; `server[s]`, the request a process serves, with its next external call
and what the local variables of the handler hold; `audit`, the rows of
`chat_audit_events`. History: `window[r]`, the documents that were in the
collection all the time, and at some time, while request `r` was open.

**Actions.**

| Action | Code |
| --- | --- |
| `Accept` | the handler starts; 403 when the role may not use a level it asks for |
| `Search`, `Scroll` | `DenseRetriever.retrieve`, the two reads of `HybridRetriever.retrieve`; what follows in the handler up to the next call is `Retrieved`: results, "no answer", or on to a reranker |
| `Rerank` | `BGERerankerClient.rerank`; the score reranker makes no call and is `Kept` |
| `Generate`, `GenerateAgain`, `GenerateFails` | `VLLMClient._post_with_retry`: answer, transient failure with attempts left, last or permanent failure |
| `Record` | `record_chat_event`, then the response; a 500 if it raises, applied or not |
| `CallFails` | embedding, Qdrant or reranker raises: 502 or 500 |
| `Crash`, `GiveUp`, `ChangeIndex` | the process dies; nginx gives up while the handler goes on; a worker or a delete changes the collection |

**Abstractions.** All requests ask the same text; a chunk's dense and lexical
scores for it are constants. The reranking service may return any of the chunks
in any order. What the model writes is the set of numbers it cites. The order of
search results and of citations is left out (numbers stay with their chunks).
The audit log is the PostgreSQL one; listing it, with filters and as CSV, changes
no state.

### RateLimiter, RedisRateLimit, RequestWindow

**State.** `time` passes by ticks of 1/`PerSecond` second; the rest is the
`deque` (`bucket`), or the sorted set (`scores`, `score`, `expires`), and what
each call in flight holds: the stamp it read (and, with Redis, the process that
read it). History: `admitted`, when each request was really let through, and
`promised`, when the clients refused since the last admission were told to come
back.

**Actions.** `Stamp` is `self._now()`; `Admit` and `Refuse` are the two ways
through the lock, or through the script, pruning included; `Unavailable` is an
exception before the script ran. An exception after it ran is part of `Admit`
(the request counts, whatever the client sees) and `Refuse` (no promise was
heard). `Tick` is time.

**Delay and Skew.** The clock is read before the lock is taken, in a thread
pool, so stamps arrive late and out of order: `Delay` bounds how late. The
stamps of several hosts are compared although `time.monotonic` has an origin of
its own on each host: `Skew` bounds how far the clocks are apart. `ASSUME` and
the guard of `Tick` state both bounds; the properties say what remains true
given them. Buckets do not interact, so there is one; which key a request gets,
the headers, and the switch between letting requests pass and answering 503
change nothing in a bucket. Requests let through uncounted while Redis is down
are not admissions of the limiter.

### DocumentPage

**State.** `table`, the rows of the documents the user may see, and `known`, the
ids drawn; `calls`, the promises the page waits for, with what was answered;
`page`, the component's state: the list and the four marks `listing`,
`uploading`, `deleting`, `reindexing`, of which the last two name one document
for the whole list. History: `touched[c]`, the rows that changed after the
answer of call `c` was computed, and `doubt`, the rows that changed after the
answer the page last took them from.

**Actions.**

| Action | Code |
| --- | --- |
| `UploadDocument`, `ListDocuments`, `DeleteDocument`, `ReindexDocument` | the handlers of `DocumentWorkspace.tsx` up to their `await`; a row's buttons are off while the row is marked |
| `ServeUpload`, `ServeList`, `FindRow` with `ServeDelete` or `ServeReindex` | the API, by its effect on the rows; delete and reindex find the row before they write, so two of them overlap |
| `Refuse` | 4xx and 5xx answers that changed no row |
| `UploadHeard`, `ListHeard`, `DeleteHeard`, `ReindexHeard` | the handler from its `await` to the end of `finally`, answer read |
| `ListFailed`, `ActionFailed`, `UploadHeard` | the same after an exception: refused, or no answer although the request was or will be served |
| `Leave` | `App.tsx` shows another view or logs out: the component and what its calls would set are gone |
| `Elsewhere` | workers and other users change rows, and so do requests nobody waits for |

**Abstractions.** A row is its document and its status. A list is a set: order,
and equal rows shown twice, are left out, as are alerts, input fields, the
search form and what the upload panel shows. `null` and the empty list are one.
The table has fewer than the 100 rows a list request returns. How the API does its work
is the subject of `DocumentIndexing`; here a request is served by at most two steps.

### Accounts, AccountBook

**State.** `users`, the rows of the PostgreSQL table and of each in-memory
dictionary; `server[s]`, the step of a process, with `starts` and `crashes`;
`ask`, `inbox` and `reply`, what each request asks and how it was answered;
`tab[t]`, token and header of a browser tab; `time`, from which every process
reads a clock of its own (`Offset`).

**Actions.**

| Action | Code |
| --- | --- |
| `Submit`, `Heard`, `GiveUp`, `Logout` | `submitAuth` and `logout` of `App.tsx` |
| `GetUser` | `register_user` and `authenticate_user` up to the look-up and what follows from it; 409, 401, log-in, or 500 |
| `CreateUser` | `create_user` (`INSERT ... ON CONFLICT DO NOTHING`, or the dictionary) and the answer; PostgreSQL may raise, applied or not |
| `Start` | `create_app`: the configured users are inserted unless their id is taken |
| `Crash`, `Tick` | the process ends, and the in-memory users with it; time |

`NewToken` and `Accepts` are `create_access_token` and `validate_access_token`,
with the rounding of both to whole seconds.

**Abstractions.** A hash is the password it verifies, a token its payload (only
holders of the secret sign). Requests refused before the store are left out: a
short password (400), a blank id (the sign-up is a 400, the log-in a 500). API keys
and `AUTH_USERS` entries checked by configuration never change.

`AccountBook` is atomic: an id belongs to its first sign-up for ever, and every
answer but a 500 tells the truth. `ImplementsAccountBook` maps it to the
PostgreSQL table and the answers of the processes that use it.

### Operations

**State.** `settings` and `up`, the dependencies that work; `events[p]`, the
event store of each process; `call`, `answer` and `server`, where each request is and
what its handler has gathered. History: `log`, all that a process recorded since
it started, and in a page `was_up`, `was_down` and `gave_up`, the workers that
had recorded a failed document when the page began.

**Actions.**

| Action | Code |
| --- | --- |
| `Send`, `CheckLimit`, `Unavailable` | the rate limit middleware; the check runs in a thread, the event is recorded on the event loop, then the request passes or is refused (503) |
| `Begin`, `Probe`, `Finish`, `PendingCount` | `/ready` and `/v1/admin/operations`: configuration checks, one probe after the other, the failures recorded, the page listed, the queue asked |
| `Upload` | what an upload records: queue unavailable, or a failure of the in-process pipeline |
| `JobFailed` | what a worker records, in its own process |
| `Change`, `Crash`, `Start` | a dependency goes down or comes back; an API process ends, and its events |

**Abstractions.** A probe finds its dependency up or down. Messages, latencies and
the constant summary of the settings are left out. `cause` is a history field:
whose failure an event records. `Needed`, what a page must speak of, follows the
code, its tests and the design document: PostgreSQL counts only when the audit log
or the metadata are kept in it. The system's README.md:71 and
docs/architecture.md:143 name PostgreSQL as part of readiness without that condition.

## 3. Runs

Deadlock is not checked where clients may simply stop or the ids run out; the
limiters can always take a call.

| Run | Shows |
| --- | --- |
| `redis_faults` | with every fault at once: `RunsWithinMaxAttempts`, `OneDeliveryPerJob`, and the inductive `DeliveryInv`; liveness: `DrainsWhenClientsStop`, worker crashes and lost jobs included |
| `redis_one_worker` | `CompletedIsSearchable` and `ProcessingIsHeld`, two API processes, one worker that does not crash, uploads that die; and what is searchable: `SearchableInFull` for every text of at most 10 characters and every limit and overlap, `FoundByOwnVectors` for every response to at most 3 texts |
| `inprocess_aborts` | `NoOrphans`, `DeletedStaysDeleted`, and the refinement of `DocumentCatalog` when deletes and reindexes die halfway |
| `chat_requests` | `OnlyAllowedContext`, `NothingMissed` (a short search result is complete), `AnswersAreRecorded`; liveness: `EveryRequestEnds` |
| `limiter_memory` | three threads: `BucketInv`, the refinement of `RequestWindow` (`ImplementsWindow`) with a window shorter by `Delay`, `RetryAfterIsEnough` |
| `limiter_redis` | two hosts whose clocks are a tick apart, failing calls: `SetInv`, the refinement with a window shorter by `Delay` and `Skew`, `RetryAfterIsEnough` |
| `document_page` | `ShownIsTrue`: overlapping lists, deletes and reindexes spoil nothing but rows that changed after an answer was computed; `OneRowPerDocument`, `MarksArePending`; liveness: `MarksGoOut` |
| `accounts` | two processes on PostgreSQL and one in memory: `OneOwner`, `AccountsAreKept`, `SessionsAreTrue` (the right password was asked for, the header is the row's), `LivesItsTime`, and the refinement of `AccountBook` |
| `operations` | `AnswersAreTrue`: a page names each dependency in use once and tells no lie; `FailuresAreListed`: it lists the failures of its own checks whose names are known, and the rate limiter's; `PageIsLatest`: a page lists the newest events without a gap, however often the store was trimmed |
| `failure_shown` | *violated*: docs/architecture.md:108, a failure can be seen in the metadata |
| `delete_race` | *violated* (`DeletedRowStaysGone`): lifecycle design, line 11: delete cleans up the metadata; a worker that has upserted reads the row, the delete removes it, the worker writes it back as completed |
| `silent_outage` | *violated* (`OutageIsListed`): docs/agent-flow.md:112, failed health checks and failed indexing are seen on the administrators' page; with the settings of the Compose files and the embedding service down, a worker gives up a document, the page's own check fails, and the page lists nothing |

**Bounds.** One document, two jobs and two workers let an upload and a reindex
of the same document, and a retry, be in flight at once, next to any step of a
request: every property of a job relates at most two jobs and two workers.
`MaxAttempts = 2` has a retried and a given-up attempt. `redis_one_worker` has
two API processes and three jobs. The in-process runs have two documents, so
that a request for one meets the leftovers of another. `Jobs` bounds the number
of uploads and reindexes, nothing else is cut off.
`chat_requests` has two requests, so that one waits for a process the other one
holds; one process is set to hybrid retrieval and the reranking service, the
other to the defaults, so that both paths run. The four questions ask for a
level that is refused, for another workspace's document, for more chunks than
`CandidateLimit`, and plainly; one change of the collection falls between any
two calls. `MaxRetries = 1` has a retried and a last attempt, `Markers` numbers
below, in and above a prompt.
In the limiter runs the limit is 2 and the window 4 ticks of half a second, so
that `Retry-After` is rounded; `MaxTime` is more than one and a half windows,
enough for entries to leave and come back. `Span` stays positive in both.
`document_page` has two documents and two calls: a mark can pass from one
document to the other, and the answers of two calls can come in either order,
before or after a change from elsewhere. `ShownTrue` and `OneRow` hold for any
number of calls.
`accounts` has one employee id, which two requests, an administrator among the
configured users and a restarted process compete for; a second id would not meet
the first anywhere. A token lives one second of two ticks, clocks are a tick
apart, and five ticks see it accepted and expired on both. `operations` has five
settings (everything on with fail-open, fail-closed with indexing in the process, a
laptop, a careless configuration, accounts alone in PostgreSQL), three requests, and an event store of 7, the
least that a page of all failures fits in, so that it is trimmed; two changes let a
dependency fail and recover in one round of probes. The texts of
`SearchableInFull` are long enough for three words around a cut, and its bounds
are sharp: it fails when a word as long as the limit is to stay whole, or
characters one further apart than the overlap are to share a chunk.

**Symmetry** of documents, jobs, processes, workers and requests is used for
invariants and for the action property `PageIsLatest`, which name none of them;
never for refinement or liveness.

**Fairness** (`FairSpec`): weak fairness of each handler's and each worker's
next step, because a handler runs to its end once started and `main` is an
endless loop; of each API process in `ChatService`, because its calls to the
embedding service, Qdrant, the reranker and the model have timeouts, and the insert
of the audit row, which has none, is taken to end or to break; of the end of each call in `DocumentPage`, because every fetch
settles: nginx answers for a server that is silent for 180 s
(`infra/nginx/default.conf:20`), and a connection that breaks is an error. Clients, faults, crashes and aborts get none, and
`DrainsWhenClientsStop` assumes that clients stop. A worker that
dies is taken to be started again by the operator (the Compose files have no
restart policy): without any worker nothing drains.

**Not true, and why it matters to the bounds of a claim.** TLC refutes each of
these when one hypothesis of its theorem (section 4) is dropped. `CompletedIsSearchable`
fails with two workers (one reports "completed" after the other job's reindex
dropped the chunks), when `enqueue` fails cleanly (the reindex has dropped the
chunks, records "failed", and a worker that read the row earlier writes
"completed" over it), when a popped job is lost or its worker dies, when a delete
or a reindex dies after it dropped the chunks and, with the in-process queue, with
two API processes. `NoOrphans` fails when an upload dies
before its row is written, with two API processes, and with Redis;
`DeletedStaysDeleted` fails with two API processes (a reindex that read the row
writes it back after the delete) and with Redis (a worker writes the row back, which
is `delete_race`, or upserts chunks after the delete and finds no row), and holds
wherever uploads die. `ProcessingIsHeld` fails with crashes: nothing
puts a lost job back or corrects its row. A row in `doubt` may stay wrong on the
page until the list is asked for again: a list answer that was computed before a
delete and comes after it shows the document again. A pending delete or reindex may
lose its mark to a call for another row, and its buttons are on again.
With the in-memory user store a restart forgets the accounts while their tokens
stay valid, so `OneOwner` speaks of one life of a store. A sign-up answered 500
may have been applied. Nothing a worker records is ever on the operations page
(`WorkersUnseen`, section 4), and a failing embedding service makes the page not
ready and leaves no event, both against docs/agent-flow.md:112 (`silent_outage`); a PostgreSQL
that only the accounts use is not probed. The one limit that README.md:79 promises
to API instances on several hosts is one up to the skew of their clocks only: the
origin of `time.monotonic` is each host's own, and when two of them are a window apart
`ImplementsWindow` promises nothing. With an overlap, a word longer than
the limit less the overlap makes the chunker advance one character at a time, and
it may emit chunks that are parts of their neighbours: nothing is lost, so
`SearchableInFull` holds, but it promises shared context for short words only.

## 4. Proofs

All theorems hold for every set of documents, jobs, API processes and workers,
every `MaxAttempts` and every set of faults, unless a bullet names its hypotheses; those on chat also for every set of
requests, questions and chunks (a finite one), every score, limit and setting of
a process.

* `DocumentIndexingProofs`, `TypeCorrect`: `Spec => []TypeOK`. `TypeOK` is not inductive alone: a step
  relies on what the step before it left (a worker at "put" has read a row, one
  at "retry" has attempts left, a request that dispatches has a job), which is
  `StepsOK`; `TypeInv` is their conjunction.
* `AttemptsBounded`, `DeliveredOnce`: from `DeliveryInv`, inductive relative to
  `TypeInv`. A queued job was run fewer times than its attempt number, a running
  one at most that many; a job has one place at a time (in a request, in the
  list, with a worker); a job not issued yet was never run.
* `ProcessingHeld`: inductive relative to `TypeInv`. Only a worker writes
  "processing", and it is engaged from that write until it has decided to write
  another status; a worker that lets go writes over the row or finds none.
* `CompletedSearchable`, with the Redis queue, one worker and `NothingLost` (pops
  and pushes arrive, the worker, deletes and reindexes do not die), for any
  number of API processes. `CompletedIsSearchable` speaks of the moments when
  nothing is under way; `SearchableInv` says what holds in between: a document
  that is "completed" and has no chunks is `Owed` them (it is in the list, or a
  request is about to put it there or to take its row) or the worker has it in
  hand and will write another status unless it upserts first (`Handles`), and a
  worker that is about to write "completed" has upserted, or there is a newer
  debt. A pop turns a debt into a task in hand (`OwedStays` for every other step);
  one worker matters because the "completed" of one task must not come after the
  dropped chunks of the next.
* `CompletedSearchableInProcess`, the in-process queue and one API process: the
  same from `InProcessInv`, where the one request that runs pays the debt.
* `CatalogImplemented`, `DeletedGone`, `OrphansNever`, the in-process queue and one
  API process. `OneLifeInv` (`OneLife`): no worker ever runs, and the
  row a request found is still there when it writes. `DeletedInv`: what a delete
  removed is still gone when it goes on, and a deleted document is nowhere, also
  while requests run. `NoOrphans` is inductive with both, and needs in addition
  that no upload dies before its row is written.
* `EveryStepCounts`, for every queue and fault: each step of a request leaves it
  fewer calls to make (at most five), each step of a worker leaves its task fewer
  (at most seven) or uses one of the `MaxAttempts` deliveries of a job, the
  bound of `DeliveryInv`. With fairness of these steps, which TLC checks, this is
  why `DrainsWhenClientsStop` is true.
* `DocumentChunksProofs`, `SearchableKept`: `ChunksKeepText` for texts of every
  length, every limit and every overlap below it. `WindowMoves`: every window
  ends past its start, the next one starts further on, at most `overlap` before
  that end, and ends no earlier. `StripKeeps`: what is stripped lies outside the
  first and the last letter of a window. `TogetherStays`, from
  `WordAround`: a stretch that must stay whole and reaches past the end of a window
  begins in the next one. Both
  inductions are about a recursive function and by least counterexample, which needs no
  operator parameter (`LeastElement`, from the well-foundedness of `<`): `RecursionDefined`,
  that the recursion of `Chunks` has a solution, because each start looks only at
  later ones (`LooksAhead`); and `RecursionKeeps`, that what one window keeps (`WindowKeeps`)
  all chunks from there on keep.
* `VectorsFound`: a response with as many items as texts has every index once
  exactly if no text is missing (`EveryIndexOnce`, `MissingIsRefused`, by counting).

* `ChatServiceProofs`: one inductive invariant, `Inv`. Between two calls a handler
  relies on `TaskOK`: its levels are those the role's filter gave it, its chunks
  and prompt are due to its request, the client has heard nothing of it and the
  log has no row of it; `OneHandler` says no request is served twice, and
  `WindowsOK` that an open request's window brackets what the collection holds.
  `FilterIsExact` ties the filter sent to Qdrant to `Visible`, `BestOf` and
  `KeptPrompt` bound what the retrievers and the reranker return. Each handler
  step goes on (`ContinueKeeps`) or ends (`EndKeeps`). `AllowedContextOnly` is a
  part of the invariant; `SearchesComplete` needs that a page of the scroll is
  never smaller than the limit of the search (`ScrollKeeps`); `AnswersRecorded`
  that the row is written by the step that answers. `RequestsAdvance`: a request
  that is not answered waits or is served (`NextUnanswered`), and each step of its
  process leaves fewer of at most `5 + MaxRetries` calls, or answers (`HandlerGoesOn`);
  with fairness, which TLC checks, this is why `EveryRequestEnds` is true.
* `RateLimiterProofs`, for every limit, window, delay and set of threads.
  `BucketCorrect`: `TypeOK`, `StampsOK` and `BucketInv` are inductive together.
  A bucket never holds more than `Limit`, so a refusal pops nothing
  (`RefusePopsNothing`), and what an admission pops lags at most `Delay` behind
  its admission. `WindowImplemented`: the request `Limit` admissions ago was
  popped before or by this admission, so it has left the window less `Delay`.
  `RetryAfterCorrect`: a promise reaches past the oldest entry's window
  (`RoundedUp`), and that entry stays the oldest until the next admission.
* `RedisRateLimitProofs`, for every set of processes whose clocks are at most
  `Skew` apart. `SetCorrect`: whoever is missing from the set is old, because
  the key expired or because some process found the stamp old (`Gone`).
  `WindowImplemented`: were the request `Limit` admissions ago still young, so
  would be all later ones, none of them would be gone, and the set would be
  full. `PromisesKept`: the oldest entry bounds every promise made since the last
  admission. `RetryAfterCorrect` as above, with `Skew` added to the wait.
* `DocumentPageProofs`, for every number of documents and calls. What the page
  shows comes from answers that were on their way, so `ShownIsTrue` needs
  `AnswersTrue`: an answer not yet heard is true of every row that did not change
  since it was computed (`WritePage` for the answers that report a change,
  `SetKeepsAnswers` for all others). `LearnPage` puts both together when an
  answer is heard; `UpsertShows` and `RemoveShows` say what the functional
  updates do to the other rows. `MarksPending`: a click
  marks what it sends (`ClickMarks`), an answer leaves its call pending until it is
  heard (`ServeMarks`), and a call that ends takes the mark of its kind with it (`HearMarks`).
* `AccountsProofs`: one inductive invariant, `Inv`. `RepliesOK` says what
  is in the token of a welcome and when it was made; rows never change
  while their store stands (`AccountsAreKept`), which is what `OneOwner` needs when
  a second sign-up gets to its insert, and what `SessionsTrue` needs of the password. `TokensLive`: a token's age on any clock is at most
  `Skew` away from its age on the clock that issued it, and both roundings lose
  less than a second. `BookImplemented`: a request takes effect when it is answered.
* `OperationsProofs`, for every size of the store, settings and number of
  requests. `Inv` is `TypeInv` (types, where requests are, how far a round of
  probes is) with `StoresOK` (a store is the latest of its log: `LatestOfLatest`,
  `LatestOfMore`), `OutagesOK` (an outage a request came through is in the log of
  its process), `CountsOK` (a page that waits for
  the queue has listed its failures) and `PagesOK`. `ProbesAre` says what is probed.
  `WorkersUnseen` is the general form of half of what `silent_outage` shows: no
  page ever lists an event of a worker.

Every safety and action property that a passing run checks is stated by one of
these theorems, under the hypotheses named above. Only model-checked: liveness
(`EveryRequestEnds`, `DrainsWhenClientsStop`, `MarksGoOut`), because fairness
speaks of `ENABLED`, which the prover cannot handle; `EveryStepCounts`, `RequestsAdvance`
and `MarksPending` are what can be proved of them. That the hypotheses of the theorems on
"completed" and on deletes are needed was found with TLC (end of section 3).

## 5. Not modelled, and the plan

`components` in `PROJECT.json` lists every part with its status. Left out for
good: the parsers and the AI stub (decoding and a test double, without state),
configuration and wiring (read once; what it selects is a constant of a module),
the pages of the frontend that have one request of a kind at a time, API keys, and the
listing and CSV export of the audit log, which change nothing.

What could still be added, in this order:

1. Security levels and the listing limit in `DocumentIndexing`: the list is cut
   before the role filter (`documents/router.py:204`), so a member may be shown
   fewer documents than the limit.
2. Two processes that create the Qdrant collection together when they start
   (`retrieval/qdrant_store.py:151`).
3. What a row still tells with two workers, where "completed" without chunks is
   possible: a weaker invariant, and its proof.
