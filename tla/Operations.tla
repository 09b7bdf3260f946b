----------------------------- MODULE Operations -----------------------------
(***************************************************************************)
(* Readiness and operation events: /ready, /v1/admin/operations, the       *)
(* dependency probes, the event store of each process, and who records     *)
(* events in it: the two pages, the rate limit middleware, the upload      *)
(* handler's queue and the worker.                                         *)
(*                                                                         *)
(* The event loop of an API process runs one piece of a request at a time: *)
(* what follows the rate limit check, or a handler.  A handler makes one   *)
(* outside call per action, and dependencies fail and recover between any  *)
(* two.  A probe fails if its dependency is down; messages are left out.   *)
(***************************************************************************)
EXTENDS Naturals, Sequences, SequencesExt

CONSTANTS
  Servers, Workers,  \* API processes and indexing workers
  Calls,             \* requests of clients and of whatever probes /ready
  Settings,          \* the settings the deployment may have
  Fragile,           \* bound: the dependencies that may go down
  MaxEvents,         \* events an event store keeps
  Limit,             \* events a page lists
  MaxChanges,        \* bound: how often dependencies go down or come back
  MaxJobs,           \* bound: events the workers record
  MaxCrashes         \* bound: how often API processes die

Dependency == {"postgres", "qdrant", "minio", "vllm", "redis", "embedding", "reranker"}
DEPENDENCY_CHECK_NAMES == Dependency \ {"embedding"}

Setting ==
  [problems  : SUBSET {"api_keys", "debug"},  \* of a production configuration
   probing   : BOOLEAN,                       \* dependency_health_checks_enabled
   audit     : {"inmemory", "postgres"},      \* audit_log_backend
   metadata  : {"inmemory", "postgres"},      \* document_metadata_backend
   users     : {"inmemory", "postgres"},      \* auth_user_backend
   queue     : {"inprocess", "redis"},        \* indexing_queue_backend
   limited   : BOOLEAN,                       \* rate_limit_enabled
   limiter   : {"memory", "redis"},           \* rate_limit_backend
   fail_open : BOOLEAN,                       \* rate_limit_fail_open
   embedding : {"deterministic", "bge"},      \* embedding_backend
   reranker  : {"score", "bge"}]               \* reranker_backend

ASSUME ConstantsAssumption ==
  /\ Settings \subseteq Setting
  /\ Fragile \subseteq Dependency
  /\ MaxEvents \in Nat /\ Limit \in Nat
  /\ 7 <= Limit /\ Limit <= MaxEvents
  /\ MaxChanges \in Nat /\ MaxJobs \in Nat /\ MaxCrashes \in Nat
  /\ Servers \cap Workers = {}

Path      == {"ready", "operations", "upload"}
Status    == {"ready", "not_ready"}
Check     == [name : Dependency \cup {"configuration", "api_keys", "debug"},
              status : Status]
EventType == {"dependency.health_failed", "rate_limit.backend_unavailable",
              "indexing.queue_unavailable", "indexing.failed", "indexing.retry_scheduled",
              "indexing.metadata_missing"}
Event     == [type : EventType, source : Dependency \cup {"rate_limit", "indexing"},
              cause : Calls \cup Workers]  \* cause: history, whose failure it was

VARIABLES
  settings,  \* of all processes
  up,        \* the dependencies that work
  events,    \* the event store of each process
  server,    \* what each API process is doing
  call,      \* where each request is
  answer,    \* the answer to each request
  log,       \* history: all that a process recorded since it was started
  changes, jobs, crashes   \* counters for the bounds

Down  == [pc |-> "down"]
Idle  == [pc |-> "idle"]
Unsent   == [at |-> "client"]
NoAnswer == [kind |-> "none"]

\* A handler of /ready or of the operations page, and the page when it is ready;
\* was_up and was_down: history, dependencies that were so since it began; gave_up:
\* history, the workers that had recorded a failed document when it began.
Page == [path : {"ready", "operations"}, checks : Seq(Check), events : Seq(Event),
         queue : Status, was_up : SUBSET Dependency, was_down : SUBSET Dependency,
         gave_up : SUBSET Workers]
Handler == [pc : {"probe", "count"}, call : Calls, failures : Seq(Event), page : Page]

counters == <<changes, jobs, crashes>>
vars == <<settings, up, events, server, call, answer, log, counters>>

Init ==
  /\ settings \in Settings
  /\ up     = Dependency
  /\ events = [p \in Servers \cup Workers |-> <<>>]
  /\ server = [s \in Servers |-> Idle]
  /\ call   = [c \in Calls |-> Unsent]
  /\ answer = [c \in Calls |-> NoAnswer]
  /\ log    = [p \in Servers \cup Workers |-> <<>>]
  /\ changes = 0 /\ jobs = 0 /\ crashes = 0

-----------------------------------------------------------------------------
(* The event store. *)

\* s[-n:] of a list.
Latest(s, n) == IF Len(s) <= n THEN s ELSE SubSeq(s, Len(s) - n + 1, Len(s))

\* Mutants of Record: nothing is trimmed; a full store takes nothing more.
RecordUntrimmed(p, new) ==
  /\ events' = [events EXCEPT ![p] = @ \o new]
  /\ log' = [log EXCEPT ![p] = @ \o new]

RecordUntilFull(p, new) ==
  /\ events' = [events EXCEPT ![p] =
       IF Len(@ \o new) <= MaxEvents THEN @ \o new ELSE SubSeq(@ \o new, 1, MaxEvents)]
  /\ log' = [log EXCEPT ![p] = @ \o new]

\* record, once for each new event: to trim after each or after all is the same.
Record(p, new) ==
  /\ events' = [events EXCEPT ![p] = Latest(@ \o new, MaxEvents)]
  /\ log' = [log EXCEPT ![p] = @ \o new]

NewEvent(type, source, cause) == [type |-> type, source |-> source, cause |-> cause]

-----------------------------------------------------------------------------
(* Dependencies and their probes. *)

\* A dependency goes down or comes back; a handler at work lives through both.
Change(d) ==
  /\ changes < MaxChanges
  /\ changes' = changes + 1
  /\ up' = IF d \in up THEN up \ {d} ELSE up \cup {d}
  /\ server' = [s \in Servers |->
       IF server[s] \in {Idle, Down} THEN server[s]
       ELSE [server[s] EXCEPT !.page.was_up = @ \cup up',
                              !.page.was_down = @ \cup (Dependency \ up')]]
  /\ UNCHANGED <<settings, events, call, answer, log, jobs, crashes>>

ThisIf(name, used) == IF used THEN <<name>> ELSE <<>>

\* What DependencyHealthChecker.check probes, in this order.
Probes ==
  ThisIf("postgres", settings.audit = "postgres" \/ settings.metadata = "postgres")
  \o <<"qdrant", "minio", "vllm">>
  \o ThisIf("redis", settings.queue = "redis" \/ settings.limiter = "redis")
  \o ThisIf("embedding", settings.embedding = "bge")
  \o ThisIf("reranker", settings.reranker = "bge")

\* _collect_configuration_checks.
ConfigurationChecks ==
  LET failed(name) == [name |-> name, status |-> "not_ready"] IN
    IF settings.problems = {} THEN <<[name |-> "configuration", status |-> "ready"]>>
    ELSE ThisIf(failed("api_keys"), "api_keys" \in settings.problems)
         \o ThisIf(failed("debug"), "debug" \in settings.problems)

\* _should_collect_dependency_checks.
Probing == settings.probing /\ settings.problems = {}

Verdict(d) == IF d \in up THEN "ready" ELSE "not_ready"

-----------------------------------------------------------------------------
(* The rate limit middleware. *)

At(s, step)   == server[s].pc = step
Goto(c, step) == call' = [call EXCEPT ![c].at = step]
Reply(c, a)   == answer' = [answer EXCEPT ![c] = a]

\* A request reaches a process; paths outside /v1 pass the middleware by.
Send(c, s) ==
  /\ call[c] = Unsent
  /\ ~At(s, "down")
  /\ \E path \in Path :
       call' = [call EXCEPT ![c] =
         [path |-> path, by |-> s, backend |-> "available",
          at |-> IF path = "ready" \/ ~settings.limited THEN "app" ELSE "limiter"]]
  /\ UNCHANGED <<settings, up, events, server, answer, log, counters>>

\* The store's check, in a thread of its own, whatever the event loop does.
CheckLimit(c) ==
  /\ call[c].at = "limiter"
  /\ \/ /\ settings.limiter = "redis" => "redis" \in up
        /\ \/ Goto(c, "app") /\ UNCHANGED answer
           \/ Goto(c, "client") /\ Reply(c, [kind |-> "limited"])
     \/ /\ settings.limiter = "redis" /\ "redis" \notin up
        /\ Goto(c, "unavailable")
        /\ UNCHANGED answer
  /\ UNCHANGED <<settings, up, events, server, log, counters>>

\* The check raised: the outage is recorded, then the request passes or is refused.
Unavailable(c) ==
  /\ call[c].at = "unavailable"
  /\ At(call[c].by, "idle")
  /\ Record(call[c].by, <<NewEvent("rate_limit.backend_unavailable", "rate_limit", c)>>)
  /\ IF settings.fail_open
       THEN /\ call' = [call EXCEPT ![c].at = "app", ![c].backend = "unavailable"]
            /\ UNCHANGED answer
       ELSE Goto(c, "client") /\ Reply(c, [kind |-> "refused"])
  /\ UNCHANGED <<settings, up, server, counters>>

-----------------------------------------------------------------------------
(* The handlers. *)

\* The handler of request c on process s may run: it will end without another
\* handler of the process in between.
Takes(s, c) == At(s, "idle") /\ call[c].at = "app" /\ call[c].by = s

NewPage(c, checks) ==
  [path |-> call[c].path, checks |-> checks, events |-> <<>>, queue |-> "ready",
   was_up |-> up, was_down |-> Dependency \ up,
   gave_up |-> {w \in Workers : \E i \in DOMAIN log[w] : log[w][i].type = "indexing.failed"}]

Listed(s) == Reverse(Latest(events[s], Limit))

Answered(s, c, page) ==
  /\ Goto(c, "client")
  /\ Reply(c, [kind |-> "page", page |-> page])
  /\ server' = [server EXCEPT ![s] = Idle]

\* Mutant of Finish: the page is listed before the failures are recorded.
FinishListedFirst(s, c, page, failures) ==
  /\ Record(s, failures)
  /\ LET full == [page EXCEPT !.events = Listed(s)] IN
       IF page.path = "operations" /\ settings.queue = "redis"
         THEN /\ server' = [server EXCEPT ![s] =
                   [pc |-> "count", call |-> c, failures |-> failures, page |-> full]]
              /\ UNCHANGED <<call, answer>>
         ELSE Answered(s, c, IF page.path = "operations" THEN full ELSE page)

\* The checks are complete: failures are recorded and, for the operations page,
\* the events are listed, before the queue is asked for its length.
Finish(s, c, page, failures) ==
  /\ Record(s, failures)
  /\ LET full == [page EXCEPT !.events = Listed(s)'] IN
       IF page.path = "operations" /\ settings.queue = "redis"
         THEN /\ server' = [server EXCEPT ![s] =
                   [pc |-> "count", call |-> c, failures |-> failures, page |-> full]]
              /\ UNCHANGED <<call, answer>>
         ELSE Answered(s, c, IF page.path = "operations" THEN full ELSE page)

\* ready and get_operations_status begin: build_readiness_response.
Begin(s, c) ==
  /\ Takes(s, c)
  /\ call[c].path \in {"ready", "operations"}
  /\ LET page == NewPage(c, ConfigurationChecks) IN
       IF Probing
         THEN /\ server' = [server EXCEPT ![s] =
                   [pc |-> "probe", call |-> c, failures |-> <<>>, page |-> page]]
              /\ UNCHANGED <<call, answer, events, log>>
         ELSE Finish(s, c, page, <<>>)
  /\ UNCHANGED <<settings, up, counters>>

\* Mutant of Probe: the first failure ends the round.
ProbeToFirst(s) ==
  /\ At(s, "probe")
  /\ LET h == server[s]
         d == Probes[Len(h.page.checks)]
         page == [h.page EXCEPT !.checks = Append(@, [name |-> d, status |-> Verdict(d)])]
         failures == IF d \in up \/ d \notin DEPENDENCY_CHECK_NAMES THEN h.failures
           ELSE Append(h.failures, NewEvent("dependency.health_failed", d, h.call))
     IN IF Len(h.page.checks) < Len(Probes) /\ d \in up
          THEN /\ server' = [server EXCEPT ![s].page = page, ![s].failures = failures]
               /\ UNCHANGED <<call, answer, events, log>>
          ELSE Finish(s, h.call, page, failures)
  /\ UNCHANGED <<settings, up, counters>>

\* _run_probe of the next dependency; a failure will be recorded, unless its name
\* is not known to record_dependency_failure_events.
Probe(s) ==
  /\ At(s, "probe")
  /\ LET h == server[s]
         d == Probes[Len(h.page.checks)]
         page == [h.page EXCEPT !.checks = Append(@, [name |-> d, status |-> Verdict(d)])]
         failures == IF d \in up \/ d \notin DEPENDENCY_CHECK_NAMES THEN h.failures
           ELSE Append(h.failures, NewEvent("dependency.health_failed", d, h.call))
     IN IF Len(h.page.checks) < Len(Probes)
          THEN /\ server' = [server EXCEPT ![s].page = page, ![s].failures = failures]
               /\ UNCHANGED <<call, answer, events, log>>
          ELSE Finish(s, h.call, page, failures)
  /\ UNCHANGED <<settings, up, counters>>

\* _build_indexing_queue_summary: the length of the Redis list, or the failure.
PendingCount(s) ==
  /\ At(s, "count")
  /\ LET h == server[s] IN
       Answered(s, h.call, [h.page EXCEPT !.queue = Verdict("redis")])
  /\ UNCHANGED <<settings, up, events, log, counters>>

\* The handler of an upload, for what it records: the queue is unavailable, or the
\* pipeline, which needs the other dependencies, fails in the process itself.
Upload(s, c) ==
  /\ Takes(s, c)
  /\ call[c].path = "upload"
  /\ \/ /\ settings.queue = "redis" => "redis" \in up
        /\ UNCHANGED <<events, log>>
     \/ /\ settings.queue = "redis" /\ "redis" \notin up
        /\ Record(s, <<NewEvent("indexing.queue_unavailable", "indexing", c)>>)
     \/ /\ settings.queue = "inprocess"
        /\ Record(s, <<NewEvent("indexing.failed", "indexing", c)>>)
  /\ Goto(c, "client") /\ Reply(c, [kind |-> "done"])
  /\ UNCHANGED <<settings, up, server, counters>>

-----------------------------------------------------------------------------
(* Workers, crashes and restarts. *)

\* A worker's job failed, is tried again, cannot be put back, or has no row: the
\* event goes to the store of the worker (worker.py makes one of its own).
JobFailed(w) ==
  /\ settings.queue = "redis"
  /\ jobs < MaxJobs
  /\ jobs' = jobs + 1
  /\ \E type \in {"indexing.failed", "indexing.metadata_missing",
                  IF "redis" \in up THEN "indexing.retry_scheduled"
                                    ELSE "indexing.queue_unavailable"} :
       Record(w, <<NewEvent(type, "indexing", w)>>)
  /\ UNCHANGED <<settings, up, server, call, answer, changes, crashes>>

\* An API process dies with its events and the requests it has.
Crash(s) ==
  /\ ~At(s, "down")
  /\ crashes < MaxCrashes
  /\ crashes' = crashes + 1
  /\ server' = [server EXCEPT ![s] = Down]
  /\ events' = [events EXCEPT ![s] = <<>>]
  /\ log' = [log EXCEPT ![s] = <<>>]
  /\ LET here == {c \in Calls : call[c].at # "client" /\ call[c].by = s} IN
       /\ call' = [c \in Calls |-> IF c \in here THEN [call[c] EXCEPT !.at = "client"] ELSE call[c]]
       /\ answer' = [c \in Calls |-> IF c \in here THEN [kind |-> "lost"] ELSE answer[c]]
  /\ UNCHANGED <<settings, up, changes, jobs>>

Start(s) ==
  /\ At(s, "down")
  /\ server' = [server EXCEPT ![s] = Idle]
  /\ UNCHANGED <<settings, up, events, call, answer, log, counters>>

Next ==
  \/ \E d \in Fragile : Change(d)
  \/ \E c \in Calls :
       \/ CheckLimit(c) \/ Unavailable(c)
       \/ \E s \in Servers : Send(c, s) \/ Begin(s, c) \/ Upload(s, c)
  \/ \E s \in Servers : Probe(s) \/ PendingCount(s) \/ Crash(s) \/ Start(s)
  \/ \E w \in Workers : JobFailed(w)

Spec == Init /\ [][Next]_vars

-----------------------------------------------------------------------------
(* Properties. *)

TypeOK ==
  /\ settings \in Settings
  /\ up \subseteq Dependency
  /\ events \in [Servers \cup Workers -> Seq(Event)]
  /\ \A p \in Servers \cup Workers : Len(events[p]) <= MaxEvents
  /\ server \in [Servers -> Handler \cup {Down, Idle}]
  /\ call \in [Calls -> [path : Path, by : Servers, backend : {"available", "unavailable"},
                         at : {"client", "limiter", "unavailable", "app"}] \cup {Unsent}]
  /\ answer \in [Calls -> [kind : {"page"}, page : Page]
                          \cup [kind : {"none", "limited", "refused", "lost", "done"}]]
  /\ log \in [Servers \cup Workers -> Seq(Event)]
  /\ changes \in 0..MaxChanges /\ jobs \in 0..MaxJobs /\ crashes \in 0..MaxCrashes

\* The dependencies that a process with these settings is configured for (Redis
\* also when the limit that would use it is off), but for a PostgreSQL that only
\* the accounts are kept in, which no probe looks at.
Needed ==
  {"qdrant", "minio", "vllm"}
  \cup {d \in {"postgres"} : "postgres" \in {settings.audit, settings.metadata}}
  \cup {d \in {"redis"} : "redis" \in {settings.queue, settings.limiter}}
  \cup {d \in {"embedding"} : settings.embedding = "bge"}
  \cup {d \in {"reranker"} : settings.reranker = "bge"}

Pages == {c \in Calls : answer[c].kind = "page"}

\* A page speaks of every dependency once and tells no lie about any: what it calls
\* ready worked, and what it calls not ready was down, at some time while the
\* handler ran, though not all at the same time; a configuration that must not be
\* in production is all it reports.
AnswersAreTrue ==
  \A c \in Pages :
    LET page  == answer[c].page
        names == {page.checks[i].name : i \in DOMAIN page.checks}
        Fair(name, status) == name \in (IF status = "ready" THEN page.was_up ELSE page.was_down)
    IN /\ \A i, j \in DOMAIN page.checks :
            page.checks[i].name = page.checks[j].name => i = j
       /\ \/ settings.problems # {} /\ names = settings.problems
          \/ /\ settings.problems = {}
             /\ names = {"configuration"} \cup (IF settings.probing THEN Needed ELSE {})
       /\ \A i \in DOMAIN page.checks : LET check == page.checks[i] IN
            IF check.name \in Dependency THEN Fair(check.name, check.status)
            ELSE check.status = "ready" <=> check.name = "configuration"
       /\ page.path = "operations" /\ settings.queue = "redis" => Fair("redis", page.queue)

\* The operations page shows, among its events, every failure its own checks met,
\* if record_dependency_failure_events knows the dependency's name, and the outage
\* of the rate limiter that it came through itself, unless a page full of younger
\* events hides it.  What no page shows is the subject of OutageIsListed.
FailuresAreListed ==
  \A c \in Pages :
    LET page == answer[c].page
        Shows(type, source, cause) ==
          \E i \in DOMAIN page.events : page.events[i] = NewEvent(type, source, cause)
    IN page.path = "operations" =>
       /\ \A i \in DOMAIN page.checks : LET check == page.checks[i] IN
            check.status = "not_ready" /\ check.name \in DEPENDENCY_CHECK_NAMES =>
              Shows("dependency.health_failed", check.name, c)
       /\ call[c].backend = "unavailable" =>
            \/ Len(page.events) = Limit
            \/ Shows("rate_limit.backend_unavailable", "rate_limit", c)

\* The events on a page are the latest that its process recorded since it was
\* started, newest first and without a gap, however often the store was trimmed
\* and whoever recorded while the page was made.
PageIsLatest ==
  [][\A c \in Calls :
       answer[c] = NoAnswer /\ answer'[c].kind = "page" /\ call[c].path = "operations" =>
         answer'[c].page.events = Reverse(Latest(log'[call[c].by], Limit))]_vars

\* The documentation's claim, which the code does not keep.

\* docs/agent-flow.md:112: operation events are there to see failed health checks of
\* dependencies and failed indexing on the administrators' page.  So a page that
\* found a dependency down, after a worker had given up a document, lists at
\* least one event of the one kind or the other.
OutageIsListed ==
  \A c \in Pages :
    LET page == answer[c].page IN
      /\ page.path = "operations"
      /\ \E i \in DOMAIN page.checks :
           page.checks[i].name \in Dependency /\ page.checks[i].status = "not_ready"
      /\ page.gave_up # {}
      => \E i \in DOMAIN page.events :
           page.events[i].type \in {"dependency.health_failed", "indexing.failed"}

=============================================================================
