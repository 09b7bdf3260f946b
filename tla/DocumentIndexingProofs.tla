----------------------- MODULE DocumentIndexingProofs -----------------------
(***************************************************************************)
(* Theorems about DocumentIndexing, for any sets of documents, jobs, API   *)
(* processes and workers, any number of attempts and any injected faults.  *)
(***************************************************************************)
EXTENDS DocumentIndexing, SequenceTheorems, TLAPS

\* The inductive form of the type invariant.
TypeInv == TypeOK /\ StepsOK

\* A pushed job is the only change an enqueue makes to the list.
LEMMA PushType ==
  ASSUME queue \in Seq(Job), NEW job \in Job, NEW st, Push(job, st)
  PROVE  queue' \in Seq(Job)
  BY DEF Push

\* The list without its last job is a list of jobs, and the last one is a job.
LEMMA PopType ==
  ASSUME queue \in Seq(Job), queue # <<>>
  PROVE  Front(queue) \in Seq(Job) /\ Last(queue) \in Job
  BY DEF Front, Last

\* A process that is not idle holds a request, a worker that is not idle a task.
LEMMA Busy ==
  ASSUME TypeOK
  PROVE  /\ \A s \in Servers : ~At(s, "idle") => server[s] \in Request
         /\ \A w \in Workers : ~Holds(w, "idle") => worker[w] \in Task
  BY DEF TypeOK, At, Holds, Idle

\* The effect of moving a request or a task to another step.
LEMMA GotoEffect ==
  ASSUME TypeOK, NEW s \in Servers, ~At(s, "idle"), NEW step \in ServerStep,
         Goto(s, step)
  PROVE  /\ server' \in [Servers -> Request \cup {Idle}]
         /\ server'[s].pc = step
         /\ server'[s].job = server[s].job
         /\ server'[s].doc = server[s].doc
         /\ \A t \in Servers \ {s} : server'[t] = server[t]
  BY Busy DEF TypeOK, Goto, Request

LEMMA SettleEffect ==
  ASSUME TypeOK, NEW s \in Servers, ~At(s, "idle"), NEW st \in JobStatus \ {"processing"},
         Settle(s, st)
  PROVE  /\ server' \in [Servers -> Request \cup {Idle}]
         /\ server'[s].pc = "record"
         /\ server'[s].job = server[s].job
         /\ server'[s].doc = server[s].doc
         /\ \A t \in Servers \ {s} : server'[t] = server[t]
  <1>1. server \in [Servers -> Request \cup {Idle}] /\ server[s] \in Request
    BY Busy DEF TypeOK
  <1>2. server' = [server EXCEPT ![s] = [@ EXCEPT !.pc = "record", !.status = st]]
    BY DEF Settle
  <1>3. [server[s] EXCEPT !.pc = "record", !.status = st] \in Request
    BY <1>1 DEF Request, ServerStep
  <1>4. /\ [server[s] EXCEPT !.pc = "record", !.status = st].pc = "record"
        /\ [server[s] EXCEPT !.pc = "record", !.status = st].job = server[s].job
        /\ [server[s] EXCEPT !.pc = "record", !.status = st].doc = server[s].doc
    BY <1>1 DEF Request
  <1> QED
    BY <1>1, <1>2, <1>3, <1>4

LEMMA ReportEffect ==
  ASSUME TypeOK, NEW w \in Workers, ~Holds(w, "idle"), NEW st \in JobStatus,
         Report(w, st)
  PROVE  /\ worker' \in [Workers -> Task \cup {Idle}]
         /\ worker'[w].pc = "get"
         /\ worker'[w].status = st
         /\ worker'[w].job = worker[w].job
         /\ \A v \in Workers \ {w} : worker'[v] = worker[v]
  BY Busy DEF TypeOK, Report, Task, WorkerStep

LEMMA HandleFailureEffect ==
  ASSUME TypeOK, NEW w \in Workers, ~Holds(w, "idle"), HandleFailure(w)
  PROVE  /\ worker' \in [Workers -> Task \cup {Idle}]
         /\ \/ /\ worker'[w].pc = "retry"
               /\ worker[w].job.attempt < MaxAttempts
            \/ worker'[w].pc = "get" /\ worker'[w].status = "failed"
         /\ worker'[w].job = worker[w].job
         /\ \A v \in Workers \ {w} : worker'[v] = worker[v]
  <1>1. CASE worker[w].job.attempt < MaxAttempts
    <2>1. worker[w] \in Task /\ worker \in [Workers -> Task \cup {Idle}]
      BY Busy DEF TypeOK
    <2>2. worker' = [worker EXCEPT ![w] = [@ EXCEPT !.pc = "retry"]]
      BY <1>1 DEF HandleFailure
    <2>3. [worker[w] EXCEPT !.pc = "retry"] \in Task
      BY <2>1 DEF Task, WorkerStep
    <2>4. /\ [worker[w] EXCEPT !.pc = "retry"].pc = "retry"
          /\ [worker[w] EXCEPT !.pc = "retry"].job = worker[w].job
      BY <2>1 DEF Task
    <2> QED
      BY <1>1, <2>1, <2>2, <2>3, <2>4
  <1>2. CASE ~(worker[w].job.attempt < MaxAttempts)
    BY <1>2, ReportEffect DEF HandleFailure, JobStatus
  <1> QED
    BY <1>1, <1>2

LEMMA AfterReportEffect ==
  ASSUME TypeOK, NEW w \in Workers, ~Holds(w, "idle"), AfterReport(w)
  PROVE  /\ worker' \in [Workers -> Task \cup {Idle}]
         /\ \/ /\ worker[w].status = "processing"
               /\ worker'[w].pc = "download"
               /\ worker'[w].job = worker[w].job
            \/ worker[w].status # "processing" /\ worker'[w] = Idle
         /\ worker'[w].pc \in {"download", "idle"}
         /\ \A v \in Workers \ {w} : worker'[v] = worker[v]
  <1>0. worker \in [Workers -> Task \cup {Idle}] /\ worker[w] \in Task
    BY Busy DEF TypeOK
  <1>1. CASE worker[w].status = "processing"
    <2>1. worker' = [worker EXCEPT ![w].pc = "download", ![w].read = NoRecord]
      BY <1>1 DEF AfterReport
    <2>2. [worker[w] EXCEPT !.pc = "download", !.read = NoRecord] \in Task
      BY <1>0 DEF Task, WorkerStep
    <2> QED
      BY <1>0, <1>1, <2>1, <2>2 DEF Task
  <1>2. CASE worker[w].status # "processing"
    BY <1>0, <1>2 DEF AfterReport, Release, Idle
  <1> QED
    BY <1>1, <1>2

\* A step of worker w keeps what the other steps rely on if w itself is where
\* its next step expects it.
LEMMA WorkerMoves ==
  ASSUME StepsOK, NEW w \in Workers, UNCHANGED <<server, issued>>,
         \A v \in Workers \ {w} : worker'[v] = worker[v],
         worker'[w].pc = "put" => worker'[w].read \in Record,
         worker'[w].pc = "retry" => worker'[w].job.attempt < MaxAttempts
  PROVE  StepsOK'
  BY DEF StepsOK, Holds

LEMMA InitType == Init => TypeInv
  BY DEF Init, TypeInv, TypeOK, StepsOK, Idle, Holds, NoRecord

LEMMA NextType ==
  ASSUME TypeInv, [Next]_vars
  PROVE  TypeInv'
  <1> USE ConstantsAssumption DEF TypeInv, TypeOK, StepsOK, ids, history, stores, At, Holds
  <1>1. ASSUME NEW s \in Servers, UploadObject(s) PROVE TypeInv'
    BY <1>1 DEF UploadObject, Request, Idle, ServerStep, Operation, JobStatus, At
  <1>2. ASSUME NEW s \in Servers, BeginDelete(s) PROVE TypeInv'
    BY <1>2 DEF BeginDelete, Request, Idle, ServerStep, Operation, JobStatus, At
  <1>3. ASSUME NEW s \in Servers, BeginReindex(s) PROVE TypeInv'
    BY <1>3 DEF BeginReindex, Request, Idle, ServerStep, Operation, JobStatus, At
  <1>4. ASSUME NEW s \in Servers, Enqueue(s) PROVE TypeInv'
    <2>1. PICK st \in {"queued", "failed"} :
            /\ Push([id |-> server[s].job, doc |-> server[s].doc, attempt |-> 1], st)
            /\ Settle(s, st)
      BY <1>4 DEF Enqueue
    <2>2. [id |-> server[s].job, doc |-> server[s].doc, attempt |-> 1] \in Job
      BY <1>4, Busy DEF Enqueue, Job, Request, At
    <2>3. queue' \in Seq(Job)
      BY <2>1, <2>2, PushType
    <2> QED
      BY <1>4, <2>1, <2>3, SettleEffect DEF Enqueue, At, JobStatus
  <1>5. ASSUME NEW s \in Servers, RunInProcess(s) PROVE TypeInv'
    <2>1. runs' \in [Jobs -> Nat]
      BY <1>5 DEF RunInProcess
    <2>2. CASE Goto(s, "upsert")
      BY <1>5, <2>1, <2>2, GotoEffect DEF RunInProcess, At, ServerStep
    <2>3. CASE Settle(s, "failed")
      BY <1>5, <2>1, <2>3, SettleEffect DEF RunInProcess, At, JobStatus
    <2> QED
      BY <1>5, <2>2, <2>3 DEF RunInProcess
  <1>6. ASSUME NEW s \in Servers, UpsertInProcess(s) PROVE TypeInv'
    <2>1. vectors' \subseteq Documents
      BY <1>6, Busy DEF UpsertInProcess, At, Request
    <2>2. PICK st \in JobStatus \ {"processing"} : Settle(s, st)
      BY <1>6 DEF UpsertInProcess, JobStatus
    <2> QED
      BY <1>6, <2>1, <2>2, SettleEffect DEF UpsertInProcess, At
  <1>7. ASSUME NEW s \in Servers, RecordDocument(s) PROVE TypeInv'
    BY <1>7, Busy DEF RecordDocument, Finish, Record, Request, Idle, At
  <1>8. ASSUME NEW s \in Servers, DeleteVectors(s) PROVE TypeInv'
    BY <1>8, GotoEffect DEF DeleteVectors, At, ServerStep
  <1>9. ASSUME NEW s \in Servers, DeleteObject(s) PROVE TypeInv'
    BY <1>9, GotoEffect DEF DeleteObject, At, ServerStep
  <1>10. ASSUME NEW s \in Servers, DeleteMetadata(s) PROVE TypeInv'
    BY <1>10, Busy DEF DeleteMetadata, Finish, Request, Idle, At
  <1>11. ASSUME NEW s \in Servers, ReindexDownload(s) PROVE TypeInv'
    <2>1. CASE Goto(s, "drop_vectors")
      BY <1>11, <2>1, GotoEffect DEF ReindexDownload, At, ServerStep
    <2>2. CASE Finish(s)
      BY <1>11, <2>2 DEF ReindexDownload, Finish, Idle
    <2> QED
      BY <1>11, <2>1, <2>2 DEF ReindexDownload
  <1>12. ASSUME NEW s \in Servers, ReindexDropVectors(s) PROVE TypeInv'
    BY <1>12, GotoEffect DEF ReindexDropVectors, At, ServerStep
  <1>13. ASSUME NEW s \in Servers, Abort(s) PROVE TypeInv'
    BY <1>13 DEF Abort, Finish, Idle
  <1>14. ASSUME NEW w \in Workers, Pop(w) PROVE TypeInv'
    BY <1>14, PopType DEF Pop, Job, Task, WorkerStep, JobStatus, Holds
  <1>15. ASSUME NEW w \in Workers, LosePop(w) PROVE TypeInv'
    BY <1>15, PopType DEF LosePop
  <1>16. ASSUME NEW w \in Workers, GetRecord(w) PROVE TypeInv'
    <2>1. CASE AfterReport(w)
      BY <1>16, <2>1, AfterReportEffect DEF GetRecord
    <2>2. CASE /\ meta[worker[w].job.doc] # NoRecord
               /\ worker' = [worker EXCEPT ![w].pc = "put",
                                           ![w].read = meta[worker[w].job.doc]]
      <3>1. worker[w] \in Task /\ meta[worker[w].job.doc] \in Record
        BY <1>16, <2>2, Busy DEF GetRecord, Holds, Task, Job
      <3>2. /\ worker' \in [Workers -> Task \cup {Idle}]
            /\ worker'[w].pc = "put"
            /\ worker'[w].read \in Record
            /\ \A v \in Workers \ {w} : worker'[v] = worker[v]
        <4>1. worker \in [Workers -> Task \cup {Idle}]
          BY DEF TypeInv, TypeOK
        <4>2. [worker[w] EXCEPT !.pc = "put", !.read = meta[worker[w].job.doc]] \in Task
          BY <3>1 DEF Task, WorkerStep
        <4>3. /\ [worker[w] EXCEPT !.pc = "put", !.read = meta[worker[w].job.doc]].pc = "put"
              /\ [worker[w] EXCEPT !.pc = "put", !.read = meta[worker[w].job.doc]].read
                   = meta[worker[w].job.doc]
          BY <3>1 DEF Task
        <4>4. worker' = [worker EXCEPT ![w] = [@ EXCEPT !.pc = "put",
                                                        !.read = meta[worker[w].job.doc]]]
          BY <2>2
        <4> QED
          BY <3>1, <4>1, <4>2, <4>3, <4>4
      <3> QED
        BY <1>16, <3>2 DEF GetRecord, Holds
    <2> QED
      BY <1>16, <2>1, <2>2 DEF GetRecord
  <1>17. ASSUME NEW w \in Workers, PutRecord(w) PROVE TypeInv'
    <2>1. meta' \in [Documents -> Record \cup {NoRecord}]
      <3>1. worker[w].read \in Record /\ worker[w].status \in JobStatus
        BY <1>17, Busy DEF PutRecord, Holds, Task
      <3>2. PICK c \in BOOLEAN :
              meta' = [meta EXCEPT ![worker[w].job.doc] =
                         [worker[w].read EXCEPT !.status = worker[w].status, !.chunks = c]]
        BY <1>17, <3>1 DEF PutRecord, Record
      <3>3. [worker[w].read EXCEPT !.status = worker[w].status, !.chunks = c] \in Record
        BY <3>1 DEF Record
      <3> QED
        BY <3>2, <3>3
    <2>2. /\ worker' \in [Workers -> Task \cup {Idle}]
          /\ worker'[w].pc \in {"download", "idle"}
          /\ \A v \in Workers \ {w} : worker'[v] = worker[v]
      BY <1>17, AfterReportEffect DEF PutRecord
    <2>3. StepsOK'
      <3>1. UNCHANGED <<server, issued>>
        BY <1>17 DEF PutRecord
      <3> QED
        BY <2>2, <3>1, WorkerMoves
    <2>4. UNCHANGED <<objects, vectors, queue, server, issued, known, deleted, runs>>
      BY <1>17 DEF PutRecord
    <2> QED
      BY <2>1, <2>2, <2>3, <2>4
  <1>18. ASSUME NEW w \in Workers, Download(w) PROVE TypeInv'
    <2>1. CASE HandleFailure(w)
      BY <1>18, <2>1, HandleFailureEffect DEF Download, Holds
    <2>2. CASE worker' = [worker EXCEPT ![w].pc = "upsert"]
      <3>1. /\ worker' \in [Workers -> Task \cup {Idle}]
            /\ worker'[w].pc = "upsert"
            /\ \A v \in Workers \ {w} : worker'[v] = worker[v]
        BY <1>18, <2>2, Busy DEF Download, Holds, Task, WorkerStep
      <3> QED
        BY <1>18, <3>1 DEF Download, Holds
    <2> QED
      BY <1>18, <2>1, <2>2 DEF Download
  <1>19. ASSUME NEW w \in Workers, Upsert(w) PROVE TypeInv'
    <2>1. vectors' \subseteq Documents
      BY <1>19, Busy DEF Upsert, Job, Holds, Task
    <2>2. HandleFailure(w) \/ Report(w, "completed")
      BY <1>19 DEF Upsert
    <2>3. /\ worker' \in [Workers -> Task \cup {Idle}]
          /\ \A v \in Workers \ {w} : worker'[v] = worker[v]
          /\ worker'[w].pc # "put"
          /\ worker'[w].pc = "retry" => worker'[w].job.attempt < MaxAttempts
      <3>1. ~Holds(w, "idle")
        BY <1>19 DEF Upsert
      <3>2. CASE HandleFailure(w)
        BY <3>1, <3>2, HandleFailureEffect
      <3>3. CASE Report(w, "completed")
        BY <3>1, <3>3, ReportEffect DEF JobStatus
      <3> QED
        BY <2>2, <3>2, <3>3
    <2>4. StepsOK'
      <3>1. UNCHANGED <<server, issued>>
        BY <1>19 DEF Upsert
      <3> QED
        BY <2>3, <3>1, WorkerMoves
    <2>5. UNCHANGED <<objects, meta, queue, server, issued, known, deleted, runs>>
      BY <1>19 DEF Upsert
    <2> QED
      BY <2>1, <2>3, <2>4, <2>5
  <1>20. ASSUME NEW w \in Workers, Retry(w) PROVE TypeInv'
    <2>1. PICK st \in {"queued", "failed"} :
            Push([worker[w].job EXCEPT !.attempt = @ + 1], st) /\ Report(w, st)
      BY <1>20 DEF Retry
    <2>2. [worker[w].job EXCEPT !.attempt = @ + 1] \in Job
      <3>1. worker[w].job \in Job /\ worker[w].job.attempt < MaxAttempts
        BY <1>20, Busy DEF Retry, Holds, Task
      <3>2. worker[w].job.attempt + 1 \in 1..MaxAttempts
        BY <3>1 DEF Job
      <3> QED
        BY <3>1, <3>2 DEF Job
    <2>3. queue' \in Seq(Job)
      BY <2>1, <2>2, PushType
    <2> QED
      BY <1>20, <2>1, <2>3, ReportEffect DEF Retry, Holds, JobStatus
  <1>21. ASSUME NEW w \in Workers, Crash(w) PROVE TypeInv'
    BY <1>21 DEF Crash, Release, Idle, Holds
  <1>22. CASE UNCHANGED vars
    BY <1>22 DEF vars, Holds
  <1> QED
    BY <1>1, <1>2, <1>3, <1>4, <1>5, <1>6, <1>7, <1>8, <1>9, <1>10, <1>11, <1>12,
       <1>13, <1>14, <1>15, <1>16, <1>17, <1>18, <1>19, <1>20, <1>21, <1>22
    DEF Next, Serve, Work

\* The state of the pipeline is always well typed.
THEOREM TypeCorrect == Spec => []TypeOK
  <1>1. TypeInv => TypeOK
    BY DEF TypeInv
  <1> QED
    BY <1>1, InitType, NextType, PTL DEF Spec

-----------------------------------------------------------------------------
(* Delivery: attempts are bounded and a job is in one place at a time.     *)

\* Push adds the job at the end of the list or leaves the list alone.
LEMMA PushEffect ==
  ASSUME queue \in Seq(Job), NEW job \in Job, NEW st, Push(job, st)
  PROVE  \/ queue' = queue
         \/ /\ Len(queue') = Len(queue) + 1
            /\ queue'[Len(queue) + 1] = job
            /\ \A i \in 1..Len(queue) : queue'[i] = queue[i]
  BY DEF Push

\* Taking the last job leaves the others where they are.
LEMMA PopEffect ==
  ASSUME queue \in Seq(Job), queue # <<>>, queue' = Front(queue)
  PROVE  /\ Len(queue) \in Nat \ {0}
         /\ Len(queue') = Len(queue) - 1
         /\ \A i \in 1..Len(queue') : queue'[i] = queue[i]
         /\ Last(queue) = queue[Len(queue)]
  <1>1. PICK n \in Nat : Len(queue) = n + 1
    OBVIOUS
  <1>2. /\ Len(SubSeq(queue, 1, n)) = IF 1 <= n THEN n - 1 + 1 ELSE 0
        /\ \A i \in 1..(n - 1 + 1) : SubSeq(queue, 1, n)[i] = queue[1 + i - 1]
    <2>1. \A i \in 1..n : queue[i] \in Job
      BY <1>1
    <2> QED
      BY <1>1, <2>1, SubSeqProperties
  <1>3. queue' = SubSeq(queue, 1, n)
    BY <1>1 DEF Front
  <1>4. (IF 1 <= n THEN n - 1 + 1 ELSE 0) = n
    OBVIOUS
  <1>5. Len(queue') = n
    BY <1>2, <1>3, <1>4, Zenon
  <1>6. ASSUME NEW i \in 1..n
        PROVE  queue'[i] = queue[i]
    <2>1. i \in 1..(n - 1 + 1) /\ 1 + i - 1 = i
      OBVIOUS
    <2> QED
      BY <1>2, <1>3, <2>1, Zenon
  <1> QED
    BY <1>1, <1>5, <1>6 DEF Last

\* A step that puts nothing in the list, starts no run and draws no id keeps
\* the invariant.
LEMMA NoNewDelivery ==
  ASSUME TypeInv, DeliveryInv,
         UNCHANGED <<issued, runs>>,
         Len(queue') \in 0..Len(queue),
         \A i \in 1..Len(queue') : queue'[i] = queue[i],
         \A w \in Workers : Running(w)' => Running(w) /\ worker'[w].job = worker[w].job,
         \A s \in Servers : Dispatching(s)' => Dispatching(s) /\ server'[s].job = server[s].job
  PROVE  DeliveryInv'
  <1>0. Len(queue) \in Nat
    BY DEF TypeInv, TypeOK
  <1>1. RunsWithinMaxAttempts'
    BY DEF DeliveryInv, RunsWithinMaxAttempts
  <1>2. OneDeliveryPerJob'
    <2>1. \A i \in 1..Len(queue') : i \in 1..Len(queue) /\ queue'[i] = queue[i]
      BY <1>0
    <2>2. \A i, k \in 1..Len(queue') : queue'[i].id = queue'[k].id => i = k
      BY <2>1 DEF DeliveryInv, OneDeliveryPerJob
    <2>3. ASSUME NEW w \in Workers, Running(w)'
          PROVE  /\ \A i \in 1..Len(queue') : queue'[i].id # worker'[w].job.id
                 /\ \A v \in Workers :
                      Running(v)' /\ worker'[v].job.id = worker'[w].job.id => v = w
      BY <2>1, <2>3 DEF DeliveryInv, OneDeliveryPerJob
    <2> QED
      BY <2>2, <2>3 DEF OneDeliveryPerJob
  <1>3. \A i \in 1..Len(queue') :
          queue'[i].id \in issued /\ runs[queue'[i].id] < queue'[i].attempt
    BY <1>0 DEF DeliveryInv
  <1>4. \A w \in Workers : Running(w)' =>
          worker'[w].job.id \in issued /\ runs[worker'[w].job.id] <= worker'[w].job.attempt
    BY DEF DeliveryInv
  <1>5. ASSUME NEW s \in Servers, Dispatching(s)'
        PROVE  /\ runs[server'[s].job] = 0
               /\ \A i \in 1..Len(queue') : queue'[i].id # server'[s].job
               /\ \A w \in Workers : Running(w)' => worker'[w].job.id # server'[s].job
               /\ \A t \in Servers :
                    Dispatching(t)' /\ server'[t].job = server'[s].job => t = s
    <2>1. Dispatching(s) /\ server'[s].job = server[s].job
      BY <1>5
    <2>2. \A i \in 1..Len(queue') : queue'[i].id # server'[s].job
      BY <1>0, <2>1 DEF DeliveryInv
    <2> QED
      BY <2>1, <2>2 DEF DeliveryInv
  <1> QED
    BY <1>1, <1>2, <1>3, <1>4, <1>5 DEF DeliveryInv

LEMMA InitDelivery == Init => DeliveryInv
  BY ConstantsAssumption
  DEF Init, DeliveryInv, RunsWithinMaxAttempts, OneDeliveryPerJob, Running, Dispatching, Idle

LEMMA NextDelivery ==
  ASSUME TypeInv, DeliveryInv, [Next]_vars
  PROVE  DeliveryInv'
  <1> USE DEF ids, history, stores, At, Holds
  <1>0. TypeOK /\ StepsOK /\ Len(queue) \in Nat
    BY DEF TypeInv, TypeOK
  <1>1. ASSUME NEW s \in Servers, UploadObject(s) \/ BeginReindex(s) PROVE DeliveryInv'
    <2>1. PICK j \in Jobs \ issued :
            /\ issued' = issued \cup {j}
            /\ server'[s].job = j
            /\ \A t \in Servers \ {s} : server'[t] = server[t]
      BY <1>0, <1>1 DEF UploadObject, BeginReindex, TypeOK
    <2>2. UNCHANGED <<queue, runs, worker>>
      BY <1>1 DEF UploadObject, BeginReindex
    <2>3. OneDeliveryPerJob' /\ RunsWithinMaxAttempts'
      BY <2>2 DEF DeliveryInv, OneDeliveryPerJob, RunsWithinMaxAttempts, Running
    <2>4. \A t \in Servers \ {s} : Dispatching(t)' => Dispatching(t) /\ server[t].job \in issued
      BY <2>1, <1>0 DEF Dispatching, StepsOK
    <2> QED
      BY <2>1, <2>2, <2>3, <2>4 DEF DeliveryInv, Running
  <1>2. ASSUME NEW s \in Servers, Enqueue(s) PROVE DeliveryInv'
    <2> DEFINE job == [id |-> server[s].job, doc |-> server[s].doc, attempt |-> 1]
    <2>1. PICK st \in {"queued", "failed"} : Push(job, st) /\ Settle(s, st)
      BY <1>2 DEF Enqueue
    <2>2. job \in Job /\ job.id = server[s].job /\ job.attempt = 1 /\ job.id \in issued
      BY <1>0, <1>2, ConstantsAssumption, Busy DEF Enqueue, Job, Request, StepsOK, TypeOK
    <2>3. UNCHANGED <<worker, issued, runs>>
      BY <1>2 DEF Enqueue
    <2>4. /\ ~Dispatching(s)'
          /\ \A t \in Servers \ {s} : server'[t] = server[t]
      BY <1>0, <1>2, <2>1, SettleEffect DEF Enqueue, Dispatching, JobStatus
    <2>5. Dispatching(s)
      BY <1>2 DEF Enqueue, Dispatching
    <2>6. CASE queue' = queue
      BY <2>3, <2>4, <2>6, <1>0, NoNewDelivery DEF Running, Dispatching
    <2>7. CASE /\ Len(queue') = Len(queue) + 1
               /\ queue'[Len(queue) + 1] = job
               /\ \A i \in 1..Len(queue) : queue'[i] = queue[i]
      <3>1. OneDeliveryPerJob' /\ RunsWithinMaxAttempts'
        BY <1>0, <2>2, <2>3, <2>5, <2>7
        DEF DeliveryInv, OneDeliveryPerJob, RunsWithinMaxAttempts, Running
      <3>2. \A i \in 1..Len(queue') :
              queue'[i].id \in issued /\ runs[queue'[i].id] < queue'[i].attempt
        BY <1>0, <2>2, <2>5, <2>7 DEF DeliveryInv
      <3>3. \A t \in Servers : Dispatching(t)' => t # s /\ Dispatching(t)
        BY <2>4 DEF Dispatching
      <3> QED
        BY <1>0, <2>2, <2>3, <2>4, <2>5, <2>7, <3>1, <3>2, <3>3 DEF DeliveryInv, Running
    <2> QED
      BY <1>0, <2>1, <2>2, <2>6, <2>7, PushEffect DEF TypeOK
  <1>3. ASSUME NEW s \in Servers, RunInProcess(s) PROVE DeliveryInv'
    <2>1. /\ server[s].job \in issued /\ issued \subseteq Jobs
          /\ runs' = [runs EXCEPT ![server[s].job] = @ + 1]
          /\ UNCHANGED <<queue, worker, issued>>
          /\ Dispatching(s)
      BY <1>0, <1>3 DEF RunInProcess, StepsOK, TypeOK, Dispatching
    <2>2. /\ ~Dispatching(s)'
          /\ \A t \in Servers \ {s} : server'[t] = server[t]
      <3>1. Goto(s, "upsert") \/ Settle(s, "failed")
        BY <1>3 DEF RunInProcess
      <3> QED
        BY <1>0, <1>3, <3>1, GotoEffect, SettleEffect
        DEF RunInProcess, Dispatching, JobStatus, ServerStep
    <2>3. runs'[server[s].job] = 1 /\ \A j \in Jobs \ {server[s].job} : runs'[j] = runs[j]
      BY <1>0, <2>1 DEF DeliveryInv, TypeOK
    <2>4. OneDeliveryPerJob' /\ RunsWithinMaxAttempts'
      BY <2>1, <2>3, ConstantsAssumption
      DEF DeliveryInv, OneDeliveryPerJob, RunsWithinMaxAttempts, Running
    <2>5. \A i \in 1..Len(queue) : queue[i].id # server[s].job
      BY <2>1 DEF DeliveryInv
    <2>6. \A w \in Workers : Running(w) => worker[w].job.id # server[s].job
      BY <2>1 DEF DeliveryInv
    <2>7. \A t \in Servers : Dispatching(t)' =>
            /\ t # s /\ Dispatching(t) /\ server'[t].job = server[t].job
            /\ server[t].job \in Jobs \ {server[s].job}
      BY <1>0, <2>1, <2>2 DEF DeliveryInv, Dispatching, StepsOK, TypeOK
    <2>8. \A w \in Workers : Running(w)' <=> Running(w)
      BY <2>1 DEF Running
    <2>9. \A j \in Jobs \ issued : runs'[j] = 0
      BY <2>1, <2>3 DEF DeliveryInv
    <2>10. \A i \in 1..Len(queue) :
             queue[i].id \in issued /\ runs'[queue[i].id] < queue[i].attempt
      BY <2>1, <2>3, <2>5 DEF DeliveryInv
    <2>11. \A w \in Workers : Running(w) =>
             worker[w].job.id \in issued /\ runs'[worker[w].job.id] <= worker[w].job.attempt
      BY <2>1, <2>3, <2>6 DEF DeliveryInv
    <2>12. ASSUME NEW t \in Servers, Dispatching(t)'
           PROVE  /\ runs'[server'[t].job] = 0
                  /\ \A i \in 1..Len(queue) : queue[i].id # server'[t].job
                  /\ \A w \in Workers : Running(w) => worker[w].job.id # server'[t].job
                  /\ \A u \in Servers :
                       Dispatching(u)' /\ server'[u].job = server'[t].job => u = t
      BY <2>3, <2>7, <2>12 DEF DeliveryInv
    <2> QED
      BY <2>1, <2>4, <2>8, <2>9, <2>10, <2>11, <2>12 DEF DeliveryInv
  <1>4. ASSUME NEW w \in Workers, Pop(w) PROVE DeliveryInv'
    <2> DEFINE job == Last(queue)
    <2>1. /\ Len(queue) \in Nat \ {0} /\ Len(queue') = Len(queue) - 1
          /\ \A i \in 1..Len(queue') : queue'[i] = queue[i]
          /\ job = queue[Len(queue)] /\ job \in Job
      BY <1>0, <1>4, PopEffect, PopType DEF Pop, TypeOK
    <2>2. /\ job.id \in issued /\ runs[job.id] < job.attempt
          /\ job.id \in Jobs /\ job.attempt \in 1..MaxAttempts /\ runs[job.id] \in Nat
      BY <1>0, <2>1 DEF DeliveryInv, Job, TypeOK
    <2>3. /\ runs'[job.id] = runs[job.id] + 1
          /\ \A j \in Jobs \ {job.id} : runs'[j] = runs[j]
          /\ UNCHANGED <<server, issued>>
      BY <1>0, <1>4, <2>2 DEF Pop, TypeOK
    <2>4. /\ worker'[w].job = job /\ Running(w)' /\ ~Running(w)
          /\ \A v \in Workers \ {w} : worker'[v] = worker[v]
      BY <1>0, <1>4 DEF Pop, TypeOK, Running
    <2>5. \A v \in Workers \ {w} : Running(v)' => Running(v) /\ worker[v].job.id # job.id
      BY <2>1, <2>4 DEF DeliveryInv, OneDeliveryPerJob, Running
    <2>6. \A i \in 1..Len(queue') : queue'[i].id # job.id
      BY <2>1 DEF DeliveryInv, OneDeliveryPerJob
    <2>7. OneDeliveryPerJob'
      BY <2>1, <2>4, <2>5, <2>6 DEF DeliveryInv, OneDeliveryPerJob
    <2>8. RunsWithinMaxAttempts'
      BY <1>0, <2>2, <2>3, ConstantsAssumption DEF DeliveryInv, RunsWithinMaxAttempts
    <2>9. \A t \in Servers : Dispatching(t)' =>
            Dispatching(t) /\ server[t].job \in Jobs \ {job.id}
      BY <1>0, <2>1, <2>3 DEF DeliveryInv, Dispatching, StepsOK, TypeOK
    <2>10. \A i \in 1..Len(queue') : queue'[i].id \in Jobs \ {job.id}
      BY <1>0, <2>1, <2>6 DEF DeliveryInv, TypeOK
    <2>11. \A v \in Workers \ {w} : Running(v)' => worker[v].job.id \in Jobs \ {job.id}
      BY <1>0, <2>5 DEF DeliveryInv, TypeOK
    <2>12. \A j \in Jobs \ issued : runs'[j] = 0
      BY <2>2, <2>3 DEF DeliveryInv
    <2>13. \A i \in 1..Len(queue') :
             queue'[i].id \in issued /\ runs'[queue'[i].id] < queue'[i].attempt
      BY <2>1, <2>3, <2>10 DEF DeliveryInv
    <2>14. ASSUME NEW v \in Workers, Running(v)'
           PROVE  /\ worker'[v].job.id \in issued
                  /\ runs'[worker'[v].job.id] <= worker'[v].job.attempt
      <3>1. CASE v = w
        BY <2>2, <2>3, <2>4, <3>1
      <3>2. CASE v # w
        BY <2>3, <2>4, <2>5, <2>11, <2>14, <3>2 DEF DeliveryInv
      <3> QED
        BY <3>1, <3>2
    <2>15. ASSUME NEW t \in Servers, Dispatching(t)'
           PROVE  /\ runs'[server[t].job] = 0
                  /\ \A i \in 1..Len(queue') : queue'[i].id # server[t].job
                  /\ \A v \in Workers : Running(v)' => worker'[v].job.id # server[t].job
                  /\ \A u \in Servers :
                       Dispatching(u)' /\ server[u].job = server[t].job => u = t
      <3>1. Dispatching(t) /\ server[t].job \in Jobs /\ server[t].job # job.id
        BY <2>9, <2>15
      <3>2. runs'[server[t].job] = 0
        BY <2>3, <3>1 DEF DeliveryInv
      <3>3. \A i \in 1..Len(queue') : queue'[i].id # server[t].job
        BY <2>1, <3>1 DEF DeliveryInv
      <3>4. \A v \in Workers : Running(v)' => worker'[v].job.id # server[t].job
        BY <2>4, <2>5, <3>1 DEF DeliveryInv
      <3>5. \A u \in Servers :
              Dispatching(u)' /\ server[u].job = server[t].job => u = t
        BY <2>9, <3>1 DEF DeliveryInv
      <3> QED
        BY <3>2, <3>3, <3>4, <3>5
    <2> QED
      BY <2>3, <2>7, <2>8, <2>12, <2>13, <2>14, <2>15 DEF DeliveryInv
  <1>5. ASSUME NEW w \in Workers, Retry(w) PROVE DeliveryInv'
    <2> DEFINE job == [worker[w].job EXCEPT !.attempt = @ + 1]
    <2>1. PICK st \in {"queued", "failed"} : Push(job, st) /\ Report(w, st)
      BY <1>5 DEF Retry
    <2>2. /\ job \in Job /\ job.id = worker[w].job.id
          /\ job.attempt = worker[w].job.attempt + 1 /\ worker[w].job.attempt \in Nat
      BY <1>0, <1>5, ConstantsAssumption, Busy DEF Retry, Job, Task, StepsOK
    <2> HIDE DEF job
    <2>3. UNCHANGED <<server, issued, runs>>
      BY <1>5 DEF Retry
    <2>4. /\ ~Running(w)' /\ Running(w)
          /\ \A v \in Workers \ {w} : worker'[v] = worker[v]
      BY <1>0, <1>5, <2>1, ReportEffect DEF Retry, Running, JobStatus
    <2>5. \A v \in Workers : Running(v)' => v # w /\ Running(v)
      BY <2>4 DEF Running
    <2>6. CASE queue' = queue
      BY <1>0, <2>3, <2>4, <2>5, <2>6, NoNewDelivery DEF Dispatching
    <2>7. CASE /\ Len(queue') = Len(queue) + 1
               /\ queue'[Len(queue) + 1] = job
               /\ \A i \in 1..Len(queue) : queue'[i] = queue[i]
      <3>1. job.id \in issued /\ job.id \in Jobs /\ runs[job.id] \in Nat
            /\ runs[job.id] < job.attempt
        BY <1>0, <2>2, <2>4 DEF DeliveryInv, TypeOK, Job
      <3>2. OneDeliveryPerJob'
        <4>1. /\ \A i, k \in 1..Len(queue) : queue[i].id = queue[k].id => i = k
              /\ \A i \in 1..Len(queue) : queue[i].id # job.id
              /\ Len(queue) \in Nat
          BY <1>0, <2>2, <2>4 DEF DeliveryInv, OneDeliveryPerJob, TypeOK
        <4>2. \A i \in 1..Len(queue') : i \in 1..Len(queue) \/ i = Len(queue) + 1
          BY <2>7, <4>1
        <4>3. \A i, k \in 1..Len(queue') : queue'[i].id = queue'[k].id => i = k
          BY <2>7, <4>1, <4>2
        <4>4. ASSUME NEW v \in Workers, Running(v)'
              PROVE  /\ \A i \in 1..Len(queue') : queue'[i].id # worker'[v].job.id
                     /\ \A u \in Workers :
                          Running(u)' /\ worker'[u].job.id = worker'[v].job.id => u = v
          <5>1. /\ v # w /\ Running(v) /\ worker'[v] = worker[v]
                /\ worker[v].job.id # job.id
                /\ \A i \in 1..Len(queue) : queue[i].id # worker[v].job.id
            BY <2>2, <2>4, <2>5, <4>4 DEF DeliveryInv, OneDeliveryPerJob
          <5>2. \A i \in 1..Len(queue') : queue'[i].id # worker'[v].job.id
            BY <2>7, <4>2, <5>1
          <5> QED
            BY <2>4, <2>5, <5>1, <5>2 DEF DeliveryInv, OneDeliveryPerJob
        <4> QED
          BY <4>3, <4>4 DEF OneDeliveryPerJob
      <3>3. RunsWithinMaxAttempts'
        BY <2>3 DEF DeliveryInv, RunsWithinMaxAttempts
      <3>4. \A i \in 1..Len(queue') :
              queue'[i].id \in issued /\ runs[queue'[i].id] < queue'[i].attempt
        <4>1. \A i \in 1..Len(queue) :
                queue[i].id \in issued /\ runs[queue[i].id] < queue[i].attempt
          BY DEF DeliveryInv
        <4>2. Len(queue) \in Nat
          BY <1>0 DEF TypeOK
        <4> QED
          BY <2>7, <3>1, <4>1, <4>2
      <3>5. \A t \in Servers : Dispatching(t) => job.id # server[t].job
        BY <2>2, <2>4 DEF DeliveryInv
      <3>6. \A v \in Workers : Running(v)' =>
              worker'[v].job.id \in issued /\ runs[worker'[v].job.id] <= worker'[v].job.attempt
        BY <2>4, <2>5 DEF DeliveryInv
      <3>7. ASSUME NEW s \in Servers, Dispatching(s)
            PROVE  /\ runs[server[s].job] = 0
                   /\ \A i \in 1..Len(queue') : queue'[i].id # server[s].job
                   /\ \A v \in Workers : Running(v)' => worker'[v].job.id # server[s].job
                   /\ \A t \in Servers :
                        Dispatching(t) /\ server[t].job = server[s].job => t = s
        <4>1. /\ \A i \in 1..Len(queue) : queue[i].id # server[s].job
              /\ Len(queue) \in Nat
          BY <1>0, <3>7 DEF DeliveryInv, TypeOK
        <4>2. \A i \in 1..Len(queue') : queue'[i].id # server[s].job
          BY <2>7, <3>5, <3>7, <4>1
        <4> QED
          BY <2>4, <2>5, <3>7, <4>2 DEF DeliveryInv
      <3> QED
        BY <2>3, <3>2, <3>3, <3>4, <3>6, <3>7 DEF DeliveryInv, Dispatching
    <2> QED
      BY <1>0, <2>1, <2>2, <2>6, <2>7, PushEffect DEF TypeOK
  <1>6. ASSUME NEW w \in Workers, LosePop(w) PROVE DeliveryInv'
    <2>1. /\ Len(queue') \in 0..Len(queue)
          /\ \A i \in 1..Len(queue') : queue'[i] = queue[i]
      BY <1>0, <1>6, PopEffect DEF LosePop, TypeOK
    <2> QED
      BY <1>6, <2>1, NoNewDelivery DEF LosePop, Running, Dispatching
  <1>7. ASSUME NEW s \in Servers,
               \/ UpsertInProcess(s) \/ RecordDocument(s) \/ BeginDelete(s)
               \/ DeleteVectors(s) \/ DeleteObject(s) \/ DeleteMetadata(s)
               \/ ReindexDownload(s) \/ ReindexDropVectors(s) \/ Abort(s)
        PROVE  DeliveryInv'
    <2>1. UNCHANGED <<queue, worker, issued, runs>>
      BY <1>7 DEF UpsertInProcess, RecordDocument, BeginDelete, DeleteVectors,
                  DeleteObject, DeleteMetadata, ReindexDownload, ReindexDropVectors, Abort
    <2>2. \A t \in Servers : Dispatching(t)' => Dispatching(t) /\ server'[t].job = server[t].job
      <3>1. CASE \E st \in JobStatus \ {"processing"} : UpsertInProcess(s) /\ Settle(s, st)
        BY <1>0, <3>1, SettleEffect DEF UpsertInProcess, Dispatching
      <3>2. CASE \E step \in {"delete_object", "delete_metadata"} :
                   ~At(s, "idle") /\ Goto(s, step)
        BY <1>0, <3>2, GotoEffect DEF Dispatching, ServerStep
      <3>3. CASE \E step \in {"drop_vectors", "enqueue"} : Dispatching(s) /\ Goto(s, step)
        BY <1>0, <3>3, GotoEffect DEF Dispatching, ServerStep
      <3>4. CASE Finish(s)
        BY <1>0, <3>4 DEF TypeOK, Finish, Dispatching, Idle
      <3>5. CASE BeginDelete(s)
        BY <1>0, <3>5 DEF TypeOK, BeginDelete, Dispatching
      <3> QED
        BY <1>7, <3>1, <3>2, <3>3, <3>4, <3>5
        DEF UpsertInProcess, RecordDocument, DeleteVectors, DeleteObject, DeleteMetadata,
            ReindexDownload, ReindexDropVectors, Abort, Dispatching, JobStatus
    <2> QED
      BY <1>0, <2>1, <2>2, NoNewDelivery DEF Running
  <1>8. ASSUME NEW w \in Workers,
               GetRecord(w) \/ PutRecord(w) \/ Download(w) \/ Upsert(w) \/ Crash(w)
        PROVE  DeliveryInv'
    <2>1. UNCHANGED <<queue, server, issued, runs>>
      BY <1>8 DEF GetRecord, PutRecord, Download, Upsert, Crash
    <2>2. \A v \in Workers : Running(v)' => Running(v) /\ worker'[v].job = worker[v].job
      <3>1. CASE (GetRecord(w) \/ PutRecord(w)) /\ AfterReport(w)
        BY <1>0, <3>1, AfterReportEffect DEF GetRecord, PutRecord, Running, Idle
      <3>2. CASE (Download(w) \/ Upsert(w)) /\ HandleFailure(w)
        BY <1>0, <3>2, HandleFailureEffect DEF Download, Upsert, Running
      <3>3. CASE Upsert(w) /\ Report(w, "completed")
        BY <1>0, <3>3, ReportEffect DEF Upsert, Running, JobStatus
      <3>4. CASE /\ GetRecord(w)
                 /\ worker' = [worker EXCEPT ![w].pc = "put",
                                             ![w].read = meta[worker[w].job.doc]]
        BY <1>0, <3>4, Busy DEF GetRecord, Running, Task, TypeOK
      <3>5. CASE Download(w) /\ worker' = [worker EXCEPT ![w].pc = "upsert"]
        BY <1>0, <3>5, Busy DEF Download, Running, Task, TypeOK
      <3>6. CASE Crash(w)
        BY <1>0, <3>6 DEF Crash, Release, Running, Idle, TypeOK
      <3> QED
        BY <1>8, <3>1, <3>2, <3>3, <3>4, <3>5, <3>6 DEF GetRecord, PutRecord, Download, Upsert
    <2> QED
      BY <1>0, <2>1, <2>2, NoNewDelivery DEF Dispatching
  <1>9. CASE UNCHANGED vars
    BY <1>0, <1>9, NoNewDelivery DEF vars, Running, Dispatching
  <1> QED
    BY <1>1, <1>2, <1>3, <1>4, <1>5, <1>6, <1>7, <1>8, <1>9 DEF Next, Serve, Work

\* Every job is in one place, was run as often as its attempt number says, and was
\* never run before it was issued, whatever fails in queue and workers.
THEOREM DeliveryCorrect == Spec => []DeliveryInv
  BY InitType, NextType, InitDelivery, NextDelivery, PTL DEF Spec

\* No job is handed to the pipeline more than MaxAttempts times, for any number
\* of workers and API processes and with every fault enabled.
THEOREM AttemptsBounded == Spec => []RunsWithinMaxAttempts
  <1>1. DeliveryInv => RunsWithinMaxAttempts
    BY DEF DeliveryInv
  <1> QED
    BY <1>1, InitType, NextType, InitDelivery, NextDelivery, PTL DEF Spec

\* A job is in one place at a time: one entry of the list or one worker.
THEOREM DeliveredOnce == Spec => []OneDeliveryPerJob
  <1>1. DeliveryInv => OneDeliveryPerJob
    BY DEF DeliveryInv
  <1> QED
    BY <1>1, InitType, NextType, InitDelivery, NextDelivery, PTL DEF Spec

-----------------------------------------------------------------------------
(* Nothing but a crash leaves a document in "processing".                  *)

\* A step that writes no row keeps the property if no worker is let off.
LEMMA HoldersRemain ==
  ASSUME ProcessingIsHeld, UNCHANGED meta,
         \A w \in Workers : Engaged(w) => Engaged(w)' /\ worker'[w].job.doc = worker[w].job.doc
  PROVE  ProcessingIsHeld'
  BY DEF ProcessingIsHeld

\* A step that releases worker w, and leaves no "processing" in the row of the
\* document w was working on.
LEMMA HolderLetsGo ==
  ASSUME ProcessingIsHeld, NEW w \in Workers, NEW d \in Documents,
         worker[w].job.doc = d,
         meta'[d] # NoRecord => meta'[d].status # "processing",
         \A e \in Documents \ {d} : meta'[e] = meta[e],
         \A v \in Workers \ {w} : worker'[v] = worker[v]
  PROVE  ProcessingIsHeld'
  BY DEF ProcessingIsHeld, Engaged

LEMMA InitProcessing == Init => ProcessingIsHeld
  BY DEF Init, ProcessingIsHeld

LEMMA NextProcessing ==
  ASSUME TypeInv, ProcessingIsHeld, [Next]_vars
  PROVE  ProcessingIsHeld'
  <1> USE DEF ids, history, stores, At, Holds
  <1>0. TypeOK /\ StepsOK
    BY DEF TypeInv
  <1>1. ASSUME NEW s \in Servers,
               \/ UploadObject(s) \/ BeginReindex(s) \/ BeginDelete(s) \/ Abort(s)
               \/ Enqueue(s) \/ RunInProcess(s) \/ UpsertInProcess(s)
               \/ DeleteVectors(s) \/ DeleteObject(s) \/ ReindexDownload(s)
               \/ ReindexDropVectors(s)
        PROVE  ProcessingIsHeld'
    <2>1. UNCHANGED <<meta, worker>>
      BY <1>1 DEF UploadObject, BeginReindex, BeginDelete, Abort, Enqueue, RunInProcess,
                  UpsertInProcess, DeleteVectors, DeleteObject, ReindexDownload,
                  ReindexDropVectors
    <2> QED
      BY <2>1, HoldersRemain DEF Engaged
  <1>2. ASSUME NEW s \in Servers, RecordDocument(s) \/ DeleteMetadata(s)
        PROVE  ProcessingIsHeld'
    <2>1. /\ server[s] \in Request
          /\ UNCHANGED worker
      BY <1>0, <1>2, Busy DEF RecordDocument, DeleteMetadata
    <2>2. \A d \in Documents : meta'[d] # NoRecord /\ meta'[d].status = "processing" =>
                                 meta'[d] = meta[d]
      BY <1>0, <1>2, <2>1 DEF RecordDocument, DeleteMetadata, TypeOK, Request
    <2> QED
      BY <2>1, <2>2 DEF ProcessingIsHeld, Engaged
  <1>3. ASSUME NEW w \in Workers, Pop(w) PROVE ProcessingIsHeld'
    BY <1>0, <1>3, HoldersRemain DEF Pop, Engaged, TypeOK
  <1>4. ASSUME NEW w \in Workers, LosePop(w) PROVE ProcessingIsHeld'
    BY <1>4, HoldersRemain DEF LosePop, Engaged
  <1>5. ASSUME NEW w \in Workers, GetRecord(w) PROVE ProcessingIsHeld'
    <2> DEFINE row == meta[worker[w].job.doc]
    <2>1. worker[w] \in Task /\ worker[w].job.doc \in Documents
      BY <1>0, <1>5, Busy DEF GetRecord, Task, Job
    <2>2. CASE worker' = [worker EXCEPT ![w].pc = "put", ![w].read = row]
      <3>1. \A v \in Workers : Engaged(v) => Engaged(v)' /\ worker'[v].job.doc = worker[v].job.doc
        BY <1>0, <1>5, <2>1, <2>2 DEF GetRecord, Engaged, Task, TypeOK
      <3> QED
        BY <1>5, <3>1, HoldersRemain DEF GetRecord
    <2>3. CASE row = NoRecord /\ AfterReport(w) /\ worker[w].status = "processing"
      <3>1. \A v \in Workers : Engaged(v) => Engaged(v)' /\ worker'[v].job.doc = worker[v].job.doc
        BY <1>0, <1>5, <2>3, AfterReportEffect DEF GetRecord, Engaged
      <3> QED
        BY <1>5, <3>1, HoldersRemain DEF GetRecord
    <2>4. CASE row = NoRecord /\ AfterReport(w) /\ worker[w].status # "processing"
      BY <1>0, <1>5, <2>1, <2>4, AfterReportEffect, HolderLetsGo DEF GetRecord
    <2> QED
      BY <1>5, <2>2, <2>3, <2>4 DEF GetRecord
  <1>6. ASSUME NEW w \in Workers, PutRecord(w) PROVE ProcessingIsHeld'
    <2> DEFINE d == worker[w].job.doc
    <2>1. worker[w] \in Task /\ d \in Documents /\ worker[w].read \in Record
      BY <1>0, <1>6, Busy DEF PutRecord, Task, Job, StepsOK
    <2>2. /\ meta'[d].status = worker[w].status
          /\ \A e \in Documents \ {d} : meta'[e] = meta[e]
      BY <1>0, <1>6, <2>1 DEF PutRecord, TypeOK, Record
    <2>3. CASE worker[w].status = "processing"
      <3>1. /\ Engaged(w)' /\ worker'[w].job.doc = d
            /\ ~Engaged(w)
            /\ \A v \in Workers \ {w} : worker'[v] = worker[v]
        BY <1>0, <1>6, <2>3, AfterReportEffect DEF PutRecord, Engaged
      <3> QED
        BY <2>2, <3>1 DEF ProcessingIsHeld, Engaged
    <2>4. CASE worker[w].status # "processing"
      BY <1>0, <1>6, <2>1, <2>2, <2>4, AfterReportEffect, HolderLetsGo DEF PutRecord
    <2> QED
      BY <2>3, <2>4
  <1>7. ASSUME NEW w \in Workers, Download(w) \/ Upsert(w) \/ Retry(w)
        PROVE  ProcessingIsHeld'
    <2>1. UNCHANGED meta /\ ~Holds(w, "idle")
      BY <1>7 DEF Download, Upsert, Retry
    <2>2. /\ Engaged(w)' /\ worker'[w].job.doc = worker[w].job.doc
          /\ \A v \in Workers \ {w} : worker'[v] = worker[v]
      <3>1. CASE HandleFailure(w)
        BY <1>0, <2>1, <3>1, HandleFailureEffect DEF Engaged
      <3>2. CASE \E st \in {"queued", "failed", "completed"} : Report(w, st)
        BY <1>0, <2>1, <3>2, ReportEffect DEF Engaged, JobStatus
      <3>3. CASE worker' = [worker EXCEPT ![w].pc = "upsert"]
        BY <1>0, <2>1, <3>3, Busy DEF Engaged, Task, TypeOK
      <3> QED
        BY <1>7, <3>1, <3>2, <3>3 DEF Download, Upsert, Retry
    <2> QED
      BY <2>1, <2>2, HoldersRemain DEF Engaged
  <1>8. ASSUME NEW w \in Workers, Crash(w) PROVE ProcessingIsHeld'
    BY <1>8 DEF Crash, ProcessingIsHeld
  <1>9. CASE UNCHANGED vars
    BY <1>9, HoldersRemain DEF vars, Engaged
  <1> QED
    BY <1>1, <1>2, <1>3, <1>4, <1>5, <1>6, <1>7, <1>8, <1>9 DEF Next, Serve, Work

\* Without crashes, a document shown as "processing" is in the hands of a worker
\* that has another status to write, whatever the other workers and handlers do.
THEOREM ProcessingHeld == Spec => []ProcessingIsHeld
  BY InitType, NextType, InitProcessing, NextProcessing, PTL DEF Spec

-----------------------------------------------------------------------------
(* The refinement of DocumentCatalog *)

\* The listing changes only with the rows and the set of deleted documents.
LEMMA ListingUnchanged ==
  ASSUME UNCHANGED <<meta, deleted>>
  PROVE  UNCHANGED [d \in Documents |-> Listing(d)]
  BY DEF Listing

LEMMA InitOneLife == Init => OneLifeInv
  BY DEF Init, OneLifeInv, Idle, At, Holds

LEMMA NextOneLife ==
  ASSUME Backend = "inprocess", \A s, t \in Servers : s = t,
         TypeInv, OneLifeInv, [Next]_vars
  PROVE  OneLifeInv'
  <1> USE DEF ids, history, stores, At, Holds
  <1>0. TypeOK /\ StepsOK
    BY DEF TypeInv
  <1>1. ASSUME NEW s \in Servers, UploadObject(s) PROVE OneLifeInv'
    BY <1>0, <1>1 DEF UploadObject, OneLifeInv, TypeOK
  <1>2. ASSUME NEW s \in Servers, BeginDelete(s) \/ BeginReindex(s) PROVE OneLifeInv'
    BY <1>0, <1>2 DEF BeginDelete, BeginReindex, OneLifeInv, TypeOK
  <1>3. ASSUME NEW s \in Servers, RecordDocument(s) \/ DeleteMetadata(s)
        PROVE  OneLifeInv'
    <2>1. /\ \A t \in Servers : server'[t] = Idle
          /\ UNCHANGED <<queue, worker, known>>
      BY <1>0, <1>3 DEF RecordDocument, DeleteMetadata, Finish, TypeOK
    <2>2. server[s].doc \in known
      BY <1>3 DEF RecordDocument, DeleteMetadata, OneLifeInv
    <2>3. \A d \in Documents : meta'[d] # NoRecord \/ d \in deleted' => d \in known
      BY <1>0, <1>3, <2>2 DEF RecordDocument, DeleteMetadata, OneLifeInv, TypeOK
    <2> QED
      BY <2>1, <2>3 DEF OneLifeInv, Idle
  <1>4. ASSUME NEW s \in Servers,
               \/ RunInProcess(s) \/ UpsertInProcess(s) \/ DeleteVectors(s)
               \/ DeleteObject(s) \/ ReindexDownload(s) \/ ReindexDropVectors(s)
        PROVE  OneLifeInv'
    <2>1. UNCHANGED <<queue, worker, meta, deleted, known>>
      BY <1>4 DEF RunInProcess, UpsertInProcess, DeleteVectors, DeleteObject,
                  ReindexDownload, ReindexDropVectors
    <2>2. server[s] \in Request
      BY <1>0, <1>4, Busy DEF RunInProcess, UpsertInProcess, DeleteVectors, DeleteObject,
                  ReindexDownload, ReindexDropVectors
    <2>3. \/ server'[s] = Idle
          \/ /\ server'[s].op = server[s].op /\ server'[s].doc = server[s].doc
             /\ (server'[s].pc \in {"delete_vectors", "delete_object", "delete_metadata"})
                  = (server[s].pc \in {"delete_vectors", "delete_object", "delete_metadata"})
      BY <1>0, <1>4, <2>2
      DEF RunInProcess, UpsertInProcess, DeleteVectors, DeleteObject, ReindexDownload,
          ReindexDropVectors, Goto, Settle, Finish, Request, TypeOK
    <2> QED
      BY <1>4, <2>1, <2>3
      DEF OneLifeInv, Idle, RunInProcess, UpsertInProcess, DeleteVectors, DeleteObject,
          ReindexDownload, ReindexDropVectors
  <1>5. ASSUME NEW s \in Servers, Abort(s) PROVE OneLifeInv'
    BY <1>0, <1>5 DEF Abort, Finish, OneLifeInv, TypeOK, Idle
  <1>6. ASSUME NEW s \in Servers, Enqueue(s) PROVE OneLifeInv'
    BY <1>6 DEF Enqueue
  <1>7. ASSUME NEW w \in Workers, Work(w) \/ LosePop(w) \/ Crash(w) PROVE OneLifeInv'
    BY <1>7 DEF OneLifeInv, Work, LosePop, Crash, Pop, GetRecord, PutRecord, Download,
                Upsert, Retry
  <1>8. CASE UNCHANGED vars
    BY <1>8 DEF vars, OneLifeInv
  <1> QED
    BY <1>1, <1>2, <1>3, <1>4, <1>5, <1>6, <1>7, <1>8 DEF Next, Serve

\* A row is not the absence of one.
LEMMA RecordIsNotNoRecord == \A r \in Record : r # NoRecord
  BY DEF Record, NoRecord

LEMMA InitCatalog == Init => Catalog!Init
  BY DEF Init, Catalog!Init, Listing

LEMMA NextCatalog ==
  ASSUME Backend = "inprocess", TypeInv, OneLifeInv, [Next]_vars
  PROVE  [Catalog!Next]_[d \in Documents |-> Listing(d)]
  <1> USE DEF ids, history, stores, At, Holds
  <1>0. TypeOK /\ StepsOK
    BY DEF TypeInv
  <1>1. ASSUME NEW s \in Servers, RecordDocument(s) PROVE Catalog!Next
    <2>0. server[s] \in Request
      BY <1>0, <1>1, Busy DEF RecordDocument
    <2>1. PICK d \in Documents : d = server[s].doc
      BY <2>0 DEF Request
    <2>2. PICK o \in JobStatus :
            /\ meta' = [meta EXCEPT ![d] = [job |-> server[s].job, status |-> o,
                                            chunks |-> o = "completed"]]
            /\ deleted' = deleted
      BY <1>1, <2>0, <2>1 DEF RecordDocument, Request
    <2>3. o \in Catalog!Outcome
      BY <2>2 DEF Catalog!Outcome, JobStatus
    <2>4. server[s].job \in Jobs
      BY <1>0, <1>1, <2>0 DEF RecordDocument, StepsOK, TypeOK
    <2>5. meta'[d] # NoRecord /\ meta'[d].status = o
      BY <1>0, <2>1, <2>2, <2>4, RecordIsNotNoRecord DEF TypeOK, Record
    <2>6. \A e \in Documents \ {d} : meta'[e] = meta[e]
      BY <1>0, <2>2 DEF TypeOK
    <2>7. [e \in Documents |-> Listing(e)]' =
            [[e \in Documents |-> Listing(e)] EXCEPT ![d] = o]
      <3>1. deleted' = deleted
        BY <2>2
      <3>2. \A e \in Documents : Listing(e)' = IF e = d THEN o ELSE Listing(e)
        BY <2>5, <2>6, <3>1 DEF Listing
      <3> QED
        BY <3>2
    <2>8. CASE server[s].op = "upload"
      <3>1. Listing(d) = "unknown"
        BY <1>1, <2>1, <2>8 DEF RecordDocument, OneLifeInv, Listing
      <3> QED
        BY <2>1, <2>3, <2>7, <3>1 DEF Catalog!Next, Catalog!List
    <2>9. CASE server[s].op # "upload"
      <3>1. Listing(d) \in Catalog!Outcome
        BY <1>0, <1>1, <2>1, <2>9
        DEF RecordDocument, OneLifeInv, Listing, TypeOK, Record, Catalog!Outcome, JobStatus
      <3> QED
        BY <2>1, <2>3, <2>7, <3>1 DEF Catalog!Next, Catalog!Relist
    <2> QED
      BY <2>8, <2>9
  <1>2. ASSUME NEW s \in Servers, DeleteMetadata(s) PROVE Catalog!Next
    <2> DEFINE d == server[s].doc
    <2>1. server[s] \in Request /\ d \in Documents
      BY <1>0, <1>2, Busy DEF DeleteMetadata, Request
    <2>2. Listing(d) \in Catalog!Outcome
      BY <1>0, <1>2, <2>1
      DEF DeleteMetadata, OneLifeInv, Listing, TypeOK, Record, Catalog!Outcome, JobStatus
    <2>3. /\ meta'[d] = NoRecord /\ deleted' = deleted \cup {d}
          /\ \A e \in Documents \ {d} : meta'[e] = meta[e]
      BY <1>0, <1>2, <2>1 DEF DeleteMetadata, TypeOK
    <2>4. [e \in Documents |-> Listing(e)]' =
            [[e \in Documents |-> Listing(e)] EXCEPT ![d] = "gone"]
      BY <2>1, <2>3 DEF Listing
    <2> QED
      BY <2>1, <2>2, <2>4 DEF Catalog!Next, Catalog!Remove
  <1>3. ASSUME NEW s \in Servers,
               \/ UploadObject(s) \/ BeginDelete(s) \/ BeginReindex(s) \/ Abort(s)
               \/ Enqueue(s) \/ RunInProcess(s) \/ UpsertInProcess(s) \/ DeleteVectors(s)
               \/ DeleteObject(s) \/ ReindexDownload(s) \/ ReindexDropVectors(s)
        PROVE  UNCHANGED <<meta, deleted>>
    BY <1>3 DEF UploadObject, BeginDelete, BeginReindex, Abort, Enqueue, RunInProcess,
                UpsertInProcess, DeleteVectors, DeleteObject, ReindexDownload,
                ReindexDropVectors
  <1>4. ASSUME NEW w \in Workers, Work(w) \/ LosePop(w) \/ Crash(w)
        PROVE  FALSE
    BY <1>4 DEF OneLifeInv, Work, LosePop, Crash, Pop, GetRecord, PutRecord, Download,
                Upsert, Retry
  <1>5. CASE UNCHANGED vars
    BY <1>5, ListingUnchanged DEF vars
  <1> QED
    BY <1>1, <1>2, <1>3, <1>4, <1>5, ListingUnchanged DEF Next, Serve

\* With the in-process queue and one API process no job is left to a worker, and
\* the row that a delete or a reindex found is there until it is done.
THEOREM OneLife ==
  ASSUME Backend = "inprocess", \A s, t \in Servers : s = t
  PROVE  Spec => []OneLifeInv
  BY InitType, NextType, InitOneLife, NextOneLife, PTL DEF Spec

\* With the in-process queue and one API process, every document has one life
\* for its clients, whatever call fails: it is never listed again once deleted.
THEOREM CatalogImplemented ==
  ASSUME Backend = "inprocess", \A s, t \in Servers : s = t
  PROVE  Spec => ImplementsCatalog
  BY InitType, NextType, InitOneLife, NextOneLife, InitCatalog, NextCatalog, PTL
  DEF Spec, ImplementsCatalog, Catalog!Spec

-----------------------------------------------------------------------------
(* Steps and requests *)

\* The steps of a delete are those of a delete request, the first two of a
\* reindex those of a reindex; through Redis no request runs the pipeline.
RequestInv ==
  \A s \in Servers :
    /\ server[s].pc \in {"download", "drop_vectors"} => server[s].op = "reindex"
    /\ server[s].pc \in {"delete_vectors", "delete_object", "delete_metadata"} =>
         server[s].op = "delete"
    /\ Backend = "redis" /\ ~At(s, "idle") =>
         ~At(s, "upsert") /\ server[s].status # "completed"

LEMMA InitRequest == Init => RequestInv
  BY DEF Init, RequestInv, Idle, At

\* A step keeps what a request may rely on about its own document.
LEMMA NextRequest ==
  ASSUME TypeInv, RequestInv, [Next]_vars
  PROVE  RequestInv'
  <1> USE DEF ids, history, stores, At, Holds
  <1>0. TypeOK
    BY DEF TypeInv
  <1>1. ASSUME NEW s \in Servers, UploadObject(s) \/ BeginDelete(s) \/ BeginReindex(s)
        PROVE  RequestInv'
    BY <1>0, <1>1 DEF UploadObject, BeginDelete, BeginReindex, RequestInv, TypeOK
  <1>2. ASSUME NEW s \in Servers, Serve(s) \/ Abort(s) PROVE RequestInv'
    <2>1. server[s] \in Request /\ server \in [Servers -> Request \cup {Idle}]
      BY <1>0, <1>2, Busy
      DEF Serve, Abort, Enqueue, RunInProcess, UpsertInProcess, RecordDocument, DeleteVectors,
          DeleteObject, DeleteMetadata, ReindexDownload, ReindexDropVectors, TypeOK
    <2>2. \A t \in Servers \ {s} : server'[t] = server[t]
      BY <1>2, <2>1
      DEF Serve, Abort, Enqueue, RunInProcess, UpsertInProcess, RecordDocument, DeleteVectors,
          DeleteObject, DeleteMetadata, ReindexDownload, ReindexDropVectors, Goto, Settle,
          Finish
    <2>3. CASE Enqueue(s) \/ RunInProcess(s) \/ UpsertInProcess(s)
      <3>1. \/ server'[s].pc = "upsert" /\ Backend # "redis"
            \/ /\ server'[s].pc = "record"
               /\ Backend = "redis" => server'[s].status # "completed"
        BY <2>1, <2>3 DEF Enqueue, RunInProcess, UpsertInProcess, Goto, Settle, Request,
                          RequestInv
      <3> QED
        BY <2>2, <3>1 DEF RequestInv
    <2>4. CASE \/ DeleteVectors(s) \/ DeleteObject(s) \/ ReindexDropVectors(s)
               \/ ReindexDownload(s) /\ server'[s] # Idle
      <3>1. server'[s].op = server[s].op /\ server'[s].status = server[s].status
        BY <2>1, <2>4 DEF DeleteVectors, DeleteObject, ReindexDropVectors, ReindexDownload,
                          Goto, Finish, Request
      <3>2. \/ /\ server'[s].pc \in {"delete_object", "delete_metadata"}
               /\ server[s].op = "delete"
            \/ server'[s].pc \in {"drop_vectors", "enqueue"} /\ server[s].op = "reindex"
        BY <2>1, <2>4 DEF DeleteVectors, DeleteObject, ReindexDropVectors, ReindexDownload,
                          Goto, Finish, Request, RequestInv
      <3>3. Backend = "redis" => server[s].status # "completed"
        BY <2>4 DEF DeleteVectors, DeleteObject, ReindexDropVectors, ReindexDownload,
                    RequestInv
      <3> QED
        BY <2>2, <3>1, <3>2, <3>3 DEF RequestInv
    <2>5. CASE \/ RecordDocument(s) \/ DeleteMetadata(s) \/ Abort(s)
               \/ ReindexDownload(s) /\ server'[s] = Idle
      <3>1. server'[s] = Idle
        BY <2>1, <2>5 DEF RecordDocument, DeleteMetadata, Abort, Finish
      <3> QED
        BY <2>2, <3>1 DEF RequestInv, Idle
    <2> QED
      BY <1>2, <2>3, <2>4, <2>5 DEF Serve
  <1>3. ASSUME NEW w \in Workers, Work(w) \/ LosePop(w) \/ Crash(w) PROVE RequestInv'
    <2>1. server' = server
      BY <1>3 DEF Work, LosePop, Crash, Pop, GetRecord, PutRecord, Download, Upsert, Retry
    <2> QED
      BY <2>1 DEF RequestInv
  <1>4. CASE UNCHANGED vars
    BY <1>4 DEF vars, RequestInv
  <1> QED
    BY <1>1, <1>2, <1>3, <1>4 DEF Next

-----------------------------------------------------------------------------
(* What a delete leaves behind *)

\* A deleted document is nowhere, and what a delete has removed is still gone
\* when it goes on: this is what one process at a time makes true.
DeletedInv ==
  /\ \A d \in deleted : meta[d] = NoRecord /\ d \notin objects \cup vectors
  /\ \A s \in Servers :
       /\ At(s, "delete_object")   => server[s].doc \notin vectors
       /\ At(s, "delete_metadata") => server[s].doc \notin objects \cup vectors

LEMMA InitDeleted == Init => DeletedInv /\ NoOrphans
  BY DEF Init, DeletedInv, NoOrphans, Idle, At

\* A request that goes on finds the stores as it left them, and no other request
\* has a document in hand that a delete has removed.
LEMMA NextDeleted ==
  ASSUME Backend = "inprocess", \A s, t \in Servers : s = t,
         TypeInv, OneLifeInv, DeletedInv, [Next]_vars
  PROVE  DeletedInv'
  <1> USE DEF ids, history, stores, At, Holds
  <1>0. TypeOK /\ StepsOK
    BY DEF TypeInv
  <1>1. ASSUME NEW s \in Servers,
               UploadObject(s) \/ BeginDelete(s) \/ BeginReindex(s)
        PROVE  DeletedInv'
    <2>1. \A t \in Servers : server'[t].pc \notin {"delete_object", "delete_metadata"}
      BY <1>0, <1>1 DEF UploadObject, BeginDelete, BeginReindex, TypeOK
    <2>2. \A d \in deleted : d \in known
      BY <1>0 DEF OneLifeInv, TypeOK
    <2>3. UNCHANGED <<meta, vectors, deleted>>
      BY <1>1 DEF UploadObject, BeginDelete, BeginReindex
    <2>4. \A d \in known : d \in objects' => d \in objects
      BY <1>1 DEF UploadObject, BeginDelete, BeginReindex
    <2> QED
      BY <2>1, <2>2, <2>3, <2>4 DEF DeletedInv
  <1>2. ASSUME NEW s \in Servers, Abort(s) PROVE DeletedInv'
    <2>1. \A t \in Servers : server'[t] = Idle
      BY <1>0, <1>2 DEF Abort, Finish, TypeOK
    <2> QED
      BY <1>2, <2>1 DEF Abort, DeletedInv, Idle
  <1>3. ASSUME NEW s \in Servers, RunInProcess(s) \/ ReindexDownload(s)
        PROVE  DeletedInv'
    <2>1. \A t \in Servers : server'[t].pc \notin {"delete_object", "delete_metadata"}
      <3>1. server[s] \in Request
        BY <1>0, <1>3, Busy DEF RunInProcess, ReindexDownload
      <3> QED
        BY <1>0, <1>3, <3>1 DEF RunInProcess, ReindexDownload, Goto, Settle, Finish, TypeOK,
                               Request, Idle
    <2> QED
      BY <1>3, <2>1 DEF RunInProcess, ReindexDownload, DeletedInv
  <1>4. ASSUME NEW s \in Servers, UpsertInProcess(s) PROVE DeletedInv'
    <2>1. server[s] \in Request
      BY <1>0, <1>4, Busy DEF UpsertInProcess
    <2>2. \A t \in Servers : server'[t].pc = "record"
      BY <1>0, <1>4, <2>1 DEF UpsertInProcess, Settle, TypeOK, Request
    <2>3. server[s].doc \notin deleted
      BY <1>4, <2>1 DEF UpsertInProcess, OneLifeInv, DeletedInv, Request
    <2> QED
      BY <1>4, <2>2, <2>3 DEF UpsertInProcess, DeletedInv
  <1>5. ASSUME NEW s \in Servers, RecordDocument(s) PROVE DeletedInv'
    <2>1. server[s] \in Request
      BY <1>0, <1>5, Busy DEF RecordDocument
    <2>2. \A t \in Servers : server'[t] = Idle
      BY <1>0, <1>5 DEF RecordDocument, Finish, TypeOK
    <2>3. server[s].doc \notin deleted
      BY <1>5, <2>1 DEF RecordDocument, OneLifeInv, DeletedInv, Request
    <2> QED
      BY <1>0, <1>5, <2>2, <2>3 DEF RecordDocument, DeletedInv, TypeOK, Idle
  <1>6. ASSUME NEW s \in Servers, DeleteVectors(s) \/ DeleteObject(s) \/ ReindexDropVectors(s)
        PROVE  DeletedInv'
    <2>1. server[s] \in Request
      BY <1>0, <1>6, Busy DEF DeleteVectors, DeleteObject, ReindexDropVectors
    <2>2. \A t \in Servers : t = s /\ server'[t].doc = server[s].doc
      BY <1>0, <1>6, <2>1
      DEF DeleteVectors, DeleteObject, ReindexDropVectors, Goto, TypeOK, Request
    <2>3. /\ objects' \subseteq objects /\ vectors' \subseteq vectors
          /\ UNCHANGED <<meta, deleted>>
      BY <1>6 DEF DeleteVectors, DeleteObject, ReindexDropVectors
    <2>4. CASE DeleteVectors(s)
      <3>1. server'[s].pc = "delete_object" /\ server[s].doc \notin vectors'
        BY <1>0, <2>1, <2>4 DEF DeleteVectors, Goto, TypeOK, Request
      <3> QED
        BY <2>2, <2>3, <3>1 DEF DeletedInv
    <2>5. CASE DeleteObject(s)
      <3>1. server'[s].pc = "delete_metadata" /\ server[s].doc \notin objects' \cup vectors'
        BY <1>0, <2>1, <2>5 DEF DeleteObject, Goto, TypeOK, Request, DeletedInv
      <3> QED
        BY <2>2, <2>3, <3>1 DEF DeletedInv
    <2>6. CASE ReindexDropVectors(s)
      <3>1. server'[s].pc = "enqueue"
        BY <1>0, <2>1, <2>6 DEF ReindexDropVectors, Goto, TypeOK, Request
      <3> QED
        BY <2>2, <2>3, <3>1 DEF DeletedInv
    <2> QED
      BY <1>6, <2>4, <2>5, <2>6
  <1>7. ASSUME NEW s \in Servers, DeleteMetadata(s) PROVE DeletedInv'
    <2>1. server[s] \in Request
      BY <1>0, <1>7, Busy DEF DeleteMetadata
    <2>2. \A t \in Servers : server'[t] = Idle
      BY <1>0, <1>7 DEF DeleteMetadata, Finish, TypeOK
    <2>3. server[s].doc \in Documents /\ server[s].doc \notin objects \cup vectors
      BY <1>7, <2>1 DEF DeleteMetadata, DeletedInv, Request
    <2>4. \A d \in deleted' : meta'[d] = NoRecord /\ d \notin objects \cup vectors
      BY <1>0, <1>7, <2>3 DEF DeleteMetadata, DeletedInv, TypeOK
    <2> QED
      BY <1>7, <2>2, <2>4 DEF DeleteMetadata, DeletedInv, Idle
  <1>8. ASSUME NEW s \in Servers, Enqueue(s) PROVE DeletedInv'
    BY <1>8 DEF Enqueue
  <1>9. ASSUME NEW w \in Workers, Work(w) \/ LosePop(w) \/ Crash(w) PROVE DeletedInv'
    BY <1>9 DEF OneLifeInv, Work, LosePop, Crash, Pop, GetRecord, PutRecord, Download,
                Upsert, Retry
  <1>10. CASE UNCHANGED vars
    BY <1>10 DEF vars, DeletedInv
  <1> QED
    BY <1>1, <1>2, <1>3, <1>4, <1>5, <1>6, <1>7, <1>8, <1>9, <1>10 DEF Next, Serve

\* An original or chunks without a row are those of the request of the one
\* process that runs: a delete removes the row last, an upload writes it last.
LEMMA NextOrphans ==
  ASSUME Backend = "inprocess", \A s, t \in Servers : s = t,
         "abort_upload" \notin Faults,
         TypeInv, OneLifeInv, RequestInv, DeletedInv, NoOrphans, [Next]_vars
  PROVE  NoOrphans'
  <1> USE DEF ids, history, stores, At, Holds
  <1>0. TypeOK /\ StepsOK
    BY DEF TypeInv
  <1>1. ASSUME NEW s \in Servers, UploadObject(s) \/ BeginDelete(s) \/ BeginReindex(s)
        PROVE  NoOrphans'
    <2>1. \A d \in objects \cup vectors : meta'[d] # NoRecord
      BY <1>1 DEF UploadObject, BeginDelete, BeginReindex, NoOrphans
    <2>2. \A d \in objects' \cup vectors' :
            d \notin objects \cup vectors =>
              server'[s].pc # "idle" /\ server'[s].op = "upload" /\ server'[s].doc = d
      BY <1>0, <1>1 DEF UploadObject, BeginDelete, BeginReindex, TypeOK
    <2> QED
      BY <2>1, <2>2 DEF NoOrphans
  <1>2. ASSUME NEW s \in Servers, Abort(s) \/ (ReindexDownload(s) /\ server'[s] = Idle)
        PROVE  NoOrphans'
    <2>1. server[s] \in Request
      BY <1>0, <1>2, Busy DEF Abort, ReindexDownload
    <2>2. server[s].op # "upload"
      BY <1>2, <2>1 DEF Abort, ReindexDownload, RequestInv
    <2>3. meta[server[s].doc] # NoRecord
      BY <1>2, <2>1, <2>2 DEF Abort, ReindexDownload, OneLifeInv
    <2>4. UNCHANGED stores
      BY <1>2 DEF Abort, ReindexDownload
    <2> QED
      BY <2>2, <2>3, <2>4 DEF NoOrphans
  <1>3. ASSUME NEW s \in Servers,
               \/ RunInProcess(s) \/ UpsertInProcess(s) \/ DeleteVectors(s)
               \/ DeleteObject(s) \/ ReindexDropVectors(s)
               \/ ReindexDownload(s) /\ server'[s] # Idle
        PROVE  NoOrphans'
    <2>1. server[s] \in Request
      BY <1>0, <1>3, Busy
      DEF RunInProcess, UpsertInProcess, DeleteVectors, DeleteObject, ReindexDropVectors,
          ReindexDownload
    <2>2. /\ server'[s].pc # "idle"
          /\ server'[s].op = server[s].op /\ server'[s].doc = server[s].doc
      BY <1>0, <1>3, <2>1
      DEF RunInProcess, UpsertInProcess, DeleteVectors, DeleteObject, ReindexDropVectors,
          ReindexDownload, Goto, Settle, Finish, TypeOK, Request
    <2>3. /\ UNCHANGED meta
          /\ \A d \in objects' \cup vectors' : d \in objects \cup vectors \/ d = server[s].doc
      BY <1>3 DEF RunInProcess, UpsertInProcess, DeleteVectors, DeleteObject,
                  ReindexDropVectors, ReindexDownload
    <2>4. meta[server[s].doc] # NoRecord \/ server[s].op = "upload"
      BY <1>3, <2>1
      DEF OneLifeInv, RunInProcess, UpsertInProcess, DeleteVectors, DeleteObject,
          ReindexDropVectors, ReindexDownload
    <2> QED
      BY <2>2, <2>3, <2>4 DEF NoOrphans
  <1>4. ASSUME NEW s \in Servers, RecordDocument(s) PROVE NoOrphans'
    <2>1. server[s] \in Request
      BY <1>0, <1>4, Busy DEF RecordDocument
    <2>2. /\ meta'[server[s].doc] # NoRecord
          /\ \A d \in Documents \ {server[s].doc} : meta'[d] = meta[d]
      BY <1>0, <1>4, <2>1 DEF RecordDocument, TypeOK, NoRecord, Request
    <2>3. \A d \in (objects \cup vectors) \ {server[s].doc} : meta[d] # NoRecord
      BY <1>4 DEF NoOrphans
    <2>4. objects \cup vectors \subseteq Documents /\ UNCHANGED <<objects, vectors>>
      BY <1>0, <1>4 DEF RecordDocument, TypeOK
    <2> QED
      BY <2>2, <2>3, <2>4 DEF NoOrphans
  <1>5. ASSUME NEW s \in Servers, DeleteMetadata(s) PROVE NoOrphans'
    <2>1. server[s] \in Request /\ server[s].op = "delete"
      BY <1>0, <1>5, Busy DEF DeleteMetadata, OneLifeInv
    <2>2. server[s].doc \notin objects \cup vectors
      BY <1>5 DEF DeleteMetadata, DeletedInv
    <2>3. \A d \in objects \cup vectors : meta[d] # NoRecord
      BY <2>1 DEF NoOrphans
    <2>4. \A d \in objects \cup vectors : meta'[d] = meta[d]
      BY <1>0, <1>5, <2>2 DEF DeleteMetadata, TypeOK
    <2> QED
      BY <1>5, <2>3, <2>4 DEF DeleteMetadata, NoOrphans
  <1>6. ASSUME NEW s \in Servers, Enqueue(s) PROVE NoOrphans'
    BY <1>6 DEF Enqueue
  <1>7. ASSUME NEW w \in Workers, Work(w) \/ LosePop(w) \/ Crash(w) PROVE NoOrphans'
    BY <1>7 DEF OneLifeInv, Work, LosePop, Crash, Pop, GetRecord, PutRecord, Download,
                Upsert, Retry
  <1>8. CASE UNCHANGED vars
    BY <1>8 DEF vars, NoOrphans
  <1>9. ASSUME NEW s \in Servers, ReindexDownload(s) PROVE NoOrphans'
    BY <1>2, <1>3, <1>9
  <1> QED
    BY <1>1, <1>2, <1>3, <1>4, <1>5, <1>6, <1>7, <1>8, <1>9 DEF Next, Serve

\* With the in-process queue and one API process, whatever call fails, a deleted
\* document has no row, no original and no chunks, not even while requests run.
THEOREM DeletedGone ==
  ASSUME Backend = "inprocess", \A s, t \in Servers : s = t
  PROVE  Spec => [](DeletedInv /\ DeletedStaysDeleted)
  <1>1. DeletedInv => DeletedStaysDeleted
    BY DEF DeletedInv, DeletedStaysDeleted
  <1> QED
    BY <1>1, InitType, NextType, InitOneLife, NextOneLife, InitDeleted, NextDeleted, PTL
    DEF Spec

\* And whatever a document still has in the bucket or the collection can be
\* deleted, as long as no upload dies before it writes its row.
THEOREM OrphansNever ==
  ASSUME Backend = "inprocess", \A s, t \in Servers : s = t,
         "abort_upload" \notin Faults
  PROVE  Spec => []NoOrphans
  BY InitType, NextType, InitRequest, NextRequest, InitOneLife, NextOneLife, InitDeleted,
     NextDeleted, NextOrphans, PTL DEF Spec

-----------------------------------------------------------------------------
(* Completed and searchable *)

\* Request s will see to it that chunks of d missing now are put back, or that
\* the row of d goes too.
OwedBy(s, d) ==
  /\ server[s].pc # "idle" /\ server[s].doc = d
  /\ \/ server[s].pc = "enqueue" /\ server[s].op = "reindex"
     \/ server[s].pc \in {"delete_object", "delete_metadata"}

Owed(d) ==
  \/ d \in deleted
  \/ \E k \in 1..Len(queue) : queue[k].doc = d
  \/ \E s \in Servers : OwedBy(s, d)

\* Worker w has d in hand and will write another status than "completed",
\* unless it upserts the chunks first.
Handles(w, d) ==
  /\ worker[w].pc # "idle" /\ worker[w].job.doc = d
  /\ worker[w].pc \in {"get", "put"} => worker[w].status # "completed"

\* "completed" without chunks is always about to change, also where a worker
\* has yet to write it.
SearchableInv ==
  /\ \A d \in Documents \ vectors :
       meta[d] # NoRecord /\ meta[d].status = "completed" =>
         Owed(d) \/ \E w \in Workers : Handles(w, d)
  /\ \A w \in Workers :
       worker[w].pc \in {"get", "put"} /\ worker[w].status = "completed" =>
         worker[w].job.doc \in vectors \/ Owed(worker[w].job.doc)

\* No job and no request is lost: enqueue reaches the list, pops reach the
\* worker, the worker, deletes and reindexes do not die half way.
NothingLost ==
  Faults \cap {"enqueue_error", "lost_pop", "worker_crash", "abort_delete",
               "abort_reindex"} = {}

LEMMA InitSearchable == Init => SearchableInv
  BY DEF Init, SearchableInv, Idle

\* What is owed stays owed, as long as the list only grows.
LEMMA OwedStays ==
  ASSUME TypeOK, NEW d, Owed(d), deleted \subseteq deleted',
         queue' = queue \/ \E job \in Job : queue' = Append(queue, job),
         \A s \in Servers : OwedBy(s, d) => OwedBy(s, d)' \/ Owed(d)'
  PROVE  Owed(d)'
  <1>1. CASE \E k \in 1..Len(queue) : queue[k].doc = d
    <2>1. PICK k \in 1..Len(queue) : queue[k].doc = d
      BY <1>1
    <2>2. k \in 1..Len(queue') /\ queue'[k] = queue[k]
      BY DEF TypeOK
    <2> QED
      BY <2>1, <2>2 DEF Owed
  <1> QED
    BY <1>1 DEF Owed

\* An enqueue that loses no job puts one at the end of the list.
LEMMA PushGrows ==
  ASSUME "enqueue_error" \notin Faults, queue \in Seq(Job),
         NEW job \in Job, NEW st, Push(job, st)
  PROVE  /\ queue' = Append(queue, job)
         /\ queue'[Len(queue')] = job /\ Len(queue') \in 1..Len(queue')
         /\ st # "completed"
  BY DEF Push

\* Steps of an API process that drop no chunks and list nothing as "completed".
LEMMA ServerKeepsSearchable ==
  ASSUME SearchableInv, UNCHANGED <<vectors, worker>>,
         \A d \in Documents : Owed(d) => Owed(d)',
         TypeOK,
         \A d \in Documents :
           \/ meta'[d] = meta[d] \/ meta'[d] = NoRecord \/ meta'[d].status # "completed"
  PROVE  SearchableInv'
  <1>1. ASSUME NEW d \in Documents \ vectors, meta'[d] # NoRecord,
               meta'[d].status = "completed"
        PROVE  Owed(d)' \/ \E w \in Workers : Handles(w, d)'
    BY <1>1 DEF SearchableInv, Handles
  <1>2. ASSUME NEW w \in Workers, worker[w].pc \in {"get", "put"},
               worker[w].status = "completed"
        PROVE  worker[w].job.doc \in vectors \/ Owed(worker[w].job.doc)'
    <2>1. worker[w].job.doc \in Documents
      BY <1>2, Busy DEF Holds, Task, Job
    <2> QED
      BY <1>2, <2>1 DEF SearchableInv
  <1> QED
    BY <1>1, <1>2 DEF SearchableInv

\* Whoever removes chunks owes the document an upsert or the end of its row; a pop
\* turns a debt into a task, and a task upserts or writes another status.
LEMMA NextSearchable ==
  ASSUME Backend = "redis", \A v, w \in Workers : v = w, NothingLost,
         TypeInv, RequestInv, SearchableInv, [Next]_vars
  PROVE  SearchableInv'
  <1> USE DEF ids, history, stores, At, Holds
  <1>0. TypeOK /\ StepsOK /\ TypeOK'
    BY NextType DEF TypeInv
  <1>1. ASSUME NEW s \in Servers,
               UploadObject(s) \/ BeginDelete(s) \/ BeginReindex(s) \/ Abort(s)
        PROVE  SearchableInv'
    <2>1. \A t \in Servers, d \in Documents : OwedBy(t, d) => OwedBy(t, d)'
      <3>1. \A d \in Documents : ~OwedBy(s, d)
        <4>1. CASE Abort(s)
          BY <4>1 DEF Abort, OwedBy, NothingLost, RequestInv
        <4> QED
          BY <1>1, <4>1 DEF UploadObject, BeginDelete, BeginReindex, OwedBy
      <3>2. \A t \in Servers \ {s} : server'[t] = server[t]
        BY <1>0, <1>1 DEF UploadObject, BeginDelete, BeginReindex, Abort, Finish, TypeOK
      <3> QED
        BY <3>1, <3>2 DEF OwedBy
    <2>2. UNCHANGED <<meta, vectors, queue, worker, deleted>>
      BY <1>1 DEF UploadObject, BeginDelete, BeginReindex, Abort
    <2>3. \A d \in Documents : Owed(d) => Owed(d)'
      BY <1>0, <2>1, <2>2, OwedStays
    <2> QED
      BY <1>0, <2>2, <2>3, ServerKeepsSearchable
  <1>2. ASSUME NEW s \in Servers, Enqueue(s) PROVE SearchableInv'
    <2>0. server[s] \in Request /\ server[s].job \in Jobs
      BY <1>0, <1>2, Busy DEF Enqueue, StepsOK, TypeOK
    <2> DEFINE job == [id |-> server[s].job, doc |-> server[s].doc, attempt |-> 1]
    <2>1. job \in Job
      BY <2>0, ConstantsAssumption DEF Job, Request
    <2>2. PICK st \in {"queued", "failed"} : Push(job, st) /\ Settle(s, st)
      BY <1>2 DEF Enqueue
    <2>3. /\ queue' = Append(queue, job)
          /\ queue'[Len(queue')] = job /\ Len(queue') \in 1..Len(queue')
      BY <1>0, <2>1, <2>2, PushGrows DEF NothingLost, TypeOK
    <2>4. UNCHANGED <<meta, vectors, worker, deleted>>
      BY <1>2 DEF Enqueue
    <2>5. \A t \in Servers \ {s} : server'[t] = server[t]
      BY <1>0, <2>2 DEF Settle, TypeOK
    <2>6. \A d \in Documents : Owed(d) => Owed(d)'
      <3> SUFFICES ASSUME NEW d \in Documents, Owed(d) PROVE Owed(d)'
        OBVIOUS
      <3>1. OwedBy(s, d) => Owed(d)'
        BY <2>3 DEF OwedBy, Owed
      <3>2. \A t \in Servers : OwedBy(t, d) => OwedBy(t, d)' \/ Owed(d)'
        BY <2>5, <3>1 DEF OwedBy
      <3> QED
        BY <1>0, <2>1, <2>3, <2>4, <3>2, OwedStays
    <2> QED
      BY <1>0, <2>4, <2>6, ServerKeepsSearchable
  <1>3. ASSUME NEW s \in Servers,
               RecordDocument(s) \/ ReindexDownload(s) \/ DeleteObject(s) \/ DeleteMetadata(s)
        PROVE  SearchableInv'
    <2>0. server[s] \in Request
      BY <1>0, <1>3, Busy
      DEF RecordDocument, ReindexDownload, DeleteObject, DeleteMetadata
    <2>1. \A t \in Servers \ {s} : server'[t] = server[t]
      BY <1>0, <1>3 DEF RecordDocument, ReindexDownload, DeleteObject, DeleteMetadata, Goto,
                        Finish, TypeOK
    <2>2. \A d \in Documents : OwedBy(s, d) => OwedBy(s, d)' \/ Owed(d)'
      <3>1. CASE RecordDocument(s) \/ ReindexDownload(s)
        BY <3>1 DEF RecordDocument, ReindexDownload, OwedBy
      <3>2. CASE DeleteObject(s)
        BY <1>0, <2>0, <3>2 DEF DeleteObject, Goto, OwedBy, TypeOK, Request
      <3>3. CASE DeleteMetadata(s)
        BY <3>3 DEF DeleteMetadata, OwedBy, Owed
      <3> QED
        BY <1>3, <3>1, <3>2, <3>3
    <2>3. /\ UNCHANGED <<vectors, queue, worker>>
          /\ deleted \subseteq deleted'
      BY <1>3 DEF RecordDocument, ReindexDownload, DeleteObject, DeleteMetadata
    <2>4. \A d \in Documents : Owed(d) => Owed(d)'
      <3> SUFFICES ASSUME NEW d \in Documents, Owed(d) PROVE Owed(d)'
        OBVIOUS
      <3>1. \A t \in Servers : OwedBy(t, d) => OwedBy(t, d)' \/ Owed(d)'
        BY <2>1, <2>2 DEF OwedBy
      <3> QED
        BY <1>0, <2>3, <3>1, OwedStays
    <2>5. \A d \in Documents :
            \/ meta'[d] = meta[d] \/ meta'[d] = NoRecord \/ meta'[d].status # "completed"
      <3>1. CASE RecordDocument(s)
        <4>1. server[s].status # "completed"
          BY <2>0, <3>1 DEF RecordDocument, RequestInv
        <4> QED
          BY <1>0, <3>1, <4>1 DEF RecordDocument, TypeOK
      <3>2. CASE DeleteMetadata(s)
        BY <1>0, <3>2 DEF DeleteMetadata, TypeOK
      <3> QED
        BY <1>3, <3>1, <3>2 DEF ReindexDownload, DeleteObject
    <2> QED
      BY <1>0, <2>3, <2>4, <2>5, ServerKeepsSearchable
  <1>4. ASSUME NEW s \in Servers, DeleteVectors(s) \/ ReindexDropVectors(s)
        PROVE  SearchableInv'
    <2>0. server[s] \in Request
      BY <1>0, <1>4, Busy DEF DeleteVectors, ReindexDropVectors
    <2>e. PICK e \in Documents : e = server[s].doc
      BY <2>0 DEF Request
    <2>1. \A t \in Servers \ {s} : server'[t] = server[t]
      BY <1>0, <1>4 DEF DeleteVectors, ReindexDropVectors, Goto, TypeOK
    <2>2. OwedBy(s, e)'
      BY <1>0, <1>4, <2>0, <2>e
      DEF DeleteVectors, ReindexDropVectors, Goto, OwedBy, RequestInv, TypeOK, Request
    <2>3. Owed(e)'
      BY <2>2 DEF Owed
    <2>4. UNCHANGED <<meta, queue, worker, deleted>> /\ vectors' = vectors \ {e}
      BY <1>4, <2>e DEF DeleteVectors, ReindexDropVectors
    <2>5. \A d \in Documents : Owed(d) => Owed(d)'
      <3> SUFFICES ASSUME NEW d \in Documents, Owed(d) PROVE Owed(d)'
        OBVIOUS
      <3>1. ~OwedBy(s, d)
        BY <1>4 DEF DeleteVectors, ReindexDropVectors, OwedBy
      <3>2. \A t \in Servers : OwedBy(t, d) => OwedBy(t, d)' \/ Owed(d)'
        BY <2>1, <3>1 DEF OwedBy
      <3> QED
        BY <1>0, <2>4, <3>2, OwedStays
    <2>6. ASSUME NEW d \in Documents \ vectors', meta'[d] # NoRecord,
                 meta'[d].status = "completed"
          PROVE  Owed(d)' \/ \E w \in Workers : Handles(w, d)'
      BY <2>3, <2>4, <2>5, <2>6 DEF SearchableInv, Handles
    <2>7. ASSUME NEW w \in Workers, worker[w].pc \in {"get", "put"},
                 worker[w].status = "completed"
          PROVE  (worker[w].job.doc \in vectors \/ Owed(worker[w].job.doc))'
      <3>1. PICK d \in Documents : d = worker[w].job.doc /\ d = worker'[w].job.doc
        BY <1>0, <2>4, <2>7, Busy DEF Task, Job
      <3>2. d \in vectors \/ Owed(d)
        BY <2>4, <2>7, <3>1 DEF SearchableInv
      <3> QED
        BY <2>3, <2>4, <2>5, <3>1, <3>2
    <2> QED
      BY <2>4, <2>6, <2>7 DEF SearchableInv
  <1>5. ASSUME NEW s \in Servers, RunInProcess(s) \/ UpsertInProcess(s)
        PROVE  SearchableInv'
    BY <1>5 DEF RunInProcess, UpsertInProcess, RequestInv
  <1>6. ASSUME NEW w \in Workers, Pop(w) PROVE SearchableInv'
    <2>1. Front(queue) \in Seq(Job) /\ Last(queue) \in Job
      BY <1>0, <1>6, PopType DEF Pop, TypeOK
    <2>e. PICK e \in Documents : e = Last(queue).doc
      BY <2>1 DEF Job
    <2>2. \A k \in 1..Len(queue) :
            \/ queue[k] = Last(queue)
            \/ k \in 1..Len(queue') /\ queue'[k] = queue[k]
      BY <1>0, <1>6 DEF Pop, Front, Last, TypeOK
    <2>3. UNCHANGED <<meta, vectors, server, deleted>>
      BY <1>6 DEF Pop
    <2>4. \A v \in Workers : v = w /\ worker[v].pc = "idle"
      BY <1>6 DEF Pop
    <2>5. worker'[w] = [pc |-> "get", job |-> Last(queue), status |-> "processing",
                        read |-> NoRecord]
      BY <1>0, <1>6 DEF Pop, TypeOK
    <2>6. Handles(w, e)'
      BY <2>5, <2>e DEF Handles
    <2>7. \A d \in Documents : Owed(d) => Owed(d)' \/ Handles(w, d)'
      <3> SUFFICES ASSUME NEW d \in Documents, Owed(d), d # e PROVE Owed(d)'
        BY <2>6
      <3>1. CASE \E k \in 1..Len(queue) : queue[k].doc = d
        BY <2>2, <2>e, <3>1 DEF Owed
      <3> QED
        BY <2>3, <3>1 DEF Owed, OwedBy
    <2>8. ASSUME NEW d \in Documents \ vectors', meta'[d] # NoRecord,
                 meta'[d].status = "completed"
          PROVE  Owed(d)' \/ \E v \in Workers : Handles(v, d)'
      BY <2>3, <2>4, <2>7, <2>8 DEF SearchableInv, Handles
    <2> QED
      BY <2>4, <2>5, <2>8 DEF SearchableInv
  <1>7. ASSUME NEW w \in Workers,
               GetRecord(w) \/ PutRecord(w) \/ Download(w) \/ Upsert(w) \/ Retry(w)
        PROVE  SearchableInv'
    <2>0. worker[w] \in Task /\ worker \in [Workers -> Task \cup {Idle}]
      BY <1>0, <1>7, Busy
      DEF GetRecord, PutRecord, Download, Upsert, Retry, TypeOK
    <2>e. PICK e \in Documents : e = worker[w].job.doc
      BY <2>0 DEF Task, Job
    <2>1. \A v \in Workers : v = w
      OBVIOUS
    <2>2. \A d \in Documents : Owed(d) => Owed(d)'
      <3>1. UNCHANGED <<server, deleted>>
        BY <1>7 DEF GetRecord, PutRecord, Download, Upsert, Retry
      <3>2. queue' = queue \/ \E job \in Job : queue' = Append(queue, job)
        <4>1. CASE Retry(w)
          <5>1. [worker[w].job EXCEPT !.attempt = @ + 1] \in Job
            BY <1>0, <2>0, <4>1, ConstantsAssumption DEF Retry, StepsOK, Task, Job
          <5> QED
            BY <1>0, <4>1, <5>1, PushGrows DEF Retry, NothingLost, TypeOK
        <4> QED
          BY <1>7, <4>1 DEF GetRecord, PutRecord, Download, Upsert
      <3> QED
        BY <1>0, <3>1, <3>2, OwedStays DEF OwedBy
    <2>3. \A d \in Documents \ (vectors \cup {e}) :
            meta[d] # NoRecord /\ meta[d].status = "completed" => Owed(d)'
      BY <2>e, <2>1, <2>2 DEF SearchableInv, Handles
    <2>4. CASE GetRecord(w)
      <3>1. UNCHANGED <<meta, vectors>>
        BY <2>4 DEF GetRecord
      <3>2. CASE meta[e] = NoRecord /\ worker[w].status # "processing"
        <4>1. \A v \in Workers : worker'[v] = Idle
          BY <2>e, <2>0, <2>1, <2>4, <3>2 DEF GetRecord, AfterReport, Release
        <4> QED
          BY <2>e, <2>3, <3>1, <3>2, <4>1 DEF SearchableInv, Idle
      <3>3. CASE meta[e] # NoRecord \/ worker[w].status = "processing"
        <4>1. /\ worker'[w].job = worker[w].job /\ worker'[w].status = worker[w].status
              /\ worker'[w].pc = "put"
                   \/ (worker'[w].pc = "download" /\ worker[w].status = "processing")
          BY <2>e, <2>0, <2>4, <3>3 DEF GetRecord, AfterReport, Task
        <4>2. Handles(w, e) => Handles(w, e)'
          BY <2>e, <2>4, <4>1 DEF Handles, GetRecord
        <4>3. meta[e] # NoRecord /\ meta[e].status = "completed" /\ e \notin vectors =>
                Owed(e)' \/ Handles(w, e)'
          BY <2>e, <2>0, <2>1, <2>2, <4>2 DEF SearchableInv, Handles
        <4>4. worker[w].status = "completed" => e \in vectors \/ Owed(e)'
          BY <2>e, <2>0, <2>2, <2>4 DEF SearchableInv, GetRecord
        <4> QED
          BY <2>e, <2>0, <2>1, <2>3, <3>1, <4>1, <4>3, <4>4 DEF SearchableInv
      <3> QED
        BY <3>2, <3>3
    <2>5. CASE PutRecord(w)
      <3>1. /\ UNCHANGED vectors
            /\ \A d \in Documents \ {e} : meta'[d] = meta[d]
        BY <1>0, <2>e, <2>5 DEF PutRecord, TypeOK
      <3>2. meta'[e].status = worker[w].status
        BY <1>0, <2>0, <2>e, <2>5 DEF PutRecord, TypeOK, StepsOK, Record
      <3>3. worker[w].status = "completed" => e \in vectors \/ Owed(e)'
        BY <2>e, <2>0, <2>2, <2>5 DEF SearchableInv, PutRecord
      <3>4. \A v \in Workers : worker'[v].pc \notin {"get", "put"}
        BY <2>e, <2>0, <2>1, <2>5 DEF PutRecord, AfterReport, Release, Idle, Task
      <3> QED
        BY <2>e, <2>3, <3>1, <3>2, <3>3, <3>4 DEF SearchableInv
    <2>6. CASE Download(w) \/ Retry(w) \/ Upsert(w)
      <3>1. /\ UNCHANGED meta
            /\ vectors' = vectors \/ vectors' = vectors \cup {e}
        BY <2>e, <2>6 DEF Download, Retry, Upsert
      <3>2. CASE worker'[w].pc \in {"get", "put"} /\ worker'[w].status = "completed"
        <4>1. e \in vectors' /\ worker'[w].job = worker[w].job
          BY <2>e, <2>0, <2>6, <3>2
          DEF Download, Retry, Upsert, HandleFailure, Report, Push, Task
        <4> QED
          BY <2>e, <2>1, <2>3, <3>1, <4>1 DEF SearchableInv
      <3>3. CASE worker'[w].pc \in {"get", "put"} => worker'[w].status # "completed"
        <4>1. worker'[w].pc # "idle" /\ worker'[w].job = worker[w].job
          BY <2>e, <2>0, <2>6 DEF Download, Retry, Upsert, HandleFailure, Report, Task
        <4>2. Handles(w, e)'
          BY <2>e, <3>3, <4>1 DEF Handles
        <4> QED
          BY <2>e, <2>1, <2>3, <3>1, <3>3, <4>2 DEF SearchableInv
      <3> QED
        BY <3>2, <3>3
    <2> QED
      BY <1>7, <2>4, <2>5, <2>6
  <1>8. ASSUME NEW w \in Workers, LosePop(w) \/ Crash(w) PROVE SearchableInv'
    BY <1>8 DEF LosePop, Crash, NothingLost
  <1>9. CASE UNCHANGED vars
    BY <1>9 DEF vars, SearchableInv, Owed, OwedBy, Handles
  <1> QED
    BY <1>1, <1>2, <1>3, <1>4, <1>5, <1>6, <1>7, <1>8, <1>9 DEF Next, Serve, Work

\* With the Redis queue and one worker, once nothing is under way, a document
\* shown as "completed" has its chunks, whatever the interleaving of uploads,
\* reindexes and deletes in any number of API processes, pipeline errors, lost
\* replies of Qdrant and Redis, and uploads that die, as long as nothing is lost.
THEOREM CompletedSearchable ==
  ASSUME Backend = "redis", \A v, w \in Workers : v = w, NothingLost
  PROVE  Spec => []CompletedIsSearchable
  <1>1. SearchableInv => CompletedIsSearchable
    BY DEF SearchableInv, CompletedIsSearchable, Quiescent, Owed, OwedBy, Handles, At, Holds
  <1> QED
    BY <1>1, InitType, NextType, InitRequest, NextRequest, InitSearchable, NextSearchable,
       PTL DEF Spec

\* The same with the in-process queue and one API process: the one request that
\* runs will write another row for what is "completed" without chunks, or take
\* the row away, and what it is about to call "completed" has its chunks.
InProcessInv ==
  /\ \A d \in Documents \ vectors :
       meta[d] # NoRecord /\ meta[d].status = "completed" =>
         \E s \in Servers :
           /\ server[s].pc # "idle" /\ server[s].doc = d
           /\ \/ server[s].op = "reindex" /\ server[s].pc \in {"enqueue", "upsert", "record"}
              \/ server[s].pc \in {"delete_object", "delete_metadata"}
  /\ \A s \in Servers :
       server[s].pc = "record" /\ server[s].status = "completed" => server[s].doc \in vectors

LEMMA InitInProcess == Init => InProcessInv
  BY DEF Init, InProcessInv, Idle

\* A request writes "completed" after its own upsert, and a reindex that dropped the
\* chunks goes on to upsert them again.
LEMMA NextInProcess ==
  ASSUME Backend = "inprocess", \A s, t \in Servers : s = t,
         Faults \cap {"abort_delete", "abort_reindex"} = {},
         TypeInv, OneLifeInv, RequestInv, InProcessInv, [Next]_vars
  PROVE  InProcessInv'
  <1> USE DEF ids, history, stores, At, Holds
  <1>0. TypeOK /\ StepsOK
    BY DEF TypeInv
  <1>1. ASSUME NEW s \in Servers,
               UploadObject(s) \/ BeginDelete(s) \/ BeginReindex(s) \/ Abort(s)
        PROVE  InProcessInv'
    <2>1. server[s].pc \notin {"delete_object", "delete_metadata"}
      BY <1>1 DEF UploadObject, BeginDelete, BeginReindex, Abort, RequestInv
    <2>2. server[s].pc # "idle" => server[s].op # "reindex"
      BY <1>1 DEF UploadObject, BeginDelete, BeginReindex, Abort
    <2>3. \A d \in Documents \ vectors :
            ~(meta[d] # NoRecord /\ meta[d].status = "completed")
      BY <2>1, <2>2 DEF InProcessInv
    <2>4. \A t \in Servers : server'[t].pc # "record"
      BY <1>0, <1>1 DEF UploadObject, BeginDelete, BeginReindex, Abort, Finish, Idle, TypeOK
    <2>5. UNCHANGED <<meta, vectors>>
      BY <1>1 DEF UploadObject, BeginDelete, BeginReindex, Abort
    <2> QED
      BY <2>3, <2>4, <2>5 DEF InProcessInv
  <1>2. ASSUME NEW s \in Servers, RunInProcess(s) \/ UpsertInProcess(s)
        PROVE  InProcessInv'
    <2>1. server[s] \in Request
      BY <1>0, <1>2, Busy DEF RunInProcess, UpsertInProcess
    <2>2. \A t \in Servers : t = s
      OBVIOUS
    <2>3. /\ server'[s].op = server[s].op /\ server'[s].doc = server[s].doc
          /\ server[s].pc \in {"enqueue", "upsert"} /\ server'[s].pc \in {"upsert", "record"}
      BY <1>0, <1>2, <2>1 DEF RunInProcess, UpsertInProcess, Goto, Settle, TypeOK, Request
    <2>4. server'[s].pc = "record" /\ server'[s].status = "completed" =>
            server[s].doc \in vectors'
      BY <1>0, <1>2, <2>1 DEF RunInProcess, UpsertInProcess, Goto, Settle, TypeOK, Request
    <2>5. UNCHANGED meta /\ vectors \subseteq vectors'
      BY <1>2 DEF RunInProcess, UpsertInProcess
    <2>6. ASSUME NEW d \in Documents \ vectors', meta'[d] # NoRecord,
                 meta'[d].status = "completed"
          PROVE  /\ server'[s].pc # "idle" /\ server'[s].doc = d
                 /\ server'[s].op = "reindex"
                 /\ server'[s].pc \in {"enqueue", "upsert", "record"}
      BY <2>2, <2>3, <2>5, <2>6 DEF InProcessInv
    <2> QED
      BY <2>2, <2>3, <2>4, <2>6 DEF InProcessInv
  <1>3. ASSUME NEW s \in Servers, RecordDocument(s) \/ DeleteMetadata(s)
        PROVE  InProcessInv'
    <2>1. server[s] \in Request
      BY <1>0, <1>3, Busy DEF RecordDocument, DeleteMetadata
    <2>2. \A t \in Servers : server'[t] = Idle
      BY <1>0, <1>3 DEF RecordDocument, DeleteMetadata, Finish, TypeOK
    <2>3. UNCHANGED vectors /\ \A d \in Documents \ {server[s].doc} : meta'[d] = meta[d]
      BY <1>0, <1>3 DEF RecordDocument, DeleteMetadata, TypeOK
    <2>4. \A d \in Documents \ (vectors \cup {server[s].doc}) :
            ~(meta[d] # NoRecord /\ meta[d].status = "completed")
      BY DEF InProcessInv
    <2>5. CASE RecordDocument(s)
      <3>1. /\ meta'[server[s].doc].status = server[s].status
            /\ server[s].status = "completed" => server[s].doc \in vectors
        BY <1>0, <2>1, <2>5 DEF RecordDocument, InProcessInv, TypeOK, Request
      <3> QED
        BY <2>2, <2>3, <2>4, <3>1 DEF InProcessInv, Idle
    <2>6. CASE DeleteMetadata(s)
      <3>1. meta'[server[s].doc] = NoRecord
        BY <1>0, <2>1, <2>6 DEF DeleteMetadata, TypeOK, Request
      <3> QED
        BY <2>2, <2>3, <2>4, <3>1 DEF InProcessInv, Idle
    <2> QED
      BY <1>3, <2>5, <2>6
  <1>4. ASSUME NEW s \in Servers, DeleteVectors(s) \/ ReindexDropVectors(s) \/ DeleteObject(s)
        PROVE  InProcessInv'
    <2>1. server[s] \in Request
      BY <1>0, <1>4, Busy DEF DeleteVectors, ReindexDropVectors, DeleteObject
    <2>2. /\ server'[s].op = server[s].op /\ server'[s].doc = server[s].doc
          /\ \/ server'[s].pc = "enqueue" /\ server[s].op = "reindex"
             \/ server'[s].pc \in {"delete_object", "delete_metadata"}
      BY <1>0, <1>4, <2>1
      DEF DeleteVectors, ReindexDropVectors, DeleteObject, Goto, RequestInv, TypeOK, Request
    <2>3. UNCHANGED meta /\ vectors \subseteq vectors' \cup {server[s].doc}
      BY <1>4 DEF DeleteVectors, ReindexDropVectors, DeleteObject
    <2>4. \A d \in Documents \ vectors :
            meta[d] # NoRecord /\ meta[d].status = "completed" => d = server[s].doc
      BY DEF InProcessInv
    <2>5. \A t \in Servers : t = s
      OBVIOUS
    <2>6. ASSUME NEW d \in Documents \ vectors', meta'[d] # NoRecord,
                 meta'[d].status = "completed"
          PROVE  server'[s].doc = d
      BY <2>2, <2>3, <2>4, <2>6
    <2> QED
      BY <2>2, <2>5, <2>6 DEF InProcessInv
  <1>5. ASSUME NEW s \in Servers, ReindexDownload(s) PROVE InProcessInv'
    <2>1. server[s] \in Request
      BY <1>0, <1>5, Busy DEF ReindexDownload
    <2>2. \A t \in Servers : server'[t].pc # "record"
      BY <1>0, <1>5, <2>1 DEF ReindexDownload, Goto, Finish, TypeOK, Request, Idle
    <2>3. \A d \in Documents \ vectors :
            ~(meta[d] # NoRecord /\ meta[d].status = "completed")
      BY <1>5 DEF ReindexDownload, InProcessInv
    <2> QED
      BY <1>5, <2>2, <2>3 DEF ReindexDownload, InProcessInv
  <1>6. ASSUME NEW s \in Servers, Enqueue(s) PROVE InProcessInv'
    BY <1>6 DEF Enqueue
  <1>7. ASSUME NEW w \in Workers, Work(w) \/ LosePop(w) \/ Crash(w) PROVE InProcessInv'
    BY <1>7 DEF OneLifeInv, Work, LosePop, Crash, Pop, GetRecord, PutRecord, Download,
                Upsert, Retry
  <1>8. CASE UNCHANGED vars
    BY <1>8 DEF vars, InProcessInv
  <1> QED
    BY <1>1, <1>2, <1>3, <1>4, <1>5, <1>6, <1>7, <1>8 DEF Next, Serve

\* With the in-process queue and one API process, a document shown as "completed"
\* has its chunks once nothing is under way, whatever the pipeline does and
\* wherever uploads die, as long as no delete and no reindex dies half way.
THEOREM CompletedSearchableInProcess ==
  ASSUME Backend = "inprocess", \A s, t \in Servers : s = t,
         Faults \cap {"abort_delete", "abort_reindex"} = {}
  PROVE  Spec => []CompletedIsSearchable
  <1>1. InProcessInv => CompletedIsSearchable
    BY DEF InProcessInv, CompletedIsSearchable, Quiescent, At
  <1> QED
    BY <1>1, InitType, NextType, InitRequest, NextRequest, InitOneLife, NextOneLife,
       InitInProcess, NextInProcess, PTL DEF Spec

-----------------------------------------------------------------------------
(* Why the list is emptied *)

\* The calls a request still has to make.
CallsLeft(request) ==
  CASE request.pc = "idle" -> 0
    [] request.pc \in {"record", "delete_metadata"} -> 1
    [] request.pc \in {"upsert", "delete_object"} -> 2
    [] request.pc \in {"enqueue", "delete_vectors"} -> 3
    [] request.pc = "drop_vectors" -> 4
    [] request.pc = "download" -> 5

\* The calls a worker still has to make for the job in hand, at most.
TaskLeft(task) ==
  CASE task.pc = "idle" -> 0
    [] task.pc = "put" /\ task.status # "processing" -> 1
    [] task.pc = "get" /\ task.status # "processing" -> 2
    [] task.pc = "retry" -> 3
    [] task.pc = "upsert" -> 4
    [] task.pc = "download" -> 5
    [] task.pc = "put" /\ task.status = "processing" -> 6
    [] task.pc = "get" /\ task.status = "processing" -> 7

\* A step of a request brings it nearer to its end.  A step of a worker brings
\* its task nearer to its end, or hands it one of the MaxAttempts deliveries
\* that a job has.
StepCounts ==
  /\ \A s \in Servers : Serve(s) =>
       CallsLeft(server[s])' \in 0 .. CallsLeft(server[s]) - 1
  /\ \A w \in Workers : Work(w) =>
       \/ /\ TaskLeft(worker[w])' \in 0 .. TaskLeft(worker[w]) - 1
          /\ UNCHANGED runs
       \/ \E j \in Jobs : runs[j] < MaxAttempts /\ runs' = [runs EXCEPT ![j] = @ + 1]

\* A request makes its calls in one order.
LEMMA ServeCounts ==
  ASSUME TypeInv, NEW s \in Servers, Serve(s)
  PROVE  CallsLeft(server[s])' \in 0 .. CallsLeft(server[s]) - 1
  <1> USE DEF At
  <1>1. server[s] \in Request /\ server \in [Servers -> Request \cup {Idle}]
    BY Busy
    DEF TypeInv, Serve, Enqueue, RunInProcess, UpsertInProcess, RecordDocument, DeleteVectors,
        DeleteObject, DeleteMetadata, ReindexDownload, ReindexDropVectors, TypeOK
  <1>2. \/ server[s].pc = "enqueue" /\ server'[s].pc \in {"record", "upsert"}
        \/ server[s].pc = "upsert" /\ server'[s].pc = "record"
        \/ server[s].pc \in {"record", "delete_metadata"} /\ server'[s].pc = "idle"
        \/ server[s].pc = "delete_vectors" /\ server'[s].pc = "delete_object"
        \/ server[s].pc = "delete_object" /\ server'[s].pc = "delete_metadata"
        \/ server[s].pc = "download" /\ server'[s].pc \in {"drop_vectors", "idle"}
        \/ server[s].pc = "drop_vectors" /\ server'[s].pc = "enqueue"
    BY <1>1
    DEF Serve, Enqueue, RunInProcess, UpsertInProcess, RecordDocument, DeleteVectors,
        DeleteObject, DeleteMetadata, ReindexDownload, ReindexDropVectors, Goto, Settle,
        Finish, Idle, Request
  <1> QED
    BY <1>2 DEF CallsLeft

\* A worker makes its calls in one order; a job it pops was queued with an attempt
\* number above the number of its runs.
LEMMA WorkCounts ==
  ASSUME TypeInv, DeliveryInv, NEW w \in Workers, Work(w)
  PROVE  \/ /\ TaskLeft(worker[w])' \in 0 .. TaskLeft(worker[w]) - 1
            /\ UNCHANGED runs
         \/ \E j \in Jobs : runs[j] < MaxAttempts /\ runs' = [runs EXCEPT ![j] = @ + 1]
  <1> USE DEF Holds
  <1>0. TypeOK
    BY DEF TypeInv
  <1>1. CASE Pop(w)
    <2>1. PICK k \in 1 .. Len(queue) : Last(queue) = queue[k]
      BY <1>0, <1>1 DEF Pop, Last, TypeOK
    <2>2. queue[k] \in Job
      BY <1>0, <2>1 DEF TypeOK
    <2>3. runs[queue[k].id] < queue[k].attempt
      BY <2>1 DEF DeliveryInv
    <2>4. runs[queue[k].id] < MaxAttempts /\ queue[k].id \in Jobs
      BY <1>0, <2>2, <2>3, ConstantsAssumption DEF Job, TypeOK
    <2> QED
      BY <1>1, <2>1, <2>4 DEF Pop
  <1>2. CASE GetRecord(w) \/ PutRecord(w) \/ Download(w) \/ Upsert(w) \/ Retry(w)
    <2>1. worker[w] \in Task /\ worker \in [Workers -> Task \cup {Idle}]
      BY <1>0, <1>2, Busy DEF GetRecord, PutRecord, Download, Upsert, Retry, TypeOK
    <2>2. UNCHANGED runs
      BY <1>2 DEF GetRecord, PutRecord, Download, Upsert, Retry, history
    <2>3. CASE GetRecord(w) \/ PutRecord(w)
      <3>1. \/ /\ worker[w].pc = "get" /\ worker'[w].pc = "put"
               /\ worker'[w].status = worker[w].status
            \/ /\ worker[w].status = "processing" /\ worker[w].pc \in {"get", "put"}
               /\ worker'[w].pc = "download"
            \/ /\ worker[w].status # "processing" /\ worker[w].pc \in {"get", "put"}
               /\ worker'[w].pc = "idle"
        BY <2>1, <2>3 DEF GetRecord, PutRecord, AfterReport, Release, Idle, Task
      <3> QED
        BY <2>2, <3>1 DEF TaskLeft
    <2>4. CASE Download(w) \/ Upsert(w) \/ Retry(w)
      <3>1. /\ worker[w].pc \in {"download", "upsert", "retry"}
            /\ \/ worker[w].pc = "download" /\ worker'[w].pc = "upsert"
               \/ worker[w].pc # "retry" /\ worker'[w].pc = "retry"
               \/ worker'[w].pc = "get" /\ worker'[w].status # "processing"
        BY <2>1, <2>4 DEF Download, Upsert, Retry, HandleFailure, Report, Task
      <3> QED
        BY <2>2, <3>1 DEF TaskLeft
    <2> QED
      BY <1>2, <2>3, <2>4
  <1> QED
    BY <1>1, <1>2 DEF Work

\* What the emptying of the list rests on, but for fairness: no request makes
\* more than five calls, no task more than seven, and no job is delivered more
\* than MaxAttempts times, so that nothing but a new request keeps them going.
THEOREM EveryStepCounts == Spec => [][StepCounts]_vars
  <1>1. TypeInv /\ DeliveryInv => [StepCounts]_vars
    BY ServeCounts, WorkCounts DEF StepCounts
  <1> QED
    BY <1>1, InitType, NextType, InitDelivery, NextDelivery, PTL DEF Spec

=============================================================================
