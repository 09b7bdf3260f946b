------------------------- MODULE ChatServiceProofs -------------------------
(* Proofs about ChatService, for every set of processes, requests, documents *)
(* and chunks, every setting and every set of faults.                        *)
EXTENDS ChatService, FiniteSetTheorems, TLAPS

-----------------------------------------------------------------------------
(* What the helpers return.                                                *)

LEMMA ConstantTypes ==
  /\ Questions \subseteq Question
  /\ IsFiniteSet(Chunks)
  /\ DocumentOf \in [Chunks -> Documents]
  /\ About \in [Documents -> [workspace : Workspaces, level : Level]]
  /\ RetrievalLimit \in Nat /\ TopK \in Nat /\ CandidateLimit \in Nat
  /\ MaxRetries \in Nat /\ MaxChanges \in Nat
BY ConstantsAssumption

\* The limits of a request are numbers, and a chat never shows the model more
\* chunks than it asks the retriever for.
LEMMA Limits ==
  ASSUME NEW q \in Questions
  PROVE  /\ FinalTopK(q) \in Nat /\ Wanted(q) \in Nat /\ Candidates(q) \in Nat
         /\ q.op = "chat" => FinalTopK(q) <= Wanted(q)
         /\ Wanted(q) <= Candidates(q)
         /\ q.op = "search" => Wanted(q) = q.limit
<1>1. q.limit \in Nat /\ q.op \in {"search", "chat"}
  BY ConstantTypes DEF Question
<1>2. RetrievalLimit \in Nat /\ TopK \in Nat /\ CandidateLimit \in Nat
  BY ConstantTypes
<1> QED BY <1>1, <1>2 DEF FinalTopK, Wanted, Candidates, Larger

\* Best takes everything, or exactly n elements.
LEMMA BestOf ==
  ASSUME NEW S \in SUBSET Chunks, NEW score, NEW n \in Nat, NEW T \in Best(S, score, n)
  PROVE  /\ T \subseteq S
         /\ IsFiniteSet(T)
         /\ Cardinality(T) \in Nat
         /\ Cardinality(T) <= n
         /\ T = S \/ Cardinality(T) = n
<1>1. T \subseteq S /\ IF Cardinality(S) <= n THEN T = S ELSE Cardinality(T) = n
  BY DEF Best
<1>2. IsFiniteSet(T)
  BY <1>1, ConstantTypes, FS_Subset
<1>3. Cardinality(T) \in Nat
  BY <1>2, FS_CardinalityType
<1> QED BY <1>1, <1>2, <1>3

\* An enumeration of a finite set of chunks is a sequence of its elements.
LEMMA Enumeration ==
  ASSUME NEW S \in SUBSET Chunks, NEW p \in SetToSeqs(S)
  PROVE  /\ p \in Seq(Chunks)
         /\ ToSet(p) \subseteq S
         /\ Len(p) = Cardinality(S)
<1>1. Cardinality(S) \in Nat
  BY ConstantTypes, FS_Subset, FS_CardinalityType
<1>2. p \in [1..Cardinality(S) -> S]
  BY DEF SetToSeqs
<1> QED BY <1>1, <1>2 DEF ToSet

LEMMA KeptPrompt ==
  ASSUME NEW T \in SUBSET Chunks, NEW score, NEW n \in Nat, NEW p \in Kept(T, score, n)
  PROVE  p \in Seq(Chunks) /\ ToSet(p) \subseteq T /\ Len(p) <= n
<1>1. PICK R \in Best(T, score, n) : p \in SetToSeqs({c \in R : score[c] >= MinRelevance})
  BY DEF Kept
<1> DEFINE K == {c \in R : score[c] >= MinRelevance}
<1>2. R \subseteq T /\ IsFiniteSet(R) /\ Cardinality(R) \in Nat /\ Cardinality(R) <= n
  BY <1>1, BestOf
<1>3. K \subseteq R /\ K \in SUBSET Chunks
  BY <1>2
<1>4. Cardinality(K) \in Nat /\ Cardinality(K) <= Cardinality(R)
  BY <1>2, <1>3, FS_Subset, FS_CardinalityType
<1>5. p \in Seq(Chunks) /\ ToSet(p) \subseteq K /\ Len(p) = Cardinality(K)
  BY <1>1, <1>3, Enumeration
<1> QED BY <1>2, <1>3, <1>4, <1>5

\* The filter sent to Qdrant matches what the question may bring to light,
\* for either role and with or without levels asked for.
LEMMA FilterIsExact ==
  ASSUME NEW q \in Questions, Permitted(q), NEW ds, NEW c \in Chunks
  PROVE  c \in Matching(q, LevelFilter(q), ds) <=> c \in Visible(q) /\ DocumentOf[c] \in ds
<1> DEFINE d == DocumentOf[c]
<1>1. /\ q.levels \subseteq Allowed(q.role)
      /\ q.role \in {"member", "admin"}
      /\ About[d].level \in Level
  BY ConstantTypes DEF Permitted, Question
<1>2. (LevelFilter(q) # {} => About[d].level \in LevelFilter(q))
        <=> /\ About[d].level \in Allowed(q.role)
            /\ q.levels # {} => About[d].level \in q.levels
  BY <1>1 DEF LevelFilter, Allowed
<1> QED BY <1>2 DEF Matching, Visible

-----------------------------------------------------------------------------
(* The inductive invariant.                                                *)

Unheard(r)  == reply[r] \in {NoReply, [kind |-> "lost"]}
Unlogged(r) == \A e \in audit : e.request # r

\* What the handler of a request relies on from one call to the next.
TaskOK(t) ==
  /\ t \in Task
  /\ t.request \notin inbox
  /\ asked[t.request] \in Questions
  /\ Permitted(asked[t.request]) /\ t.levels = LevelFilter(asked[t.request])
  /\ t.pc \notin {"search", "scroll"} => asked[t.request].op = "chat"
  /\ t.pc = "record" <=> t.response # NoReply
  /\ Len(t.prompt) <= FinalTopK(asked[t.request])
  /\ t.pc = "record" => t.response.count <= FinalTopK(asked[t.request])
  /\ \A c \in t.chunks \cup ToSet(t.prompt) \cup ShownChunks(t.response) : Due(t.request, c)
  /\ Unheard(t.request) /\ Unlogged(t.request)

TasksOK == \A s \in Servers : ~At(s, "idle") => TaskOK(server[s])

OneHandler ==
  \A s, t \in Servers :
    ~At(s, "idle") /\ ~At(t, "idle") /\ server[s].request = server[t].request => s = t

InboxOK == \A r \in inbox : asked[r] \in Questions /\ Unheard(r) /\ Unlogged(r)

Complete(r) ==
  reply[r].kind = "results" /\ Cardinality(reply[r].chunks) < asked[r].limit =>
    \A c \in Visible(asked[r]) :
      DocumentOf[c] \in window[r].stable => c \in reply[r].chunks

Recorded(r) ==
  reply[r].kind \in {"answer", "no_answer"} =>
    \E e \in audit : e.request = r /\ e.response = reply[r]

ReplyOK(r) ==
  reply[r] # NoReply =>
    /\ asked[r] \in Questions
    /\ \A c \in ShownChunks(reply[r]) : Due(r, c)
    /\ Complete(r)
    /\ Recorded(r)

EventOK(e) ==
  /\ asked[e.request] \in Questions
  /\ asked[e.request].op = "chat" /\ e.workspace = asked[e.request].workspace
  /\ e.response.count <= e.top_k /\ e.top_k <= e.limit
  /\ \A c \in ShownChunks(e.response) : Due(e.request, c)
  /\ \A f \in audit : f.request = e.request => f = e

\* A window is open as long as its request, and knows what the collection holds.
WindowsOK ==
  \A r \in Requests : Open(r) => window[r].stable \subseteq index /\ index \subseteq window[r].seen

Inv ==
  /\ TypeOK
  /\ TasksOK
  /\ OneHandler
  /\ InboxOK
  /\ \A r \in Requests : ReplyOK(r)
  /\ \A e \in audit : EventOK(e)
  /\ WindowsOK

-----------------------------------------------------------------------------
(* A step of a handler goes on or ends.                                    *)

LEMMA TaskType ==
  ASSUME TypeOK, NEW s \in Servers, ~At(s, "idle")
  PROVE  server[s] \in Task /\ server[s].request \in Requests
<1>1. server[s] \in Task \cup {Idle}
  BY DEF TypeOK
<1>2. server[s] # Idle
  BY DEF At, Idle
<1> QED BY <1>1, <1>2 DEF Task

\* Nothing a task relies on changes while the store of the log, the inbox, the
\* questions, the windows and the answers stay what they are.
LEMMA ContinueKeeps ==
  ASSUME Inv, NEW s \in Servers, ~At(s, "idle"),
         NEW task, task.request = server[s].request, TaskOK(task),
         Continue(s, task),
         UNCHANGED <<index, changes, asked, inbox, audit, window>>
  PROVE  Inv'
<1>1. server' = [server EXCEPT ![s] = task] /\ reply' = reply
  BY DEF Continue
<1>2. server \in [Servers -> Task \cup {Idle}] /\ task \in Task /\ task.pc # "idle"
  BY DEF Inv, TypeOK, TaskOK, Task
<1>3. \A t \in Servers : server'[t] = IF t = s THEN task ELSE server[t]
  BY <1>1, <1>2
<1>4. \A t \in Servers : /\ At(t, "idle")' <=> At(t, "idle")
                         /\ server'[t].request = server[t].request
  BY <1>2, <1>3 DEF At
<1>5. TypeOK'
  BY <1>1, <1>2 DEF Inv, TypeOK
<1>6. TasksOK'
  <2> SUFFICES ASSUME NEW t \in Servers, ~At(t, "idle")'  PROVE TaskOK(server[t])'
    BY DEF TasksOK
  <2>1. TaskOK(server'[t])
    BY <1>3, <1>4 DEF Inv, TasksOK
  <2> QED BY <2>1, <1>1 DEF TaskOK, Due, Unheard, Unlogged, ShownChunks
<1>7. OneHandler'
  BY <1>4 DEF Inv, OneHandler
<1>8. InboxOK'
  BY <1>1 DEF Inv, InboxOK, Unheard, Unlogged
<1>9. \A r \in Requests : ReplyOK(r)'
  BY <1>1 DEF Inv, ReplyOK, Complete, Recorded, Due, ShownChunks
<1>10. \A e \in audit' : EventOK(e)'
  BY DEF Inv, EventOK, Due, ShownChunks
<1>11. WindowsOK'
  <2>1. \A r \in Requests : Open(r)' => Open(r)
    BY <1>4 DEF Open, Served
  <2> QED BY <2>1 DEF Inv, WindowsOK
<1> QED BY <1>5, <1>6, <1>7, <1>8, <1>9, <1>10, <1>11 DEF Inv

\* An event of a finished handler agrees with its question, and is the first of
\* its request.
LEMMA EventOfTask ==
  ASSUME Inv, NEW s \in Servers, At(s, "record")
  PROVE  LET e == AuditEvent(s) IN
           /\ e \in Event /\ e.request = server[s].request /\ e.response = server[s].response
           /\ asked[e.request].op = "chat" /\ e.workspace = asked[e.request].workspace
           /\ e.response.count <= e.top_k /\ e.top_k <= e.limit
           /\ \A c \in ShownChunks(e.response) : Due(e.request, c)
<1>1. ~At(s, "idle")
  BY DEF At
<1>2. TaskOK(server[s]) /\ server[s] \in Task /\ server[s].request \in Requests
  BY <1>1, TaskType DEF Inv, TasksOK
<1>3. Asked(s) \in Questions /\ Asked(s).op = "chat" /\ Asked(s) = asked[server[s].request]
  BY <1>2 DEF TaskOK, Asked, At
<1>4. /\ server[s].response \in Response
      /\ server[s].response.count <= FinalTopK(Asked(s))
  BY <1>2, <1>3 DEF TaskOK, At, Task
<1>5. /\ FinalTopK(Asked(s)) \in Nat /\ Wanted(Asked(s)) \in Nat
      /\ FinalTopK(Asked(s)) <= Wanted(Asked(s))
  BY <1>3, Limits
<1>6. Asked(s).workspace \in Workspaces
  BY <1>3, ConstantTypes DEF Question
<1>7. \A c \in ShownChunks(server[s].response) : Due(server[s].request, c)
  BY <1>2 DEF TaskOK
<1> QED BY <1>2, <1>3, <1>4, <1>5, <1>6, <1>7 DEF AuditEvent, Event

\* A handler that ends keeps the invariant, if its outcome shows what may be
\* shown, leaves nothing out, and is in the log when it is an answer.
LEMMA EndKeeps ==
  ASSUME Inv, NEW s \in Servers, ~At(s, "idle"),
         NEW outcome \in Response \cup Results \cup Failure,
         End(s, outcome),
         UNCHANGED <<index, changes, asked, inbox, window>>,
         \A c \in ShownChunks(outcome) : Due(server[s].request, c),
         outcome.kind = "results" /\ Cardinality(outcome.chunks) < Asked(s).limit =>
           \A c \in Visible(Asked(s)) :
             DocumentOf[c] \in window[server[s].request].stable => c \in outcome.chunks,
         audit' = audit \/ (At(s, "record") /\ audit' = audit \cup {AuditEvent(s)}),
         outcome.kind \in {"answer", "no_answer"} =>
           \E e \in audit' : e.request = server[s].request /\ e.response = outcome
  PROVE  Inv'
<1> DEFINE r == server[s].request
<1>1. server' = [server EXCEPT ![s] = Idle] /\ Tell(r, outcome)
  BY DEF End
<1>2. /\ TaskOK(server[s]) /\ r \in Requests
      /\ server \in [Servers -> Task \cup {Idle}]
      /\ reply \in [Requests -> Response \cup Results \cup Failure \cup {NoReply}]
  BY TaskType DEF Inv, TasksOK, TypeOK
<1>3. /\ \A t \in Servers : server'[t] = IF t = s THEN Idle ELSE server[t]
      /\ \A t \in Servers : ~At(t, "idle")' => t # s /\ ~At(t, "idle")
  BY <1>1, <1>2 DEF At, Idle
<1>4. /\ \A q \in Requests : reply'[q] = reply[q] \/ (q = r /\ reply[r] = NoReply /\ reply'[r] = outcome)
      /\ reply' \in [Requests -> Response \cup Results \cup Failure \cup {NoReply}]
  <2>1. CASE reply[r] = NoReply
    BY <1>1, <1>2, <2>1 DEF Tell
  <2>2. CASE reply[r] # NoReply
    BY <1>1, <1>2, <2>2 DEF Tell
  <2> QED BY <2>1, <2>2
<1>5. /\ audit \subseteq audit'
      /\ \A e \in audit' : e \in audit \/ (At(s, "record") /\ e = AuditEvent(s))
      /\ \A e \in audit' \ audit : e \in Event /\ e.request = r
  <2>1. At(s, "record") => AuditEvent(s) \in Event /\ AuditEvent(s).request = r
    BY EventOfTask
  <2> QED BY <2>1
<1>6. \A t \in Servers : ~At(t, "idle")' => server[t].request # r
  BY <1>3 DEF Inv, OneHandler
<1> HIDE DEF r
<1>7. TypeOK'
  BY <1>2, <1>3, <1>4, <1>5, <1>1 DEF Inv, TypeOK
<1>8. TasksOK'
  <2> SUFFICES ASSUME NEW t \in Servers, ~At(t, "idle")'  PROVE TaskOK(server[t])'
    BY DEF TasksOK
  <2>1. server'[t] = server[t] /\ TaskOK(server[t]) /\ server[t].request \in Requests
    BY <1>3, TaskType DEF Inv, TasksOK
  <2>2. reply'[server[t].request] = reply[server[t].request] /\ server[t].request # r
    BY <1>4, <1>6, <2>1
  <2>3. Unheard(server[t].request)' /\ Unlogged(server[t].request)'
    BY <1>5, <2>1, <2>2 DEF TaskOK, Unheard, Unlogged
  <2> QED BY <2>1, <2>3 DEF TaskOK, Due, ShownChunks
<1>9. OneHandler'
  BY <1>3 DEF Inv, OneHandler
<1>10. InboxOK'
  <2>1. \A q \in inbox : q # r /\ q \in Requests
    BY <1>2 DEF TaskOK, r, Inv, TypeOK
  <2> QED BY <1>4, <1>5, <2>1 DEF Inv, InboxOK, Unheard, Unlogged
<1>11. ASSUME NEW q \in Requests  PROVE ReplyOK(q)'
  <2>1. CASE reply'[q] = reply[q]
    BY <1>5, <2>1 DEF Inv, ReplyOK, Complete, Recorded, Due, ShownChunks
  <2>2. CASE q = r /\ reply'[r] = outcome
    BY <1>2, <2>2 DEF ReplyOK, Complete, Recorded, Due, ShownChunks, TaskOK, Asked, r
  <2> QED BY <1>4, <2>1, <2>2
<1>12. ASSUME NEW e \in audit'  PROVE EventOK(e)'
  <2>1. Unlogged(r) /\ asked[r] \in Questions
    BY <1>2 DEF TaskOK, r
  <2>2. CASE e \in audit
    <3>1. \A f \in audit' : f.request = e.request => f \in audit
      BY <1>5, <2>1, <2>2 DEF Unlogged
    <3> QED BY <2>2, <3>1 DEF Inv, EventOK, Due, ShownChunks
  <2>3. CASE At(s, "record") /\ e = AuditEvent(s) /\ e \notin audit
    <3>1. e.request = r
      BY <1>5, <2>3
    <3>2. \A f \in audit' : f.request = e.request => f = e
      BY <1>5, <2>1, <2>3, <3>1 DEF Unlogged
    <3> QED BY <2>1, <2>3, <3>1, <3>2, EventOfTask DEF EventOK, Due, ShownChunks
  <2> QED BY <1>5, <2>2, <2>3
<1>13. WindowsOK'
  <2>1. \A q \in Requests : Open(q)' => Open(q)
    BY <1>3 DEF Open, Served
  <2> QED BY <2>1 DEF Inv, WindowsOK
<1> QED BY <1>7, <1>8, <1>9, <1>10, <1>11, <1>12, <1>13 DEF Inv

-----------------------------------------------------------------------------
(* The steps of a handler.                                                 *)

\* What a handler asks the collection for is due to its request, and whatever
\* was there all the time is found.
LEMMA Found ==
  ASSUME Inv, NEW s \in Servers, ~At(s, "idle")
  PROVE  LET M == Matching(Asked(s), server[s].levels, index)
             r == server[s].request
         IN /\ M \subseteq Chunks
            /\ \A c \in M : Due(r, c)
            /\ \A c \in Visible(Asked(s)) : DocumentOf[c] \in window[r].stable => c \in M
<1> DEFINE r == server[s].request
           q == Asked(s)
           M == Matching(q, server[s].levels, index)
<1>1. /\ r \in Requests /\ q = asked[r] /\ q \in Questions /\ Permitted(q)
      /\ server[s].levels = LevelFilter(q)
  BY TaskType DEF Inv, TasksOK, TaskOK, Asked
<1>2. window[r].stable \subseteq index /\ index \subseteq window[r].seen
  BY <1>1 DEF Inv, WindowsOK, Open, Served
<1>3. M \subseteq Chunks /\ Visible(q) \subseteq Chunks
  BY DEF Matching, Visible
<1>4. \A c \in Chunks : c \in M <=> c \in Visible(q) /\ DocumentOf[c] \in index
  BY <1>1, FilterIsExact
<1> HIDE DEF M, q, r
<1>5. \A c \in M : Due(r, c)
  BY <1>1, <1>2, <1>3, <1>4 DEF Due
<1>6. \A c \in Visible(q) : DocumentOf[c] \in window[r].stable => c \in M
  BY <1>2, <1>3, <1>4
<1> QED BY <1>3, <1>5, <1>6 DEF M, q, r

LEMMA DecideKeeps ==
  ASSUME Inv, NEW s \in Servers, ~At(s, "idle"), Asked(s).op = "chat",
         NEW response \in Response, response.count <= FinalTopK(Asked(s)),
         \A c \in ShownChunks(response) : Due(server[s].request, c),
         Decide(s, response),
         UNCHANGED <<index, changes, asked, inbox, audit, window>>
  PROVE  Inv'
<1> DEFINE task == [server[s] EXCEPT !.pc = "record", !.chunks = {}, !.prompt = <<>>,
                                     !.attempt = 0, !.response = response]
<1>1. TaskOK(server[s]) /\ server[s] \in Task
  BY TaskType DEF Inv, TasksOK
<1>2. Asked(s) \in Questions /\ Asked(s) = asked[server[s].request]
  BY <1>1 DEF TaskOK, Asked
<1>3. FinalTopK(Asked(s)) \in Nat
  BY <1>2, Limits
<1>4. response # NoReply
  BY DEF Response, NoReply
<1>5. task \in Task
  <2>1. 0 \in 0..MaxRetries /\ <<>> \in Seq(Chunks)
    BY ConstantTypes
  <2> QED BY <1>1, <2>1 DEF Task
<1>6. /\ task.pc = "record" /\ task.request = server[s].request
      /\ task.levels = server[s].levels /\ task.chunks = {} /\ task.prompt = <<>>
      /\ task.response = response
  BY <1>1 DEF Task
<1>7. Continue(s, task)
  BY DEF Decide
<1> HIDE DEF task
<1>8. TaskOK(task)
  <2>1. Len(task.prompt) = 0 /\ ToSet(task.prompt) = {}
    BY <1>6 DEF ToSet
  <2> QED BY <1>1, <1>2, <1>3, <1>4, <1>5, <1>6, <2>1 DEF TaskOK
<1> QED BY <1>6, <1>7, <1>8, ContinueKeeps

LEMMA GroundKeeps ==
  ASSUME Inv, NEW s \in Servers, server[s].pc \in {"search", "scroll", "rerank"},
         Asked(s).op = "chat",
         NEW prompt \in Seq(Chunks), Len(prompt) <= FinalTopK(Asked(s)),
         \A c \in ToSet(prompt) : Due(server[s].request, c),
         Ground(s, prompt),
         UNCHANGED <<index, changes, asked, inbox, audit, window>>
  PROVE  Inv'
<1>0. ~At(s, "idle")
  BY DEF At
<1>1. TaskOK(server[s]) /\ server[s] \in Task
  BY <1>0, TaskType DEF Inv, TasksOK
<1>2. CASE prompt = <<>>
  <2>1. NoAnswer(0, FALSE) \in Response /\ NoAnswer(0, FALSE).count = 0
    BY DEF NoAnswer, Response
  <2>2. ShownChunks(NoAnswer(0, FALSE)) = {}
    BY DEF NoAnswer, ShownChunks
  <2>3. 0 <= FinalTopK(Asked(s))
    BY <1>1, Limits DEF TaskOK, Asked
  <2>4. Decide(s, NoAnswer(0, FALSE))
    BY <1>2 DEF Ground
  <2> QED BY <1>0, <2>1, <2>2, <2>3, <2>4, DecideKeeps
<1>3. CASE prompt # <<>>
  <2> DEFINE task == [server[s] EXCEPT !.pc = "generate", !.chunks = {}, !.prompt = prompt]
  <2>1. task \in Task
    BY <1>1 DEF Task
  <2>2. /\ task.pc = "generate" /\ task.request = server[s].request
        /\ task.levels = server[s].levels /\ task.chunks = {} /\ task.prompt = prompt
        /\ task.response = server[s].response
    BY <1>1 DEF Task
  <2>3. Continue(s, task)
    BY <1>3 DEF Ground
  <2> HIDE DEF task
  <2>4. TaskOK(task)
    BY <1>1, <2>1, <2>2 DEF TaskOK, Asked
  <2> QED BY <1>0, <2>2, <2>3, <2>4, ContinueKeeps
<1> QED BY <1>2, <1>3

\* What a request gets from the retriever: a search is answered, a chat goes on.
LEMMA RetrievedKeeps ==
  ASSUME Inv, NEW s \in Servers, server[s].pc \in {"search", "scroll"},
         NEW T \in SUBSET Chunks, NEW score,
         \A c \in T : Due(server[s].request, c),
         Cardinality(T) < Wanted(Asked(s)) =>
           \A c \in Visible(Asked(s)) :
             DocumentOf[c] \in window[server[s].request].stable => c \in T,
         Retrieved(s, T, score),
         UNCHANGED <<index, changes, asked, inbox, audit, window>>
  PROVE  Inv'
<1>0. ~At(s, "idle")
  BY DEF At
<1>1. TaskOK(server[s]) /\ server[s] \in Task /\ Asked(s) \in Questions
  BY <1>0, TaskType DEF Inv, TasksOK, TaskOK, Asked
<1>2. FinalTopK(Asked(s)) \in Nat
  BY <1>1, Limits
<1>3. CASE Asked(s).op = "search" /\ End(s, [kind |-> "results", chunks |-> T])
  <2> DEFINE outcome == [kind |-> "results", chunks |-> T]
  <2>1. outcome \in Results /\ ShownChunks(outcome) = T
    BY DEF Results, ShownChunks
  <2>2. Wanted(Asked(s)) = Asked(s).limit
    BY <1>1, <1>3, Limits
  <2>3. outcome.kind = "results" /\ outcome.chunks = T /\ End(s, outcome)
    BY <1>3
  <2> HIDE DEF outcome
  <2> QED BY <1>0, <2>1, <2>2, <2>3, EndKeeps
<1>4. CASE Asked(s).op = "chat" /\ Decide(s, NoAnswer(0, FALSE))
  <2>1. /\ NoAnswer(0, FALSE) \in Response /\ NoAnswer(0, FALSE).count <= FinalTopK(Asked(s))
        /\ ShownChunks(NoAnswer(0, FALSE)) = {}
    BY <1>2 DEF NoAnswer, Response, ShownChunks
  <2> QED BY <1>0, <1>4, <2>1, DecideKeeps
<1>5. CASE /\ Asked(s).op = "chat"
           /\ \E prompt \in Kept(T, score, FinalTopK(Asked(s))) : Ground(s, prompt)
  <2>1. PICK prompt \in Kept(T, score, FinalTopK(Asked(s))) : Ground(s, prompt)
    BY <1>5
  <2>2. prompt \in Seq(Chunks) /\ ToSet(prompt) \subseteq T /\ Len(prompt) <= FinalTopK(Asked(s))
    BY <1>2, KeptPrompt
  <2> QED BY <1>5, <2>1, <2>2, GroundKeeps
<1>6. CASE /\ Asked(s).op = "chat"
           /\ Continue(s, [server[s] EXCEPT !.pc = "rerank", !.chunks = T])
  <2> DEFINE task == [server[s] EXCEPT !.pc = "rerank", !.chunks = T]
  <2>1. /\ task \in Task /\ task.pc = "rerank" /\ task.chunks = T
        /\ task.request = server[s].request /\ task.levels = server[s].levels
        /\ task.prompt = server[s].prompt /\ task.response = server[s].response
    BY <1>1 DEF Task
  <2>2. Continue(s, task)
    BY <1>6
  <2> HIDE DEF task
  <2>3. TaskOK(task)
    BY <1>1, <1>6, <2>1 DEF TaskOK, Asked
  <2> QED BY <1>0, <2>1, <2>2, <2>3, ContinueKeeps
<1> QED BY <1>3, <1>4, <1>5, <1>6 DEF Retrieved

LEMMA SearchKeeps ==
  ASSUME Inv, NEW s \in Servers, Search(s)
  PROVE  Inv'
<1> DEFINE M == Matching(Asked(s), server[s].levels, index)
<1>0. ~At(s, "idle") /\ server[s].pc = "search"
  BY DEF Search, At
<1>1. TaskOK(server[s]) /\ server[s] \in Task /\ Asked(s) \in Questions
  BY <1>0, TaskType DEF Inv, TasksOK, TaskOK, Asked
<1>2. /\ M \subseteq Chunks /\ \A c \in M : Due(server[s].request, c)
      /\ \A c \in Visible(Asked(s)) :
           DocumentOf[c] \in window[server[s].request].stable => c \in M
  BY <1>0, Found
<1>3. Wanted(Asked(s)) \in Nat /\ Candidates(Asked(s)) \in Nat
  BY <1>1, Limits
<1>4. UNCHANGED <<index, changes, asked, inbox, audit, window>>
  BY DEF Search
<1>5. CASE \E T \in Best(M, Dense, Wanted(Asked(s))) : Retrieved(s, T, DenseScore)
  <2>1. PICK T \in Best(M, Dense, Wanted(Asked(s))) : Retrieved(s, T, DenseScore)
    BY <1>5
  <2> HIDE DEF M
  <2>2. T \subseteq M /\ (T = M \/ Cardinality(T) = Wanted(Asked(s)))
    BY <1>2, <1>3, BestOf
  <2>3. T \in SUBSET Chunks /\ \A c \in T : Due(server[s].request, c)
    BY <1>2, <2>2
  <2>4. Cardinality(T) < Wanted(Asked(s)) => T = M
    BY <1>3, <2>2
  <2> QED BY <1>0, <1>2, <1>4, <2>1, <2>3, <2>4, RetrievedKeeps
<1>6. CASE \E hits \in Best(M, Dense, Candidates(Asked(s))) :
             Continue(s, [server[s] EXCEPT !.pc = "scroll", !.chunks = hits])
  <2>1. PICK hits \in Best(M, Dense, Candidates(Asked(s))) :
               Continue(s, [server[s] EXCEPT !.pc = "scroll", !.chunks = hits])
    BY <1>6
  <2> HIDE DEF M
  <2>2. hits \subseteq M
    BY <1>2, <1>3, BestOf
  <2> DEFINE task == [server[s] EXCEPT !.pc = "scroll", !.chunks = hits]
  <2>3. /\ task \in Task /\ task.pc = "scroll" /\ task.chunks = hits
        /\ task.request = server[s].request /\ task.levels = server[s].levels
        /\ task.prompt = server[s].prompt /\ task.response = server[s].response
    BY <1>1, <1>2, <2>2 DEF Task
  <2>4. Continue(s, task)
    BY <2>1
  <2> HIDE DEF task
  <2>5. TaskOK(task)
    BY <1>0, <1>1, <1>2, <2>2, <2>3 DEF TaskOK, Asked
  <2> QED BY <1>0, <1>4, <2>3, <2>4, <2>5, ContinueKeeps
<1> QED BY <1>5, <1>6 DEF Search

\* A search that gets fewer chunks than it wants had room for the whole page,
\* and the page for everything that matches.
LEMMA ScrollKeeps ==
  ASSUME Inv, NEW s \in Servers, Scroll(s)
  PROVE  Inv'
<1> DEFINE M    == Matching(Asked(s), server[s].levels, index)
           zero == [c \in Chunks |-> 0]
           hits == server[s].chunks
           want == Wanted(Asked(s))
<1>0. ~At(s, "idle") /\ server[s].pc = "scroll"
  BY DEF Scroll, At
<1>1. /\ TaskOK(server[s]) /\ server[s] \in Task /\ Asked(s) \in Questions
      /\ hits \subseteq Chunks
  BY <1>0, TaskType DEF Inv, TasksOK, TaskOK, Asked, Task
<1>2. /\ M \subseteq Chunks /\ \A c \in M : Due(server[s].request, c)
      /\ \A c \in Visible(Asked(s)) :
           DocumentOf[c] \in window[server[s].request].stable => c \in M
  BY <1>0, Found
<1>3. want \in Nat /\ Candidates(Asked(s)) \in Nat /\ want <= Candidates(Asked(s))
  BY <1>1, Limits
<1>4. UNCHANGED <<index, changes, asked, inbox, audit, window>>
  BY DEF Scroll
<1>5. PICK page \in Best(M, zero, Candidates(Asked(s))) :
        \E T \in Best(hits \cup page, Blend(hits), want) : Retrieved(s, T, Blend(hits))
  BY DEF Scroll
<1>6. PICK T \in Best(hits \cup page, Blend(hits), want) : Retrieved(s, T, Blend(hits))
  BY <1>5
<1> HIDE DEF M, zero, want, hits
<1>7. /\ page \subseteq M /\ IsFiniteSet(page) /\ Cardinality(page) \in Nat
      /\ page = M \/ Cardinality(page) = Candidates(Asked(s))
  BY <1>2, <1>3, BestOf
<1>8. hits \cup page \in SUBSET Chunks
  BY <1>1, <1>2, <1>7
<1>9. /\ T \subseteq hits \cup page
      /\ T = hits \cup page \/ Cardinality(T) = want
  BY <1>3, <1>8, BestOf
<1>10. ASSUME Cardinality(T) < want  PROVE M \subseteq T
  <2>1. T = hits \cup page
    BY <1>3, <1>9, <1>10
  <2>2. Cardinality(page) <= Cardinality(T) /\ Cardinality(T) \in Nat
    BY <1>8, <2>1, ConstantTypes, FS_Subset, FS_CardinalityType
  <2>3. page = M
    BY <1>3, <1>7, <1>10, <2>2
  <2> QED BY <2>1, <2>3
<1>11. \A c \in T : Due(server[s].request, c)
  BY <1>1, <1>2, <1>7, <1>9 DEF TaskOK, hits
<1> QED BY <1>0, <1>2, <1>4, <1>6, <1>8, <1>9, <1>10, <1>11, RetrievedKeeps DEF want

LEMMA RerankKeeps ==
  ASSUME Inv, NEW s \in Servers, Rerank(s)
  PROVE  Inv'
<1>0. ~At(s, "idle") /\ server[s].pc = "rerank"
  BY DEF Rerank, At
<1>1. TaskOK(server[s]) /\ server[s] \in Task
  BY <1>0, TaskType DEF Inv, TasksOK
<1>2. server[s].chunks \subseteq Chunks /\ Asked(s).op = "chat"
  BY <1>0, <1>1 DEF Task, TaskOK, Asked
<1>3. PICK kept \in SUBSET server[s].chunks :
        /\ Cardinality(kept) <= FinalTopK(Asked(s))
        /\ \E prompt \in SetToSeqs(kept) : Ground(s, prompt)
  BY DEF Rerank
<1>4. PICK prompt \in SetToSeqs(kept) : Ground(s, prompt)
  BY <1>3
<1>5. prompt \in Seq(Chunks) /\ ToSet(prompt) \subseteq kept /\ Len(prompt) = Cardinality(kept)
  BY <1>2, Enumeration
<1>6. \A c \in ToSet(prompt) : Due(server[s].request, c)
  BY <1>1, <1>5 DEF TaskOK
<1>7. UNCHANGED <<index, changes, asked, inbox, audit, window>>
  BY DEF Rerank
<1> QED BY <1>0, <1>2, <1>3, <1>4, <1>5, <1>6, <1>7, GroundKeeps

\* A citation is of a chunk in the prompt.
LEMMA GenerateKeeps ==
  ASSUME Inv, NEW s \in Servers, Generate(s)
  PROVE  Inv'
<1> DEFINE prompt == server[s].prompt
<1>0. ~At(s, "idle") /\ server[s].pc = "generate"
  BY DEF Generate, At
<1>1. TaskOK(server[s]) /\ server[s] \in Task
  BY <1>0, TaskType DEF Inv, TasksOK
<1>2. /\ Asked(s).op = "chat" /\ prompt \in Seq(Chunks) /\ Len(prompt) \in Nat
      /\ Len(prompt) <= FinalTopK(Asked(s))
      /\ \A c \in ToSet(prompt) : Due(server[s].request, c)
  BY <1>0, <1>1 DEF TaskOK, Asked, Task
<1>3. UNCHANGED <<index, changes, asked, inbox, audit, window>>
  BY DEF Generate
<1>4. PICK markers \in SUBSET Markers :
        LET cited == Cited(prompt, markers) IN
          Decide(s, IF cited = {} THEN NoAnswer(Len(prompt), TRUE)
                    ELSE [kind |-> "answer", cited |-> cited,
                          count |-> Len(prompt), usage |-> TRUE])
  BY DEF Generate
<1>5. CASE Cited(prompt, markers) = {}
  <2>1. /\ NoAnswer(Len(prompt), TRUE) \in Response
        /\ NoAnswer(Len(prompt), TRUE).count = Len(prompt)
        /\ ShownChunks(NoAnswer(Len(prompt), TRUE)) = {}
    BY <1>2 DEF NoAnswer, Response, ShownChunks
  <2>2. Decide(s, NoAnswer(Len(prompt), TRUE))
    BY <1>4, <1>5
  <2> QED BY <1>0, <1>2, <1>3, <2>1, <2>2, DecideKeeps
<1>6. CASE Cited(prompt, markers) # {}
  <2> DEFINE cited    == Cited(prompt, markers)
             response == [kind |-> "answer", cited |-> cited,
                          count |-> Len(prompt), usage |-> TRUE]
  <2>1. \A y \in cited : y \in Citation /\ y.chunk \in ToSet(prompt)
    <3>1. \A i \in 1..Len(prompt) : i \in Nat /\ prompt[i] \in Chunks /\ prompt[i] \in ToSet(prompt)
      BY <1>2 DEF ToSet
    <3> QED BY <3>1 DEF Cited, Citation
  <2>2. ShownChunks(response) = {y.chunk : y \in cited}
    BY DEF ShownChunks
  <2>3. \A c \in ShownChunks(response) : Due(server[s].request, c)
    BY <1>2, <2>1, <2>2
  <2>4. response \in Response /\ response.count = Len(prompt)
    BY <1>2, <2>1 DEF Response
  <2>5. Decide(s, response)
    BY <1>4, <1>6
  <2> HIDE DEF response, cited
  <2> QED BY <1>0, <1>2, <1>3, <2>3, <2>4, <2>5, DecideKeeps
<1> QED BY <1>5, <1>6

LEMMA GenerateAgainKeeps ==
  ASSUME Inv, NEW s \in Servers, GenerateAgain(s)
  PROVE  Inv'
<1> DEFINE task == [server[s] EXCEPT !.attempt = @ + 1]
<1>0. ~At(s, "idle") /\ server[s].pc = "generate"
  BY DEF GenerateAgain, At
<1>1. TaskOK(server[s]) /\ server[s] \in Task
  BY <1>0, TaskType DEF Inv, TasksOK
<1>2. server[s].attempt + 1 \in 0..MaxRetries
  BY <1>1, ConstantTypes DEF GenerateAgain, Task
<1>3. /\ task \in Task /\ task.pc = "generate" /\ task.request = server[s].request
      /\ task.levels = server[s].levels /\ task.chunks = server[s].chunks
      /\ task.prompt = server[s].prompt /\ task.response = server[s].response
  BY <1>0, <1>1, <1>2 DEF Task
<1>4. Continue(s, task) /\ UNCHANGED <<index, changes, asked, inbox, audit, window>>
  BY DEF GenerateAgain
<1> HIDE DEF task
<1>5. TaskOK(task)
  BY <1>0, <1>1, <1>3 DEF TaskOK
<1> QED BY <1>0, <1>3, <1>4, <1>5, ContinueKeeps

\* An error or a broken connection shows nothing.
LEMMA FailureKeeps ==
  ASSUME Inv, NEW s \in Servers, ~At(s, "idle"), NEW outcome \in Failure,
         End(s, outcome),
         UNCHANGED <<index, changes, asked, inbox, window>>,
         audit' = audit \/ (At(s, "record") /\ audit' = audit \cup {AuditEvent(s)})
  PROVE  Inv'
<1>1. outcome.kind \notin {"results", "answer", "no_answer"} /\ ShownChunks(outcome) = {}
  BY DEF Failure, ShownChunks
<1> QED BY <1>1, EndKeeps

LEMMA RecordKeeps ==
  ASSUME Inv, NEW s \in Servers, Record(s)
  PROVE  Inv'
<1>1. At(s, "record") /\ ~At(s, "idle") /\ UNCHANGED <<index, changes, asked, inbox, window>>
  BY DEF Record, At
<1>2. CASE End(s, [kind |-> "error"])
  <2>1. [kind |-> "error"] \in Failure
    BY DEF Failure
  <2>2. audit' = audit \/ audit' = audit \cup {AuditEvent(s)}
    BY DEF Record
  <2> QED BY <1>1, <1>2, <2>1, <2>2, FailureKeeps
<1>3. CASE audit' = audit \cup {AuditEvent(s)} /\ End(s, server[s].response)
  <2>1. TaskOK(server[s]) /\ server[s] \in Task
    BY <1>1, TaskType DEF Inv, TasksOK
  <2>2. /\ server[s].response \in Response
        /\ \A c \in ShownChunks(server[s].response) : Due(server[s].request, c)
    BY <1>1, <2>1 DEF TaskOK, Task, At
  <2>3. server[s].response.kind # "results"
    BY <2>2 DEF Response
  <2>4. AuditEvent(s).request = server[s].request /\ AuditEvent(s).response = server[s].response
    BY <1>1, EventOfTask
  <2>5. \E e \in audit' : e.request = server[s].request /\ e.response = server[s].response
    BY <1>3, <2>4
  <2> QED BY <1>1, <1>3, <2>2, <2>3, <2>5, EndKeeps
<1> QED BY <1>2, <1>3 DEF Record

-----------------------------------------------------------------------------
(* The steps around the handlers.                                          *)

LEMMA InitInv == Init => Inv
<1> SUFFICES ASSUME Init  PROVE Inv
  OBVIOUS
<1>1. TypeOK
  <2>1. MaxChanges \in Nat /\ Collections \subseteq SUBSET Documents
    BY ConstantsAssumption
  <2> QED BY <2>1 DEF Init, TypeOK
<1>2. \A s \in Servers : At(s, "idle")
  BY DEF Init, At, Idle
<1>3. TasksOK /\ OneHandler
  BY <1>2 DEF TasksOK, OneHandler
<1>4. InboxOK /\ (\A r \in Requests : ReplyOK(r)) /\ (\A e \in audit : EventOK(e))
  BY DEF Init, InboxOK, ReplyOK, NoReply
<1>5. WindowsOK
  BY <1>2 DEF Init, WindowsOK, Open, Served
<1> QED BY <1>1, <1>3, <1>4, <1>5 DEF Inv

\* Nothing is known of a request before it is sent.
LEMMA SendKeeps ==
  ASSUME Inv, NEW r \in Requests, Send(r)
  PROVE  Inv'
<1>1. PICK q \in Questions : asked' = [asked EXCEPT ![r] = q]
  BY DEF Send
<1>2. /\ asked[r] = NoQuestion
      /\ inbox' = inbox \cup {r}
      /\ window' = [window EXCEPT ![r] = [stable |-> index, seen |-> index]]
      /\ UNCHANGED <<index, changes, server, audit, reply>>
  BY DEF Send
<1>3. asked[r] \notin Questions
  BY <1>2, ConstantTypes DEF NoQuestion, Question
<1>4. /\ reply[r] = NoReply /\ r \notin inbox
      /\ \A e \in audit : e.request # r
      /\ \A s \in Servers : ~At(s, "idle") => server[s].request # r
  BY <1>3 DEF Inv, ReplyOK, InboxOK, EventOK, TasksOK, TaskOK
<1>5. /\ asked' \in [Requests -> Questions \cup {NoQuestion}] /\ asked'[r] = q
      /\ \A p \in Requests \ {r} : asked'[p] = asked[p] /\ window'[p] = window[p]
      /\ window'[r] = [stable |-> index, seen |-> index]
      /\ window' \in [Requests -> [stable : SUBSET Documents, seen : SUBSET Documents]]
  BY <1>1, <1>2 DEF Inv, TypeOK
<1>6. TypeOK'
  BY <1>2, <1>5 DEF Inv, TypeOK
<1>7. \A s \in Servers : At(s, "idle")' <=> At(s, "idle")
  BY <1>2 DEF At
<1>8. TasksOK'
  <2> SUFFICES ASSUME NEW s \in Servers, ~At(s, "idle")'  PROVE TaskOK(server[s])'
    BY DEF TasksOK
  <2>1. TaskOK(server[s]) /\ server[s].request \in Requests \ {r}
    BY <1>4, <1>7, TaskType DEF Inv, TasksOK
  <2> QED BY <1>2, <1>5, <2>1 DEF TaskOK, Due, Unheard, Unlogged, ShownChunks
<1>9. OneHandler'
  BY <1>2, <1>7 DEF Inv, OneHandler
<1>10. InboxOK'
  <2> SUFFICES ASSUME NEW p \in inbox'
               PROVE  asked'[p] \in Questions /\ Unheard(p)' /\ Unlogged(p)'
    BY DEF InboxOK
  <2>1. CASE p = r
    BY <1>2, <1>4, <1>5, <2>1 DEF Unheard, Unlogged
  <2>2. CASE p \in inbox /\ p # r
    BY <1>2, <1>5, <2>2 DEF Inv, TypeOK, InboxOK, Unheard, Unlogged
  <2> QED BY <1>2, <2>1, <2>2
<1>11. ASSUME NEW p \in Requests  PROVE ReplyOK(p)'
  <2>1. CASE p = r
    BY <1>2, <1>4, <2>1 DEF ReplyOK
  <2>2. CASE p # r
    BY <1>2, <1>5, <2>2 DEF Inv, ReplyOK, Complete, Recorded, Due, ShownChunks
  <2> QED BY <2>1, <2>2
<1>12. ASSUME NEW e \in audit'  PROVE EventOK(e)'
  <2>1. e \in audit /\ e.request \in Requests \ {r}
    BY <1>2, <1>4 DEF Inv, TypeOK, Event
  <2> QED BY <1>2, <1>5, <2>1 DEF Inv, EventOK, Due, ShownChunks
<1>13. WindowsOK'
  <2> SUFFICES ASSUME NEW p \in Requests, Open(p)'
               PROVE  window'[p].stable \subseteq index' /\ index' \subseteq window'[p].seen
    BY DEF WindowsOK
  <2>1. CASE p = r
    BY <1>2, <1>5, <2>1
  <2>2. CASE p # r
    <3>1. Open(p)
      BY <1>2, <1>7, <2>2 DEF Open, Served
    <3> QED BY <1>2, <1>5, <2>2, <3>1 DEF Inv, WindowsOK
  <2> QED BY <2>1, <2>2
<1> QED BY <1>6, <1>8, <1>9, <1>10, <1>11, <1>12, <1>13 DEF Inv

\* An answer that shows nothing can be given to any request that was sent.
LEMMA EmptyReplyKeeps ==
  ASSUME Inv, NEW r \in Requests, NEW outcome \in Failure, asked[r] \in Questions,
         Tell(r, outcome), UNCHANGED <<asked, audit, window>>
  PROVE  /\ \A p \in Requests : ReplyOK(p)'
         /\ \A p \in Requests \ {r} : Unheard(p) => Unheard(p)'
         /\ reply' \in [Requests -> Response \cup Results \cup Failure \cup {NoReply}]
<1>1. outcome.kind \notin {"results", "answer", "no_answer"} /\ ShownChunks(outcome) = {}
  BY DEF Failure, ShownChunks
<1>2. /\ \A p \in Requests : reply'[p] = reply[p] \/ (p = r /\ reply'[p] = outcome)
      /\ reply' \in [Requests -> Response \cup Results \cup Failure \cup {NoReply}]
  BY DEF Inv, TypeOK, Tell
<1>3. ASSUME NEW p \in Requests  PROVE ReplyOK(p)'
  <2>1. CASE reply'[p] = reply[p]
    BY <2>1 DEF Inv, ReplyOK, Complete, Recorded, Due, ShownChunks
  <2>2. CASE p = r /\ reply'[p] = outcome
    BY <1>1, <2>2 DEF ReplyOK, Complete, Recorded, ShownChunks
  <2> QED BY <1>2, <2>1, <2>2
<1> QED BY <1>2, <1>3 DEF Unheard

LEMMA ForbiddenKeeps ==
  ASSUME Inv, NEW r \in inbox, inbox' = inbox \ {r}, Tell(r, [kind |-> "forbidden"]),
         UNCHANGED <<index, changes, asked, server, audit, window>>
  PROVE  Inv'
<1>1. r \in Requests /\ asked[r] \in Questions /\ [kind |-> "forbidden"] \in Failure
  BY DEF Inv, TypeOK, InboxOK, Failure
<1>2. /\ \A p \in Requests : ReplyOK(p)'
      /\ \A p \in Requests \ {r} : Unheard(p) => Unheard(p)'
      /\ reply' \in [Requests -> Response \cup Results \cup Failure \cup {NoReply}]
  BY <1>1, EmptyReplyKeeps
<1>3. \A s \in Servers : At(s, "idle")' <=> At(s, "idle")
  BY DEF At
<1>4. TypeOK'
  BY <1>2 DEF Inv, TypeOK
<1>5. TasksOK'
  <2> SUFFICES ASSUME NEW s \in Servers, ~At(s, "idle")'  PROVE TaskOK(server[s])'
    BY DEF TasksOK
  <2>1. TaskOK(server[s]) /\ server[s].request \in Requests
    BY <1>3, TaskType DEF Inv, TasksOK
  <2>2. Unheard(server[s].request)'
    BY <1>2, <2>1 DEF TaskOK
  <2> QED BY <2>1, <2>2 DEF TaskOK, Due, Unlogged, ShownChunks
<1>6. OneHandler'
  BY <1>3 DEF Inv, OneHandler
<1>7. InboxOK'
  BY <1>2 DEF Inv, TypeOK, InboxOK, Unlogged
<1>8. \A e \in audit' : EventOK(e)'
  BY DEF Inv, EventOK, Due, ShownChunks
<1>9. WindowsOK'
  BY <1>3 DEF Inv, WindowsOK, Open, Served
<1> QED BY <1>2, <1>4, <1>5, <1>6, <1>7, <1>8, <1>9 DEF Inv

LEMMA AcceptKeeps ==
  ASSUME Inv, NEW s \in Servers, NEW r \in Requests, Accept(s, r)
  PROVE  Inv'
<1>1. /\ At(s, "idle") /\ r \in inbox /\ inbox' = inbox \ {r}
      /\ UNCHANGED <<index, changes, asked, audit, window>>
  BY DEF Accept
<1>2. CASE ~Permitted(asked[r]) /\ Tell(r, [kind |-> "forbidden"]) /\ UNCHANGED server
  BY <1>1, <1>2, ForbiddenKeeps
<1> DEFINE task == [pc |-> "search", request |-> r,
                    levels |-> LevelFilter(asked[r]), chunks |-> {},
                    prompt |-> <<>>, attempt |-> 0, response |-> NoReply]
<1>3. CASE Permitted(asked[r]) /\ Continue(s, task)
  <2>1. asked[r] \in Questions /\ Unheard(r) /\ Unlogged(r)
    BY <1>1 DEF Inv, InboxOK
  <2>2. LevelFilter(asked[r]) \subseteq Level /\ FinalTopK(asked[r]) \in Nat
    <3>1. asked[r].levels \subseteq Level
      BY <2>1, ConstantTypes DEF Question
    <3> QED BY <2>1, <3>1, Limits DEF LevelFilter, Allowed, Level
  <2>3. task \in Task
    <3>1. 0 \in 0..MaxRetries /\ <<>> \in Seq(Chunks)
      BY ConstantTypes
    <3> QED BY <2>2, <3>1 DEF Task
  <2>4. /\ task.pc = "search" /\ task.request = r /\ task.chunks = {}
        /\ task.levels = LevelFilter(asked[r]) /\ task.response = NoReply
        /\ Len(task.prompt) = 0 /\ ToSet(task.prompt) = {} /\ ShownChunks(task.response) = {}
    BY DEF ToSet, ShownChunks, NoReply
  <2>5. server' = [server EXCEPT ![s] = task] /\ reply' = reply
    BY <1>3 DEF Continue
  <2>6. server \in [Servers -> Task \cup {Idle}]
    BY DEF Inv, TypeOK
  <2> HIDE DEF task
  <2>7. \A t \in Servers : server'[t] = IF t = s THEN task ELSE server[t]
    BY <2>5, <2>6
  <2>8. \A t \in Servers : At(t, "idle")' <=> t # s /\ At(t, "idle")
    BY <2>4, <2>7 DEF At
  <2>9. \A t \in Servers : ~At(t, "idle") => server[t].request # r
    BY <1>1 DEF Inv, TasksOK, TaskOK
  <2>10. TypeOK'
    BY <1>1, <2>3, <2>5 DEF Inv, TypeOK
  <2>11. TasksOK'
    <3> SUFFICES ASSUME NEW t \in Servers, ~At(t, "idle")'  PROVE TaskOK(server[t])'
      BY DEF TasksOK
    <3>1. CASE t = s
      <4>1. r \notin inbox' /\ Unheard(r)' /\ Unlogged(r)'
        BY <1>1, <2>1, <2>5 DEF Unheard, Unlogged
      <4>2. PICK x : x = task
        OBVIOUS
      <4>3. asked'[x.request] = asked[r] /\ x.request = r /\ server'[t] = x
        BY <1>1, <2>4, <2>7, <3>1, <4>2
      <4>4. TaskOK(x)'
        <5>1. /\ x \in Task /\ x.levels = LevelFilter(asked[r]) /\ x.pc = "search"
              /\ x.response = NoReply /\ Len(x.prompt) = 0
              /\ x.chunks \cup ToSet(x.prompt) \cup ShownChunks(x.response) = {}
          BY <2>3, <2>4, <4>2
        <5> QED BY <1>3, <2>1, <2>2, <4>1, <4>3, <5>1 DEF TaskOK
      <4> QED BY <4>3, <4>4 DEF TaskOK, ShownChunks, Due, Unheard, Unlogged
    <3>2. CASE t # s
      <4>1. TaskOK(server[t]) /\ server'[t] = server[t]
        BY <2>7, <2>8, <3>2 DEF Inv, TasksOK
      <4> QED BY <1>1, <2>5, <4>1 DEF TaskOK, Due, Unheard, Unlogged, ShownChunks
    <3> QED BY <3>1, <3>2
  <2>12. OneHandler'
    BY <1>1, <2>4, <2>7, <2>8, <2>9 DEF Inv, OneHandler
  <2>13. InboxOK'
    BY <1>1, <2>5 DEF Inv, InboxOK, Unheard, Unlogged
  <2>14. \A p \in Requests : ReplyOK(p)'
    BY <1>1, <2>5 DEF Inv, ReplyOK, Complete, Recorded, Due, ShownChunks
  <2>15. \A e \in audit' : EventOK(e)'
    BY <1>1 DEF Inv, EventOK, Due, ShownChunks
  <2>16. WindowsOK'
    <3>1. \A p \in Requests : Open(p)' => Open(p)
      BY <1>1, <2>4, <2>7, <2>8 DEF Open, Served
    <3> QED BY <1>1, <3>1 DEF Inv, WindowsOK
  <2> QED BY <2>10, <2>11, <2>12, <2>13, <2>14, <2>15, <2>16 DEF Inv
<1> QED BY <1>2, <1>3 DEF Accept

\* The handler may still answer: what the client got is no answer.
LEMMA GiveUpKeeps ==
  ASSUME Inv, NEW r \in Requests, GiveUp(r)
  PROVE  Inv'
<1>1. /\ Open(r) /\ Tell(r, [kind |-> "lost"]) /\ reply[r] = NoReply
      /\ UNCHANGED <<index, changes, asked, inbox, server, audit, window>>
  BY DEF GiveUp
<1>2. asked[r] \in Questions /\ [kind |-> "lost"] \in Failure
  BY <1>1 DEF Inv, Open, Served, InboxOK, TasksOK, TaskOK, Failure
<1>3. /\ \A p \in Requests : ReplyOK(p)'
      /\ \A p \in Requests \ {r} : Unheard(p) => Unheard(p)'
      /\ reply' \in [Requests -> Response \cup Results \cup Failure \cup {NoReply}]
  BY <1>1, <1>2, EmptyReplyKeeps
<1>4. Unheard(r)'
  BY <1>1 DEF Unheard, Tell, Inv, TypeOK
<1>5. \A s \in Servers : At(s, "idle")' <=> At(s, "idle")
  BY <1>1 DEF At
<1>6. TypeOK'
  BY <1>1, <1>3 DEF Inv, TypeOK
<1>7. TasksOK'
  <2> SUFFICES ASSUME NEW s \in Servers, ~At(s, "idle")'  PROVE TaskOK(server[s])'
    BY DEF TasksOK
  <2>1. TaskOK(server[s]) /\ server[s].request \in Requests
    BY <1>5, TaskType DEF Inv, TasksOK
  <2>2. Unheard(server[s].request)'
    BY <1>1, <1>3, <1>4, <2>1 DEF TaskOK
  <2> QED BY <1>1, <2>1, <2>2 DEF TaskOK, Due, Unlogged, ShownChunks
<1>8. OneHandler'
  BY <1>1, <1>5 DEF Inv, OneHandler
<1>9. InboxOK'
  BY <1>1, <1>3, <1>4 DEF Inv, TypeOK, InboxOK, Unlogged
<1>10. \A e \in audit' : EventOK(e)'
  BY <1>1 DEF Inv, EventOK, Due, ShownChunks
<1>11. WindowsOK'
  BY <1>1, <1>5 DEF Inv, WindowsOK, Open, Served
<1> QED BY <1>3, <1>6, <1>7, <1>8, <1>9, <1>10, <1>11 DEF Inv

\* A window only learns of more, and counts on less.
LEMMA ChangeIndexKeeps ==
  ASSUME Inv, NEW d \in Documents, ChangeIndex(d)
  PROVE  Inv'
<1>1. /\ changes < MaxChanges /\ changes' = changes + 1
      /\ index' = IF d \in index THEN index \ {d} ELSE index \cup {d}
      /\ window' = [r \in Requests |->
           IF Open(r) THEN [stable |-> window[r].stable \cap index',
                            seen   |-> window[r].seen \cup index']
           ELSE window[r]]
      /\ UNCHANGED <<asked, inbox, server, audit, reply>>
  BY DEF ChangeIndex
<1>2. /\ index' \subseteq Documents
      /\ window \in [Requests -> [stable : SUBSET Documents, seen : SUBSET Documents]]
  BY <1>1 DEF Inv, TypeOK
<1>3. \A r \in Requests : window'[r].stable \subseteq window[r].stable
                          /\ window[r].seen \subseteq window'[r].seen
  BY <1>1, <1>2
<1>4. \A r \in Requests : Open(r)' <=> Open(r)
  BY <1>1 DEF Open, Served, At
<1>5. \A r \in Requests : \A c : Due(r, c) => Due(r, c)'
  BY <1>1, <1>3 DEF Due
<1>6. TypeOK'
  <2>1. changes' \in 0..MaxChanges
    BY <1>1, ConstantTypes DEF Inv, TypeOK
  <2>2. window' \in [Requests -> [stable : SUBSET Documents, seen : SUBSET Documents]]
    BY <1>1, <1>2
  <2> QED BY <1>1, <1>2, <2>1, <2>2 DEF Inv, TypeOK
<1>7. TasksOK'
  <2> SUFFICES ASSUME NEW s \in Servers, ~At(s, "idle")'  PROVE TaskOK(server[s])'
    BY DEF TasksOK
  <2>1. TaskOK(server[s]) /\ server[s].request \in Requests
    BY <1>1, TaskType DEF Inv, TasksOK, At
  <2>2. \A c \in server[s].chunks \cup ToSet(server[s].prompt) \cup ShownChunks(server[s].response) :
           Due(server[s].request, c)'
    BY <1>1, <1>5, <2>1 DEF TaskOK
  <2> QED BY <1>1, <2>1, <2>2 DEF TaskOK, Unheard, Unlogged, ShownChunks
<1>8. OneHandler'
  BY <1>1 DEF Inv, OneHandler, At
<1>9. InboxOK'
  BY <1>1 DEF Inv, InboxOK, Unheard, Unlogged
<1>10. ASSUME NEW r \in Requests  PROVE ReplyOK(r)'
  <2>1. Complete(r) => Complete(r)'
    BY <1>1, <1>3 DEF Complete
  <2>2. Recorded(r) => Recorded(r)'
    BY <1>1 DEF Recorded
  <2> QED BY <1>1, <1>5, <2>1, <2>2 DEF Inv, ReplyOK, ShownChunks
<1>11. ASSUME NEW e \in audit'  PROVE EventOK(e)'
  <2>1. e \in audit /\ e.request \in Requests
    BY <1>1 DEF Inv, TypeOK, Event
  <2> QED BY <1>1, <1>5, <2>1 DEF Inv, EventOK, ShownChunks
<1>12. WindowsOK'
  BY <1>1, <1>2, <1>4 DEF Inv, WindowsOK
<1> QED BY <1>6, <1>7, <1>8, <1>9, <1>10, <1>11, <1>12 DEF Inv

-----------------------------------------------------------------------------
(* The results.                                                            *)

LEMMA NextInv ==
  ASSUME Inv, [Next]_vars
  PROVE  Inv'
<1>1. ASSUME NEW s \in Servers, Serve(s)  PROVE Inv'
  <2>1. CASE CallFails(s)
    <3>1. ~At(s, "idle") /\ [kind |-> "error"] \in Failure
      BY <2>1 DEF CallFails, At, Failure
    <3> QED BY <2>1, <3>1, FailureKeeps DEF CallFails
  <2>2. CASE GenerateFails(s)
    <3>1. ~At(s, "idle") /\ [kind |-> "error"] \in Failure
      BY <2>2 DEF GenerateFails, At, Failure
    <3> QED BY <2>2, <3>1, FailureKeeps DEF GenerateFails
  <2> QED
    BY <1>1, <2>1, <2>2, SearchKeeps, ScrollKeeps, RerankKeeps, GenerateKeeps,
       GenerateAgainKeeps, RecordKeeps, AcceptKeeps DEF Serve
<1>2. ASSUME NEW s \in Servers, Crash(s)  PROVE Inv'
  <2>1. [kind |-> "lost"] \in Failure
    BY DEF Failure
  <2> QED BY <1>2, <2>1, FailureKeeps DEF Crash
<1>3. CASE UNCHANGED vars
  <2>1. UNCHANGED <<index, changes, asked, inbox, server, audit, reply, window>>
    BY <1>3 DEF vars
  <2>2. TypeOK' /\ TasksOK' /\ OneHandler' /\ InboxOK'
    BY <2>1 DEF Inv, TypeOK, TasksOK, TaskOK, OneHandler, InboxOK, At, Due,
                Unheard, Unlogged, ShownChunks
  <2>3. (\A r \in Requests : ReplyOK(r)') /\ (\A e \in audit' : EventOK(e)')
    BY <2>1 DEF Inv, ReplyOK, Complete, Recorded, EventOK, Due, ShownChunks
  <2>4. WindowsOK'
    BY <2>1 DEF Inv, WindowsOK, Open, Served, At
  <2> QED BY <2>2, <2>3, <2>4 DEF Inv
<1> QED BY <1>1, <1>2, <1>3, SendKeeps, GiveUpKeeps, ChangeIndexKeeps DEF Next

LEMMA Invariance == Spec => []Inv
<1>1. Inv /\ [Next]_vars => Inv'
  BY NextInv
<1> QED BY InitInv, <1>1, PTL DEF Spec

\* Every variable keeps its type; no retry of VLLMClient goes beyond MaxRetries.
THEOREM TypeCorrect == Spec => []TypeOK
<1>1. Inv => TypeOK
  BY DEF Inv
<1> QED BY Invariance, <1>1, PTL

\* The role's filter, the retrievers, the reranker and the citation parser pass
\* on nothing the caller may not see, whatever the collection does meanwhile.
THEOREM AllowedContextOnly == Spec => []OnlyAllowedContext
<1>1. Inv => OnlyAllowedContext
  <2> SUFFICES ASSUME Inv  PROVE OnlyAllowedContext
    OBVIOUS
  <2>1. \A s \in Servers : ~At(s, "idle") =>
          \A c \in server[s].chunks \cup ToSet(server[s].prompt)
                     \cup ShownChunks(server[s].response) : Due(server[s].request, c)
    BY DEF Inv, TasksOK, TaskOK
  <2>2. \A r \in Requests : \A c \in ShownChunks(reply[r]) : Due(r, c)
    BY DEF Inv, ReplyOK, ShownChunks, NoReply
  <2>3. \A e \in audit : \A c \in ShownChunks(e.response) : Due(e.request, c)
    BY DEF Inv, EventOK
  <2> QED BY <2>1, <2>2, <2>3 DEF OnlyAllowedContext
<1> QED BY Invariance, <1>1, PTL

\* A short result of /v1/search is complete, for either retriever and for every
\* limit, although HybridRetriever reads the collection twice.
THEOREM SearchesComplete == Spec => []NothingMissed
<1>1. Inv => NothingMissed
  BY DEF Inv, ReplyOK, Complete, NothingMissed, NoReply
<1> QED BY Invariance, <1>1, PTL

\* ChatService answers nobody whose answer is not in the audit log, and a
\* request is logged once, whatever fails.
THEOREM AnswersRecorded == Spec => []AnswersAreRecorded
<1>1. Inv => AnswersAreRecorded
  BY DEF Inv, ReplyOK, Recorded, EventOK, AnswersAreRecorded, NoReply
<1> QED BY Invariance, <1>1, PTL

-----------------------------------------------------------------------------
(* Why every request ends.                                                 *)

\* A request that was sent and not answered is with a process or waits for one.
UnansweredIsOpen ==
  \A r \in Requests : asked[r] # NoQuestion /\ reply[r] = NoReply => Open(r)

\* The calls a process still has to make for the request it serves, at most.
CallsLeft(task) ==
  CASE task.pc = "idle"     -> 0
    [] task.pc = "record"   -> 1
    [] task.pc = "generate" -> 2 + (MaxRetries - task.attempt)
    [] task.pc = "rerank"   -> 3 + MaxRetries
    [] task.pc = "scroll"   -> 4 + MaxRetries
    [] task.pc = "search"   -> 5 + MaxRetries

\* A step of a process brings the request it serves nearer to its end, or takes
\* a waiting one for good.
StepCounts ==
  \A s \in Servers : Serve(s) =>
    \/ CallsLeft(server[s])' \in 0 .. CallsLeft(server[s]) - 1
    \/ At(s, "idle") /\ \E r \in inbox : inbox' = inbox \ {r}

\* Process s goes on with fewer calls to make, or answers.
GoesOn(s) ==
  \E task : /\ Continue(s, task)
            /\ task.request = server[s].request
            /\ task.pc # "idle"
            /\ CallsLeft(task) \in 0 .. CallsLeft(server[s]) - 1
Answers(s) == \E outcome : End(s, outcome) /\ outcome # NoReply

\* How many calls are left at each step.
LEMMA CallsLeftIs ==
  ASSUME NEW task \in Task
  PROVE  /\ CallsLeft(task) \in Nat
         /\ task.pc = "record" => CallsLeft(task) = 1
         /\ task.pc = "generate" => CallsLeft(task) = 2 + (MaxRetries - task.attempt)
         /\ task.pc = "generate" => CallsLeft(task) \in 2 .. 2 + MaxRetries
         /\ task.pc = "rerank" => CallsLeft(task) = 3 + MaxRetries
         /\ task.pc = "scroll" => CallsLeft(task) = 4 + MaxRetries
         /\ task.pc = "search" => CallsLeft(task) = 5 + MaxRetries
<1>1. MaxRetries \in Nat
  BY ConstantTypes
<1>2. task.pc \in {"search", "scroll", "rerank", "generate", "record"}
      /\ task.attempt \in 0 .. MaxRetries
  BY DEF Task
<1> QED BY <1>1, <1>2 DEF CallsLeft

\* A request that is decided has its row of the log left to write.
LEMMA DecideGoesOn ==
  ASSUME NEW s \in Servers, server[s] \in Task, CallsLeft(server[s]) \in Nat \ {0, 1},
         NEW response, Decide(s, response)
  PROVE  GoesOn(s)
<1> DEFINE task == [server[s] EXCEPT !.pc = "record", !.chunks = {}, !.prompt = <<>>,
                                     !.attempt = 0, !.response = response]
<1>1. Continue(s, task)
  BY DEF Decide
<1>2. task.request = server[s].request /\ task.pc = "record"
  BY DEF Task
<1>3. CallsLeft(task) = 1
  BY <1>2 DEF CallsLeft
<1> HIDE DEF task
<1> QED BY <1>1, <1>2, <1>3 DEF GoesOn

\* What is left of the chunks goes to the model, or to the log when nothing is left.
LEMMA GroundGoesOn ==
  ASSUME NEW s \in Servers, server[s] \in Task,
         server[s].pc \in {"search", "scroll", "rerank"},
         NEW prompt, Ground(s, prompt)
  PROVE  GoesOn(s)
<1> DEFINE task == [server[s] EXCEPT !.pc = "generate", !.chunks = {}, !.prompt = prompt]
<1>1. MaxRetries \in Nat /\ server[s].attempt \in 0 .. MaxRetries
  BY ConstantTypes DEF Task
<1>2. CallsLeft(server[s]) \in 3 + MaxRetries .. 5 + MaxRetries
  BY <1>1, CallsLeftIs
<1>3. CASE prompt = <<>>
  <2>1. CallsLeft(server[s]) \in Nat \ {0, 1}
    BY <1>1, <1>2
  <2> QED BY <1>3, <2>1, DecideGoesOn DEF Ground
<1>4. CASE prompt # <<>>
  <2>1. Continue(s, task)
    BY <1>4 DEF Ground
  <2>2. task.request = server[s].request /\ task.pc = "generate"
        /\ task.attempt = server[s].attempt
    BY DEF Task
  <2>3. CallsLeft(task) = 2 + (MaxRetries - server[s].attempt)
    BY <2>2 DEF CallsLeft
  <2> HIDE DEF task
  <2> QED BY <1>1, <1>2, <2>1, <2>2, <2>3 DEF GoesOn
<1> QED BY <1>3, <1>4

\* After the last read of the collection no retriever is called again.
LEMMA RetrievedGoesOn ==
  ASSUME NEW s \in Servers, server[s] \in Task, server[s].pc \in {"search", "scroll"},
         NEW T, NEW score, Retrieved(s, T, score)
  PROVE  GoesOn(s) \/ Answers(s)
<1> DEFINE task == [server[s] EXCEPT !.pc = "rerank", !.chunks = T]
<1>1. MaxRetries \in Nat
  BY ConstantTypes
<1>2. CallsLeft(server[s]) \in 4 + MaxRetries .. 5 + MaxRetries
  BY <1>1, CallsLeftIs
<1>3. CASE End(s, [kind |-> "results", chunks |-> T])
  <2>1. [kind |-> "results", chunks |-> T] # NoReply
    BY DEF NoReply
  <2> QED BY <1>3, <2>1 DEF Answers
<1>4. CASE Decide(s, NoAnswer(0, FALSE))
  <2>1. CallsLeft(server[s]) \in Nat \ {0, 1}
    BY <1>1, <1>2
  <2> QED BY <1>4, <2>1, DecideGoesOn
<1>5. ASSUME NEW prompt, Ground(s, prompt)  PROVE GoesOn(s)
  BY <1>5, GroundGoesOn
<1>6. CASE Continue(s, task)
  <2>1. task.request = server[s].request /\ task.pc = "rerank"
    BY DEF Task
  <2>2. CallsLeft(task) = 3 + MaxRetries
    BY <2>1 DEF CallsLeft
  <2> HIDE DEF task
  <2> QED BY <1>1, <1>2, <1>6, <2>1, <2>2 DEF GoesOn
<1> QED BY <1>3, <1>4, <1>5, <1>6 DEF Retrieved

\* Every call of a handler is followed by fewer calls, or by the answer: no
\* step back to a retriever, and no retry of the model that is not counted.
LEMMA HandlerGoesOn ==
  ASSUME Inv, NEW s \in Servers, ~At(s, "idle"), Serve(s) \/ Crash(s)
  PROVE  (GoesOn(s) \/ Answers(s)) /\ UNCHANGED <<asked, inbox>>
<1>1. server[s] \in Task /\ TaskOK(server[s]) /\ MaxRetries \in Nat
  BY TaskType, ConstantTypes DEF Inv, TasksOK
<1>2. ASSUME Search(s)  PROVE GoesOn(s) \/ Answers(s)
  <2>1. server[s].pc = "search"
    BY <1>2 DEF Search, At
  <2>2. CASE \E T, score : Retrieved(s, T, score)
    BY <1>1, <2>1, <2>2, RetrievedGoesOn
  <2>3. ASSUME NEW hits, Continue(s, [server[s] EXCEPT !.pc = "scroll", !.chunks = hits])
        PROVE  GoesOn(s)
    <3> DEFINE task == [server[s] EXCEPT !.pc = "scroll", !.chunks = hits]
    <3>1. task.request = server[s].request /\ task.pc = "scroll"
      BY <1>1 DEF Task
    <3>2. CallsLeft(task) = 4 + MaxRetries /\ CallsLeft(server[s]) = 5 + MaxRetries
      BY <1>1, <2>1, <3>1, CallsLeftIs DEF CallsLeft
    <3>3. Continue(s, task)
      BY <2>3
    <3> HIDE DEF task
    <3> QED BY <1>1, <3>1, <3>2, <3>3 DEF GoesOn
  <2> QED BY <1>2, <2>2, <2>3 DEF Search
<1>3. ASSUME Scroll(s)  PROVE GoesOn(s) \/ Answers(s)
  <2>1. server[s].pc = "scroll" /\ \E T, score : Retrieved(s, T, score)
    BY <1>3 DEF Scroll, At
  <2> QED BY <1>1, <2>1, RetrievedGoesOn
<1>4. ASSUME Rerank(s)  PROVE GoesOn(s)
  <2>1. server[s].pc = "rerank" /\ \E prompt : Ground(s, prompt)
    BY <1>4 DEF Rerank, At
  <2> QED BY <1>1, <2>1, GroundGoesOn
<1>5. ASSUME Generate(s)  PROVE GoesOn(s)
  <2>1. server[s].pc = "generate" /\ \E response : Decide(s, response)
    BY <1>5 DEF Generate, At
  <2>2. CallsLeft(server[s]) \in Nat \ {0, 1}
    BY <1>1, <2>1, CallsLeftIs
  <2> QED BY <1>1, <2>1, <2>2, DecideGoesOn
<1>6. ASSUME GenerateAgain(s)  PROVE GoesOn(s)
  <2> DEFINE task == [server[s] EXCEPT !.attempt = @ + 1]
  <2>1. server[s].pc = "generate" /\ server[s].attempt < MaxRetries /\ Continue(s, task)
    BY <1>6 DEF GenerateAgain, At
  <2>2. /\ task.request = server[s].request /\ task.pc = "generate"
        /\ task.attempt = server[s].attempt + 1
    BY <1>1, <2>1 DEF Task
  <2>3. server[s].attempt \in 0 .. MaxRetries
    BY <1>1 DEF Task
  <2>4. /\ CallsLeft(task) = 2 + (MaxRetries - (server[s].attempt + 1))
        /\ CallsLeft(server[s]) = 2 + (MaxRetries - server[s].attempt)
    BY <1>1, <2>1, <2>2, CallsLeftIs DEF CallsLeft
  <2> HIDE DEF task
  <2> QED BY <1>1, <2>1, <2>2, <2>3, <2>4 DEF GoesOn
<1>7. ASSUME CallFails(s) \/ GenerateFails(s) \/ Crash(s)  PROVE Answers(s)
  BY <1>7 DEF CallFails, GenerateFails, Crash, Answers, NoReply
<1>8. ASSUME Record(s)  PROVE Answers(s)
  <2>1. server[s].response # NoReply
    BY <1>1, <1>8 DEF Record, At, TaskOK
  <2>2. End(s, [kind |-> "error"]) \/ End(s, server[s].response)
    BY <1>8 DEF Record
  <2>3. [kind |-> "error"] # NoReply
    BY DEF NoReply
  <2> QED BY <2>1, <2>2, <2>3 DEF Answers
<1>9. ~ \E r \in Requests : Accept(s, r)
  BY DEF Accept
<1>10. UNCHANGED <<asked, inbox>>
  BY <1>9 DEF Serve, Crash, Search, Scroll, Rerank, CallFails, Generate, GenerateAgain,
              GenerateFails, Record
<1> QED
  BY <1>2, <1>3, <1>4, <1>5, <1>6, <1>7, <1>8, <1>9, <1>10 DEF Serve

\* No process forgets a request: what leaves the waiting requests is refused or
\* taken up, and a process lets go of a request when it answers it.
LEMMA NextUnanswered ==
  ASSUME Inv, UnansweredIsOpen, [Next]_vars
  PROVE  UnansweredIsOpen'
<1> USE DEF At, Open, Served
<1>0. TypeOK
  BY DEF Inv
<1>1. ASSUME NEW r \in Requests, Send(r)  PROVE UnansweredIsOpen'
  BY <1>0, <1>1 DEF Send, UnansweredIsOpen, TypeOK
<1>2. ASSUME NEW r \in Requests, GiveUp(r)  PROVE UnansweredIsOpen'
  <2>1. reply' = [reply EXCEPT ![r] = [kind |-> "lost"]] /\ UNCHANGED <<asked, inbox, server>>
    BY <1>2 DEF GiveUp, Tell
  <2>2. [kind |-> "lost"] # NoReply
    BY DEF NoReply
  <2>3. \A x \in Requests : reply'[x] = NoReply => reply[x] = NoReply
    BY <1>0, <2>1, <2>2 DEF TypeOK
  <2> QED BY <2>1, <2>3 DEF UnansweredIsOpen
<1>3. ASSUME NEW s \in Servers, NEW r \in Requests, Accept(s, r)  PROVE UnansweredIsOpen'
  <2>1. /\ server[s].pc = "idle" /\ r \in inbox
        /\ inbox' = inbox \ {r} /\ asked' = asked
    BY <1>3 DEF Accept
  <2>2. CASE Tell(r, [kind |-> "forbidden"]) /\ UNCHANGED server
    <3>1. reply'[r] # NoReply
      BY <1>0, <2>2 DEF Tell, TypeOK, NoReply
    <3>2. \A x \in Requests \ {r} : reply'[x] = reply[x]
      BY <1>0, <2>2 DEF Tell, TypeOK
    <3> QED BY <2>1, <2>2, <3>1, <3>2 DEF UnansweredIsOpen
  <2>3. ASSUME NEW task, Continue(s, task), task.pc = "search", task.request = r
        PROVE  UnansweredIsOpen'
    <3>1. server'[s] = task /\ \A t \in Servers \ {s} : server'[t] = server[t]
      BY <1>0, <2>3 DEF Continue, TypeOK
    <3>2. \A x \in Requests : Open(x) => Open(x)'
      BY <2>1, <2>3, <3>1
    <3> QED BY <2>1, <2>3, <3>2 DEF Continue, UnansweredIsOpen
  <2> QED BY <1>3, <2>2, <2>3 DEF Accept
<1>4. ASSUME NEW s \in Servers, Serve(s) \/ Crash(s), ~At(s, "idle")  PROVE UnansweredIsOpen'
  <2>1. UNCHANGED <<asked, inbox>> /\ (GoesOn(s) \/ Answers(s))
    BY <1>4, HandlerGoesOn
  <2>2. CASE GoesOn(s)
    BY <1>0, <2>1, <2>2 DEF GoesOn, Continue, UnansweredIsOpen, TypeOK
  <2>3. CASE Answers(s)
    BY <1>0, <1>4, <2>1, <2>3, TaskType DEF Answers, End, Tell, UnansweredIsOpen, TypeOK, Idle
  <2> QED BY <2>1, <2>2, <2>3
<1>5. ASSUME NEW d \in Documents, ChangeIndex(d)  PROVE UnansweredIsOpen'
  BY <1>5 DEF ChangeIndex, UnansweredIsOpen
<1>6. CASE UNCHANGED vars
  BY <1>6 DEF vars, UnansweredIsOpen
<1>7. ASSUME NEW s \in Servers, Serve(s) \/ Crash(s)  PROVE UnansweredIsOpen'
  <2>1. CASE At(s, "idle")
    BY <1>3, <1>7, <2>1
    DEF Serve, Crash, Search, Scroll, Rerank, CallFails, Generate, GenerateAgain,
        GenerateFails, Record
  <2> QED BY <1>4, <1>7, <2>1
<1> QED BY <1>1, <1>2, <1>5, <1>6, <1>7 DEF Next

\* An idle process can only accept; a busy one goes on or answers.
LEMMA ServeCounts ==
  ASSUME Inv, NEW s \in Servers, Serve(s)
  PROVE  \/ CallsLeft(server[s])' \in 0 .. CallsLeft(server[s]) - 1
         \/ At(s, "idle") /\ \E r \in inbox : inbox' = inbox \ {r}
<1>0. TypeOK
  BY DEF Inv
<1>1. CASE At(s, "idle")
  BY <1>1
  DEF Serve, Search, Scroll, Rerank, CallFails, Generate, GenerateAgain, GenerateFails,
      Record, Accept, At
<1>2. CASE ~At(s, "idle")
  <2>1. server[s] \in Task /\ MaxRetries \in Nat
    BY <1>0, <1>2, TaskType, ConstantTypes
  <2>2. CallsLeft(server[s]) \in Nat \ {0}
    <3>1. server[s].pc \in {"search", "scroll", "rerank", "generate", "record"}
      BY <2>1 DEF Task
    <3> QED BY <2>1, <3>1, CallsLeftIs
  <2>3. CASE GoesOn(s)
    BY <1>0, <2>3 DEF GoesOn, Continue, TypeOK
  <2>4. CASE Answers(s)
    <3>1. server'[s] = Idle
      BY <1>0, <2>4 DEF Answers, End, TypeOK
    <3>2. CallsLeft(Idle) = 0
      BY DEF CallsLeft, Idle
    <3> QED BY <2>2, <3>1, <3>2
  <2> QED BY <1>2, <2>3, <2>4, HandlerGoesOn
<1> QED BY <1>1, <1>2

\* What EveryRequestEnds rests on, but for fairness: no request is forgotten
\* before it is answered, and a process that goes on comes to the end of every
\* request it takes up after at most 5 + MaxRetries calls, whatever fails.
THEOREM RequestsAdvance == Spec => [](UnansweredIsOpen) /\ [][StepCounts]_vars
<1>1. Init => UnansweredIsOpen
  BY DEF Init, UnansweredIsOpen
<1>2. Inv => [StepCounts]_vars
  BY ServeCounts DEF StepCounts
<1> QED BY <1>1, <1>2, InitInv, NextInv, NextUnanswered, PTL DEF Spec

=============================================================================
