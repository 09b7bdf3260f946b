---------------------------- MODULE ChatService ----------------------------
(***************************************************************************)
(* Search and chat of DocSearch AI: the handlers of /v1/search and         *)
(* /v1/chat, the role's security levels, DenseRetriever and                *)
(* HybridRetriever over the Qdrant collection, the reranker, the retry     *)
(* loop of VLLMClient and the audit record, while workers and delete       *)
(* handlers change the collection.                                         *)
(*                                                                         *)
(* The handlers are async functions that call synchronous code: an API     *)
(* process serves one request from its first to its last call, and the     *)
(* other requests it accepted wait.  One action is one external call; what *)
(* is computed up to the next call belongs to it.                          *)
(*                                                                         *)
(* Data are abstracted: all requests ask the same text, for which each     *)
(* chunk has a dense and a lexical score; an answer of the model is the    *)
(* set of numbers it cites; a list whose order nothing depends on is a     *)
(* set; texts, filenames, token counts and times are left out.             *)
(***************************************************************************)
EXTENDS Integers, FiniteSets, Sequences, SequencesExt

CONSTANTS
  Servers,        \* API processes
  Requests,       \* requests, each sent once
  Questions,      \* what a request may ask
  Workspaces,
  Documents,
  Chunks,         \* a chunk is known by its document and its index
  About,          \* workspace and security level in a document's payload
  DocumentOf,     \* the document a chunk was cut from
  Dense,          \* vector similarity of a chunk to the question
  Lexical,        \* share of the question's terms in a chunk
  Settings,       \* of each process: retrieval_mode and reranker_backend
  Scale,          \* scores are integers, in units of 1 / Scale
  DenseWeight, LexicalWeight,
  CandidateLimit, \* settings.hybrid_candidate_limit
  RetrievalLimit, \* settings.chat_retrieval_limit
  TopK,           \* settings.chat_rerank_top_k
  MinRelevance,   \* settings.chat_min_relevance_score
  MaxRetries,     \* settings.llm_max_retries
  Markers,        \* numbers the model may put in square brackets
  Collections,    \* bound: what the collection may hold at first
  MaxChanges,     \* bound: how often the collection changes
  Faults          \* the failures the environment may inject

Level == {"general", "internal", "confidential", "restricted"}

Question == [op : {"search", "chat"}, workspace : Workspaces,
             role : {"member", "admin"}, levels : SUBSET Level,
             documents : SUBSET Documents,
             limit : Nat]   \* limit of a search; top_k of a chat, 0 for none

Fault == {"call_error",        \* embedding, Qdrant or reranker raises
          "llm_transient",     \* transport error, 429 or 5xx of the model
          "llm_permanent",     \* other 4xx, or an answer without content
          "audit_error",       \* the insert raised and was not applied
          "audit_lost_reply",  \* the insert was applied and raised
          "crash",             \* the API process exits
          "gateway_timeout"}   \* nginx gives up after proxy_read_timeout

ASSUME ConstantsAssumption ==
  /\ Questions \subseteq Question
  /\ \A q \in Questions : q.op = "search" => q.limit > 0
  /\ About \in [Documents -> [workspace : Workspaces, level : Level]]
  /\ DocumentOf \in [Chunks -> Documents]
  /\ IsFiniteSet(Chunks)
  /\ Dense \in [Chunks -> Int] /\ Lexical \in [Chunks -> Nat]
  /\ Settings \in [Servers -> [retrieval : {"dense", "hybrid"},
                               reranker  : {"score", "bge"}]]
  /\ {Scale, DenseWeight, LexicalWeight, MinRelevance, MaxRetries, MaxChanges} \subseteq Nat
  /\ {CandidateLimit, RetrievalLimit, TopK} \subseteq Nat \ {0}
  /\ Markers \subseteq Nat
  /\ Collections \subseteq SUBSET Documents
  /\ Faults \subseteq Fault

VARIABLES
  index,    \* documents whose chunks are in the collection
  changes,  \* how often the collection changed
  asked,    \* the question of each request that was sent
  inbox,    \* requests no process has begun to serve
  server,   \* the request each process serves, and how far it is
  audit,    \* rows of chat_audit_events
  reply,    \* what the client of each request got
  window    \* history: what the collection held while a request was open

vars == <<index, changes, asked, inbox, server, audit, reply, window>>

NoQuestion == [op |-> "none"]
NoReply    == [kind |-> "none"]
Idle       == [pc |-> "idle"]

Citation == [id : Nat, chunk : Chunks]
Response == [kind : {"answer", "no_answer"}, cited : SUBSET Citation,
             count : Nat, usage : BOOLEAN]
Results  == [kind : {"results"}, chunks : SUBSET Chunks]
Failure  == [kind : {"forbidden", "error", "lost"}]
Event    == [request : Requests, workspace : Workspaces,
             limit : Nat, top_k : Nat, response : Response]
Task     == [pc : {"search", "scroll", "rerank", "generate", "record"},
             request : Requests, levels : SUBSET Level, chunks : SUBSET Chunks,
             prompt : Seq(Chunks), attempt : 0..MaxRetries,
             response : Response \cup {NoReply}]

Init ==
  /\ index \in Collections
  /\ changes = 0
  /\ asked  = [r \in Requests |-> NoQuestion]
  /\ inbox  = {}
  /\ server = [s \in Servers |-> Idle]
  /\ audit  = {}
  /\ reply  = [r \in Requests |-> NoReply]
  /\ window = [r \in Requests |-> [stable |-> {}, seen |-> {}]]

-----------------------------------------------------------------------------
(* Who may see what.                                                       *)

Allowed(role) == IF role = "admin" THEN Level ELSE {"general", "internal"}

\* Mutant of LevelFilter: no levels asked means no filter, whatever the role.
LevelFilterWithoutRole(q) == q.levels

\* filter_document_security_levels_for_role; the empty set is None.
LevelFilter(q) ==
  IF q.levels # {} \/ q.role = "admin" THEN q.levels ELSE Allowed(q.role)

Permitted(q) == q.levels \subseteq Allowed(q.role)

\* Mutant of Matching: documents asked for are found in any workspace.
MatchingAnyWorkspace(q, levels, ds) ==
  {c \in Chunks :
     LET d == DocumentOf[c] IN
       /\ d \in ds
       /\ About[d].workspace = q.workspace \/ d \in q.documents
       /\ q.documents # {} => d \in q.documents
       /\ levels # {} => About[d].level \in levels}

\* build_qdrant_filter, on the documents ds, as Qdrant evaluates it: every
\* "must" and, if there is a "should", one of it.
Matching(q, levels, ds) ==
  {c \in Chunks :
     LET d == DocumentOf[c] IN
       /\ d \in ds
       /\ About[d].workspace = q.workspace
       /\ q.documents # {} => d \in q.documents
       /\ levels # {} => About[d].level \in levels}

-----------------------------------------------------------------------------
(* Scores and limits.                                                      *)

\* The sets of n elements of S with the highest scores; ties go either way.
Best(S, score, n) ==
  {T \in SUBSET S :
     /\ IF Cardinality(S) <= n THEN T = S ELSE Cardinality(T) = n
     /\ \A t \in T, u \in S \ T : score[t] >= score[u]}

DenseScore == [c \in Chunks |-> Scale * Dense[c]]

\* The blend of HybridRetriever: a chunk that only the scroll returned has no
\* dense score.
Blend(hits) ==
  [c \in Chunks |-> (IF c \in hits THEN DenseWeight * Dense[c] ELSE 0)
                    + LexicalWeight * Lexical[c]]

Larger(a, b) == IF a >= b THEN a ELSE b

FinalTopK(q) == IF q.limit > 0 THEN q.limit ELSE TopK

\* How many chunks a request asks the retriever for.
Wanted(q) == IF q.op = "search" THEN q.limit ELSE Larger(RetrievalLimit, FinalTopK(q))

\* Mutant of Candidates: the configured limit, also when a request wants more.
CandidatesAsConfigured(q) == CandidateLimit

Candidates(q) == Larger(Wanted(q), CandidateLimit)

-----------------------------------------------------------------------------
(* A request on its way.                                                   *)

At(s, step) == server[s].pc = step
Served(r)   == \E s \in Servers : ~At(s, "idle") /\ server[s].request = r
Open(r)     == r \in inbox \/ Served(r)
Asked(s)    == asked[server[s].request]

\* A client sends a request.
Send(r) ==
  /\ asked[r] = NoQuestion
  /\ \E q \in Questions : asked' = [asked EXCEPT ![r] = q]
  /\ inbox'  = inbox \cup {r}
  /\ window' = [window EXCEPT ![r] = [stable |-> index, seen |-> index]]
  /\ UNCHANGED <<index, changes, server, audit, reply>>

\* The client gets the outcome of its request, unless the gateway gave up.
Tell(r, outcome) ==
  reply' = IF reply[r] = NoReply THEN [reply EXCEPT ![r] = outcome] ELSE reply

\* Server s ends its request, with this outcome.
End(s, outcome) ==
  /\ server' = [server EXCEPT ![s] = Idle]
  /\ Tell(server[s].request, outcome)

Continue(s, task) ==
  /\ server' = [server EXCEPT ![s] = task]
  /\ UNCHANGED reply

\* The event loop of s takes up a request; 403 if the role may not see a
\* level it asked for.
Accept(s, r) ==
  /\ At(s, "idle")
  /\ r \in inbox
  /\ inbox' = inbox \ {r}
  /\ \/ /\ ~Permitted(asked[r])
        /\ Tell(r, [kind |-> "forbidden"])
        /\ UNCHANGED server
     \/ /\ Permitted(asked[r])
        /\ Continue(s, [pc |-> "search", request |-> r,
                        levels |-> LevelFilter(asked[r]), chunks |-> {},
                        prompt |-> <<>>, attempt |-> 0, response |-> NoReply])
  /\ UNCHANGED <<index, changes, asked, audit, window>>

\* ChatService answers without the model: no context, or nothing cited.
NoAnswer(count, usage) ==
  [kind |-> "no_answer", cited |-> {}, count |-> count, usage |-> usage]

Decide(s, response) ==
  Continue(s, [server[s] EXCEPT !.pc = "record", !.chunks = {}, !.prompt = <<>>,
                                !.attempt = 0, !.response = response])

\* What is left after the relevance threshold goes to the model.
Ground(s, prompt) ==
  IF prompt = <<>>
  THEN Decide(s, NoAnswer(0, FALSE))
  ELSE Continue(s, [server[s] EXCEPT !.pc = "generate", !.chunks = {}, !.prompt = prompt])

\* ScorePreservingReranker and the relevance threshold: of the n best chunks of
\* T the relevant ones, best first.
Kept(T, score, n) ==
  {p \in UNION {SetToSeqs({c \in R : score[c] >= MinRelevance}) : R \in Best(T, score, n)} :
     \A i, j \in DOMAIN p : i < j => score[p[i]] >= score[p[j]]}

\* The retriever returned the chunks T: a search is answered, a chat goes on.
\* Only the reranking service needs a call.
Retrieved(s, T, score) ==
  \/ /\ Asked(s).op = "search"
     /\ End(s, [kind |-> "results", chunks |-> T])
  \/ /\ Asked(s).op = "chat"
     /\ T = {}
     /\ Decide(s, NoAnswer(0, FALSE))
  \/ /\ Asked(s).op = "chat"
     /\ T # {}
     /\ Settings[s].reranker = "score"
     /\ \E prompt \in Kept(T, score, FinalTopK(Asked(s))) : Ground(s, prompt)
  \/ /\ Asked(s).op = "chat"
     /\ T # {}
     /\ Settings[s].reranker = "bge"
     /\ Continue(s, [server[s] EXCEPT !.pc = "rerank", !.chunks = T])

\* The question is embedded and the nearest chunks are looked up.
Search(s) ==
  /\ At(s, "search")
  /\ LET q == Asked(s)
         M == Matching(q, server[s].levels, index)
     IN \/ /\ Settings[s].retrieval = "dense"
           /\ \E T \in Best(M, Dense, Wanted(q)) : Retrieved(s, T, DenseScore)
        \/ /\ Settings[s].retrieval = "hybrid"
           /\ \E hits \in Best(M, Dense, Candidates(q)) :
                Continue(s, [server[s] EXCEPT !.pc = "scroll", !.chunks = hits])
  /\ UNCHANGED <<index, changes, asked, inbox, audit, window>>

\* HybridRetriever adds the chunks a scroll returns first (in the order of
\* point ids, which are hashes), and keeps the best of both.
Scroll(s) ==
  /\ At(s, "scroll")
  /\ LET q     == Asked(s)
         score == Blend(server[s].chunks)
     IN \E page \in Best(Matching(q, server[s].levels, index),
                         [c \in Chunks |-> 0], Candidates(q)) :
          \E T \in Best(server[s].chunks \cup page, score, Wanted(q)) :
            Retrieved(s, T, score)
  /\ UNCHANGED <<index, changes, asked, inbox, audit, window>>

\* The reranking service returns some of the chunks with new scores, in any
\* order; the first top_k of them that are relevant make the prompt.
Rerank(s) ==
  /\ At(s, "rerank")
  /\ \E kept \in SUBSET server[s].chunks :
       /\ Cardinality(kept) <= FinalTopK(Asked(s))
       /\ \E prompt \in SetToSeqs(kept) : Ground(s, prompt)
  /\ UNCHANGED <<index, changes, asked, inbox, audit, window>>

\* A call before the model raises: 502 or 500.
CallFails(s) ==
  /\ "call_error" \in Faults
  /\ server[s].pc \in {"search", "scroll", "rerank"}
  /\ End(s, [kind |-> "error"])
  /\ UNCHANGED <<index, changes, asked, inbox, audit, window>>

\* _extract_citation_ids and _build_citations: the chunks the answer cites.
Cited(prompt, markers) ==
  {[id |-> i, chunk |-> prompt[i]] : i \in markers \cap (1..Len(prompt))}

\* The model answers; an answer without a valid citation is not passed on.
Generate(s) ==
  /\ At(s, "generate")
  /\ \E markers \in SUBSET Markers :
       LET prompt == server[s].prompt
           cited  == Cited(prompt, markers)
       IN Decide(s, IF cited = {} THEN NoAnswer(Len(prompt), TRUE)
                    ELSE [kind |-> "answer", cited |-> cited,
                          count |-> Len(prompt), usage |-> TRUE])
  /\ UNCHANGED <<index, changes, asked, inbox, audit, window>>

\* Mutant of GenerateAgain: one attempt too many.
GenerateOnceMore(s) ==
  /\ "llm_transient" \in Faults
  /\ At(s, "generate")
  /\ server[s].attempt <= MaxRetries
  /\ Continue(s, [server[s] EXCEPT !.attempt = @ + 1])
  /\ UNCHANGED <<index, changes, asked, inbox, audit, window>>

\* Mutant of GenerateAgain: the caller starts the loop again when it gives up.
GenerateAnew(s) ==
  /\ "llm_transient" \in Faults
  /\ At(s, "generate")
  /\ Continue(s, [server[s] EXCEPT !.attempt = IF @ < MaxRetries THEN @ + 1 ELSE 0])
  /\ UNCHANGED <<index, changes, asked, inbox, audit, window>>

\* VLLMClient: a transient failure is retried while attempts are left.
GenerateAgain(s) ==
  /\ "llm_transient" \in Faults
  /\ At(s, "generate")
  /\ server[s].attempt < MaxRetries
  /\ Continue(s, [server[s] EXCEPT !.attempt = @ + 1])
  /\ UNCHANGED <<index, changes, asked, inbox, audit, window>>

\* The last transient failure, or any permanent one, is a 502.
GenerateFails(s) ==
  /\ At(s, "generate")
  /\ \/ "llm_transient" \in Faults /\ server[s].attempt = MaxRetries
     \/ "llm_permanent" \in Faults
  /\ End(s, [kind |-> "error"])
  /\ UNCHANGED <<index, changes, asked, inbox, audit, window>>

AuditEvent(s) ==
  [request  |-> server[s].request, workspace |-> Asked(s).workspace,
   limit    |-> Wanted(Asked(s)),  top_k     |-> FinalTopK(Asked(s)),
   response |-> server[s].response]

\* Mutant of Record: a failed insert is logged and the answer is sent.
RecordBestEffort(s) ==
  /\ At(s, "record")
  /\ \/ audit' = audit \cup {AuditEvent(s)}
     \/ "audit_error" \in Faults /\ UNCHANGED audit
  /\ End(s, server[s].response)
  /\ UNCHANGED <<index, changes, asked, inbox, window>>

\* The audit row is written before the response goes out; if that raises, the
\* client gets a 500 for an answer that was generated.
Record(s) ==
  /\ At(s, "record")
  /\ \/ /\ audit' = audit \cup {AuditEvent(s)}
        /\ End(s, server[s].response)
     \/ /\ "audit_error" \in Faults
        /\ UNCHANGED audit
        /\ End(s, [kind |-> "error"])
     \/ /\ "audit_lost_reply" \in Faults
        /\ audit' = audit \cup {AuditEvent(s)}
        /\ End(s, [kind |-> "error"])
  /\ UNCHANGED <<index, changes, asked, inbox, window>>

Serve(s) ==
  \/ Search(s) \/ Scroll(s) \/ Rerank(s) \/ CallFails(s)
  \/ Generate(s) \/ GenerateAgain(s) \/ GenerateFails(s) \/ Record(s)
  \/ \E r \in Requests : Accept(s, r)

-----------------------------------------------------------------------------
(* The surroundings.                                                       *)

\* The process exits and is started again; its connection breaks.
Crash(s) ==
  /\ "crash" \in Faults
  /\ ~At(s, "idle")
  /\ End(s, [kind |-> "lost"])
  /\ UNCHANGED <<index, changes, asked, inbox, audit, window>>

\* The gateway stops waiting; the handler is not told and goes on.
GiveUp(r) ==
  /\ "gateway_timeout" \in Faults
  /\ Open(r)
  /\ reply[r] = NoReply
  /\ Tell(r, [kind |-> "lost"])
  /\ UNCHANGED <<index, changes, asked, inbox, server, audit, window>>

\* A worker upserts all chunks of a document, or a delete removes them.
ChangeIndex(d) ==
  /\ changes < MaxChanges
  /\ changes' = changes + 1
  /\ index' = IF d \in index THEN index \ {d} ELSE index \cup {d}
  /\ window' = [r \in Requests |->
       IF Open(r) THEN [stable |-> window[r].stable \cap index',
                        seen   |-> window[r].seen \cup index']
       ELSE window[r]]
  /\ UNCHANGED <<asked, inbox, server, audit, reply>>

Next ==
  \/ \E r \in Requests : Send(r) \/ GiveUp(r)
  \/ \E s \in Servers : Serve(s) \/ Crash(s)
  \/ \E d \in Documents : ChangeIndex(d)

Spec == Init /\ [][Next]_vars

\* The calls to the embedding service, Qdrant, the reranker and the model time out.
\* The insert of the audit row has no timeout: PostgreSQL is taken to answer or break
\* the connection.  So a process always gets on with its request.
FairSpec == Spec /\ \A s \in Servers : WF_vars(Serve(s))

-----------------------------------------------------------------------------
(* Properties.                                                             *)

TypeOK ==
  /\ index \subseteq Documents
  /\ changes \in 0..MaxChanges
  /\ asked  \in [Requests -> Questions \cup {NoQuestion}]
  /\ inbox  \subseteq Requests
  /\ server \in [Servers -> Task \cup {Idle}]
  /\ audit  \subseteq Event
  /\ reply  \in [Requests -> Response \cup Results \cup Failure \cup {NoReply}]
  /\ window \in [Requests -> [stable : SUBSET Documents, seen : SUBSET Documents]]

\* The chunks question q may bring to light: of its workspace, of a level its
\* role may see and it asked for, of a document it asked for.
Visible(q) ==
  {c \in Chunks :
     LET d == DocumentOf[c] IN
       /\ About[d].workspace = q.workspace
       /\ About[d].level \in Allowed(q.role)
       /\ q.levels # {} => About[d].level \in q.levels
       /\ q.documents # {} => d \in q.documents}

\* Whatever leaves the collection for a request (to the reranker, to the
\* model, to the client, to the audit log) is visible to who asked, and was in
\* the collection while the request was open: docs/architecture.md, "only
\* allowed context is passed on".
Due(r, c) == c \in Visible(asked[r]) /\ DocumentOf[c] \in window[r].seen

ShownChunks(x) ==
  CASE x.kind = "results" -> x.chunks
    [] x.kind = "answer"  -> {y.chunk : y \in x.cited}
    [] OTHER              -> {}

OnlyAllowedContext ==
  /\ \A s \in Servers : ~At(s, "idle") =>
       \A c \in server[s].chunks \cup ToSet(server[s].prompt)
                  \cup ShownChunks(server[s].response) : Due(server[s].request, c)
  /\ \A r \in Requests : \A c \in ShownChunks(reply[r]) : Due(r, c)
  /\ \A e \in audit : \A c \in ShownChunks(e.response) : Due(e.request, c)

\* A search that returns fewer chunks than asked for returns all visible
\* chunks that were in the collection while it was open, although two calls
\* of the hybrid retriever see different contents (search/router.py).
NothingMissed ==
  \A r \in Requests :
    reply[r].kind = "results" /\ Cardinality(reply[r].chunks) < asked[r].limit =>
      \A c \in Visible(asked[r]) :
        DocumentOf[c] \in window[r].stable => c \in reply[r].chunks

\* The audit log and the clients never disagree: a chat request has one row at
\* most, of its workspace; every answer a client got has its row, with the
\* same citations and count; and a row counts no more chunks than were asked
\* for (ChatService._record_audit_event comes before the return).
AnswersAreRecorded ==
  /\ \A e \in audit :
       /\ asked[e.request].op = "chat" /\ e.workspace = asked[e.request].workspace
       /\ \A f \in audit : f.request = e.request => f = e
       /\ e.response.count <= e.top_k /\ e.top_k <= e.limit
  /\ \A r \in Requests : reply[r].kind \in {"answer", "no_answer"} =>
       \E e \in audit : e.request = r /\ e.response = reply[r]

\* Every request that is sent is answered, although the requests before it
\* block the process while the model is retried.
EveryRequestEnds ==
  \A r \in Requests : asked[r] # NoQuestion ~> reply[r] # NoReply

=============================================================================
