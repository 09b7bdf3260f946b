---------------------------- MODULE DocumentPage ----------------------------
(***************************************************************************)
(* The document page of the frontend (DocumentWorkspace.tsx) and the API   *)
(* calls it makes: upload, list, delete and reindex (the search form       *)
(* shares nothing with them and is left out).  A call is sent by a click,  *)
(* served in some order by API processes that share one table of rows, and *)
(* its answer reaches the page in any order, late, or not at all.  Other   *)
(* users and the workers change rows meanwhile.                            *)
(*                                                                         *)
(* A click handler runs up to its await in one action; what follows the    *)
(* await, the finally block included, is one action too, because React     *)
(* renders the state updates of one continuation together.                 *)
(*                                                                         *)
(* A row is a document and its status.  A list is a set of rows: their     *)
(* order and equal rows shown twice are left out.  Null and the empty list *)
(* are one, and alerts, the input fields and what the upload panel shows   *)
(* are left out.  The list request returns 100 rows at most; the table     *)
(* holds fewer.                                                            *)
(***************************************************************************)
CONSTANTS
  Documents,   \* document ids (uuid4: never drawn twice)
  Calls,       \* the API calls the page may have under way at a time
  Statuses     \* values of indexing_status

ASSUME ConstantsAssumption == "none" \notin Documents \cup Statuses \cup Calls

Kind   == {"upload", "list", "delete", "reindex"}
Row    == [doc : Documents, status : Statuses]
Answer == [ok : BOOLEAN, rows : SUBSET Row]

\* found: a delete or a reindex has looked its document up.
Call == [phase : {"sent", "found", "answered"}, kind : Kind,
         doc : Documents \cup {"none"}, answer : Answer]

VARIABLES
  table,    \* the status in the row of each document, or "none"
  known,    \* document ids drawn so far
  calls,    \* the calls whose promises are pending
  page,     \* the state of the mounted component
  touched,  \* history: rows changed since the call was answered
  doubt     \* history: rows changed since the answer the page last heard of
            \* them was computed

server  == <<table, known>>
history == <<touched, doubt>>
vars    == <<server, calls, page, history>>

Free     == [phase |-> "free"]
NoAnswer == [ok |-> FALSE, rows |-> {}]

\* What useState starts with.
NewPage == [list |-> {}, listing |-> FALSE, uploading |-> FALSE,
            deleting |-> "none", reindexing |-> "none"]

Init ==
  /\ table   \in [Documents -> Statuses \cup {"none"}]
  /\ known   = {d \in Documents : table[d] # "none"}
  /\ calls   = [c \in Calls |-> Free]
  /\ page    = NewPage
  /\ touched = [c \in Calls |-> {}]
  /\ doubt   = Documents

-----------------------------------------------------------------------------
(* Clicks.                                                                 *)

\* The handler's fetch: call c is on its way.
Send(c, kind, doc) ==
  /\ calls[c] = Free
  /\ calls' = [calls EXCEPT ![c] =
       [phase |-> "sent", kind |-> kind, doc |-> doc, answer |-> NoAnswer]]
  /\ UNCHANGED <<server, history>>

UploadDocument(c) ==
  /\ ~page.uploading
  /\ Send(c, "upload", "none")
  /\ page' = [page EXCEPT !.uploading = TRUE]

ListDocuments(c) ==
  /\ ~page.listing
  /\ Send(c, "list", "none")
  /\ page' = [page EXCEPT !.listing = TRUE]

\* The documents in the list, and the status shown of one of them.
Listed          == {r.doc : r \in page.list}
Shown(rows, d) == {r.status : r \in {q \in rows : q.doc = d}}

\* Mutant of DeleteDocument: the row is taken out before the answer is there.
DeleteOptimistically(c) ==
  \E d \in Listed \ {page.deleting, page.reindexing} :
    /\ Send(c, "delete", d)
    /\ page' = [page EXCEPT !.deleting = d, !.list = {r \in @ : r.doc # d}]

\* DocumentListItem: the buttons of a row marked as being deleted or reindexed
\* are loading or disabled.
DeleteDocument(c) ==
  \E d \in Listed \ {page.deleting, page.reindexing} :
    /\ Send(c, "delete", d)
    /\ page' = [page EXCEPT !.deleting = d]

ReindexDocument(c) ==
  \E d \in Listed \ {page.deleting, page.reindexing} :
    /\ Send(c, "reindex", d)
    /\ page' = [page EXCEPT !.reindexing = d]

\* App shows another view, or the user logs out: the component is unmounted,
\* and what its calls set later is lost.
Leave ==
  /\ page' = NewPage
  /\ calls' = [c \in Calls |-> Free]
  /\ touched' = [c \in Calls |-> {}]
  /\ doubt' = Documents
  /\ UNCHANGED server

-----------------------------------------------------------------------------
(* The API.                                                                *)

Reply(c, ok, rows) ==
  calls' = [calls EXCEPT ![c].phase = "answered", ![c].answer = [ok |-> ok, rows |-> rows]]

\* The documents the answer of call c tells the page about.
Subject(c) == CASE calls[c].kind = "list"   -> Documents
                [] calls[c].kind = "upload" -> {}
                [] OTHER                    -> {calls[c].doc}

\* A row changes: the page, and answers computed before, know nothing of it.
\* The answer that reports the change is computed with it.
Set(d, status, reporter) ==
  /\ table'   = [table EXCEPT ![d] = status]
  /\ doubt'   = doubt \cup {d}
  /\ touched' = [c \in Calls |->
       IF c # reporter /\ calls[c].phase = "answered"
         THEN touched[c] \cup ({d} \cap Subject(c)) ELSE {}]

\* An answer that reports what the table holds, or nothing.
Report(c, ok, rows) ==
  /\ Reply(c, ok, rows)
  /\ touched' = [touched EXCEPT ![c] = {}]
  /\ UNCHANGED <<table, doubt>>

Waiting(c, kind, phase) == calls[c].phase = phase /\ calls[c].kind = kind

\* 4xx and 5xx answers of a request that changed no row.
Refuse(c) ==
  /\ calls[c].phase \in {"sent", "found"}
  /\ Report(c, FALSE, {})
  /\ UNCHANGED <<known, page>>

ServeUpload(c) ==
  /\ Waiting(c, "upload", "sent")
  /\ \E d \in Documents \ known, st \in Statuses :
       /\ Set(d, st, c)
       /\ known' = known \cup {d}
       /\ Reply(c, TRUE, {})
  /\ UNCHANGED page

ServeList(c) ==
  /\ Waiting(c, "list", "sent")
  /\ Report(c, TRUE, {[doc |-> d, status |-> table[d]] :
                         d \in {e \in Documents : table[e] # "none"}})
  /\ UNCHANGED <<known, page>>

\* delete_document and reindex_document find the row first.
FindRow(c) ==
  /\ calls[c].phase = "sent"
  /\ calls[c].kind \in {"delete", "reindex"}
  /\ table[calls[c].doc] # "none"
  /\ calls' = [calls EXCEPT ![c].phase = "found"]
  /\ UNCHANGED <<server, page, history>>

ServeDelete(c) ==
  /\ Waiting(c, "delete", "found")
  /\ Set(calls[c].doc, "none", c)
  /\ Reply(c, TRUE, {})
  /\ UNCHANGED <<known, page>>

\* Mutant of ServeReindex: it answers with the row it reads, then writes it.
ReindexReadsBack(c) ==
  /\ Waiting(c, "reindex", "found")
  /\ \E st \in Statuses :
       /\ Set(calls[c].doc, st, c)
       /\ Reply(c, TRUE, {[doc |-> calls[c].doc, status |-> table[calls[c].doc]]})
  /\ UNCHANGED <<known, page>>

ServeReindex(c) ==
  /\ Waiting(c, "reindex", "found")
  /\ \E st \in Statuses :
       /\ Set(calls[c].doc, st, c)
       /\ Reply(c, TRUE, {[doc |-> calls[c].doc, status |-> st]})
  /\ UNCHANGED <<known, page>>

\* A worker or another user writes or removes a row, or a request of this page
\* does whose answer nobody waits for.
Elsewhere ==
  /\ \E d \in Documents, st \in Statuses \cup {"none"} :
       /\ Set(d, st, "none")
       /\ known' = known \cup {d}
  /\ UNCHANGED <<calls, page>>

-----------------------------------------------------------------------------
(* Answers reach the page.                                                 *)

Hears(c, kind) == calls[c] # Free /\ calls[c].kind = kind

\* The promise is fulfilled.
HearsOk(c, kind) ==
  /\ Hears(c, kind)
  /\ calls[c].phase = "answered"
  /\ calls[c].answer.ok
  /\ calls' = [calls EXCEPT ![c] = Free]

\* The promise is rejected: a refusal, or no answer (the gateway gives up, the
\* connection breaks) although the request was or will be served.
HearsError(c, kind) ==
  /\ Hears(c, kind)
  /\ calls' = [calls EXCEPT ![c] = Free]

\* What the page has learnt from the answer of call c.
Learn(c) ==
  /\ doubt'   = (doubt \ Subject(c)) \cup touched[c]
  /\ touched' = [touched EXCEPT ![c] = {}]
  /\ UNCHANGED server

LearnNothing(c) ==
  /\ touched' = [touched EXCEPT ![c] = {}]
  /\ UNCHANGED <<server, doubt>>

UploadHeard(c) ==
  /\ HearsOk(c, "upload") \/ HearsError(c, "upload")
  /\ page' = [page EXCEPT !.uploading = FALSE]
  /\ LearnNothing(c)

ListHeard(c) ==
  /\ HearsOk(c, "list")
  /\ page' = [page EXCEPT !.list = calls[c].answer.rows, !.listing = FALSE]
  /\ Learn(c)

\* The list is set to null.
ListFailed(c) ==
  /\ HearsError(c, "list")
  /\ page' = [page EXCEPT !.list = {}, !.listing = FALSE]
  /\ touched' = [touched EXCEPT ![c] = {}]
  /\ doubt' = Documents
  /\ UNCHANGED server

removeDocument(list, d) == {r \in list : r.doc # d}

\* Mutant of DeleteHeard: the mark is left to the next action.
DeleteHeardMarked(c) ==
  /\ HearsOk(c, "delete")
  /\ page' = [page EXCEPT !.list = removeDocument(@, calls[c].doc)]
  /\ Learn(c)

DeleteHeard(c) ==
  /\ HearsOk(c, "delete")
  /\ page' = [page EXCEPT !.list = removeDocument(@, calls[c].doc), !.deleting = "none"]
  /\ Learn(c)

\* Mutant of upsertDocument: the row is always put in front.
PrependDocument(list, row) == {row} \cup list

upsertDocument(list, row) ==
  IF \E r \in list : r.doc = row.doc
    THEN {IF r.doc = row.doc THEN row ELSE r : r \in list}
    ELSE {row} \cup list

ReindexHeard(c) ==
  /\ HearsOk(c, "reindex")
  /\ \E row \in calls[c].answer.rows :
       page' = [page EXCEPT !.list = upsertDocument(@, row), !.reindexing = "none"]
  /\ Learn(c)

\* Mutant of ActionFailed: the mark is cleared only when the call succeeds.
ActionFailedMarked(c) ==
  /\ HearsError(c, "delete") \/ HearsError(c, "reindex")
  /\ UNCHANGED page
  /\ LearnNothing(c)

ActionFailed(c) ==
  /\ \/ /\ HearsError(c, "delete")
        /\ page' = [page EXCEPT !.deleting = "none"]
     \/ /\ HearsError(c, "reindex")
        /\ page' = [page EXCEPT !.reindexing = "none"]
  /\ LearnNothing(c)

-----------------------------------------------------------------------------

Click(c) ==
  \/ UploadDocument(c) \/ ListDocuments(c)
  \/ DeleteDocument(c) \/ ReindexDocument(c)

Serve(c) ==
  \/ Refuse(c) \/ ServeUpload(c) \/ ServeList(c)
  \/ FindRow(c) \/ ServeDelete(c) \/ ServeReindex(c)

Hear(c) ==
  \/ UploadHeard(c) \/ ListHeard(c) \/ ListFailed(c)
  \/ DeleteHeard(c) \/ ReindexHeard(c) \/ ActionFailed(c)

Next ==
  \/ \E c \in Calls : Click(c) \/ Serve(c) \/ Hear(c)
  \/ Leave
  \/ Elsewhere

Spec == Init /\ [][Next]_vars

\* Every fetch settles: the gateway answers for a server that is silent for
\* 180 s (infra/nginx/default.conf), and a broken connection is an error.
Fairness == \A c \in Calls : WF_vars(Hear(c))

FairSpec == Spec /\ Fairness

-----------------------------------------------------------------------------
(* Properties.                                                             *)

TypeOK ==
  /\ table   \in [Documents -> Statuses \cup {"none"}]
  /\ known   \subseteq Documents
  /\ calls   \in [Calls -> Call \cup {Free}]
  /\ page    \in [list : SUBSET Row, listing : BOOLEAN, uploading : BOOLEAN,
                  deleting : Documents \cup {"none"},
                  reindexing : Documents \cup {"none"}]
  /\ touched \in [Calls -> SUBSET Documents]
  /\ doubt   \subseteq Documents

\* The page shows of every document what the table holds (its status, or that
\* it is not there), except where a row changed after the answer the page
\* last heard about it was computed: overlapping deletes, reindexes and lists
\* of different rows do not spoil one another, in whatever order their answers
\* come (the functional updates of DocumentWorkspace).
ShownIsTrue ==
  \A d \in Documents \ doubt : Shown(page.list, d) = {table[d]} \ {"none"}

\* The list shows no document with two statuses, although reindex answers may
\* come before or after the list that has the document, or after its delete.
OneRowPerDocument ==
  \A r, q \in page.list : r.doc = q.doc => r = q

Pending(kind) == {c \in Calls : Hears(c, kind)}

\* A busy mark stands for a call that is under way: a row that is marked is
\* being deleted (reindexed), and upload and list have one call each at most.
MarksArePending ==
  /\ page.deleting # "none" => \E c \in Pending("delete") : calls[c].doc = page.deleting
  /\ page.reindexing # "none" => \E c \in Pending("reindex") : calls[c].doc = page.reindexing
  /\ \A kind \in {"upload", "list"} : \A b, c \in Pending(kind) : b = c
  /\ page.uploading <=> Pending("upload") # {}
  /\ page.listing   <=> Pending("list") # {}

\* No row stays locked: the marks go out, whatever fails and however the
\* calls of several rows overlap.
MarksGoOut ==
  /\ page.deleting # "none" ~> page.deleting = "none"
  /\ page.reindexing # "none" ~> page.reindexing = "none"

=============================================================================
