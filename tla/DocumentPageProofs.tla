------------------------- MODULE DocumentPageProofs -------------------------
(***************************************************************************)
(* Theorems about DocumentPage, for any documents, statuses and number of  *)
(* calls under way.                                                        *)
(***************************************************************************)
EXTENDS DocumentPage, TLAPS

\* A call about one row names it.
CallsNameRows ==
  \A c \in Calls : calls[c] # Free /\ calls[c].kind \in {"delete", "reindex"} =>
    calls[c].doc \in Documents

TypeInv == TypeOK /\ CallsNameRows

\* What the answer of call c says of document d is what the table holds.
Tells(c, d) ==
  /\ calls[c].kind = "list" => Shown(calls[c].answer.rows, d) = {table[d]} \ {"none"}
  /\ calls[c].kind = "delete" => table[d] = "none"
  /\ calls[c].kind = "reindex" => calls[c].answer.rows = {[doc |-> d, status |-> table[d]]}

Answered(c) == calls[c].phase = "answered" /\ calls[c].answer.ok

\* The answer of c is true of every row that did not change since it was
\* computed, and has one row per document.
AnswerTrue(c) ==
  Answered(c) =>
    /\ \A d \in Subject(c) \ touched[c] : Tells(c, d)
    /\ \A r, q \in calls[c].answer.rows : r.doc = q.doc => r = q
    /\ calls[c].kind = "reindex" =>
         \A r \in calls[c].answer.rows : r.doc = calls[c].doc

AnswersTrue == \A c \in Calls : AnswerTrue(c)

-----------------------------------------------------------------------------
(* The lists the page makes.                                               *)

\* A list without d shows every other document as before.
LEMMA RemoveShows ==
  ASSUME NEW list, NEW d, NEW e
  PROVE  Shown(removeDocument(list, d), e) = IF e = d THEN {} ELSE Shown(list, e)
  BY DEF Shown, removeDocument

\* A list after an upsert shows the row, and every other document as before.
LEMMA UpsertShows ==
  ASSUME NEW list, NEW row, NEW e
  PROVE  Shown(upsertDocument(list, row), e) =
           IF e = row.doc THEN {row.status} ELSE Shown(list, e)
  <1>1. CASE \E r \in list : r.doc = row.doc
    <2>1. \A q : q \in upsertDocument(list, row) <=>
                   q = row \/ (q \in list /\ q.doc # row.doc)
      BY <1>1 DEF upsertDocument
    <2> QED
      BY <2>1 DEF Shown
  <1>2. CASE ~\E r \in list : r.doc = row.doc
    BY <1>2 DEF Shown, upsertDocument
  <1> QED
    BY <1>1, <1>2

\* The rows of a list after an upsert.
LEMMA UpsertRows ==
  ASSUME NEW list, NEW row
  PROVE  \A q \in upsertDocument(list, row) : q = row \/ (q \in list /\ q.doc # row.doc)
  BY DEF upsertDocument

-----------------------------------------------------------------------------
(* The effect of the parts the actions are built from.                     *)

LEMMA SendEffect ==
  ASSUME TypeInv, NEW c \in Calls, NEW kind \in Kind,
         NEW doc \in Documents \cup {"none"}, Send(c, kind, doc),
         kind \in {"delete", "reindex"} => doc \in Documents
  PROVE  /\ calls' \in [Calls -> Call \cup {Free}]
         /\ calls[c] = Free /\ calls'[c].phase = "sent" /\ calls'[c] # Free
         /\ calls'[c].kind = kind /\ calls'[c].doc = doc
         /\ \A x \in Calls \ {c} : calls'[x] = calls[x]
         /\ UNCHANGED <<table, known, touched, doubt>>
         /\ CallsNameRows'
  <1>1. [phase |-> "sent", kind |-> kind, doc |-> doc, answer |-> NoAnswer] \in Call
    BY DEF Call, NoAnswer, Answer
  <1>2. /\ calls' \in [Calls -> Call \cup {Free}]
        /\ calls'[c] = [phase |-> "sent", kind |-> kind, doc |-> doc, answer |-> NoAnswer]
        /\ \A x \in Calls \ {c} : calls'[x] = calls[x]
    BY <1>1 DEF Send, TypeInv, TypeOK
  <1>3. calls[c] = Free /\ UNCHANGED <<table, known, touched, doubt>>
    BY DEF Send, server, history
  <1>4. CallsNameRows'
    BY <1>2 DEF TypeInv, CallsNameRows
  <1> QED
    BY <1>2, <1>3, <1>4 DEF Free

LEMMA ReplyEffect ==
  ASSUME TypeInv, NEW c \in Calls, calls[c] # Free,
         NEW ok \in BOOLEAN, NEW rows \in SUBSET Row, Reply(c, ok, rows)
  PROVE  /\ calls' \in [Calls -> Call \cup {Free}]
         /\ calls'[c].phase = "answered"
         /\ calls'[c].kind = calls[c].kind /\ calls'[c].doc = calls[c].doc
         /\ calls'[c].answer.ok = ok /\ calls'[c].answer.rows = rows
         /\ \A x \in Calls \ {c} : calls'[x] = calls[x]
         /\ CallsNameRows'
  <1> DEFINE new == [calls[c] EXCEPT !.phase = "answered",
                                     !.answer = [ok |-> ok, rows |-> rows]]
  <1>1. calls[c] \in Call /\ calls \in [Calls -> Call \cup {Free}]
    BY DEF TypeInv, TypeOK
  <1>2. calls' = [calls EXCEPT ![c] = new]
    BY DEF Reply
  <1>3. /\ new \in Call /\ new.phase = "answered"
        /\ new.kind = calls[c].kind /\ new.doc = calls[c].doc
        /\ new.answer.ok = ok /\ new.answer.rows = rows
    BY <1>1 DEF Call, Answer
  <1> HIDE DEF new
  <1>4. /\ calls' \in [Calls -> Call \cup {Free}] /\ calls'[c] = new
        /\ \A x \in Calls \ {c} : calls'[x] = calls[x]
    BY <1>1, <1>2, <1>3
  <1>5. CallsNameRows'
    BY <1>3, <1>4 DEF TypeInv, CallsNameRows
  <1> QED
    BY <1>3, <1>4, <1>5

\* A promise that settles frees its call.
LEMMA SettleEffect ==
  ASSUME TypeInv, NEW c \in Calls, calls' = [calls EXCEPT ![c] = Free]
  PROVE  /\ calls' \in [Calls -> Call \cup {Free}]
         /\ calls'[c] = Free
         /\ \A x \in Calls \ {c} : calls'[x] = calls[x]
         /\ CallsNameRows'
  BY DEF TypeInv, TypeOK, CallsNameRows

LEMMA SetEffect ==
  ASSUME TypeInv, NEW d \in Documents, NEW st \in Statuses \cup {"none"}, NEW reporter,
         Set(d, st, reporter)
  PROVE  /\ table' \in [Documents -> Statuses \cup {"none"}]
         /\ table'[d] = st
         /\ \A e \in Documents \ {d} : table'[e] = table[e]
         /\ doubt' = doubt \cup {d} /\ doubt' \subseteq Documents
         /\ touched' \in [Calls -> SUBSET Documents]
         /\ reporter \in Calls => touched'[reporter] = {}
         /\ \A x \in Calls : x # reporter /\ Answered(x) =>
              touched'[x] = touched[x] \cup ({d} \cap Subject(x))
  BY DEF TypeInv, TypeOK, Set, Answered

\* Answers are about documents.
LEMMA SubjectIsDocuments ==
  ASSUME TypeInv, NEW x \in Calls, calls[x] # Free
  PROVE  /\ calls[x] \in Call
         /\ Subject(x) \subseteq Documents
  <1>1. calls[x] \in Call /\ calls[x].kind \in Kind
    BY DEF TypeInv, TypeOK, Call
  <1>2. CASE calls[x].kind = "list"
    BY <1>1, <1>2 DEF Subject
  <1>3. CASE calls[x].kind = "upload"
    BY <1>1, <1>3 DEF Subject
  <1>4. CASE calls[x].kind \in {"delete", "reindex"}
    <2>1. Subject(x) = {calls[x].doc}
      BY <1>4 DEF Subject
    <2> QED
      BY <1>1, <1>4, <2>1 DEF TypeInv, CallsNameRows
  <1> QED
    BY <1>1, <1>2, <1>3, <1>4 DEF Kind

-----------------------------------------------------------------------------
(* What a step leaves true.                                                *)

\* An answer stays true if the rows it is about stay, or are noted.
LEMMA AnswerKept ==
  ASSUME NEW x \in Calls, AnswerTrue(x), calls'[x] = calls[x],
         Answered(x) => \A d \in Subject(x) \ touched'[x] :
                           d \notin touched[x] /\ table'[d] = table[d]
  PROVE  AnswerTrue(x)'
  BY DEF AnswerTrue, Answered, Subject, Tells

LEMMA SetKeepsAnswers ==
  ASSUME TypeInv, AnswersTrue, NEW d \in Documents, NEW st \in Statuses \cup {"none"},
         NEW reporter, Set(d, st, reporter),
         NEW x \in Calls, x # reporter, calls'[x] = calls[x]
  PROVE  AnswerTrue(x)'
  <1>1. Answered(x) => Subject(x) \subseteq Documents
    <2>1. Answered(x) => calls[x] # Free
      BY DEF Answered, Free
    <2> QED
      BY <2>1, SubjectIsDocuments
  <1>2. Answered(x) => \A e \in Subject(x) \ touched'[x] :
                         e \notin touched[x] /\ table'[e] = table[e]
    BY <1>1, SetEffect
  <1> QED
    BY <1>2, AnswerKept DEF AnswersTrue

\* A row that changes is in doubt from then on.
LEMMA SetKeepsShown ==
  ASSUME TypeInv, ShownIsTrue, OneRowPerDocument, UNCHANGED page,
         NEW d \in Documents, NEW st \in Statuses \cup {"none"}, NEW reporter,
         Set(d, st, reporter)
  PROVE  ShownIsTrue' /\ OneRowPerDocument'
  BY SetEffect DEF ShownIsTrue, OneRowPerDocument, Shown

\* A step that changes neither rows nor the list.
LEMMA SameKeepsShown ==
  ASSUME ShownIsTrue, OneRowPerDocument, UNCHANGED <<table, doubt>>, page'.list = page.list
  PROVE  ShownIsTrue' /\ OneRowPerDocument'
  BY DEF ShownIsTrue, OneRowPerDocument, Shown

-----------------------------------------------------------------------------

PageInv == TypeInv /\ AnswersTrue /\ ShownIsTrue /\ OneRowPerDocument

LEMMA InitPage == Init => PageInv
  BY DEF Init, PageInv, TypeInv, TypeOK, CallsNameRows, AnswersTrue, AnswerTrue, Answered,
         ShownIsTrue, OneRowPerDocument, Free, NewPage

\* A step that concerns call c and changes no row.
LEMMA OthersKept ==
  ASSUME AnswersTrue, NEW c \in Calls, UNCHANGED table,
         \A x \in Calls \ {c} : calls'[x] = calls[x] /\ touched'[x] = touched[x],
         AnswerTrue(c)'
  PROVE  AnswersTrue'
  <1> SUFFICES ASSUME NEW x \in Calls \ {c} PROVE AnswerTrue(x)'
    BY DEF AnswersTrue
  <1> QED
    BY AnswerKept DEF AnswersTrue

\* A click sends a call and marks something: the list stays.
LEMMA ClickPage ==
  ASSUME PageInv, NEW c \in Calls, Click(c)
  PROVE  PageInv'
  <1>1. PICK kind \in Kind, doc \in Documents \cup {"none"} :
          /\ Send(c, kind, doc)
          /\ kind \in {"delete", "reindex"} => doc \in Documents
          /\ page'.list = page.list
          /\ page' \in [list : SUBSET Row, listing : BOOLEAN, uploading : BOOLEAN,
                        deleting : Documents \cup {"none"},
                        reindexing : Documents \cup {"none"}]
    <2>1. CASE UploadDocument(c)
      BY <2>1 DEF UploadDocument, PageInv, TypeInv, TypeOK, Kind
    <2>2. CASE ListDocuments(c)
      BY <2>2 DEF ListDocuments, PageInv, TypeInv, TypeOK, Kind
    <2>3. Listed \subseteq Documents
      BY DEF Listed, PageInv, TypeInv, TypeOK, Row
    <2>4. CASE DeleteDocument(c)
      BY <2>3, <2>4 DEF DeleteDocument, PageInv, TypeInv, TypeOK, Kind
    <2>5. CASE ReindexDocument(c)
      BY <2>3, <2>5 DEF ReindexDocument, PageInv, TypeInv, TypeOK, Kind
    <2> QED
      BY <2>1, <2>2, <2>4, <2>5 DEF Click
  <1>2. /\ calls' \in [Calls -> Call \cup {Free}]
        /\ calls'[c].phase = "sent"
        /\ \A x \in Calls \ {c} : calls'[x] = calls[x]
        /\ UNCHANGED <<table, known, touched, doubt>>
        /\ CallsNameRows'
    BY <1>1, SendEffect DEF PageInv
  <1>3. TypeInv'
    BY <1>1, <1>2 DEF PageInv, TypeInv, TypeOK
  <1>4. AnswersTrue'
    BY <1>2, OthersKept DEF PageInv, AnswerTrue, Answered
  <1>5. ShownIsTrue' /\ OneRowPerDocument'
    BY <1>1, <1>2, SameKeepsShown DEF PageInv
  <1> QED
    BY <1>3, <1>4, <1>5 DEF PageInv

-----------------------------------------------------------------------------
(* The API.                                                                *)

LEMMA RefusePage ==
  ASSUME PageInv, NEW c \in Calls, Refuse(c)
  PROVE  PageInv'
  <1>1. calls[c] # Free
    BY DEF Refuse, Free
  <1>2. Reply(c, FALSE, {}) /\ UNCHANGED <<table, known, page, doubt>>
    BY DEF Refuse, Report
  <1>3. touched' = [touched EXCEPT ![c] = {}]
    BY DEF Refuse, Report
  <1>4. /\ calls' \in [Calls -> Call \cup {Free}] /\ CallsNameRows'
        /\ calls'[c].answer.ok = FALSE
        /\ \A x \in Calls \ {c} : calls'[x] = calls[x]
    BY <1>1, <1>2, ReplyEffect DEF PageInv
  <1>5. /\ touched' \in [Calls -> SUBSET Documents]
        /\ \A x \in Calls \ {c} : touched'[x] = touched[x]
    BY <1>3 DEF PageInv, TypeInv, TypeOK
  <1>6. TypeInv'
    BY <1>2, <1>4, <1>5 DEF PageInv, TypeInv, TypeOK
  <1>7. AnswersTrue'
    BY <1>2, <1>4, <1>5, OthersKept DEF PageInv, AnswerTrue, Answered
  <1> QED
    BY <1>2, <1>6, <1>7, SameKeepsShown DEF PageInv

LEMMA ServeListPage ==
  ASSUME PageInv, NEW c \in Calls, ServeList(c)
  PROVE  PageInv'
  <1> DEFINE rows == {[doc |-> d, status |-> table[d]] :
                        d \in {e \in Documents : table[e] # "none"}}
  <1>1. calls[c] # Free /\ calls[c].kind = "list"
    BY DEF ServeList, Waiting, Free
  <1>2. rows \in SUBSET Row
    BY DEF PageInv, TypeInv, TypeOK, Row
  <1>3. /\ Reply(c, TRUE, rows) /\ UNCHANGED <<table, known, page, doubt>>
        /\ touched' = [touched EXCEPT ![c] = {}]
    BY DEF ServeList, Report
  <1>4. /\ \A r, q \in rows : r.doc = q.doc => r = q
        /\ \A d \in Documents : Shown(rows, d) = {table[d]} \ {"none"}
    <2>1. /\ \A r \in rows : r.doc \in Documents /\ r.status = table[r.doc]
                             /\ r.status # "none"
          /\ \A d \in Documents : table[d] # "none" => [doc |-> d, status |-> table[d]] \in rows
          /\ \A r \in rows : r = [doc |-> r.doc, status |-> r.status]
      OBVIOUS
    <2> HIDE DEF rows
    <2>2. \A r, q \in rows : r.doc = q.doc => r = q
      BY <2>1
    <2>3. ASSUME NEW d \in Documents PROVE Shown(rows, d) = {table[d]} \ {"none"}
      <3>1. CASE table[d] = "none"
        BY <2>1, <3>1 DEF Shown
      <3>2. CASE table[d] # "none"
        <4>1. \A r \in rows : r.doc = d => r.status = table[d]
          BY <2>1
        <4>2. table[d] \in Shown(rows, d)
          BY <2>1, <3>2 DEF Shown
        <4> QED
          BY <3>2, <4>1, <4>2 DEF Shown
      <3> QED
        BY <3>1, <3>2
    <2> QED
      BY <2>2, <2>3
  <1> HIDE DEF rows
  <1>5. /\ calls' \in [Calls -> Call \cup {Free}] /\ CallsNameRows'
        /\ calls'[c].kind = "list" /\ calls'[c].answer.rows = rows
        /\ \A x \in Calls \ {c} : calls'[x] = calls[x]
    BY <1>1, <1>2, <1>3, ReplyEffect DEF PageInv
  <1>6. /\ touched' \in [Calls -> SUBSET Documents]
        /\ \A x \in Calls \ {c} : touched'[x] = touched[x]
    BY <1>3 DEF PageInv, TypeInv, TypeOK
  <1>7. TypeInv'
    BY <1>3, <1>5, <1>6 DEF PageInv, TypeInv, TypeOK
  <1>8. AnswerTrue(c)'
    <2>1. Subject(c)' = Documents
      BY <1>5 DEF Subject
    <2>2. \A d \in Documents : Tells(c, d)'
      BY <1>3, <1>4, <1>5 DEF Tells
    <2> QED
      BY <1>4, <1>5, <2>1, <2>2 DEF AnswerTrue
  <1>9. AnswersTrue'
    BY <1>3, <1>5, <1>6, <1>8, OthersKept DEF PageInv
  <1> QED
    BY <1>3, <1>7, <1>9, SameKeepsShown DEF PageInv

LEMMA FindRowPage ==
  ASSUME PageInv, NEW c \in Calls, FindRow(c)
  PROVE  PageInv'
  <1>1. calls[c] # Free /\ calls[c] \in Call
    BY DEF FindRow, Free, PageInv, TypeInv, TypeOK
  <1>2. calls' = [calls EXCEPT ![c] = [calls[c] EXCEPT !.phase = "found"]]
    BY DEF FindRow
  <1>3. [calls[c] EXCEPT !.phase = "found"] \in Call
    BY <1>1 DEF Call
  <1>4. /\ calls' \in [Calls -> Call \cup {Free}]
        /\ calls'[c] = [calls[c] EXCEPT !.phase = "found"]
        /\ \A x \in Calls \ {c} : calls'[x] = calls[x]
    BY <1>2, <1>3 DEF PageInv, TypeInv, TypeOK
  <1>5. /\ calls'[c].phase = "found"
        /\ calls'[c].kind = calls[c].kind /\ calls'[c].doc = calls[c].doc
    BY <1>1, <1>4 DEF Call
  <1>6. UNCHANGED <<table, known, page, touched, doubt>>
    BY DEF FindRow, server, history
  <1>7. CallsNameRows'
    BY <1>1, <1>4, <1>5 DEF PageInv, TypeInv, CallsNameRows
  <1>8. TypeInv'
    BY <1>4, <1>6, <1>7 DEF PageInv, TypeInv, TypeOK
  <1>9. AnswersTrue'
    BY <1>4, <1>5, <1>6, OthersKept DEF PageInv, AnswerTrue, Answered
  <1> QED
    BY <1>6, <1>8, <1>9, SameKeepsShown DEF PageInv

\* A request that writes the row of d and answers with rows.
LEMMA WritePage ==
  ASSUME PageInv, NEW c \in Calls, calls[c] # Free,
         NEW d \in Documents, NEW st \in Statuses \cup {"none"}, NEW rows \in SUBSET Row,
         Set(d, st, c), Reply(c, TRUE, rows), UNCHANGED page, known' \in SUBSET Documents,
         Subject(c) \subseteq {d},
         calls[c].kind # "list",
         calls[c].kind = "delete" => st = "none",
         \A r, q \in rows : r = q,
         calls[c].kind = "reindex" =>
           rows = {[doc |-> d, status |-> st]} /\ calls[c].doc = d
  PROVE  PageInv'
  <1>1. /\ calls' \in [Calls -> Call \cup {Free}] /\ CallsNameRows'
        /\ calls'[c].kind = calls[c].kind /\ calls'[c].doc = calls[c].doc
        /\ calls'[c].answer.rows = rows
        /\ \A x \in Calls \ {c} : calls'[x] = calls[x]
    BY ReplyEffect DEF PageInv
  <1>2. /\ table' \in [Documents -> Statuses \cup {"none"}] /\ table'[d] = st
        /\ doubt' \subseteq Documents /\ touched' \in [Calls -> SUBSET Documents]
    BY SetEffect DEF PageInv
  <1>3. TypeInv'
    BY <1>1, <1>2 DEF PageInv, TypeInv, TypeOK
  <1>4. AnswerTrue(c)'
    <2>1. Subject(c)' \subseteq {d}
      BY <1>1 DEF Subject
    <2>2. Tells(c, d)'
      BY <1>1, <1>2 DEF Tells
    <2>3. /\ \A r, q \in rows : r.doc = q.doc => r = q
          /\ calls[c].kind = "reindex" => \A r \in rows : r.doc = calls[c].doc
      OBVIOUS
    <2> QED
      BY <1>1, <2>1, <2>2, <2>3 DEF AnswerTrue
  <1>5. \A x \in Calls \ {c} : AnswerTrue(x)'
    BY <1>1, SetKeepsAnswers DEF PageInv
  <1>6. ShownIsTrue' /\ OneRowPerDocument'
    BY SetKeepsShown DEF PageInv
  <1> QED
    BY <1>3, <1>4, <1>5, <1>6 DEF PageInv, AnswersTrue

LEMMA ServePage ==
  ASSUME PageInv, NEW c \in Calls, Serve(c)
  PROVE  PageInv'
  <1>1. CASE ServeUpload(c)
    <2>1. PICK d \in Documents \ known, st \in Statuses :
            Set(d, st, c) /\ known' = known \cup {d} /\ Reply(c, TRUE, {})
      BY <1>1 DEF ServeUpload
    <2>2. calls[c] # Free /\ calls[c].kind = "upload" /\ UNCHANGED page
      BY <1>1 DEF ServeUpload, Waiting, Free
    <2>3. Subject(c) = {}
      BY <2>2 DEF Subject
    <2>4. known' \in SUBSET Documents
      BY <2>1 DEF PageInv, TypeInv, TypeOK
    <2> QED
      BY <2>1, <2>2, <2>3, <2>4, WritePage
  <1>2. CASE ServeDelete(c)
    <2> DEFINE d == calls[c].doc
    <2>1. calls[c] # Free /\ calls[c].kind = "delete" /\ UNCHANGED <<known, page>>
      BY <1>2 DEF ServeDelete, Waiting, Free
    <2>2. d \in Documents /\ Subject(c) = {d}
      BY <2>1 DEF PageInv, TypeInv, CallsNameRows, Subject
    <2> DEFINE st == "none"
               rows == {}
    <2>3. Set(d, st, c) /\ Reply(c, TRUE, rows)
      BY <1>2 DEF ServeDelete
    <2>4. known' \in SUBSET Documents
      BY <2>1 DEF PageInv, TypeInv, TypeOK
    <2>5. /\ st = "none" /\ st \in Statuses \cup {"none"}
          /\ rows \in SUBSET Row /\ \A r, q \in rows : r = q
      OBVIOUS
    <2> HIDE DEF d, st, rows
    <2> QED
      BY <2>1, <2>2, <2>3, <2>4, <2>5, WritePage
  <1>3. CASE ServeReindex(c)
    <2> DEFINE d == calls[c].doc
    <2>1. calls[c] # Free /\ calls[c].kind = "reindex" /\ UNCHANGED <<known, page>>
      BY <1>3 DEF ServeReindex, Waiting, Free
    <2>2. d \in Documents /\ Subject(c) = {d}
      BY <2>1 DEF PageInv, TypeInv, CallsNameRows, Subject
    <2>3. PICK st \in Statuses : Set(d, st, c) /\ Reply(c, TRUE, {[doc |-> d, status |-> st]})
      BY <1>3 DEF ServeReindex
    <2>4. known' \in SUBSET Documents
      BY <2>1 DEF PageInv, TypeInv, TypeOK
    <2>5. {[doc |-> d, status |-> st]} \in SUBSET Row
      BY <2>2 DEF Row
    <2>6. calls[c].doc = d
      OBVIOUS
    <2> HIDE DEF d
    <2> QED
      BY <2>1, <2>2, <2>3, <2>4, <2>5, <2>6, WritePage
  <1> QED
    BY <1>1, <1>2, <1>3, RefusePage, ServeListPage, FindRowPage DEF Serve

-----------------------------------------------------------------------------
(* Answers reach the page.                                                 *)

\* What every settled promise leaves true of the calls.
LEMMA SettledCalls ==
  ASSUME PageInv, NEW c \in Calls, calls' = [calls EXCEPT ![c] = Free],
         touched' = [touched EXCEPT ![c] = {}], UNCHANGED <<table, known>>
  PROVE  /\ calls' \in [Calls -> Call \cup {Free}] /\ CallsNameRows'
         /\ touched' \in [Calls -> SUBSET Documents]
         /\ AnswersTrue'
  <1>1. /\ calls' \in [Calls -> Call \cup {Free}] /\ CallsNameRows'
        /\ calls'[c] = Free
        /\ \A x \in Calls \ {c} : calls'[x] = calls[x]
    BY SettleEffect DEF PageInv
  <1>2. /\ touched' \in [Calls -> SUBSET Documents]
        /\ \A x \in Calls \ {c} : touched'[x] = touched[x]
    BY DEF PageInv, TypeInv, TypeOK
  <1>3. AnswerTrue(c)'
    BY <1>1 DEF AnswerTrue, Answered, Free
  <1> QED
    BY <1>1, <1>2, <1>3, OthersKept DEF PageInv

\* The list is left alone, and nothing is learnt.
LEMMA QuietPage ==
  ASSUME PageInv, NEW c \in Calls, calls' = [calls EXCEPT ![c] = Free], LearnNothing(c),
         page'.list = page.list,
         page' \in [list : SUBSET Row, listing : BOOLEAN, uploading : BOOLEAN,
                    deleting : Documents \cup {"none"},
                    reindexing : Documents \cup {"none"}]
  PROVE  PageInv'
  <1>1. touched' = [touched EXCEPT ![c] = {}] /\ UNCHANGED <<table, known, doubt>>
    BY DEF LearnNothing, server
  <1>2. /\ calls' \in [Calls -> Call \cup {Free}] /\ CallsNameRows'
        /\ touched' \in [Calls -> SUBSET Documents]
        /\ AnswersTrue'
    BY <1>1, SettledCalls
  <1>3. TypeInv'
    BY <1>1, <1>2 DEF PageInv, TypeInv, TypeOK
  <1>4. ShownIsTrue' /\ OneRowPerDocument'
    BY <1>1, SameKeepsShown DEF PageInv
  <1> QED
    BY <1>2, <1>3, <1>4 DEF PageInv

\* An answer is heard: what the list shows must be true of the rows the
\* answer is about.
LEMMA LearnPage ==
  ASSUME PageInv, NEW c \in Calls, HearsOk(c, calls[c].kind), Learn(c),
         page' \in [list : SUBSET Row, listing : BOOLEAN, uploading : BOOLEAN,
                    deleting : Documents \cup {"none"},
                    reindexing : Documents \cup {"none"}],
         \A e \in Documents \ Subject(c) : Shown(page'.list, e) = Shown(page.list, e),
         \A e \in Subject(c) \ touched[c] : Shown(page'.list, e) = {table[e]} \ {"none"},
         \A r, q \in page'.list : r.doc = q.doc => r = q
  PROVE  PageInv'
  <1>1. /\ calls' = [calls EXCEPT ![c] = Free] /\ touched' = [touched EXCEPT ![c] = {}]
        /\ doubt' = (doubt \ Subject(c)) \cup touched[c] /\ UNCHANGED <<table, known>>
    BY DEF HearsOk, Learn, server
  <1>2. /\ calls' \in [Calls -> Call \cup {Free}] /\ CallsNameRows'
        /\ touched' \in [Calls -> SUBSET Documents]
        /\ AnswersTrue'
    BY <1>1, SettledCalls
  <1>3. doubt' \subseteq Documents
    BY <1>1 DEF PageInv, TypeInv, TypeOK
  <1>4. TypeInv'
    BY <1>1, <1>2, <1>3 DEF PageInv, TypeInv, TypeOK
  <1>5. ShownIsTrue'
    <2> SUFFICES ASSUME NEW e \in Documents \ doubt'
                 PROVE  Shown(page'.list, e) = {table[e]} \ {"none"}
      BY <1>1 DEF ShownIsTrue, Shown
    <2>1. CASE e \in Subject(c)
      BY <1>1, <2>1
    <2>2. CASE e \notin Subject(c)
      BY <1>1, <2>2 DEF PageInv, ShownIsTrue
    <2> QED
      BY <2>1, <2>2
  <1>6. OneRowPerDocument'
    BY DEF OneRowPerDocument
  <1> QED
    BY <1>2, <1>4, <1>5, <1>6 DEF PageInv

LEMMA ListHeardPage ==
  ASSUME PageInv, NEW c \in Calls, ListHeard(c)
  PROVE  PageInv'
  <1> DEFINE rows == calls[c].answer.rows
  <1>1. /\ calls[c].kind = "list" /\ Answered(c) /\ calls[c] \in Call
        /\ HearsOk(c, calls[c].kind) /\ Learn(c)
    BY DEF ListHeard, HearsOk, Hears, Answered, PageInv, TypeInv, TypeOK
  <1>2. Subject(c) = Documents
    BY <1>1 DEF Subject
  <1>3. rows \in SUBSET Row
    BY <1>1 DEF Call, Answer
  <1>4. /\ page' \in [list : SUBSET Row, listing : BOOLEAN, uploading : BOOLEAN,
                      deleting : Documents \cup {"none"},
                      reindexing : Documents \cup {"none"}]
        /\ page'.list = rows
    BY <1>3 DEF ListHeard, PageInv, TypeInv, TypeOK
  <1>5. AnswerTrue(c)
    BY DEF PageInv, AnswersTrue
  <1>6. \A e \in Subject(c) \ touched[c] : Shown(page'.list, e) = {table[e]} \ {"none"}
    BY <1>1, <1>4, <1>5 DEF AnswerTrue, Tells
  <1>7. \A r, q \in page'.list : r.doc = q.doc => r = q
    BY <1>1, <1>4, <1>5 DEF AnswerTrue
  <1> HIDE DEF rows
  <1> QED
    BY <1>1, <1>2, <1>4, <1>6, <1>7, LearnPage

LEMMA ListFailedPage ==
  ASSUME PageInv, NEW c \in Calls, ListFailed(c)
  PROVE  PageInv'
  <1>1. /\ calls' = [calls EXCEPT ![c] = Free] /\ touched' = [touched EXCEPT ![c] = {}]
        /\ doubt' = Documents /\ UNCHANGED <<table, known>>
    BY DEF ListFailed, HearsError, server
  <1>2. /\ page' \in [list : SUBSET Row, listing : BOOLEAN, uploading : BOOLEAN,
                      deleting : Documents \cup {"none"},
                      reindexing : Documents \cup {"none"}]
        /\ page'.list = {}
    BY DEF ListFailed, PageInv, TypeInv, TypeOK
  <1>3. /\ calls' \in [Calls -> Call \cup {Free}] /\ CallsNameRows'
        /\ touched' \in [Calls -> SUBSET Documents]
        /\ AnswersTrue'
    BY <1>1, SettledCalls
  <1>4. TypeInv'
    BY <1>1, <1>2, <1>3 DEF PageInv, TypeInv, TypeOK
  <1>5. ShownIsTrue' /\ OneRowPerDocument'
    BY <1>1, <1>2 DEF ShownIsTrue, OneRowPerDocument
  <1> QED
    BY <1>3, <1>4, <1>5 DEF PageInv

LEMMA DeleteHeardPage ==
  ASSUME PageInv, NEW c \in Calls, DeleteHeard(c)
  PROVE  PageInv'
  <1> DEFINE d == calls[c].doc
  <1>1. /\ calls[c] # Free /\ calls[c].kind = "delete" /\ Answered(c)
        /\ HearsOk(c, calls[c].kind) /\ Learn(c)
    BY DEF DeleteHeard, HearsOk, Hears, Answered
  <1>2. Subject(c) = {d} /\ d \in Documents
    BY <1>1 DEF Subject, PageInv, TypeInv, CallsNameRows
  <1>3. removeDocument(page.list, d) \in SUBSET Row
    BY DEF removeDocument, PageInv, TypeInv, TypeOK
  <1>4. /\ page' \in [list : SUBSET Row, listing : BOOLEAN, uploading : BOOLEAN,
                      deleting : Documents \cup {"none"},
                      reindexing : Documents \cup {"none"}]
        /\ page'.list = removeDocument(page.list, d)
    BY <1>3 DEF DeleteHeard, PageInv, TypeInv, TypeOK
  <1>5. d \notin touched[c] => table[d] = "none"
    BY <1>1, <1>2 DEF PageInv, AnswersTrue, AnswerTrue, Tells
  <1> HIDE DEF d
  <1>6. \A e \in Documents \ Subject(c) : Shown(page'.list, e) = Shown(page.list, e)
    BY <1>2, <1>4, RemoveShows
  <1>7. \A e \in Subject(c) \ touched[c] : Shown(page'.list, e) = {table[e]} \ {"none"}
    BY <1>2, <1>4, <1>5, RemoveShows
  <1>8. \A r, q \in page'.list : r.doc = q.doc => r = q
    BY <1>4 DEF removeDocument, PageInv, OneRowPerDocument
  <1> QED
    BY <1>1, <1>4, <1>6, <1>7, <1>8, LearnPage

LEMMA ReindexHeardPage ==
  ASSUME PageInv, NEW c \in Calls, ReindexHeard(c)
  PROVE  PageInv'
  <1> DEFINE d == calls[c].doc
  <1>1. /\ calls[c] # Free /\ calls[c].kind = "reindex" /\ Answered(c) /\ calls[c] \in Call
        /\ HearsOk(c, calls[c].kind) /\ Learn(c)
    BY DEF ReindexHeard, HearsOk, Hears, Answered, PageInv, TypeInv, TypeOK
  <1>2. Subject(c) = {d} /\ d \in Documents
    BY <1>1 DEF Subject, PageInv, TypeInv, CallsNameRows
  <1>3. PICK row \in calls[c].answer.rows :
          page' = [page EXCEPT !.list = upsertDocument(page.list, row), !.reindexing = "none"]
    BY DEF ReindexHeard
  <1>4. /\ row \in Row /\ row.doc = d
        /\ d \notin touched[c] => row = [doc |-> d, status |-> table[d]]
    <2>1. row \in Row
      BY <1>1 DEF Call, Answer
    <2>2. AnswerTrue(c)
      BY DEF PageInv, AnswersTrue
    <2> QED
      BY <1>1, <1>2, <2>1, <2>2 DEF AnswerTrue, Tells
  <1>5. upsertDocument(page.list, row) \in SUBSET Row
    BY <1>4, UpsertRows DEF PageInv, TypeInv, TypeOK
  <1>6. /\ page' \in [list : SUBSET Row, listing : BOOLEAN, uploading : BOOLEAN,
                      deleting : Documents \cup {"none"},
                      reindexing : Documents \cup {"none"}]
        /\ page'.list = upsertDocument(page.list, row)
    BY <1>3, <1>5 DEF PageInv, TypeInv, TypeOK
  <1> HIDE DEF d
  <1>7. \A e \in Documents \ Subject(c) : Shown(page'.list, e) = Shown(page.list, e)
    BY <1>2, <1>4, <1>6, UpsertShows
  <1>8. \A e \in Subject(c) \ touched[c] : Shown(page'.list, e) = {table[e]} \ {"none"}
    <2>1. d \notin touched[c] => row.status = table[d] /\ row.status \in Statuses
      BY <1>4 DEF Row
    <2>2. d \notin touched[c] => table[d] # "none"
      BY <2>1, ConstantsAssumption
    <2> QED
      BY <1>2, <1>4, <1>6, <2>1, <2>2, UpsertShows
  <1>9. \A r, q \in page'.list : r.doc = q.doc => r = q
    BY <1>6, UpsertRows DEF PageInv, OneRowPerDocument
  <1> QED
    BY <1>1, <1>6, <1>7, <1>8, <1>9, LearnPage

LEMMA HearPage ==
  ASSUME PageInv, NEW c \in Calls, Hear(c)
  PROVE  PageInv'
  <1>1. ASSUME UploadHeard(c) \/ ActionFailed(c) PROVE PageInv'
    <2>1. calls' = [calls EXCEPT ![c] = Free] /\ LearnNothing(c)
      BY <1>1 DEF UploadHeard, ActionFailed, HearsOk, HearsError
    <2>2. /\ page'.list = page.list
          /\ page' \in [list : SUBSET Row, listing : BOOLEAN, uploading : BOOLEAN,
                        deleting : Documents \cup {"none"},
                        reindexing : Documents \cup {"none"}]
      BY <1>1 DEF UploadHeard, ActionFailed, PageInv, TypeInv, TypeOK
    <2> QED
      BY <2>1, <2>2, QuietPage
  <1> QED
    BY <1>1, ListHeardPage, ListFailedPage, DeleteHeardPage, ReindexHeardPage DEF Hear

-----------------------------------------------------------------------------

LEMMA LeavePage ==
  ASSUME PageInv, Leave
  PROVE  PageInv'
  <1>1. TypeInv'
    BY DEF Leave, server, NewPage, PageInv, TypeInv, TypeOK, CallsNameRows
  <1>2. AnswersTrue'
    BY DEF Leave, AnswersTrue, AnswerTrue, Answered, Free
  <1>3. ShownIsTrue' /\ OneRowPerDocument'
    BY DEF Leave, NewPage, ShownIsTrue, OneRowPerDocument
  <1> QED
    BY <1>1, <1>2, <1>3 DEF PageInv

LEMMA ElsewherePage ==
  ASSUME PageInv, Elsewhere
  PROVE  PageInv'
  <1>1. PICK d \in Documents, st \in Statuses \cup {"none"} :
          Set(d, st, "none") /\ known' = known \cup {d}
    BY DEF Elsewhere
  <1>2. UNCHANGED <<calls, page>> /\ "none" \notin Calls
    BY ConstantsAssumption DEF Elsewhere
  <1>3. AnswersTrue'
    BY <1>1, <1>2, SetKeepsAnswers DEF PageInv, AnswersTrue
  <1>4. TypeInv'
    BY <1>1, <1>2, SetEffect DEF PageInv, TypeInv, TypeOK, CallsNameRows
  <1>5. ShownIsTrue' /\ OneRowPerDocument'
    BY <1>1, <1>2, SetKeepsShown DEF PageInv
  <1> QED
    BY <1>3, <1>4, <1>5 DEF PageInv

LEMMA NextPage ==
  ASSUME PageInv, [Next]_vars
  PROVE  PageInv'
  <1>1. CASE UNCHANGED vars
    <2>1. UNCHANGED <<table, known, calls, page, touched, doubt>>
      BY <1>1 DEF vars, server, history
    <2>2. TypeInv'
      BY <2>1 DEF PageInv, TypeInv, TypeOK, CallsNameRows
    <2>3. AnswersTrue'
      BY <2>1, AnswerKept DEF PageInv, AnswersTrue
    <2> QED
      BY <2>1, <2>2, <2>3, SameKeepsShown DEF PageInv
  <1> QED
    BY <1>1, ClickPage, ServePage, HearPage, LeavePage, ElsewherePage DEF Next

\* No step leaves the declared types, for any number of calls.
THEOREM TypeCorrect == Spec => []TypeOK
  <1>1. Spec => []PageInv
    BY InitPage, NextPage, PTL DEF Spec
  <1>2. PageInv => TypeOK
    BY DEF PageInv, TypeInv
  <1> QED
    BY <1>1, <1>2, PTL

\* However many calls overlap, and in whatever order their answers come, the
\* page shows what the table holds of every row that did not change since.
THEOREM ShownTrue == Spec => []ShownIsTrue
  <1>1. Spec => []PageInv
    BY InitPage, NextPage, PTL DEF Spec
  <1>2. PageInv => ShownIsTrue
    BY DEF PageInv
  <1> QED
    BY <1>1, <1>2, PTL

\* No order of answers lists a document with two statuses.
THEOREM OneRow == Spec => []OneRowPerDocument
  <1>1. Spec => []PageInv
    BY InitPage, NextPage, PTL DEF Spec
  <1>2. PageInv => OneRowPerDocument
    BY DEF PageInv
  <1> QED
    BY <1>1, <1>2, PTL

-----------------------------------------------------------------------------
(* Marks.                                                                  *)

\* What the marks depend on: which calls are pending, of what kind and row.
SameCalls ==
  \A x \in Calls :
    /\ calls'[x] = Free <=> calls[x] = Free
    /\ calls[x] # Free => calls'[x].kind = calls[x].kind /\ calls'[x].doc = calls[x].doc

LEMMA SameMarks ==
  ASSUME MarksArePending, SameCalls, page' = page
  PROVE  MarksArePending'
  <1>1. \A kind : Pending(kind)' = Pending(kind)
    BY DEF SameCalls, Pending, Hears
  <1>2. \A kind : \A x \in Pending(kind) : calls'[x].doc = calls[x].doc
    BY DEF SameCalls, Pending, Hears
  <1> QED
    BY <1>1, <1>2 DEF MarksArePending

\* Serving a call leaves it pending.
LEMMA ServeMarks ==
  ASSUME TypeInv, NEW c \in Calls, Serve(c)
  PROVE  SameCalls /\ page' = page
  <1>1. ASSUME NEW ok \in BOOLEAN, NEW rows \in SUBSET Row, calls[c] # Free,
               Reply(c, ok, rows)
        PROVE  SameCalls
    BY <1>1, ReplyEffect DEF SameCalls, Free
  <1>2. calls[c] # Free
    <2>1. calls[c].phase \in {"sent", "found"}
      BY DEF Serve, Refuse, ServeUpload, ServeList, FindRow, ServeDelete, ServeReindex,
             Waiting
    <2> QED
      BY <2>1 DEF Free
  <1>3. page' = page
    BY DEF Serve, Refuse, ServeUpload, ServeList, FindRow, ServeDelete, ServeReindex
  <1>4. CASE FindRow(c)
    <2>1. calls' = [calls EXCEPT ![c].phase = "found"] /\ calls[c] \in Call
      BY <1>2, <1>4 DEF FindRow, TypeInv, TypeOK
    <2>2. /\ calls'[c].phase = "found"
          /\ calls'[c].kind = calls[c].kind /\ calls'[c].doc = calls[c].doc
          /\ \A x \in Calls \ {c} : calls'[x] = calls[x]
      BY <2>1 DEF TypeInv, TypeOK, Call
    <2> QED
      BY <1>2, <1>3, <2>2 DEF SameCalls, Free
  <1>5. CASE Refuse(c)
    BY <1>1, <1>2, <1>3, <1>5 DEF Refuse, Report
  <1>6. CASE ServeUpload(c) \/ ServeDelete(c)
    BY <1>1, <1>2, <1>3, <1>6 DEF ServeUpload, ServeDelete
  <1>7. CASE ServeList(c)
    <2>1. {[doc |-> d, status |-> table[d]] : d \in {e \in Documents : table[e] # "none"}}
            \in SUBSET Row
      BY DEF TypeInv, TypeOK, Row
    <2> QED
      BY <1>1, <1>2, <1>3, <1>7, <2>1 DEF ServeList, Report
  <1>8. CASE ServeReindex(c)
    <2>1. calls[c].doc \in Documents
      BY <1>2, <1>8 DEF ServeReindex, Waiting, TypeInv, CallsNameRows
    <2>2. \A st \in Statuses : {[doc |-> calls[c].doc, status |-> st]} \in SUBSET Row
      BY <2>1 DEF Row
    <2> QED
      BY <1>1, <1>2, <1>3, <1>8, <2>2 DEF ServeReindex
  <1> QED
    BY <1>4, <1>5, <1>6, <1>7, <1>8 DEF Serve

\* A click marks what it sends; upload and list are locked while they are marked.
LEMMA ClickMarks ==
  ASSUME TypeInv, MarksArePending, NEW c \in Calls, Click(c)
  PROVE  MarksArePending'
  <1> USE DEF Pending, Hears
  <1>1. ASSUME NEW kind \in Kind, NEW doc \in Documents \cup {"none"}, Send(c, kind, doc),
               kind \in {"delete", "reindex"} => doc \in Documents
        PROVE  /\ Pending(kind)' = Pending(kind) \cup {c}
               /\ \A other \in Kind \ {kind} : Pending(other)' = Pending(other)
               /\ calls'[c].doc = doc
               /\ \A x \in Calls : calls[x] # Free => calls'[x].doc = calls[x].doc
    BY <1>1, SendEffect
  <1>2. /\ "none" \notin Documents /\ Kind = {"upload", "list", "delete", "reindex"}
        /\ page.deleting \in Documents \cup {"none"}
        /\ page.reindexing \in Documents \cup {"none"}
        /\ {r.doc : r \in page.list} \subseteq Documents
    BY ConstantsAssumption DEF Kind, TypeInv, TypeOK, Row
  <1>3. CASE UploadDocument(c)
    <2>1. /\ Pending("upload") = {} /\ Pending("upload")' = Pending("upload") \cup {c}
          /\ \A other \in Kind \ {"upload"} : Pending(other)' = Pending(other)
          /\ \A x \in Calls : calls[x] # Free => calls'[x].doc = calls[x].doc
      BY <1>1, <1>2, <1>3 DEF UploadDocument, MarksArePending
    <2>2. page' = [page EXCEPT !.uploading = TRUE]
      BY <1>3 DEF UploadDocument
    <2>3. /\ page'.uploading /\ page'.listing = page.listing
          /\ page'.deleting = page.deleting /\ page'.reindexing = page.reindexing
      BY <2>2 DEF TypeInv, TypeOK
    <2> HIDE DEF Pending, Hears
    <2>4. /\ Pending("list")' = Pending("list") /\ Pending("delete")' = Pending("delete")
          /\ Pending("reindex")' = Pending("reindex") /\ Pending("upload")' = {c}
      BY <1>2, <2>1
    <2>5. \A kind : \A x \in Pending(kind) : calls'[x].doc = calls[x].doc
      BY <2>1 DEF Pending, Hears
    <2> QED
      BY <2>3, <2>4, <2>5 DEF MarksArePending
  <1>4. CASE ListDocuments(c)
    <2>1. /\ Pending("list") = {} /\ Pending("list")' = Pending("list") \cup {c}
          /\ \A other \in Kind \ {"list"} : Pending(other)' = Pending(other)
          /\ \A x \in Calls : calls[x] # Free => calls'[x].doc = calls[x].doc
      BY <1>1, <1>2, <1>4 DEF ListDocuments, MarksArePending
    <2>2. page' = [page EXCEPT !.listing = TRUE]
      BY <1>4 DEF ListDocuments
    <2>3. /\ page'.listing /\ page'.uploading = page.uploading
          /\ page'.deleting = page.deleting /\ page'.reindexing = page.reindexing
      BY <2>2 DEF TypeInv, TypeOK
    <2> HIDE DEF Pending, Hears
    <2>4. /\ Pending("upload")' = Pending("upload") /\ Pending("delete")' = Pending("delete")
          /\ Pending("reindex")' = Pending("reindex") /\ Pending("list")' = {c}
      BY <1>2, <2>1
    <2>5. \A kind : \A x \in Pending(kind) : calls'[x].doc = calls[x].doc
      BY <2>1 DEF Pending, Hears
    <2> QED
      BY <2>3, <2>4, <2>5 DEF MarksArePending
  <1>5. ASSUME NEW kind \in {"delete", "reindex"}, NEW d \in Listed, Send(c, kind, d),
               page'.uploading = page.uploading, page'.listing = page.listing,
               IF kind = "delete"
                 THEN page'.deleting = d /\ page'.reindexing = page.reindexing
                 ELSE page'.reindexing = d /\ page'.deleting = page.deleting
        PROVE  MarksArePending'
    <2>1. d \in Documents /\ kind \in Kind
      BY <1>2 DEF Listed
    <2>2. /\ Pending(kind)' = Pending(kind) \cup {c} /\ calls'[c].doc = d
          /\ \A other \in Kind \ {kind} : Pending(other)' = Pending(other)
          /\ \A x \in Calls : calls[x] # Free => calls'[x].doc = calls[x].doc
      BY <1>1, <1>5, <2>1
    <2> HIDE DEF Pending, Hears
    <2>3. \A k : \A x \in Pending(k) : calls'[x].doc = calls[x].doc
      BY <2>2 DEF Pending, Hears
    <2>4. Pending("upload")' = Pending("upload") /\ Pending("list")' = Pending("list")
      BY <1>2, <2>2
    <2>5. CASE kind = "delete"
      BY <1>2, <1>5, <2>2, <2>3, <2>4, <2>5 DEF MarksArePending
    <2>6. CASE kind = "reindex"
      BY <1>2, <1>5, <2>2, <2>3, <2>4, <2>6 DEF MarksArePending
    <2> QED
      BY <2>5, <2>6
  <1>6. CASE DeleteDocument(c)
    BY <1>5, <1>6 DEF DeleteDocument, TypeInv, TypeOK
  <1>7. CASE ReindexDocument(c)
    BY <1>5, <1>7 DEF ReindexDocument, TypeInv, TypeOK
  <1> QED
    BY <1>3, <1>4, <1>6, <1>7 DEF Click

\* A call that ends takes the mark of its kind with it.
LEMMA HearMarks ==
  ASSUME TypeInv, MarksArePending, NEW c \in Calls, Hear(c)
  PROVE  MarksArePending'
  <1>1. /\ calls' = [calls EXCEPT ![c] = Free]
        /\ calls[c] # Free
    BY DEF Hear, UploadHeard, ListHeard, ListFailed, DeleteHeard, ReindexHeard,
           ActionFailed, HearsOk, HearsError, Hears
  <1>2. calls'[c] = Free /\ \A x \in Calls \ {c} : calls'[x] = calls[x]
    BY <1>1, SettleEffect
  <1>3. /\ \A kind : Pending(kind)' = Pending(kind) \ {c}
        /\ \A kind : \A x \in Pending(kind) \ {c} : calls'[x].doc = calls[x].doc
        /\ \A kind : c \in Pending(kind) <=> kind = calls[c].kind
    BY <1>1, <1>2 DEF Pending, Hears
  <1>4. /\ calls[c].kind \in Kind
        /\ page'.uploading  = IF calls[c].kind = "upload" THEN FALSE ELSE page.uploading
        /\ page'.listing    = IF calls[c].kind = "list" THEN FALSE ELSE page.listing
        /\ page'.deleting   = IF calls[c].kind = "delete" THEN "none" ELSE page.deleting
        /\ page'.reindexing = IF calls[c].kind = "reindex" THEN "none" ELSE page.reindexing
    <2>1. CASE UploadHeard(c)
      BY <2>1 DEF UploadHeard, HearsOk, HearsError, Hears, TypeInv, TypeOK, Kind
    <2>2. CASE ListHeard(c) \/ ListFailed(c)
      BY <2>2 DEF ListHeard, ListFailed, HearsOk, HearsError, Hears, TypeInv, TypeOK, Kind
    <2>3. CASE DeleteHeard(c)
      BY <2>3 DEF DeleteHeard, HearsOk, Hears, TypeInv, TypeOK, Kind
    <2>4. CASE ReindexHeard(c)
      BY <2>4 DEF ReindexHeard, HearsOk, Hears, TypeInv, TypeOK, Kind
    <2>5. CASE ActionFailed(c)
      BY <2>5 DEF ActionFailed, HearsError, Hears, TypeInv, TypeOK, Kind
    <2> QED
      BY <2>1, <2>2, <2>3, <2>4, <2>5 DEF Hear
  <1>5. ASSUME NEW kind \in {"upload", "list"}
        PROVE  IF calls[c].kind = kind THEN Pending(kind)' = {}
                                       ELSE Pending(kind)' = Pending(kind)
    BY <1>3 DEF MarksArePending
  <1>6. \A kind \in {"upload", "list"} : \A x, y \in Pending(kind)' : x = y
    BY <1>3 DEF MarksArePending
  <1>7. page'.deleting # "none" => \E x \in Pending("delete")' : calls'[x].doc = page'.deleting
    BY <1>3, <1>4 DEF MarksArePending
  <1>8. page'.reindexing # "none" => \E x \in Pending("reindex")' : calls'[x].doc = page'.reindexing
    BY <1>3, <1>4 DEF MarksArePending
  <1>9. (page'.uploading <=> Pending("upload")' # {}) /\ (page'.listing <=> Pending("list")' # {})
    BY <1>4, <1>5 DEF MarksArePending
  <1> QED
    BY <1>6, <1>7, <1>8, <1>9 DEF MarksArePending

\* A mark always stands for a pending call, and upload and list are never asked
\* for twice at a time, however many deletes and reindexes overlap.
THEOREM MarksPending == Spec => []MarksArePending
  <1>1. Spec => []PageInv
    BY InitPage, NextPage, PTL DEF Spec
  <1>2. Init => MarksArePending
    BY DEF Init, NewPage, MarksArePending, Pending, Hears
  <1>3. PageInv /\ MarksArePending /\ [Next]_vars => MarksArePending'
    <2> SUFFICES ASSUME PageInv, MarksArePending, [Next]_vars PROVE MarksArePending'
      OBVIOUS
    <2>1. TypeInv
      BY DEF PageInv
    <2>2. CASE UNCHANGED <<calls, page>>
      BY <2>2, SameMarks DEF SameCalls
    <2>3. CASE Elsewhere \/ UNCHANGED vars
      BY <2>2, <2>3 DEF Elsewhere, vars
    <2>4. CASE Leave
      BY <2>4 DEF Leave, NewPage, MarksArePending, Pending, Hears
    <2> QED
      BY <2>1, <2>3, <2>4, ClickMarks, HearMarks, ServeMarks, SameMarks DEF Next
  <1> QED
    BY <1>1, <1>2, <1>3, PTL DEF Spec

=============================================================================
