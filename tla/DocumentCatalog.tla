--------------------------- MODULE DocumentCatalog ---------------------------
(***************************************************************************)
(* What the document API promises its clients: every document has one      *)
(* life.  An upload lists it with the outcome of its indexing, a reindex   *)
(* replaces the outcome of a document that is still listed, and a deleted  *)
(* document never comes back.                                              *)
(***************************************************************************)
CONSTANT Documents

VARIABLE catalog   \* how each document is listed

Outcome == {"queued", "processing", "completed", "failed"}

TypeOK == catalog \in [Documents -> Outcome \cup {"unknown", "gone"}]

Init == catalog = [d \in Documents |-> "unknown"]

List(d) ==
  /\ catalog[d] = "unknown"
  /\ \E o \in Outcome : catalog' = [catalog EXCEPT ![d] = o]

Relist(d) ==
  /\ catalog[d] \in Outcome
  /\ \E o \in Outcome : catalog' = [catalog EXCEPT ![d] = o]

Remove(d) ==
  /\ catalog[d] \in Outcome
  /\ catalog' = [catalog EXCEPT ![d] = "gone"]

Next == \E d \in Documents : List(d) \/ Relist(d) \/ Remove(d)

Spec == Init /\ [][Next]_catalog

=============================================================================
