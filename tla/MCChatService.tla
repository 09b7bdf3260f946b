--------------------------- MODULE MCChatService ---------------------------
(* Values of the constants of ChatService for TLC. *)
EXTENDS ChatService, TLC

CONSTANTS r1, r2, s1, s2, A, B, manual, payroll, other, c1, c2, c3, c4

TwoRequests == {r1, r2}
TwoServers  == {s1, s2}
Corpus      == {manual, payroll, other}
FullOrNot   == {{manual, payroll, other}, {payroll, other}}
Points      == {c1, c2, c3, c4}

AboutCorpus ==
  (manual  :> [workspace |-> A, level |-> "internal"]) @@
  (payroll :> [workspace |-> A, level |-> "restricted"]) @@
  (other   :> [workspace |-> B, level |-> "internal"])

CutFrom == (c1 :> manual) @@ (c2 :> manual) @@ (c3 :> payroll) @@ (c4 :> other)

\* c2 is found by its words, c3 by both, c1 and c4 by meaning.
Similarity == (c1 :> 4) @@ (c2 :> 1) @@ (c3 :> 3) @@ (c4 :> 2)
Words      == (c1 :> 0) @@ (c2 :> 4) @@ (c3 :> 2) @@ (c4 :> 0)

\* One process searches both ways and calls the reranking service, the other
\* one is configured by default.
BothSettings ==
  (s1 :> [retrieval |-> "hybrid", reranker |-> "bge"]) @@
  (s2 :> [retrieval |-> "dense",  reranker |-> "score"])

Ask(op, ws, role, levels, docs, limit) ==
  [op |-> op, workspace |-> ws, role |-> role, levels |-> levels,
   documents |-> docs, limit |-> limit]

\* Plain questions of a member and an admin, filters of every kind, one that
\* names another workspace's document, one that asks for too high a level, and
\* limits below and above what there is.
Shapes ==
  {Ask("chat",   A, "member", {}, {}, 0),
   Ask("chat",   A, "admin", {"restricted", "internal"}, {payroll, other}, 2),
   Ask("search", A, "member", {"restricted"}, {}, 2),
   Ask("search", A, "admin", {}, {}, 3)}

=============================================================================
