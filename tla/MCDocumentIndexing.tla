------------------------- MODULE MCDocumentIndexing -------------------------
(* Values of the constants of DocumentIndexing and DocumentChunks for TLC. *)
EXTENDS IndexedContent, TLC

CONSTANTS d1, d2, j1, j2, j3, s1, s2, w1, w2

OneDocument == {d1}
TwoDocuments == {d1, d2}
TwoJobs   == {j1, j2}
ThreeJobs == {j1, j2, j3}
OneServer  == {s1}
TwoServers == {s1, s2}
OneWorker  == {w1}
TwoWorkers == {w1, w2}

Interchangeable ==
  Permutations(Documents) \cup Permutations(Jobs)
    \cup Permutations(Servers) \cup Permutations(Workers)

=============================================================================
