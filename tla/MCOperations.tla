---------------------------- MODULE MCOperations ----------------------------
(* Values of the constants of Operations for TLC. *)
EXTENDS Operations, TLC

CONSTANTS s1, w1, c1, c2, c3

OneServer  == {s1}
OneWorker  == {w1}
OneCall    == {c1}
ThreeCalls == {c1, c2, c3}
CallSymmetry == Permutations(Calls)

\* Everything on; requests pass while Redis is down.
Production ==
  [problems |-> {}, probing |-> TRUE, audit |-> "postgres", metadata |-> "postgres",
   users |-> "postgres", queue |-> "redis", limited |-> TRUE, limiter |-> "redis",
   fail_open |-> TRUE, embedding |-> "bge", reranker |-> "score"]

\* The same, but they are refused, and indexing runs in the process.
Strict == [Production EXCEPT !.fail_open = FALSE, !.queue = "inprocess"]

\* docker-compose.yml with docker-compose.notebook.yml, which has the embedding service.
Compose == [Production EXCEPT !.limited = FALSE]

\* A laptop: nothing is probed, indexing runs in the process.
Development ==
  [problems |-> {}, probing |-> FALSE, audit |-> "inmemory", metadata |-> "inmemory",
   users |-> "inmemory", queue |-> "inprocess", limited |-> TRUE, limiter |-> "memory",
   fail_open |-> TRUE, embedding |-> "deterministic", reranker |-> "score"]

\* Production with the development key and DEBUG, and no rate limit.
Careless ==
  [Development EXCEPT !.problems = {"api_keys", "debug"}, !.probing = TRUE,
                      !.limited = FALSE]

\* Everything in memory but the accounts; probed, Redis too, which nothing uses.
AccountsOnly ==
  [Development EXCEPT !.probing = TRUE, !.users = "postgres", !.reranker = "bge",
                      !.limited = FALSE, !.limiter = "redis"]

ComposeSettings == {Compose}

FiveSettings == {Production, Strict, Development, Careless, AccountsOnly}

SomeFragile == {"qdrant", "redis", "embedding"}

=============================================================================
