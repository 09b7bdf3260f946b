--------------------------- MODULE RedisRateLimit ---------------------------
(***************************************************************************)
(* RedisRateLimitStore, the shared backend of the rate limit middleware:   *)
(* one bucket, a Redis sorted set of the stamps of admitted requests.      *)
(* Each API process stamps a request with its own time.monotonic, then     *)
(* Redis runs the script REDIS_SLIDING_WINDOW_SCRIPT, which is atomic.     *)
(* time.monotonic counts from a point of each host's own (its boot).       *)
(*                                                                         *)
(* A tick is 1/PerSecond of a second and at least a millisecond, so that   *)
(* int(now * 1000) loses no tick.  A member of the sorted set is the       *)
(* number of its ZADD (the code draws a uuid4).                            *)
(***************************************************************************)
EXTENDS Integers, Sequences, FiniteSets

CONSTANTS
  Servers,         \* API processes
  Calls,           \* the checks that can be in flight at once
  Offset,          \* what each process' clock shows at time 0
  Skew,            \* bound: how far two of these clocks are apart
  Limit,           \* settings.rate_limit_requests
  WindowSeconds,   \* settings.rate_limit_window_seconds
  PerSecond,       \* ticks in a second
  Delay,           \* bound: ticks from reading the clock to the script
  Outages,         \* whether a call to Redis may raise
  MaxTime          \* bound of the model: time stops there

ASSUME RedisAssumption ==
  /\ Offset \in [Servers -> Nat]
  /\ Skew \in Nat
  /\ \A s, t \in Servers : Offset[s] - Offset[t] <= Skew
  /\ Limit \in Nat \ {0}
  /\ WindowSeconds \in Nat \ {0}
  /\ PerSecond \in Nat \ {0}
  /\ Delay \in Nat
  /\ Outages \in BOOLEAN
  /\ MaxTime \in Nat

Window == WindowSeconds * PerSecond

VARIABLES
  time,       \* the time that passes at Redis
  call,       \* the check each call is making
  scores,     \* the sorted set: its members
  score,      \* ... and the score of every member ever added
  expires,    \* when Redis deletes the key
  admitted,   \* history: when the script admitted each request
  promised    \* history: when clients were told to come back, since then

vars == <<time, call, scores, score, expires, admitted, promised>>

Idle == [pc |-> "idle"]

Init ==
  /\ time     = 0
  /\ call     = [c \in Calls |-> Idle]
  /\ scores   = {}
  /\ score    = <<>>
  /\ expires  = 0
  /\ admitted = <<>>
  /\ promised = {}

\* Mutant of Live: the cutoff is computed in another unit.
LiveTooShort(now) ==
  IF time < expires THEN {m \in scores : score[m] > now - WindowSeconds} ELSE {}

\* What ZREMRANGEBYSCORE leaves; a key that expired was empty before.
Live(now) ==
  IF time < expires THEN {m \in scores : score[m] > now - Window} ELSE {}

\* Mutant of _seconds_until_reset: rounded down.
RetryAfterDown(oldest, now) ==
  LET seconds == (Window - (now - oldest)) \div PerSecond
  IN  IF seconds > 1 THEN seconds ELSE 1

\* _seconds_until_reset.
RetryAfter(oldest, now) ==
  LET seconds == (Window - (now - oldest) + PerSecond - 1) \div PerSecond
  IN  IF seconds > 1 THEN seconds ELSE 1

\* check reads the clock of its process.
Stamp(c) ==
  /\ call[c].pc = "idle"
  /\ \E s \in Servers :
       call' = [call EXCEPT ![c] =
                  [pc |-> "eval", by |-> s, stamp |-> time + Offset[s]]]
  /\ UNCHANGED <<time, scores, score, expires, admitted, promised>>

\* Mutant of Admit: the key's expiry is left as it was.
AdmitNoExpire(c) ==
  /\ call[c].pc = "eval"
  /\ Cardinality(Live(call[c].stamp)) < Limit
  /\ scores'   = Live(call[c].stamp) \cup {Len(score) + 1}
  /\ score'    = Append(score, call[c].stamp)
  /\ expires'  = IF time < expires THEN expires ELSE time + Window
  /\ admitted' = Append(admitted, time)
  /\ promised' = {}
  /\ call'     = [call EXCEPT ![c] = Idle]
  /\ UNCHANGED time

\* Mutant of Admit: the set may be full already.
AdmitOneMore(c) ==
  /\ call[c].pc = "eval"
  /\ Cardinality(Live(call[c].stamp)) <= Limit
  /\ scores'   = Live(call[c].stamp) \cup {Len(score) + 1}
  /\ score'    = Append(score, call[c].stamp)
  /\ expires'  = time + Window
  /\ admitted' = Append(admitted, time)
  /\ promised' = {}
  /\ call'     = [call EXCEPT ![c] = Idle]
  /\ UNCHANGED time

\* The script admits.  If the reply is lost the request counts all the same.
Admit(c) ==
  /\ call[c].pc = "eval"
  /\ Cardinality(Live(call[c].stamp)) < Limit
  /\ scores'   = Live(call[c].stamp) \cup {Len(score) + 1}
  /\ score'    = Append(score, call[c].stamp)
  /\ expires'  = time + Window
  /\ admitted' = Append(admitted, time)
  /\ promised' = {}
  /\ call'     = [call EXCEPT ![c] = Idle]
  /\ UNCHANGED time

\* The script refuses; Retry-After counts from the oldest entry.
Refuse(c) ==
  /\ call[c].pc = "eval"
  /\ Cardinality(Live(call[c].stamp)) >= Limit
  /\ scores'  = Live(call[c].stamp)
  /\ expires' = time + Window
  /\ \/ \E m \in scores' :
          /\ \A n \in scores' : score[m] <= score[n]
          /\ promised' = promised \cup
               {time + PerSecond * RetryAfter(score[m], call[c].stamp)}
     \/ Outages /\ UNCHANGED promised
  /\ call'    = [call EXCEPT ![c] = Idle]
  /\ UNCHANGED <<time, score, admitted>>

\* The call raises before the script runs: RateLimitBackendUnavailable.
Unavailable(c) ==
  /\ Outages
  /\ call[c].pc = "eval"
  /\ call' = [call EXCEPT ![c] = Idle]
  /\ UNCHANGED <<time, scores, score, expires, admitted, promised>>

Read(c) == call[c].stamp - Offset[call[c].by]

Tick ==
  /\ time < MaxTime
  /\ \A c \in Calls : call[c].pc = "eval" => time - Read(c) < Delay
  /\ time' = time + 1
  /\ UNCHANGED <<call, scores, score, expires, admitted, promised>>

Next ==
  Tick \/ \E c \in Calls : Stamp(c) \/ Admit(c) \/ Refuse(c) \/ Unavailable(c)

Spec == Init /\ [][Next]_vars

-----------------------------------------------------------------------------
(* Properties.                                                             *)

TypeOK ==
  /\ time \in Nat
  /\ call \in [Calls -> [pc : {"eval"}, by : Servers, stamp : Nat] \cup {Idle}]
  /\ score \in Seq(Nat)
  /\ scores \subseteq 1..Len(score) /\ Cardinality(scores) <= Limit
  /\ expires \in Nat
  /\ admitted \in Seq(Nat)
  /\ promised \in SUBSET Nat

\* A check in flight has read its clock at most Delay ticks ago.
StampsOK ==
  \A c \in Calls : call[c].pc = "eval" => Read(c) <= time /\ time <= Read(c) + Delay

\* Why the limit holds: there is one member per admitted request; its score is
\* what some process' clock showed at most Delay ticks earlier; and every member
\* that is no longer in the set is old, whoever removed it.
SetInv ==
  /\ Len(score) = Len(admitted)
  /\ \A m \in 1..Len(admitted) :
       /\ admitted[m] <= time
       /\ \E s \in Servers : score[m] - Offset[s] <= admitted[m]
                             /\ admitted[m] <= score[m] - Offset[s] + Delay
       /\ m \notin scores => admitted[m] + Window - Delay - Skew <= time
  /\ \A m, n \in 1..Len(admitted) : m < n => admitted[m] <= admitted[n]
  /\ \A m \in scores : admitted[m] + Window <= expires

\* While a promise made to a refused client stands, the set is full and holds
\* the member the promise is about: only an admission can take it out.
PromisedInv ==
  \A p \in promised :
    /\ Cardinality(scores) = Limit
    /\ \E m \in scores : \A s \in Servers : score[m] - Offset[s] + Window <= p + Skew

Promise == INSTANCE RequestWindow WITH Span <- Window - Delay - Skew

\* All API processes together admit at most Limit requests in any Window,
\* less what their stamps lag behind and what their clocks differ.
ImplementsWindow == Promise!Spec

\* A client that waits as long as Retry-After says, and for the difference of
\* the clocks, is not refused again by any API process, unless another request
\* was admitted in between.
RetryAfterIsEnough ==
  [][\A c \in Calls : Refuse(c) => \A p \in promised : Read(c) < p + Skew]_vars

=============================================================================
