----------------------------- MODULE RateLimiter -----------------------------
(***************************************************************************)
(* RateLimiter, the in-memory backend of the rate limit middleware: one    *)
(* bucket of one API process.  check() runs in a thread pool, and reads    *)
(* the clock BEFORE it takes the lock, so that stamps reach the bucket in  *)
(* any order.  Buckets do not interact.                                    *)
(*                                                                         *)
(* A tick is 1/PerSecond of a second; time is what time.monotonic shows.   *)
(***************************************************************************)
EXTENDS Integers, Sequences

CONSTANTS
  Threads,         \* the threads of the pool
  Limit,           \* settings.rate_limit_requests
  WindowSeconds,   \* settings.rate_limit_window_seconds
  PerSecond,       \* ticks in a second
  Delay,           \* bound: ticks from reading the clock to taking the lock
  MaxTime          \* bound of the model: the clock stops there

ASSUME LimiterAssumption ==
  /\ Limit \in Nat \ {0}
  /\ WindowSeconds \in Nat \ {0}
  /\ PerSecond \in Nat \ {0}
  /\ Delay \in Nat
  /\ MaxTime \in Nat

Window == WindowSeconds * PerSecond

VARIABLES
  time,       \* the clock
  thread,     \* the check each thread is running
  bucket,     \* the deque of stamps
  admitted,   \* history: when each admitted request got through the lock
  promised    \* history: when clients were told to come back, since then

vars == <<time, thread, bucket, admitted, promised>>

Idle == [pc |-> "idle"]

Init ==
  /\ time     = 0
  /\ thread   = [t \in Threads |-> Idle]
  /\ bucket   = <<>>
  /\ admitted = <<>>
  /\ promised = {}

\* Mutant of _prune: the cutoff is a tick late.
EarlyPops(k, now) ==
  /\ \A j \in 1..k : bucket[j] <= now + 1 - Window
  /\ k < Len(bucket) => bucket[k + 1] > now + 1 - Window

\* _prune pops k entries: from the left, while they are out of the window.
Pops(k, now) ==
  /\ \A j \in 1..k : bucket[j] <= now - Window
  /\ k < Len(bucket) => bucket[k + 1] > now - Window

\* Mutant of _seconds_until_reset: rounded down.
RetryAfterDown(oldest, now) ==
  LET seconds == (Window - (now - oldest)) \div PerSecond
  IN  IF seconds > 1 THEN seconds ELSE 1

\* _seconds_until_reset.
RetryAfter(oldest, now) ==
  LET seconds == (Window - (now - oldest) + PerSecond - 1) \div PerSecond
  IN  IF seconds > 1 THEN seconds ELSE 1

\* dispatch hands the check to a thread, which reads the clock.
Stamp(t) ==
  /\ thread[t].pc = "idle"
  /\ thread' = [thread EXCEPT ![t] = [pc |-> "check", stamp |-> time]]
  /\ UNCHANGED <<time, bucket, admitted, promised>>

\* Mutant of check: the bucket may be full already.
AdmitOneMore(t) ==
  /\ thread[t].pc = "check"
  /\ \E k \in 0..Len(bucket) :
       /\ Pops(k, thread[t].stamp)
       /\ Len(bucket) - k <= Limit
       /\ bucket' = Append(SubSeq(bucket, k + 1, Len(bucket)), thread[t].stamp)
  /\ admitted' = Append(admitted, time)
  /\ promised' = {}
  /\ thread' = [thread EXCEPT ![t] = Idle]
  /\ UNCHANGED time

\* The two ways out of the lock.
Admit(t) ==
  /\ thread[t].pc = "check"
  /\ \E k \in 0..Len(bucket) :
       /\ Pops(k, thread[t].stamp)
       /\ Len(bucket) - k < Limit
       /\ bucket' = Append(SubSeq(bucket, k + 1, Len(bucket)), thread[t].stamp)
  /\ admitted' = Append(admitted, time)
  /\ promised' = {}
  /\ thread' = [thread EXCEPT ![t] = Idle]
  /\ UNCHANGED time

Refuse(t) ==
  /\ thread[t].pc = "check"
  /\ \E k \in 0..Len(bucket) :
       /\ Pops(k, thread[t].stamp)
       /\ Len(bucket) - k >= Limit
       /\ bucket' = SubSeq(bucket, k + 1, Len(bucket))
  /\ promised' = promised \cup
       {time + PerSecond * RetryAfter(bucket'[1], thread[t].stamp)}
  /\ thread' = [thread EXCEPT ![t] = Idle]
  /\ UNCHANGED <<time, admitted>>

Tick ==
  /\ time < MaxTime
  /\ \A t \in Threads : thread[t].pc = "check" => time - thread[t].stamp < Delay
  /\ time' = time + 1
  /\ UNCHANGED <<thread, bucket, admitted, promised>>

Next == Tick \/ \E t \in Threads : Stamp(t) \/ Admit(t) \/ Refuse(t)

Spec == Init /\ [][Next]_vars

-----------------------------------------------------------------------------
(* Properties.                                                             *)

TypeOK ==
  /\ time \in Nat
  /\ thread \in [Threads -> [pc : {"check"}, stamp : Nat] \cup {Idle}]
  /\ bucket \in Seq(Nat) /\ Len(bucket) <= Limit
  /\ admitted \in Seq(Nat)
  /\ promised \in SUBSET Nat

\* A check in progress has read the clock at most Delay ticks ago.
StampsOK ==
  \A t \in Threads : thread[t].pc = "check" =>
    thread[t].stamp <= time /\ time <= thread[t].stamp + Delay

\* Why the limit holds: the bucket is what is left of the admitted requests,
\* its entries lag at most Delay behind them, and what was popped is old.
\* Because a refusal pops nothing, every promise made since the last admission
\* is about the entry that is still the oldest.
BucketInv ==
  /\ Len(bucket) <= Len(admitted)
  /\ \A k \in 1..Len(admitted) : admitted[k] <= time
  /\ LET gone == Len(admitted) - Len(bucket) IN
       /\ \A k \in 1..gone : admitted[k] + Window - Delay <= time
       /\ \A k \in 1..Len(bucket) :
            bucket[k] <= admitted[gone + k] /\ admitted[gone + k] <= bucket[k] + Delay
  /\ \A p \in promised : Len(bucket) = Limit /\ bucket[1] + Window <= p

Promise == INSTANCE RequestWindow WITH Span <- Window - Delay

\* However threads race from the clock to the lock, at most Limit requests are
\* admitted in any Window - Delay ticks (RateLimiter.check).
ImplementsWindow == Promise!Spec

\* A client that waits as long as Retry-After says is not refused again,
\* unless another request of the bucket was admitted in between.
RetryAfterIsEnough ==
  [][\A t \in Threads : Refuse(t) => \A p \in promised : thread[t].stamp < p]_vars

=============================================================================
