-------------------------- MODULE RateLimiterProofs --------------------------
(* Proofs about RateLimiter, for every limit, window, delay and number of   *)
(* threads.                                                                 *)
EXTENDS RateLimiter, SequenceTheorems, TLAPS

\* Rounded up, a number of ticks is not cut short.
LEMMA RoundedUp ==
  ASSUME NEW n \in Int, NEW q \in Nat \ {0}
  PROVE  /\ (n + q - 1) \div q \in Int
         /\ q * ((n + q - 1) \div q) >= n
<1> DEFINE m == n + q - 1
<1>1. m \in Int /\ q \in Int /\ q > 0
  OBVIOUS
<1> HIDE DEF m
<1>2. m \div q \in Int
  BY <1>1
<1>3. m % q \in 0..(q - 1)
  BY <1>1
<1>4. m = q * (m \div q) + (m % q)
  BY <1>1
<1>5. q * (m \div q) \in Int
  BY <1>1, <1>2
<1>6. q * (m \div q) >= m - (q - 1)
  BY <1>1, <1>3, <1>4, <1>5
<1> QED BY <1>1, <1>2, <1>5, <1>6 DEF m

\* Retry-After reaches to the end of the window of the oldest entry.
LEMMA RetryAfterLongEnough ==
  ASSUME NEW oldest \in Nat, NEW now \in Nat
  PROVE  /\ RetryAfter(oldest, now) \in Nat
         /\ oldest + Window <= now + PerSecond * RetryAfter(oldest, now)
<1> DEFINE n == Window - (now - oldest)
           seconds == (n + PerSecond - 1) \div PerSecond
<1>1. PerSecond \in Nat \ {0} /\ Window \in Nat /\ n \in Int
  BY LimiterAssumption DEF Window
<1>2. seconds \in Int /\ PerSecond * seconds >= n
  BY <1>1, RoundedUp
<1> HIDE DEF n, seconds
<1>3. RetryAfter(oldest, now) = IF seconds > 1 THEN seconds ELSE 1
  BY DEF RetryAfter, n, seconds
<1>4. CASE seconds > 1
  <2>1. RetryAfter(oldest, now) = seconds
    BY <1>3, <1>4
  <2>2. PerSecond * seconds \in Int
    BY <1>1, <1>2
  <2> QED BY <2>1, <2>2, <1>1, <1>2, <1>4 DEF n
<1>5. CASE ~(seconds > 1)
  <2>1. RetryAfter(oldest, now) = 1
    BY <1>3, <1>5
  <2>2. PerSecond * seconds <= PerSecond
    BY <1>1, <1>2, <1>5
  <2> QED BY <2>1, <2>2, <1>1, <1>2 DEF n
<1> QED BY <1>4, <1>5

-----------------------------------------------------------------------------

(* The inductive invariant. *)
Inv == TypeOK /\ StampsOK /\ BucketInv

LEMMA ConstantTypes ==
  /\ Limit \in Nat \ {0}
  /\ PerSecond \in Nat \ {0}
  /\ Window \in Nat
  /\ Delay \in Nat
BY LimiterAssumption DEF Window

\* What the type invariant says of a thread that is at the lock.
LEMMA StampType ==
  ASSUME TypeOK, NEW t \in Threads, thread[t].pc = "check"
  PROVE  thread[t].stamp \in Nat
<1>1. thread[t] \in [pc : {"check"}, stamp : Nat] \cup {Idle}
  BY DEF TypeOK
<1> QED BY <1>1 DEF Idle

\* A bucket never holds more than Limit, so that a refusal pops nothing.
LEMMA RefusePopsNothing ==
  ASSUME TypeOK, NEW t \in Threads, Refuse(t)
  PROVE  /\ bucket' = bucket
         /\ Len(bucket) = Limit
         /\ bucket[1] \in Nat
         /\ bucket[1] > thread[t].stamp - Window
<1>1. PICK k \in 0..Len(bucket) :
        /\ Pops(k, thread[t].stamp)
        /\ Len(bucket) - k >= Limit
        /\ bucket' = SubSeq(bucket, k + 1, Len(bucket))
  BY DEF Refuse
<1>2. Len(bucket) \in Nat /\ Len(bucket) <= Limit /\ bucket \in Seq(Nat)
  BY DEF TypeOK
<1>3. k = 0 /\ Len(bucket) = Limit
  BY <1>1, <1>2, ConstantTypes
<1>4. bucket' = bucket
  <2>1. bucket' = SubSeq(bucket, 1, Len(bucket))
    BY <1>1, <1>3
  <2> QED BY <2>1, <1>2
<1>5. bucket[1] \in Nat
  BY <1>2, <1>3, ConstantTypes
<1>6. bucket[1] > thread[t].stamp - Window
  BY <1>1, <1>2, <1>3, ConstantTypes DEF Pops
<1> QED BY <1>3, <1>4, <1>5, <1>6

\* What an admission leaves of the bucket, entry by entry.
LEMMA AdmitEffect ==
  ASSUME TypeOK, NEW t \in Threads, Admit(t)
  PROVE  \E k \in 0..Len(bucket) :
           /\ \A j \in 1..k : bucket[j] <= thread[t].stamp - Window
           /\ Len(bucket) - k < Limit
           /\ bucket' \in Seq(Nat)
           /\ Len(bucket') = Len(bucket) - k + 1
           /\ \A i \in 1..(Len(bucket) - k) : bucket'[i] = bucket[k + i]
           /\ bucket'[Len(bucket) - k + 1] = thread[t].stamp
<1>1. PICK k \in 0..Len(bucket) :
        /\ Pops(k, thread[t].stamp)
        /\ Len(bucket) - k < Limit
        /\ bucket' = Append(SubSeq(bucket, k + 1, Len(bucket)), thread[t].stamp)
  BY DEF Admit
<1>2. bucket \in Seq(Nat) /\ Len(bucket) \in Nat /\ thread[t].stamp \in Nat
  BY StampType DEF TypeOK, Admit
<1> DEFINE rest == SubSeq(bucket, k + 1, Len(bucket))
<1>3. /\ rest \in Seq(Nat)
      /\ Len(rest) = Len(bucket) - k
      /\ \A i \in 1..(Len(bucket) - k) : rest[i] = bucket[k + i]
  <2>1. k + 1 \in Int /\ \A i \in (k + 1)..Len(bucket) : bucket[i] \in Nat
    BY <1>2
  <2>2. /\ rest \in Seq(Nat)
        /\ Len(rest) = IF k + 1 <= Len(bucket) THEN Len(bucket) - (k + 1) + 1 ELSE 0
        /\ \A i \in 1..(Len(bucket) - (k + 1) + 1) : rest[i] = bucket[k + 1 + i - 1]
    BY <1>2, <2>1, SubSeqProperties
  <2> HIDE DEF rest
  <2>3. Len(rest) = Len(bucket) - k
    <3>1. CASE k < Len(bucket)
      BY <1>2, <2>2, <3>1
    <3>2. CASE k = Len(bucket)
      BY <1>2, <2>2, <3>2
    <3> QED BY <1>2, <3>1, <3>2
  <2>4. ASSUME NEW i \in 1..(Len(bucket) - k)  PROVE rest[i] = bucket[k + i]
    <3>1. i \in 1..(Len(bucket) - (k + 1) + 1) /\ k + 1 + i - 1 = k + i
      BY <1>2
    <3> QED BY <2>2, <3>1
  <2> QED BY <2>2, <2>3, <2>4
<1> HIDE DEF rest
<1>4. bucket' = Append(rest, thread[t].stamp)
  BY <1>1 DEF rest
<1>5. /\ bucket' \in Seq(Nat)
      /\ Len(bucket') = Len(bucket) - k + 1
      /\ \A i \in 1..(Len(bucket) - k) : bucket'[i] = bucket[k + i]
      /\ bucket'[Len(bucket) - k + 1] = thread[t].stamp
  BY <1>2, <1>3, <1>4
<1> QED BY <1>1, <1>5 DEF Pops

-----------------------------------------------------------------------------

LEMMA InvInit == Init => Inv
BY ConstantTypes DEF Init, Inv, TypeOK, StampsOK, BucketInv, Idle

\* Between two of a thread's steps only time passes.
LEMMA InvTick == Inv /\ Tick => Inv'
<1> SUFFICES ASSUME Inv, Tick PROVE Inv'
  OBVIOUS
<1> USE DEF Inv, Tick
<1>1. time' = time + 1 /\ time \in Nat
  BY DEF TypeOK
<1>2. TypeOK'
  BY <1>1 DEF TypeOK
<1>3. StampsOK'
  <2> SUFFICES ASSUME NEW t \in Threads, thread[t].pc = "check"
               PROVE  thread[t].stamp <= time' /\ time' <= thread[t].stamp + Delay
    BY DEF StampsOK
  <2>1. thread[t].stamp \in Nat
    BY StampType
  <2> QED BY <2>1, <1>1, ConstantTypes DEF StampsOK
<1>4. BucketInv'
  <2>1. \A k \in 1..Len(admitted) : admitted[k] \in Nat
    BY DEF TypeOK
  <2>2. Len(admitted) \in Nat /\ Len(bucket) \in Nat
    BY DEF TypeOK
  <2> QED BY <2>1, <2>2, <1>1, ConstantTypes DEF BucketInv
<1> QED BY <1>2, <1>3, <1>4

LEMMA InvStamp == ASSUME NEW t \in Threads PROVE Inv /\ Stamp(t) => Inv'
<1> SUFFICES ASSUME Inv, Stamp(t) PROVE Inv'
  OBVIOUS
<1> USE DEF Inv, Stamp
<1>1. TypeOK'
  BY DEF TypeOK, Idle
<1>2. StampsOK'
  BY ConstantTypes DEF StampsOK, TypeOK, Idle
<1>3. BucketInv'
  BY DEF BucketInv
<1> QED BY <1>1, <1>2, <1>3

\* A check that ends leaves the other threads' stamps as they are.
LEMMA StampsKept ==
  ASSUME Inv, NEW t \in Threads, thread' = [thread EXCEPT ![t] = Idle], time' = time
  PROVE  /\ thread' \in [Threads -> [pc : {"check"}, stamp : Nat] \cup {Idle}]
         /\ StampsOK'
BY DEF Inv, TypeOK, StampsOK, Idle

LEMMA InvAdmit == ASSUME NEW t \in Threads PROVE Inv /\ Admit(t) => Inv'
<1> SUFFICES ASSUME Inv, Admit(t) PROVE Inv'
  OBVIOUS
<1> DEFINE stamp == thread[t].stamp
           gone  == Len(admitted) - Len(bucket)
<1>1. /\ stamp \in Nat /\ time \in Nat
      /\ stamp <= time /\ time <= stamp + Delay
  BY StampType DEF Inv, TypeOK, StampsOK, Admit
<1>2. /\ bucket \in Seq(Nat) /\ Len(bucket) \in Nat
      /\ admitted \in Seq(Nat) /\ Len(admitted) \in Nat
      /\ Len(bucket) <= Len(admitted) /\ gone \in Nat
      /\ Len(admitted) = gone + Len(bucket)
  BY DEF Inv, TypeOK, BucketInv
<1>3. PICK k \in 0..Len(bucket) :
           /\ \A j \in 1..k : bucket[j] <= stamp - Window
           /\ Len(bucket) - k < Limit
           /\ bucket' \in Seq(Nat)
           /\ Len(bucket') = Len(bucket) - k + 1
           /\ \A i \in 1..(Len(bucket) - k) : bucket'[i] = bucket[k + i]
           /\ bucket'[Len(bucket) - k + 1] = stamp
  BY AdmitEffect DEF Inv
<1>4. /\ admitted' \in Seq(Nat)
      /\ Len(admitted') = Len(admitted) + 1
      /\ \A i \in 1..Len(admitted) : admitted'[i] = admitted[i]
      /\ admitted'[Len(admitted) + 1] = time
      /\ time' = time /\ promised' = {}
      /\ thread' = [thread EXCEPT ![t] = Idle]
  BY <1>1, <1>2 DEF Admit
<1> HIDE DEF stamp, gone
<1>5. TypeOK' /\ StampsOK'
  <2>1. Len(bucket') <= Limit
    BY <1>2, <1>3, ConstantTypes
  <2>2. /\ thread' \in [Threads -> [pc : {"check"}, stamp : Nat] \cup {Idle}]
        /\ StampsOK'
    BY <1>4, StampsKept
  <2> QED BY <2>1, <2>2, <1>1, <1>3, <1>4 DEF TypeOK
<1>6. BucketInv'
  <2>0. gone = Len(admitted) - Len(bucket)
    BY DEF gone
  <2>1. Len(bucket') <= Len(admitted') /\ Len(admitted') - Len(bucket') = gone + k
    BY <1>2, <1>3, <1>4
  <2>2. \A i \in 1..Len(admitted) : admitted[i] \in Nat /\ admitted[i] <= time
    BY <1>2 DEF Inv, BucketInv
  <2>3. \A i \in 1..Len(admitted') : admitted'[i] <= time'
    <3> SUFFICES ASSUME NEW i \in 1..Len(admitted') PROVE admitted'[i] <= time'
      OBVIOUS
    <3>1. i \in 1..Len(admitted) \/ i = Len(admitted) + 1
      BY <1>2, <1>4
    <3>2. CASE i \in 1..Len(admitted)
      BY <3>2, <2>2, <1>4
    <3>3. CASE i = Len(admitted) + 1
      BY <3>3, <1>1, <1>4
    <3> QED BY <3>1, <3>2, <3>3
  <2>4. \A j \in 1..Len(bucket) :
           /\ bucket[j] \in Nat /\ gone + j \in 1..Len(admitted)
           /\ bucket[j] <= admitted[gone + j]
           /\ admitted[gone + j] <= bucket[j] + Delay
    <3> SUFFICES ASSUME NEW j \in 1..Len(bucket)
                 PROVE  /\ bucket[j] \in Nat /\ gone + j \in 1..Len(admitted)
                        /\ bucket[j] <= admitted[gone + j]
                        /\ admitted[gone + j] <= bucket[j] + Delay
      OBVIOUS
    <3>1. bucket[j] \in Nat /\ gone + j \in 1..Len(admitted)
      BY <1>2
    <3> QED BY <3>1, <2>0 DEF Inv, BucketInv
  <2>5. \A i \in 1..(gone + k) : admitted'[i] + Window - Delay <= time'
    <3> SUFFICES ASSUME NEW i \in 1..(gone + k)
                 PROVE  admitted'[i] + Window - Delay <= time'
      OBVIOUS
    <3>1. i \in 1..Len(admitted)
      BY <1>2, <1>3
    <3>4. admitted'[i] = admitted[i]
      BY <3>1, <1>4
    <3>2. CASE i <= gone
      BY <3>1, <3>4, <3>2, <2>0, <1>2, <1>4 DEF Inv, BucketInv
    <3>3. CASE i > gone
      <4>1. i - gone \in 1..k /\ i - gone \in 1..Len(bucket) /\ gone + (i - gone) = i
        BY <3>3, <1>2, <1>3
      <4>2. bucket[i - gone] \in Nat /\ bucket[i - gone] <= stamp - Window
        BY <4>1, <2>4, <1>3
      <4>3. admitted[i] <= bucket[i - gone] + Delay
        BY <4>1, <2>4
      <4>4. /\ admitted[i] \in Nat /\ stamp \in Nat /\ stamp <= time
            /\ time \in Nat /\ time' = time
        BY <3>1, <2>2, <1>1, <1>4
      <4>5. Window \in Nat /\ Delay \in Nat
        BY ConstantTypes
      <4>6. admitted[i] <= stamp - Window + Delay
        BY <4>2, <4>3, <4>4, <4>5
      <4>7. admitted[i] + Window - Delay <= time
        BY <4>4, <4>5, <4>6
      <4> QED BY <3>4, <4>4, <4>7
    <3> QED BY <3>2, <3>3, <1>2
  <2>6. \A i \in 1..Len(bucket') :
           /\ bucket'[i] <= admitted'[gone + k + i]
           /\ admitted'[gone + k + i] <= bucket'[i] + Delay
    <3> SUFFICES ASSUME NEW i \in 1..Len(bucket')
                 PROVE  /\ bucket'[i] <= admitted'[gone + k + i]
                        /\ admitted'[gone + k + i] <= bucket'[i] + Delay
      OBVIOUS
    <3>1. CASE i <= Len(bucket) - k
      <4>1. k + i \in 1..Len(bucket) /\ bucket'[i] = bucket[k + i]
        BY <3>1, <1>2, <1>3
      <4>2. gone + (k + i) \in 1..Len(admitted) /\ gone + (k + i) = gone + k + i
        BY <4>1, <2>4, <1>2, <1>3
      <4>3. admitted'[gone + k + i] = admitted[gone + (k + i)]
        BY <4>2, <1>4
      <4> QED BY <4>1, <4>3, <2>4
    <3>2. CASE i = Len(bucket) - k + 1
      <4>1. gone + k + i = Len(admitted) + 1
        BY <3>2, <1>2, <1>3
      <4> QED BY <4>1, <3>2, <1>1, <1>3, <1>4
    <3>3. i <= Len(bucket) - k \/ i = Len(bucket) - k + 1
      BY <1>2, <1>3
    <3> QED BY <3>1, <3>2, <3>3
  <2> QED BY <2>1, <2>3, <2>5, <2>6, <1>4 DEF BucketInv
<1> QED BY <1>5, <1>6 DEF Inv

LEMMA InvRefuse == ASSUME NEW t \in Threads PROVE Inv /\ Refuse(t) => Inv'
<1> SUFFICES ASSUME Inv, Refuse(t) PROVE Inv'
  OBVIOUS
<1>1. /\ bucket' = bucket /\ Len(bucket) = Limit /\ bucket[1] \in Nat
      /\ time' = time /\ admitted' = admitted
      /\ thread' = [thread EXCEPT ![t] = Idle]
  BY RefusePopsNothing DEF Inv, Refuse
<1>2. thread[t].stamp \in Nat /\ thread[t].stamp <= time /\ time \in Nat
  BY StampType DEF Inv, TypeOK, StampsOK, Refuse
<1> DEFINE retry == RetryAfter(bucket[1], thread[t].stamp)
<1>3. promised' = promised \cup {time + PerSecond * retry}
  BY <1>1 DEF Refuse
<1>4. retry \in Nat /\ bucket[1] + Window <= thread[t].stamp + PerSecond * retry
  BY <1>1, <1>2, RetryAfterLongEnough
<1> HIDE DEF retry
<1>5. PerSecond * retry \in Nat
  BY <1>4, ConstantTypes
<1>6. time + PerSecond * retry \in Nat /\ bucket[1] + Window <= time + PerSecond * retry
  BY <1>1, <1>2, <1>4, <1>5, ConstantTypes
<1>7. TypeOK' /\ StampsOK'
  BY <1>1, <1>3, <1>6, StampsKept DEF Inv, TypeOK
<1>8. BucketInv'
  BY <1>1, <1>3, <1>6 DEF Inv, BucketInv
<1> QED BY <1>7, <1>8 DEF Inv

\* TypeOK, StampsOK and BucketInv hold in every reachable state.
THEOREM InvCorrect == Spec => []Inv
<1>1. Inv /\ [Next]_vars => Inv'
  <2> SUFFICES ASSUME Inv, [Next]_vars PROVE Inv'
    OBVIOUS
  <2>1. CASE Tick
    BY <2>1, InvTick
  <2>2. ASSUME NEW t \in Threads, Stamp(t) \/ Admit(t) \/ Refuse(t)
        PROVE  Inv'
    BY <2>2, InvStamp, InvAdmit, InvRefuse
  <2>3. CASE UNCHANGED vars
    BY <2>3 DEF vars, Inv, TypeOK, StampsOK, BucketInv
  <2> QED BY <2>1, <2>2, <2>3 DEF Next
<1> QED BY InvInit, <1>1, PTL DEF Spec

\* Every variable keeps its type, for every limit and window (rate_limit.py:51-99).
THEOREM TypeCorrect == Spec => []TypeOK
<1>1. Inv => TypeOK
  BY DEF Inv
<1> QED BY <1>1, InvCorrect, PTL

\* The bucket is what is left of the admitted requests, and what was popped
\* from it is old (RateLimiter.check), for every number of threads.
THEOREM BucketCorrect == Spec => [](TypeOK /\ BucketInv)
<1>1. Inv => TypeOK /\ BucketInv
  BY DEF Inv
<1> QED BY <1>1, InvCorrect, PTL

-----------------------------------------------------------------------------

\* A client that waits as long as Retry-After says is not refused again unless
\* another request of the bucket was admitted in between: by the invariant its
\* promise covers the oldest entry, and the refusal found that entry alive.
THEOREM RetryAfterCorrect == Spec => RetryAfterIsEnough
<1>1. ASSUME Inv, NEW t \in Threads, Refuse(t), NEW p \in promised
      PROVE  thread[t].stamp < p
  <2>1. /\ bucket[1] \in Nat
        /\ bucket[1] > thread[t].stamp - Window
    BY <1>1, RefusePopsNothing DEF Inv
  <2>2. p \in Nat /\ bucket[1] + Window <= p
    BY <1>1 DEF Inv, TypeOK, BucketInv
  <2>3. thread[t].stamp \in Nat
    BY <1>1, StampType DEF Inv, Refuse
  <2> QED BY <2>1, <2>2, <2>3, ConstantTypes
<1>2. Inv => [\A t \in Threads : Refuse(t) => \A p \in promised : thread[t].stamp < p]_vars
  BY <1>1
<1> QED BY <1>2, InvCorrect, PTL DEF RetryAfterIsEnough

-----------------------------------------------------------------------------

\* An admission finds that the request Limit admissions ago has left the window:
\* it was popped before, or this admission pops it.
LEMMA AdmitIsAdmit ==
  ASSUME Inv, NEW t \in Threads, Admit(t)
  PROVE  Promise!Admit
<1> DEFINE stamp == thread[t].stamp
           gone  == Len(admitted) - Len(bucket)
           i     == Len(admitted) - Limit + 1
<1>1. /\ stamp \in Nat /\ time \in Nat /\ stamp <= time
  BY StampType DEF Inv, TypeOK, StampsOK, Admit
<1>2. /\ Len(bucket) \in Nat /\ Len(admitted) \in Nat /\ gone \in Nat
      /\ Len(admitted) = gone + Len(bucket)
      /\ \A n \in 1..Len(admitted) : admitted[n] \in Nat
  BY DEF Inv, TypeOK, BucketInv
<1>3. PICK k \in 0..Len(bucket) :
        /\ \A j \in 1..k : bucket[j] <= stamp - Window
        /\ Len(bucket) - k < Limit
  BY AdmitEffect DEF Inv
<1>4. admitted' = Append(admitted, time) /\ UNCHANGED time
  BY DEF Admit
<1>5. ASSUME Len(admitted) >= Limit
      PROVE  admitted[i] + (Window - Delay) <= time
  <2>1. i \in 1..Len(admitted) /\ i <= gone + k
    BY <1>2, <1>3, <1>5, ConstantTypes
  <2>2. CASE i <= gone
    <3>1. i \in 1..gone
      BY <2>1, <2>2, <1>2
    <3>2. admitted[i] + Window - Delay <= time
      BY <3>1 DEF Inv, BucketInv
    <3> QED BY <3>2, <2>1, <1>1, <1>2, ConstantTypes
  <2>3. CASE i > gone
    <3> DEFINE j == i - gone
    <3>1. j \in 1..k /\ j \in 1..Len(bucket) /\ gone + j = i
      BY <2>1, <2>3, <1>2, <1>3
    <3>2. bucket[j] \in Nat /\ admitted[gone + j] <= bucket[j] + Delay
      <4>1. bucket[j] \in Nat
        BY <3>1 DEF Inv, TypeOK
      <4>2. \A n \in 1..Len(bucket) : admitted[gone + n] <= bucket[n] + Delay
        BY DEF Inv, BucketInv
      <4> QED BY <3>1, <4>1, <4>2
    <3> HIDE DEF j
    <3>3. admitted[i] <= bucket[j] + Delay /\ bucket[j] <= stamp - Window
      BY <3>1, <3>2, <1>3
    <3>4. admitted[i] \in Nat
      BY <2>1, <1>2
    <3> HIDE DEF i, stamp
    <3> QED BY <3>2, <3>3, <3>4, <1>1, ConstantTypes
  <2>4. i \in Int /\ gone \in Int
    BY <1>2, ConstantTypes
  <2> QED BY <2>2, <2>3, <2>4
<1> QED BY <1>4, <1>5 DEF Promise!Admit

\* The limiter keeps the promise of RequestWindow with a window that is shorter
\* than its own by the delay between reading the clock and taking the lock.
THEOREM WindowImplemented == Spec => ImplementsWindow
<1>1. Init => Promise!Init
  BY DEF Init, Promise!Init
<1>2. Inv /\ [Next]_vars => [Promise!Next]_<<time, admitted>>
  <2> SUFFICES ASSUME Inv, [Next]_vars PROVE [Promise!Next]_<<time, admitted>>
    OBVIOUS
  <2>1. CASE Tick
    <3>1. time \in Nat /\ time' = time + 1 /\ admitted' = admitted
      BY <2>1 DEF Tick, Inv, TypeOK
    <3> QED BY <3>1 DEF Promise!Next, Promise!Pass
  <2>2. ASSUME NEW t \in Threads, Stamp(t) \/ Refuse(t)
        PROVE  UNCHANGED <<time, admitted>>
    BY <2>2 DEF Stamp, Refuse
  <2>3. ASSUME NEW t \in Threads, Admit(t)
        PROVE  Promise!Next
    BY <2>3, AdmitIsAdmit DEF Promise!Next
  <2>4. CASE UNCHANGED vars
    BY <2>4 DEF vars
  <2> QED BY <2>1, <2>2, <2>3, <2>4 DEF Next
<1> QED BY <1>1, <1>2, InvCorrect, PTL DEF Spec, ImplementsWindow, Promise!Spec

=============================================================================
