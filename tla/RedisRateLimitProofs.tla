------------------------ MODULE RedisRateLimitProofs ------------------------
(* Proofs about RedisRateLimit, for every number of processes and calls,    *)
(* every limit and window, and all clocks at most Skew apart.               *)
EXTENDS RedisRateLimit, FiniteSetTheorems, TLAPS

\* Rounded up, a number of ticks is not cut short.
LEMMA RoundedUp ==
  ASSUME NEW n \in Int, NEW q \in Nat \ {0}
  PROVE  /\ (n + q - 1) \div q \in Int
         /\ q * ((n + q - 1) \div q) >= n
<1> DEFINE m == n + q - 1
<1>1. m \in Int /\ q \in Int /\ q > 0
  OBVIOUS
<1> HIDE DEF m
<1>2. m \div q \in Int /\ m % q \in 0..(q - 1)
  BY <1>1
<1>3. m = q * (m \div q) + (m % q)
  BY <1>1
<1>4. q * (m \div q) \in Int
  BY <1>1, <1>2
<1>5. q * (m \div q) >= m - (q - 1)
  BY <1>1, <1>2, <1>3, <1>4
<1> QED BY <1>1, <1>2, <1>4, <1>5 DEF m

LEMMA ConstantTypes ==
  /\ Limit \in Nat \ {0}
  /\ PerSecond \in Nat \ {0}
  /\ Window \in Nat
  /\ Delay \in Nat
  /\ Skew \in Nat
  /\ \A s \in Servers : Offset[s] \in Nat
  /\ \A s, t \in Servers : Offset[s] - Offset[t] <= Skew
BY RedisAssumption DEF Window

\* Retry-After reaches to the end of the window of the oldest entry.
LEMMA RetryAfterLongEnough ==
  ASSUME NEW oldest \in Nat, NEW now \in Nat
  PROVE  /\ RetryAfter(oldest, now) \in Nat
         /\ PerSecond * RetryAfter(oldest, now) \in Nat
         /\ oldest + Window <= now + PerSecond * RetryAfter(oldest, now)
<1> DEFINE n == Window - (now - oldest)
           seconds == (n + PerSecond - 1) \div PerSecond
<1>1. n \in Int
  BY ConstantTypes
<1>2. seconds \in Int /\ PerSecond * seconds >= n
  BY <1>1, ConstantTypes, RoundedUp
<1> HIDE DEF n, seconds
<1>3. RetryAfter(oldest, now) = IF seconds > 1 THEN seconds ELSE 1
  BY DEF RetryAfter, n, seconds
<1>4. PerSecond * seconds \in Int
  BY <1>2, ConstantTypes
<1>5. CASE seconds > 1
  <2>1. RetryAfter(oldest, now) = seconds /\ seconds \in Nat
    BY <1>2, <1>3, <1>5
  <2>2. PerSecond * seconds \in Nat
    BY <2>1, ConstantTypes
  <2> QED BY <2>1, <2>2, <1>1, <1>2, ConstantTypes DEF n
<1>6. CASE ~(seconds > 1)
  <2>1. RetryAfter(oldest, now) = 1
    BY <1>3, <1>6
  <2>2. PerSecond * seconds <= PerSecond
    BY <1>2, <1>6, ConstantTypes
  <2> QED BY <2>1, <2>2, <1>1, <1>2, <1>4, ConstantTypes DEF n
<1> QED BY <1>5, <1>6

-----------------------------------------------------------------------------

(* The inductive invariant. *)
Inv == TypeOK /\ StampsOK /\ SetInv /\ PromisedInv

\* What is known of a call whose script is about to run.
LEMMA CallType ==
  ASSUME TypeOK, StampsOK, NEW c \in Calls, call[c].pc = "eval"
  PROVE  /\ call[c].stamp \in Nat /\ call[c].by \in Servers
         /\ Offset[call[c].by] \in Nat
         /\ Read(c) \in Int /\ time \in Nat
         /\ Read(c) = call[c].stamp - Offset[call[c].by]
         /\ Read(c) <= time /\ time <= Read(c) + Delay
<1>1. call[c] \in [pc : {"eval"}, by : Servers, stamp : Nat] \cup {Idle}
  BY DEF TypeOK
<1>2. call[c].stamp \in Nat /\ call[c].by \in Servers
  BY <1>1 DEF Idle
<1> QED BY <1>2, ConstantTypes DEF TypeOK, StampsOK, Read

\* The sets are finite, and the script only removes members.
LEMMA SetsFinite ==
  ASSUME TypeOK, NEW now
  PROVE  /\ IsFiniteSet(scores) /\ Cardinality(scores) \in Nat
         /\ Live(now) \subseteq scores
         /\ IsFiniteSet(Live(now)) /\ Cardinality(Live(now)) \in Nat
<1>1. Len(score) \in Nat /\ scores \subseteq 1..Len(score)
  BY DEF TypeOK
<1>2. IsFiniteSet(1..Len(score))
  BY <1>1, FS_Interval
<1>3. IsFiniteSet(scores)
  BY <1>1, <1>2, FS_Subset
<1>4. Live(now) \subseteq scores
  BY DEF Live
<1>5. IsFiniteSet(Live(now))
  BY <1>3, <1>4, FS_Subset
<1> QED BY <1>3, <1>4, <1>5, FS_CardinalityType

\* Whoever is not in the set once the script has run was admitted a window,
\* less delay and skew, ago: it expired with the key, or the script removed it
\* because its stamp is old on the clock of the calling process.
LEMMA Gone ==
  ASSUME Inv, NEW c \in Calls, call[c].pc = "eval",
         NEW m \in 1..Len(admitted), m \notin Live(call[c].stamp)
  PROVE  admitted[m] + Window - Delay - Skew <= time
<1>1. /\ admitted[m] \in Nat /\ score[m] \in Nat /\ expires \in Nat /\ time \in Nat
      /\ m \in 1..Len(score)
  BY DEF Inv, TypeOK, SetInv
<1>0. Window \in Nat /\ Delay \in Nat /\ Skew \in Nat
  BY ConstantTypes
<1>2. CASE m \notin scores
  BY <1>2 DEF Inv, SetInv
<1>3. CASE m \in scores /\ time >= expires
  <2>1. admitted[m] + Window <= expires
    BY <1>3 DEF Inv, SetInv
  <2> QED BY <2>1, <1>1, <1>3, ConstantTypes
<1>4. CASE m \in scores /\ time < expires
  <2> DEFINE stamp == call[c].stamp
             by    == call[c].by
  <2>0. stamp \in Nat /\ ~(score[m] > stamp - Window)
    BY <1>4, CallType DEF Live, Inv
  <2>1. score[m] <= stamp - Window
    BY <2>0, <1>1, <1>0
  <2>2. PICK s \in Servers : admitted[m] <= score[m] - Offset[s] + Delay
    BY DEF Inv, SetInv
  <2>3. /\ stamp \in Nat /\ Offset[by] \in Nat
        /\ stamp - Offset[by] <= time
        /\ Offset[by] - Offset[s] <= Skew
        /\ Offset[s] \in Nat
    BY CallType, ConstantTypes DEF Inv
  <2> DEFINE a == admitted[m]
             x == score[m]
             o == Offset[s]
             p == Offset[by]
  <2>4. /\ a \in Int /\ x \in Int /\ o \in Int /\ p \in Int /\ stamp \in Int /\ time \in Int
        /\ a <= x - o + Delay /\ x <= stamp - Window
        /\ stamp - p <= time /\ p - o <= Skew
    BY <2>1, <2>2, <2>3, <1>1
  <2>5. a + Window - Delay - Skew <= time
    <3> HIDE DEF a, x, o, p, stamp, by
    <3> QED BY <2>4, <1>0
  <2> QED BY <2>5
<1> QED BY <1>1, <1>2, <1>3, <1>4

\* A full set of Limit members cannot lose one and still refuse.
LEMMA RefuseRemovesNothing ==
  ASSUME Inv, NEW c \in Calls, Refuse(c)
  PROVE  /\ scores' = scores
         /\ Cardinality(scores) = Limit
         /\ \A m \in scores : score[m] > call[c].stamp - Window
<1> DEFINE live == Live(call[c].stamp)
<1>1. /\ IsFiniteSet(scores) /\ Cardinality(scores) \in Nat
      /\ live \subseteq scores /\ IsFiniteSet(live) /\ Cardinality(live) \in Nat
  BY SetsFinite DEF Inv
<1>2. Cardinality(live) >= Limit /\ scores' = live /\ Cardinality(scores) <= Limit
  BY DEF Refuse, Inv, TypeOK
<1> HIDE DEF live
<1>3. Cardinality(live) <= Cardinality(scores)
  BY <1>1, FS_Subset
<1>4. Cardinality(live) = Cardinality(scores) /\ Cardinality(scores) = Limit
  BY <1>1, <1>2, <1>3, ConstantTypes
<1>5. live = scores
  BY <1>1, <1>4, FS_Subset
<1>6. scores # {}
  BY <1>4, FS_EmptySet, ConstantTypes
<1>7. \A m \in scores : score[m] > call[c].stamp - Window
  BY <1>5, <1>6 DEF live, Live
<1> QED BY <1>2, <1>4, <1>5, <1>7

-----------------------------------------------------------------------------

LEMMA InvInit == Init => Inv
<1> SUFFICES ASSUME Init PROVE Inv
  OBVIOUS
<1>1. Cardinality(scores) = 0 /\ Len(score) = 0 /\ Len(admitted) = 0
  BY FS_EmptySet DEF Init
<1> QED BY <1>1, ConstantTypes DEF Init, Inv, TypeOK, StampsOK, SetInv, PromisedInv, Idle

LEMMA InvTick == Inv /\ Tick => Inv'
<1> SUFFICES ASSUME Inv, Tick PROVE Inv'
  OBVIOUS
<1>1. time' = time + 1 /\ time \in Nat
  BY DEF Inv, Tick, TypeOK
<1>2. TypeOK' /\ PromisedInv'
  BY <1>1 DEF Inv, Tick, TypeOK, PromisedInv
<1>3. StampsOK'
  <2> SUFFICES ASSUME NEW c \in Calls, call[c].pc = "eval"
               PROVE  Read(c) <= time' /\ time' <= Read(c) + Delay
    BY DEF StampsOK, Read, Tick
  <2>1. Read(c) \in Int /\ Read(c) <= time
    BY CallType DEF Inv
  <2>2. time - Read(c) < Delay
    BY DEF Tick
  <2> QED BY <2>1, <2>2, <1>1, ConstantTypes
<1>4. SetInv'
  <2>1. \A m \in 1..Len(admitted) : admitted[m] \in Nat
    BY DEF Inv, TypeOK
  <2>2. UNCHANGED <<scores, score, expires, admitted>>
    BY DEF Tick
  <2> QED BY <2>1, <2>2, <1>1, ConstantTypes DEF Inv, SetInv
<1> QED BY <1>2, <1>3, <1>4 DEF Inv

LEMMA InvStamp == ASSUME NEW c \in Calls PROVE Inv /\ Stamp(c) => Inv'
<1> SUFFICES ASSUME Inv, Stamp(c) PROVE Inv'
  OBVIOUS
<1>1. PICK s \in Servers :
        call' = [call EXCEPT ![c] = [pc |-> "eval", by |-> s, stamp |-> time + Offset[s]]]
  BY DEF Stamp
<1>2. time \in Nat /\ Offset[s] \in Nat /\ time + Offset[s] \in Nat
  BY ConstantTypes DEF Inv, TypeOK
<1>3. TypeOK'
  BY <1>1, <1>2 DEF Inv, Stamp, TypeOK
<1>4. StampsOK'
  <2> SUFFICES ASSUME NEW d \in Calls, call'[d].pc = "eval"
               PROVE  Read(d)' <= time /\ time <= Read(d)' + Delay
    BY DEF StampsOK, Stamp
  <2>1. CASE d = c
    <3>1. Read(d)' = time + Offset[s] - Offset[s]
      <4>1. call'[d] = [pc |-> "eval", by |-> s, stamp |-> time + Offset[s]]
        BY <1>1, <2>1 DEF Inv, TypeOK
      <4>2. call'[d].stamp = time + Offset[s] /\ call'[d].by = s
        BY <4>1
      <4> QED BY <4>2, <1>2 DEF Read
    <3> QED BY <3>1, <1>2, ConstantTypes
  <2>2. CASE d # c
    <3>1. call'[d] = call[d]
      BY <1>1, <2>2 DEF Inv, TypeOK
    <3> QED BY <3>1 DEF Read, Inv, StampsOK
  <2> QED BY <2>1, <2>2
<1>5. SetInv' /\ PromisedInv'
  BY DEF Inv, Stamp, SetInv, PromisedInv
<1> QED BY <1>3, <1>4, <1>5 DEF Inv

\* A call that ends leaves the other calls' stamps as they are.
LEMMA StampsKept ==
  ASSUME Inv, NEW c \in Calls, call' = [call EXCEPT ![c] = Idle], time' = time
  PROVE  /\ call' \in [Calls -> [pc : {"eval"}, by : Servers, stamp : Nat] \cup {Idle}]
         /\ StampsOK'
<1>1. call' \in [Calls -> [pc : {"eval"}, by : Servers, stamp : Nat] \cup {Idle}]
  BY DEF Inv, TypeOK
<1>2. ASSUME NEW d \in Calls, call'[d].pc = "eval"
      PROVE  call'[d] = call[d]
  BY <1>2 DEF Inv, TypeOK, Idle
<1>3. StampsOK'
  BY <1>2 DEF Inv, StampsOK, Read
<1> QED BY <1>1, <1>3

LEMMA InvUnavailable == ASSUME NEW c \in Calls PROVE Inv /\ Unavailable(c) => Inv'
<1> SUFFICES ASSUME Inv, Unavailable(c) PROVE Inv'
  OBVIOUS
<1>1. call' = [call EXCEPT ![c] = Idle] /\ time' = time
  BY DEF Unavailable
<1>2. TypeOK' /\ StampsOK'
  BY <1>1, StampsKept DEF Inv, Unavailable, TypeOK
<1>3. SetInv' /\ PromisedInv'
  BY DEF Inv, Unavailable, SetInv, PromisedInv
<1> QED BY <1>2, <1>3 DEF Inv

LEMMA InvRefuse == ASSUME NEW c \in Calls PROVE Inv /\ Refuse(c) => Inv'
<1> SUFFICES ASSUME Inv, Refuse(c) PROVE Inv'
  OBVIOUS
<1>1. /\ scores' = scores /\ Cardinality(scores) = Limit
      /\ UNCHANGED <<time, score, admitted>>
      /\ expires' = time + Window
      /\ call' = [call EXCEPT ![c] = Idle]
  BY RefuseRemovesNothing DEF Refuse
<1>2. /\ call[c].stamp \in Nat /\ time \in Nat
      /\ Offset[call[c].by] \in Nat /\ call[c].by \in Servers
      /\ call[c].stamp - Offset[call[c].by] <= time
  BY CallType DEF Inv, Refuse
<1>3. SetInv'
  <2>1. \A m \in 1..Len(admitted) : admitted[m] \in Nat /\ admitted[m] <= time
    BY DEF Inv, TypeOK, SetInv
  <2>2. \A m \in scores : m \in 1..Len(admitted)
    BY DEF Inv, TypeOK, SetInv
  <2>3. \A m \in scores : admitted[m] + Window <= time + Window
    BY <2>1, <2>2, <1>2, ConstantTypes
  <2> QED BY <2>3, <1>1 DEF Inv, SetInv
<1>4. promised' \in SUBSET Nat /\ PromisedInv'
  <2>1. CASE UNCHANGED promised
    BY <2>1, <1>1 DEF Inv, TypeOK, PromisedInv
  <2>2. ASSUME NEW m \in scores,
               promised' = promised \cup
                 {time + PerSecond * RetryAfter(score[m], call[c].stamp)}
        PROVE  promised' \in SUBSET Nat /\ PromisedInv'
    <3> DEFINE wait == PerSecond * RetryAfter(score[m], call[c].stamp)
    <3>1. score[m] \in Nat
      BY DEF Inv, TypeOK
    <3>2. wait \in Nat /\ score[m] + Window <= call[c].stamp + wait
      BY <3>1, <1>2, RetryAfterLongEnough
    <3>3. promised' = promised \cup {time + wait}
      BY <2>2
    <3> HIDE DEF wait
    <3>4. promised' \in SUBSET Nat
      BY <3>2, <3>3, <1>2 DEF Inv, TypeOK
    <3>5. ASSUME NEW s \in Servers
          PROVE  score[m] - Offset[s] + Window <= time + wait + Skew
      <4>1. Offset[call[c].by] - Offset[s] <= Skew /\ Offset[s] \in Nat
        BY <1>2, ConstantTypes
      <4>2. call[c].stamp - Offset[s] <= time + Skew
        BY <4>1, <1>2, ConstantTypes
      <4> QED BY <4>1, <4>2, <3>1, <3>2, <1>2, ConstantTypes
    <3>6. PromisedInv'
      BY <3>3, <3>5, <1>1 DEF Inv, PromisedInv
    <3> QED BY <3>4, <3>6
  <2> QED BY <2>1, <2>2, <1>1 DEF Refuse
<1>5. TypeOK' /\ StampsOK'
  <2>1. time + Window \in Nat
    BY <1>2, ConstantTypes
  <2> QED BY <2>1, <1>1, <1>4, StampsKept DEF Inv, TypeOK
<1> QED BY <1>3, <1>4, <1>5 DEF Inv

LEMMA InvAdmit == ASSUME NEW c \in Calls PROVE Inv /\ Admit(c) => Inv'
<1> SUFFICES ASSUME Inv, Admit(c) PROVE Inv'
  OBVIOUS
<1> DEFINE stamp == call[c].stamp
           live  == Live(stamp)
           new   == Len(score) + 1
<1>1. /\ stamp \in Nat /\ time \in Nat /\ call[c].by \in Servers
      /\ Offset[call[c].by] \in Nat
      /\ stamp - Offset[call[c].by] <= time
      /\ time <= stamp - Offset[call[c].by] + Delay
  BY CallType DEF Inv, Admit
<1>2. /\ score \in Seq(Nat) /\ admitted \in Seq(Nat)
      /\ Len(score) \in Nat /\ Len(admitted) = Len(score)
      /\ \A m \in 1..Len(score) : admitted[m] \in Nat /\ admitted[m] <= time
  BY DEF Inv, TypeOK, SetInv
<1>3. /\ live \subseteq scores /\ scores \subseteq 1..Len(score)
      /\ IsFiniteSet(live) /\ Cardinality(live) \in Nat /\ Cardinality(live) < Limit
  BY SetsFinite DEF Inv, TypeOK, Admit
<1>4. /\ scores' = live \cup {new} /\ expires' = time + Window
      /\ time' = time /\ promised' = {} /\ call' = [call EXCEPT ![c] = Idle]
  BY DEF Admit
<1>5. /\ score' \in Seq(Nat) /\ Len(score') = new
      /\ \A m \in 1..Len(score) : score'[m] = score[m]
      /\ score'[new] = stamp
  BY <1>1, <1>2 DEF Admit
<1>6. /\ admitted' \in Seq(Nat) /\ Len(admitted') = new
      /\ \A m \in 1..Len(score) : admitted'[m] = admitted[m]
      /\ admitted'[new] = time
  BY <1>1, <1>2 DEF Admit
<1>7. \A m \in 1..Len(score) :
        m \notin live => admitted[m] + Window - Delay - Skew <= time
  BY <1>2, Gone DEF Admit
<1> HIDE DEF stamp, live
<1>8. new \in Nat /\ 1..new = (1..Len(score)) \cup {new}
  BY <1>2
<1> HIDE DEF new
<1>9. TypeOK'
  <2>1. Cardinality(scores') <= Limit
    <3>1. Cardinality(scores') = IF new \in live THEN Cardinality(live) ELSE Cardinality(live) + 1
      BY <1>3, <1>4, FS_AddElement
    <3> QED BY <3>1, <1>3, ConstantTypes
  <2>2. scores' \subseteq 1..Len(score')
    BY <1>3, <1>4, <1>5, <1>8
  <2>3. time + Window \in Nat
    BY <1>1, ConstantTypes
  <2> QED BY <2>1, <2>2, <2>3, <1>1, <1>4, <1>5, <1>6, StampsKept DEF TypeOK
<1>10. SetInv'
  <2>1. Len(score') = Len(admitted')
    BY <1>5, <1>6
  <2>2. ASSUME NEW m \in 1..Len(admitted')
        PROVE  /\ admitted'[m] <= time'
               /\ \E s \in Servers : score'[m] - Offset[s] <= admitted'[m]
                                     /\ admitted'[m] <= score'[m] - Offset[s] + Delay
               /\ m \notin scores' => admitted'[m] + Window - Delay - Skew <= time'
    <3>1. CASE m \in 1..Len(score)
      <4>1. \E s \in Servers : score[m] - Offset[s] <= admitted[m]
                               /\ admitted[m] <= score[m] - Offset[s] + Delay
        BY <3>1, <1>2 DEF Inv, SetInv
      <4> QED BY <3>1, <4>1, <1>2, <1>4, <1>5, <1>6, <1>7
    <3>2. CASE m = new
      <4>1. admitted'[m] = time /\ score'[m] = stamp /\ m \in scores'
        BY <3>2, <1>4, <1>5, <1>6
      <4> QED BY <4>1, <1>1, <1>4
    <3> QED BY <3>1, <3>2, <1>6, <1>8
  <2>3. ASSUME NEW m \in 1..Len(admitted'), NEW n \in 1..Len(admitted'), m < n
        PROVE  admitted'[m] <= admitted'[n]
    <3>1. m \in 1..Len(score)
      BY <2>3, <1>2, <1>6 DEF new
    <3>2. CASE n \in 1..Len(score)
      BY <2>3, <3>1, <3>2, <1>2, <1>6 DEF Inv, SetInv
    <3>3. CASE n = new
      BY <3>1, <3>3, <1>2, <1>6
    <3> QED BY <3>2, <3>3, <1>6, <1>8
  <2>4. ASSUME NEW m \in scores'
        PROVE  admitted'[m] + Window <= expires'
    <3>1. m \in 1..new /\ admitted'[m] \in Nat /\ admitted'[m] <= time
      BY <1>1, <1>2, <1>3, <1>4, <1>6, <1>8
    <3> QED BY <3>1, <1>1, <1>4, ConstantTypes
  <2> QED BY <2>1, <2>2, <2>3, <2>4, <1>9 DEF SetInv
<1>11. PromisedInv'
  BY <1>4 DEF PromisedInv
<1>12. StampsOK'
  BY <1>4, StampsKept
<1> QED BY <1>9, <1>10, <1>11, <1>12 DEF Inv

\* SetInv holds in every reachable state: the sorted set has one member per
\* admitted request, and a member that is gone is old (rate_limit.py:19-35).
THEOREM SetCorrect == Spec => [](TypeOK /\ StampsOK /\ SetInv /\ PromisedInv)
<1>1. Inv /\ [Next]_vars => Inv'
  <2> SUFFICES ASSUME Inv, [Next]_vars PROVE Inv'
    OBVIOUS
  <2>1. CASE Tick
    BY <2>1, InvTick
  <2>2. ASSUME NEW c \in Calls, Stamp(c) \/ Admit(c) \/ Refuse(c) \/ Unavailable(c)
        PROVE  Inv'
    BY <2>2, InvStamp, InvAdmit, InvRefuse, InvUnavailable
  <2>3. CASE UNCHANGED vars
    BY <2>3 DEF vars, Inv, TypeOK, StampsOK, SetInv, PromisedInv, Read
  <2> QED BY <2>1, <2>2, <2>3 DEF Next
<1>2. Inv => TypeOK /\ StampsOK /\ SetInv /\ PromisedInv
  BY DEF Inv
<1> QED BY InvInit, <1>1, <1>2, PTL DEF Spec

-----------------------------------------------------------------------------

\* Every variable keeps its type, for any number of processes and calls.
THEOREM TypeCorrect == Spec => []TypeOK
BY SetCorrect, PTL

\* While nobody is let in the set stays full, and every time a client was told to
\* come back is past the window of one of its members, whichever process looks
\* (the script, rate_limit.py:19-35, and the rounding of Retry-After).
THEOREM PromisesKept == Spec => []PromisedInv
BY SetCorrect, PTL

\* A client that waits as long as Retry-After says, and for the difference of
\* the clocks, is not refused again unless another request was admitted: the
\* member its promise is about is still there, and was found young.
THEOREM RetryAfterCorrect == Spec => RetryAfterIsEnough
<1>1. ASSUME Inv, NEW c \in Calls, Refuse(c), NEW p \in promised
      PROVE  Read(c) < p + Skew
  <2>1. \A m \in scores : score[m] > call[c].stamp - Window
    BY <1>1, RefuseRemovesNothing
  <2>2. PICK m \in scores : \A s \in Servers : score[m] - Offset[s] + Window <= p + Skew
    BY <1>1 DEF Inv, PromisedInv
  <2>3. /\ call[c].stamp \in Nat /\ Offset[call[c].by] \in Nat
        /\ Read(c) = call[c].stamp - Offset[call[c].by]
        /\ score[m] - Offset[call[c].by] + Window <= p + Skew
    BY <1>1, <2>2, CallType DEF Inv, Refuse
  <2>4. score[m] \in Nat /\ p \in Nat
    BY <1>1, <2>2 DEF Inv, TypeOK
  <2> QED BY <2>1, <2>3, <2>4, ConstantTypes
<1>2. Inv => [\A c \in Calls : Refuse(c) => \A p \in promised : Read(c) < p + Skew]_vars
  BY <1>1
<1>3. TypeOK /\ StampsOK /\ SetInv /\ PromisedInv => Inv
  BY DEF Inv
<1> QED BY <1>2, <1>3, SetCorrect, PTL DEF RetryAfterIsEnough

-----------------------------------------------------------------------------

\* Were the request Limit admissions ago still in the window, so would be all
\* that came after it; none of these is gone, and the set would be full.
LEMMA AdmitIsAdmit ==
  ASSUME Inv, NEW c \in Calls, Admit(c)
  PROVE  Promise!Admit
<1> DEFINE live == Live(call[c].stamp)
           last == Len(admitted)
           i    == last - Limit + 1
<1>1. last \in Nat /\ time \in Nat /\ \A m \in 1..last : admitted[m] \in Nat
  BY DEF Inv, TypeOK
<1>2. IsFiniteSet(live) /\ Cardinality(live) \in Nat /\ Cardinality(live) < Limit
  BY SetsFinite DEF Inv, Admit
<1>3. \A m \in 1..last : m \notin live => admitted[m] + Window - Delay - Skew <= time
  BY Gone DEF Admit
<1>4. \A m, n \in 1..last : m < n => admitted[m] <= admitted[n]
  BY DEF Inv, SetInv
<1>5. admitted' = Append(admitted, time) /\ UNCHANGED time
  BY DEF Admit
<1> HIDE DEF live
<1>6. ASSUME last >= Limit
      PROVE  admitted[i] + (Window - Delay - Skew) <= time
  <2>1. i \in 1..last
    BY <1>1, <1>6, ConstantTypes
  <2>2. SUFFICES ASSUME ~(admitted[i] + (Window - Delay - Skew) <= time)
                 PROVE  FALSE
    OBVIOUS
  <2>3. i..last \subseteq live
    <3> SUFFICES ASSUME NEW m \in i..last, m \notin live
                 PROVE  FALSE
      OBVIOUS
    <3>1. m \in 1..last /\ (m = i \/ i < m)
      BY <2>1, <1>1
    <3>2. admitted[i] <= admitted[m] /\ admitted[i] \in Nat /\ admitted[m] \in Nat
      BY <3>1, <2>1, <1>1, <1>4
    <3>3. admitted[m] + Window - Delay - Skew <= time
      BY <3>1, <1>3
    <3> HIDE DEF i
    <3> QED BY <2>2, <3>2, <3>3, <1>1, ConstantTypes
  <2>4. Cardinality(i..last) = Limit
    <3>1. i \in Int /\ last \in Int /\ ~(i > last) /\ last - i + 1 = Limit
      BY <2>1, <1>1, ConstantTypes
    <3> HIDE DEF i, last
    <3>2. Cardinality(i..last) = IF i > last THEN 0 ELSE last - i + 1
      BY <3>1, FS_Interval
    <3> QED BY <3>1, <3>2
  <2>5. Cardinality(i..last) <= Cardinality(live)
    BY <2>3, <1>2, FS_Subset
  <2> QED BY <2>4, <2>5, <1>2, ConstantTypes
<1> QED BY <1>5, <1>6 DEF Promise!Admit

\* The shared set keeps the promise of RequestWindow for all API processes
\* together, with a window that is shorter than its own by Delay and by Skew.
THEOREM WindowImplemented == Spec => ImplementsWindow
<1>1. Init => Promise!Init
  BY DEF Init, Promise!Init
<1>2. Inv /\ [Next]_vars => [Promise!Next]_<<time, admitted>>
  <2> SUFFICES ASSUME Inv, [Next]_vars PROVE [Promise!Next]_<<time, admitted>>
    OBVIOUS
  <2>1. CASE Tick
    <3>1. time \in Nat /\ time' = time + 1 /\ admitted' = admitted
      BY <2>1 DEF Tick, Inv, TypeOK
    <3> QED BY <3>1 DEF Promise!Next, Promise!Pass
  <2>2. ASSUME NEW c \in Calls, Stamp(c) \/ Refuse(c) \/ Unavailable(c)
        PROVE  UNCHANGED <<time, admitted>>
    BY <2>2 DEF Stamp, Refuse, Unavailable
  <2>3. ASSUME NEW c \in Calls, Admit(c)
        PROVE  Promise!Next
    BY <2>3, AdmitIsAdmit DEF Promise!Next
  <2>4. CASE UNCHANGED vars
    BY <2>4 DEF vars
  <2> QED BY <2>1, <2>2, <2>3, <2>4 DEF Next
<1>3. TypeOK /\ StampsOK /\ SetInv /\ PromisedInv => Inv
  BY DEF Inv
<1> QED BY <1>1, <1>2, <1>3, SetCorrect, PTL DEF Spec, ImplementsWindow, Promise!Spec

=============================================================================
