-------------------------- MODULE OperationsProofs --------------------------
(* Theorems about Operations: types, the event stores, and what the pages    *)
(* say and list.                                                             *)
EXTENDS Operations, SequenceTheorems, TLAPS

-----------------------------------------------------------------------------
(* The last elements of a sequence. *)

\* Two sequences with the same elements at the same places are equal.
LEMMA SameSequence ==
  ASSUME NEW S, NEW s \in Seq(S), NEW t \in Seq(S), Len(s) = Len(t),
         \A i \in 1..Len(s) : s[i] = t[i]
  PROVE  s = t
OBVIOUS

\* What s[-n:] is.
LEMMA LatestIs ==
  ASSUME NEW S, NEW s \in Seq(S), NEW n \in Nat
  PROVE  /\ Latest(s, n) \in Seq(S)
         /\ Len(Latest(s, n)) = IF Len(s) <= n THEN Len(s) ELSE n
         /\ \A i \in 1..Len(Latest(s, n)) :
              Latest(s, n)[i] = s[Len(s) - Len(Latest(s, n)) + i]
<1>1. CASE Len(s) <= n
  BY <1>1 DEF Latest
<1>2. CASE ~(Len(s) <= n)
  <2> DEFINE m == Len(s) - n + 1
             t == SubSeq(s, m, Len(s))
  <2>1. m \in 1..(Len(s) + 1) /\ Len(s) \in Nat
    BY <1>2
  <2>2. t \in Seq(S) /\ Len(t) = n /\ \A i \in 1..n : t[i] = s[m + i - 1]
    <3>1. \A i \in m..Len(s) : s[i] \in S
      BY <2>1
    <3>2. Len(t) = IF m <= Len(s) THEN Len(s) - m + 1 ELSE 0
      BY <2>1
    <3>3. t = [i \in 1..(Len(s) - m + 1) |-> s[i + m - 1]]
      BY <2>1
    <3> QED BY <1>2, <2>1, <3>1, <3>2, <3>3
  <2>3. Latest(s, n) = t
    BY <1>2 DEF Latest
  <2> HIDE DEF t
  <2>4. ASSUME NEW i \in 1..n PROVE t[i] = s[Len(s) - n + i]
    <3>1. m + i - 1 = Len(s) - n + i
      BY <2>1
    <3> QED BY <2>2, <3>1
  <2> QED BY <1>2, <2>2, <2>3, <2>4
<1> QED BY <1>1, <1>2

\* The last of the last are the last.
LEMMA LatestOfLatest ==
  ASSUME NEW S, NEW s \in Seq(S), NEW n \in Nat, NEW m \in Nat, m <= n
  PROVE  Latest(Latest(s, n), m) = Latest(s, m)
<1> DEFINE t == Latest(s, n)
           u == Latest(t, m)
           v == Latest(s, m)
<1>1. /\ t \in Seq(S) /\ Len(t) = IF Len(s) <= n THEN Len(s) ELSE n
      /\ \A i \in 1..Len(t) : t[i] = s[Len(s) - Len(t) + i]
  BY LatestIs
<1>2. /\ v \in Seq(S) /\ Len(v) = IF Len(s) <= m THEN Len(s) ELSE m
      /\ \A i \in 1..Len(v) : v[i] = s[Len(s) - Len(v) + i]
  BY LatestIs
<1> HIDE DEF t, v
<1>3. /\ u \in Seq(S) /\ Len(u) = IF Len(t) <= m THEN Len(t) ELSE m
      /\ \A i \in 1..Len(u) : u[i] = t[Len(t) - Len(u) + i]
  BY <1>1, LatestIs
<1> HIDE DEF u
<1>4. Len(s) \in Nat /\ Len(t) \in Nat /\ Len(u) = Len(v) /\ Len(v) \in Nat /\ Len(u) <= Len(t)
  BY <1>1, <1>2, <1>3
<1>5. ASSUME NEW i \in 1..Len(u) PROVE u[i] = v[i]
  <2>1. Len(t) - Len(u) + i \in 1..Len(t)
    BY <1>4
  <2>2. u[i] = s[Len(s) - Len(t) + (Len(t) - Len(u) + i)]
    BY <1>1, <1>3, <2>1
  <2>3. Len(s) - Len(t) + (Len(t) - Len(u) + i) = Len(s) - Len(v) + i
    BY <1>4
  <2> QED BY <1>2, <1>4, <2>2, <2>3
<1>6. u = v
  BY <1>2, <1>3, <1>4, <1>5, SameSequence
<1> QED BY <1>6 DEF t, u, v

\* Trimming before more is recorded makes no difference.
LEMMA LatestOfMore ==
  ASSUME NEW S, NEW s \in Seq(S), NEW new \in Seq(S), NEW n \in Nat
  PROVE  Latest(Latest(s, n) \o new, n) = Latest(s \o new, n)
<1> DEFINE t == Latest(s, n)
           a == t \o new
           b == s \o new
           u == Latest(a, n)
           v == Latest(b, n)
<1>1. t \in Seq(S) /\ (Len(t) = IF Len(s) <= n THEN Len(s) ELSE n)
  BY LatestIs
<1>2. \A i \in 1..Len(t) : t[i] = s[Len(s) - Len(t) + i]
  BY LatestIs
<1>t. t \in Seq(S)
  BY <1>1
<1> HIDE DEF t
<1>3. /\ a \in Seq(S) /\ Len(a) = Len(t) + Len(new)
      /\ \A i \in 1..(Len(t) + Len(new)) : a[i] = IF i <= Len(t) THEN t[i] ELSE new[i - Len(t)]
  BY <1>t, ConcatProperties
<1>4. /\ b \in Seq(S) /\ Len(b) = Len(s) + Len(new)
      /\ \A i \in 1..(Len(s) + Len(new)) : b[i] = IF i <= Len(s) THEN s[i] ELSE new[i - Len(s)]
  BY ConcatProperties
<1>a. a \in Seq(S) /\ b \in Seq(S)
  BY <1>3, <1>4
<1> HIDE DEF a, b
<1>5. /\ u \in Seq(S) /\ Len(u) = IF Len(a) <= n THEN Len(a) ELSE n
      /\ \A i \in 1..Len(u) : u[i] = a[Len(a) - Len(u) + i]
  BY <1>a, LatestIs
<1>6. /\ v \in Seq(S) /\ Len(v) = IF Len(b) <= n THEN Len(b) ELSE n
      /\ \A i \in 1..Len(v) : v[i] = b[Len(b) - Len(v) + i]
  BY <1>a, LatestIs
<1> HIDE DEF u, v
<1>7. Len(s) \in Nat /\ Len(t) \in Nat /\ Len(new) \in Nat
  BY <1>t
<1>8. Len(u) = Len(v) /\ Len(u) \in Nat /\ Len(u) <= Len(t) + Len(new) /\ Len(t) <= Len(s)
  BY <1>1, <1>3, <1>4, <1>5, <1>6, <1>7
<1>9. ASSUME NEW i \in 1..Len(u) PROVE u[i] = v[i]
  <2>0. /\ Len(t) + Len(new) - Len(u) + i \in 1..(Len(t) + Len(new))
        /\ Len(s) + Len(new) - Len(v) + i \in 1..(Len(s) + Len(new))
    BY <1>7, <1>8
  <2>1. PICK j \in 1..(Len(t) + Len(new)) : j = Len(t) + Len(new) - Len(u) + i
    BY <2>0
  <2>2. PICK k \in 1..(Len(s) + Len(new)) : k = Len(s) + Len(new) - Len(v) + i
    BY <2>0
  <2>3. u[i] = a[j] /\ v[i] = b[k]
    <3>1. u[i] = a[Len(a) - Len(u) + i]
      BY <1>5
    <3>2. v[i] = b[Len(b) - Len(v) + i]
      BY <1>6, <1>8
    <3> QED BY <1>3, <1>4, <2>1, <2>2, <3>1, <3>2
  <2>4. k = j + Len(s) - Len(t)
    BY <1>7, <1>8, <2>1, <2>2
  <2>5. CASE j <= Len(t)
    <3>1. a[j] = t[j] /\ t[j] = s[Len(s) - Len(t) + j]
      BY <1>2, <1>3, <1>7, <2>5
    <3>2. k <= Len(s) /\ Len(s) - Len(t) + j = k
      BY <1>7, <1>8, <2>4, <2>5
    <3>3. b[k] = s[k]
      BY <1>4, <3>2
    <3> QED BY <2>3, <3>1, <3>2, <3>3
  <2>6. CASE j > Len(t)
    <3>1. a[j] = new[j - Len(t)]
      BY <1>3, <1>7, <2>6
    <3>2. k > Len(s) /\ k - Len(s) = j - Len(t)
      BY <1>7, <1>8, <2>4, <2>6
    <3>3. b[k] = new[k - Len(s)]
      BY <1>4, <1>7, <3>2
    <3> QED BY <2>3, <3>1, <3>2, <3>3
  <2> QED BY <1>7, <2>5, <2>6
<1>10. u = v
  BY <1>5, <1>6, <1>8, <1>9, SameSequence
<1> QED BY <1>10 DEF t, a, b, u, v

LEMMA ReverseIs ==
  ASSUME NEW S, NEW s \in Seq(S)
  PROVE  /\ Reverse(s) \in Seq(S) /\ Len(Reverse(s)) = Len(s)
         /\ \A i \in 1..Len(s) : Reverse(s)[Len(s) - i + 1] = s[i]
<1>1. Reverse(s) = [i \in 1..Len(s) |-> s[(Len(s) - i) + 1]]
  BY DEF Reverse
<1>2. \A i \in 1..Len(s) : (Len(s) - i) + 1 \in 1..Len(s) /\ Len(s) \in Nat
  OBVIOUS
<1>3. \A i \in 1..Len(s) : s[(Len(s) - i) + 1] \in S
  BY <1>2
<1>4. Reverse(s) \in Seq(S) /\ Len(Reverse(s)) = Len(s)
  BY <1>1, <1>3
<1>5. \A i \in 1..Len(s) : (Len(s) - ((Len(s) - i) + 1)) + 1 = i
  OBVIOUS
<1> QED BY <1>1, <1>2, <1>4, <1>5

-----------------------------------------------------------------------------
(* What is checked. *)

Distinct(s) == \A i, j \in DOMAIN s : s[i] = s[j] => i = j
Names(s)    == {s[i] : i \in DOMAIN s}

\* A list of different names and, if it is used, one more.
LEMMA OneMore ==
  ASSUME NEW D, NEW s \in Seq(D), NEW name \in D, NEW used \in BOOLEAN,
         Distinct(s), name \notin Names(s)
  PROVE  LET t == s \o ThisIf(name, used) IN
         /\ t \in Seq(D) /\ Distinct(t)
         /\ Names(t) = Names(s) \cup {d \in {name} : used}
         /\ Len(s) <= Len(t) /\ Len(t) <= Len(s) + 1
<1>1. CASE used
  <2>1. ThisIf(name, used) = <<name>> /\ <<name>> \in Seq(D)
    BY <1>1 DEF ThisIf
  <2> DEFINE t == s \o <<name>>
  <2>2. /\ t \in Seq(D) /\ Len(t) = Len(s) + 1 /\ Len(s) \in Nat
        /\ \A i \in 1..Len(s) : t[i] = s[i]
        /\ t[Len(s) + 1] = name
    OBVIOUS
  <2>3. DOMAIN t = 1..(Len(s) + 1) /\ DOMAIN s = 1..Len(s)
    BY <2>2
  <2> HIDE DEF t
  <2>4. Distinct(t)
    BY <2>2, <2>3 DEF Distinct, Names
  <2>5. Names(t) = Names(s) \cup {name}
    <3>1. ASSUME NEW x \in Names(t) PROVE x \in Names(s) \cup {name}
      <4>1. PICK i \in 1..(Len(s) + 1) : x = t[i]
        BY <2>3, <3>1 DEF Names
      <4>2. i \in 1..Len(s) \/ i = Len(s) + 1
        BY <2>2
      <4> QED BY <2>2, <2>3, <4>1, <4>2 DEF Names
    <3>2. ASSUME NEW x \in Names(s) PROVE x \in Names(t)
      BY <2>2, <2>3, <3>2 DEF Names
    <3>3. name \in Names(t)
      BY <2>2, <2>3 DEF Names
    <3> QED BY <3>1, <3>2, <3>3
  <2>6. {d \in {name} : used} = {name}
    BY <1>1
  <2>7. s \o ThisIf(name, used) = t
    BY <2>1 DEF t
  <2> QED BY <2>2, <2>4, <2>5, <2>6, <2>7
<1>2. CASE ~used
  <2>1. s \o ThisIf(name, used) = s
    BY <1>2 DEF ThisIf
  <2> QED BY <1>2, <2>1
<1> QED BY <1>1, <1>2

LEMMA SettingTypes ==
  ASSUME settings \in Settings
  PROVE  settings \in Setting
BY ConstantsAssumption

\* What is probed: everything needed, once.
LEMMA ProbesAre ==
  Probes \in Seq(Dependency) /\ Distinct(Probes) /\ Names(Probes) = Needed
  /\ Len(Probes) \in 3..7
<1> DEFINE p == settings.audit = "postgres" \/ settings.metadata = "postgres"
           r == settings.queue = "redis" \/ settings.limiter = "redis"
           e == settings.embedding = "bge"
           k == settings.reranker = "bge"
           s0 == ThisIf("postgres", p) \o <<"qdrant", "minio", "vllm">>
           s1 == s0 \o ThisIf("redis", r)
           s2 == s1 \o ThisIf("embedding", e)
           s3 == s2 \o ThisIf("reranker", k)
<1>0. Probes = s3
  BY DEF Probes
<1>p. p \in BOOLEAN /\ r \in BOOLEAN /\ e \in BOOLEAN /\ k \in BOOLEAN
  OBVIOUS
<1>n. Needed = {"qdrant", "minio", "vllm"} \cup {d \in {"postgres"} : p} \cup {d \in {"redis"} : r}
               \cup {d \in {"embedding"} : e} \cup {d \in {"reranker"} : k}
  BY DEF Needed
<1> HIDE DEF p, r, e, k
<1>1. /\ s0 \in Seq(Dependency) /\ Distinct(s0) /\ Len(s0) \in 3..4
      /\ Names(s0) = {"qdrant", "minio", "vllm"} \cup {d \in {"postgres"} : p}
  <2>1. CASE p
    <3> DEFINE a == <<"postgres">>
               b == <<"qdrant", "minio", "vllm">>
    <3>1. s0 = a \o b
      BY <2>1 DEF ThisIf
    <3>a. a \in Seq(Dependency) /\ Len(a) = 1 /\ a[1] = "postgres"
      BY DEF Dependency
    <3>b. /\ b \in Seq(Dependency) /\ Len(b) = 3
          /\ b[1] = "qdrant" /\ b[2] = "minio" /\ b[3] = "vllm"
      BY DEF Dependency
    <3> HIDE DEF s0, a, b
    <3>c. /\ s0 \in Seq(Dependency) /\ Len(s0) = Len(a) + Len(b)
          /\ \A i \in 1..(Len(a) + Len(b)) : s0[i] = IF i <= Len(a) THEN a[i] ELSE b[i - Len(a)]
      BY <3>1, <3>a, <3>b, ConcatProperties
    <3>2. DOMAIN s0 = 1..4 /\ Len(s0) = 4 /\ s0 \in Seq(Dependency)
      BY <3>a, <3>b, <3>c
    <3>3. s0[1] = "postgres" /\ s0[2] = "qdrant" /\ s0[3] = "minio" /\ s0[4] = "vllm"
      BY <3>a, <3>b, <3>c
    <3>4. Distinct(s0)
      BY <3>2, <3>3 DEF Distinct
    <3>5. Names(s0) = {"postgres", "qdrant", "minio", "vllm"}
      BY <3>2, <3>3 DEF Names
    <3> QED BY <2>1, <3>2, <3>4, <3>5
  <2>2. CASE ~p
    <3>1. s0 = <<"qdrant", "minio", "vllm">>
      BY <2>2 DEF ThisIf
    <3> HIDE DEF s0
    <3>2. DOMAIN s0 = 1..3 /\ Len(s0) = 3 /\ s0 \in Seq(Dependency)
      BY <3>1 DEF Dependency
    <3>3. s0[1] = "qdrant" /\ s0[2] = "minio" /\ s0[3] = "vllm"
      BY <3>1
    <3>4. Distinct(s0)
      BY <3>2, <3>3 DEF Distinct
    <3>5. Names(s0) = {"qdrant", "minio", "vllm"}
      BY <3>2, <3>3 DEF Names
    <3> QED BY <2>2, <3>2, <3>4, <3>5
  <2> QED BY <2>1, <2>2
<1>d. "redis" \in Dependency /\ "embedding" \in Dependency /\ "reranker" \in Dependency
  BY DEF Dependency
<1> HIDE DEF s0
<1>2. /\ s1 \in Seq(Dependency) /\ Distinct(s1) /\ Names(s1) = Names(s0) \cup {d \in {"redis"} : r}
      /\ Len(s0) <= Len(s1) /\ Len(s1) <= Len(s0) + 1
  BY <1>1, <1>p, <1>d, OneMore
<1> HIDE DEF s1
<1>e. "embedding" \notin Names(s1)
  BY <1>1, <1>2
<1>3. /\ s2 \in Seq(Dependency) /\ Distinct(s2) /\ Names(s2) = Names(s1) \cup {d \in {"embedding"} : e}
      /\ Len(s1) <= Len(s2) /\ Len(s2) <= Len(s1) + 1
  BY <1>2, <1>e, <1>p, <1>d, OneMore
<1> HIDE DEF s2
<1>k. "reranker" \notin Names(s2)
  BY <1>1, <1>2, <1>3
<1>4. /\ s3 \in Seq(Dependency) /\ Distinct(s3) /\ Names(s3) = Names(s2) \cup {d \in {"reranker"} : k}
      /\ Len(s2) <= Len(s3) /\ Len(s3) <= Len(s2) + 1
  BY <1>3, <1>k, <1>p, <1>d, OneMore
<1> HIDE DEF s3
<1>5. Names(s3) = Needed
  BY <1>1, <1>2, <1>3, <1>4, <1>n
<1>6. Len(s3) \in 3..7
  <2>1. Len(s0) \in Nat /\ Len(s1) \in Nat /\ Len(s2) \in Nat /\ Len(s3) \in Nat
    BY <1>1, <1>2, <1>3, <1>4
  <2>2. PICK n0 \in Nat, n1 \in Nat, n2 \in Nat, n3 \in Nat :
          n0 = Len(s0) /\ n1 = Len(s1) /\ n2 = Len(s2) /\ n3 = Len(s3)
    BY <2>1
  <2>3. n0 \in 3..4
    BY <1>1, <2>2
  <2>4. /\ n0 <= n1 /\ n1 <= n2 /\ n2 <= n3
        /\ n1 <= n0 + 1 /\ n2 <= n1 + 1 /\ n3 <= n2 + 1
    BY <1>2, <1>3, <1>4, <2>2
  <2>5. n3 \in 3..7
    BY <2>3, <2>4
  <2> QED BY <2>2, <2>5
<1> QED BY <1>0, <1>4, <1>5, <1>6

LEMMA ProbesLength == Len(Probes) \in Nat /\ 3 <= Len(Probes) /\ Len(Probes) <= 7
<1>1. Len(Probes) \in 3..7
  BY ProbesAre
<1>2. \A n \in 3..7 : n \in Nat /\ 3 <= n /\ n <= 7
  OBVIOUS
<1> QED BY <1>1, <1>2

\* The checks of the configuration: one that is passed, or all that are not.
LEMMA ConfigurationChecksAre ==
  ASSUME settings \in Settings
  PROVE  /\ ConfigurationChecks \in Seq(Check) /\ Len(ConfigurationChecks) \in 1..2
         /\ \A i, j \in DOMAIN ConfigurationChecks :
              ConfigurationChecks[i].name = ConfigurationChecks[j].name => i = j
         /\ {ConfigurationChecks[i].name : i \in DOMAIN ConfigurationChecks} =
              IF settings.problems = {} THEN {"configuration"} ELSE settings.problems
         /\ \A i \in DOMAIN ConfigurationChecks :
              /\ ConfigurationChecks[i].name \notin Dependency
              /\ ConfigurationChecks[i].status \in Status
              /\ ConfigurationChecks[i].status = "ready" <=> ConfigurationChecks[i].name = "configuration"
         /\ settings.problems = {} =>
              ConfigurationChecks = <<[name |-> "configuration", status |-> "ready"]>>
<1>0. settings.problems \in SUBSET {"api_keys", "debug"}
  BY SettingTypes DEF Setting
<1> DEFINE cc == ConfigurationChecks
           bad(name) == [name |-> name, status |-> "not_ready"]
           good == [name |-> "configuration", status |-> "ready"]
<1>t. good \in Check /\ bad("api_keys") \in Check /\ bad("debug") \in Check
  BY DEF Check, Status
<1>1. \/ settings.problems = {} /\ cc = <<good>>
      \/ settings.problems = {"api_keys"} /\ cc = <<bad("api_keys")>>
      \/ settings.problems = {"debug"} /\ cc = <<bad("debug")>>
      \/ settings.problems = {"api_keys", "debug"} /\ cc = <<bad("api_keys"), bad("debug")>>
  <2>1. CASE settings.problems = {}
    BY <2>1 DEF ConfigurationChecks
  <2>2. CASE settings.problems = {"api_keys"}
    BY <2>2 DEF ConfigurationChecks, ThisIf
  <2>3. CASE settings.problems = {"debug"}
    BY <2>3 DEF ConfigurationChecks, ThisIf
  <2>4. CASE settings.problems = {"api_keys", "debug"}
    <3>1. cc = <<bad("api_keys")>> \o <<bad("debug")>>
      BY <2>4 DEF ConfigurationChecks, ThisIf
    <3>2. ASSUME NEW x, NEW y PROVE <<x>> \o <<y>> = <<x, y>>
      <4>1. /\ <<x>> \in Seq({x, y}) /\ <<y>> \in Seq({x, y}) /\ <<x, y>> \in Seq({x, y})
            /\ Len(<<x>>) = 1 /\ Len(<<y>>) = 1 /\ Len(<<x, y>>) = 2
        OBVIOUS
      <4>2. PICK a \in Seq({x, y}), b \in Seq({x, y}) : a = <<x>> /\ b = <<y>>
        BY <4>1
      <4>3. /\ a \o b \in Seq({x, y}) /\ Len(a \o b) = 2
            /\ \A i \in 1..2 : (a \o b)[i] = IF i <= 1 THEN a[i] ELSE b[i - 1]
        BY <4>1, <4>2, ConcatProperties
      <4>4. \A i \in 1..2 : (a \o b)[i] = <<x, y>>[i]
        BY <4>2, <4>3
      <4> QED BY <4>1, <4>2, <4>3, <4>4, SameSequence
    <3> QED BY <2>4, <3>1, <3>2
  <2> QED BY <1>0, <2>1, <2>2, <2>3, <2>4
<1> HIDE DEF cc
<1>g. ASSUME NEW check, cc = <<check>>, check \in Check, check.name \notin Dependency,
             check.status = "ready" <=> check.name = "configuration"
      PROVE  /\ cc \in Seq(Check) /\ Len(cc) \in 1..2
             /\ \A i, j \in DOMAIN cc : cc[i].name = cc[j].name => i = j
             /\ {cc[i].name : i \in DOMAIN cc} = {check.name}
             /\ \A i \in DOMAIN cc :
                  /\ cc[i].name \notin Dependency /\ cc[i].status \in Status
                  /\ cc[i].status = "ready" <=> cc[i].name = "configuration"
  <2>1. DOMAIN cc = {1} /\ cc[1] = check /\ Len(cc) = 1
    BY <1>g
  <2>2. check.status \in Status
    BY <1>g DEF Check
  <2> QED BY <1>g, <2>1, <2>2
<1>2. CASE settings.problems = {} /\ cc = <<good>>
  BY <1>2, <1>g, <1>t DEF cc, Dependency
<1>3. CASE settings.problems = {"api_keys"} /\ cc = <<bad("api_keys")>>
  BY <1>3, <1>g, <1>t DEF cc, Dependency
<1>4. CASE settings.problems = {"debug"} /\ cc = <<bad("debug")>>
  BY <1>4, <1>g, <1>t DEF cc, Dependency
<1>5. CASE settings.problems = {"api_keys", "debug"} /\ cc = <<bad("api_keys"), bad("debug")>>
  <2>1. DOMAIN cc = {1, 2} /\ Len(cc) = 2 /\ cc[1] = bad("api_keys") /\ cc[2] = bad("debug")
    BY <1>5
  <2>2. cc \in Seq(Check)
    BY <1>5, <1>t
  <2>3. {cc[i].name : i \in DOMAIN cc} = {"api_keys", "debug"}
    BY <2>1
  <2>4. \A i \in DOMAIN cc :
          /\ cc[i].name \notin Dependency /\ cc[i].status \in Status
          /\ cc[i].status = "ready" <=> cc[i].name = "configuration"
    BY <2>1 DEF Dependency, Status
  <2>5. \A i, j \in DOMAIN cc : cc[i].name = cc[j].name => i = j
    BY <2>1
  <2> QED BY <1>5, <2>1, <2>2, <2>3, <2>4, <2>5 DEF cc
<1> QED BY <1>1, <1>2, <1>3, <1>4, <1>5

-----------------------------------------------------------------------------
(* Types. *)

Request == [path : Path, by : Servers, backend : {"available", "unavailable"},
            at : {"client", "limiter", "unavailable", "app"}]
Answer  == [kind : {"page"}, page : Page]
           \cup [kind : {"none", "limited", "refused", "lost", "done"}]

\* What ties a request to the process that has it: it has no answer, and is in the
\* hands of at most one handler, of the process it was sent to.
RequestsOK ==
  /\ \A c \in Calls : answer[c] = NoAnswer <=> (call[c] = Unsent \/ call[c].at # "client")
  /\ \A s \in Servers : server[s] \in Handler =>
       LET c == server[s].call IN
         /\ call[c].at = "app" /\ call[c].by = s
         /\ call[c].path = server[s].page.path

\* What a page may say of a dependency, and what the checks of a round are: the
\* configuration's, then one for each probe in turn.
Tells(page, name, status) ==
  name \in (IF status = "ready" THEN page.was_up ELSE page.was_down)

Prefix(page) ==
  /\ page.checks[1] = [name |-> "configuration", status |-> "ready"]
  /\ \A i \in 2..Len(page.checks) :
       /\ page.checks[i].name = Probes[i - 1]
       /\ Tells(page, page.checks[i].name, page.checks[i].status)

Complete(page) ==
  IF Probing THEN Len(page.checks) = Len(Probes) + 1 /\ Prefix(page)
  ELSE page.checks = ConfigurationChecks

\* The events to record are those of the failed checks that are named.
Meets(failures, page, c) ==
  /\ Len(failures) < Len(page.checks)
  /\ \A i \in DOMAIN failures : failures[i].cause \in Calls
  /\ \A i \in DOMAIN page.checks :
       page.checks[i].status = "not_ready" /\ page.checks[i].name \in DEPENDENCY_CHECK_NAMES =>
         \E j \in DOMAIN failures :
           failures[j] = NewEvent("dependency.health_failed", page.checks[i].name, c)

RoundOK(h) ==
  /\ up \subseteq h.page.was_up /\ Dependency \ up \subseteq h.page.was_down
  /\ h.pc = "probe" =>
       /\ Probing /\ Len(h.page.checks) \in 1..Len(Probes)
       /\ Prefix(h.page) /\ Meets(h.failures, h.page, h.call)
  /\ h.pc = "count" => h.page.path = "operations" /\ Complete(h.page)

RoundsOK == \A s \in Servers : server[s] \in Handler => RoundOK(server[s])

TypeInv == TypeOK /\ RequestsOK /\ RoundsOK

\* A process is down, idle or at a step of a handler.
LEMMA ProcessTypes ==
  ASSUME TypeOK, NEW s \in Servers
  PROVE  /\ At(s, "down") => server[s] = Down
         /\ At(s, "idle") => server[s] = Idle
         /\ server[s] \in Handler <=> server[s].pc \in {"probe", "count"}
         /\ server[s] \in Handler <=> server[s] \notin {Idle, Down}
<1>1. server[s] \in Handler \cup {Down, Idle}
  BY DEF TypeOK
<1>2. Down.pc = "down" /\ Idle.pc = "idle"
  BY DEF Down, Idle
<1>3. server[s] \in Handler => server[s].pc \in {"probe", "count"}
  BY DEF Handler
<1> QED BY <1>1, <1>2, <1>3 DEF At

\* A request that was sent.
LEMMA SentTypes ==
  ASSUME TypeOK, NEW c \in Calls, call[c].at # "client"
  PROVE  call[c] \in Request /\ call[c] # Unsent
BY DEF TypeOK, Request, Unsent

\* What a store holds after new events.
LEMMA RecordTypes ==
  ASSUME TypeOK, NEW p \in Servers \cup Workers, NEW new \in Seq(Event), Record(p, new)
  PROVE  /\ events' \in [Servers \cup Workers -> Seq(Event)]
         /\ log' \in [Servers \cup Workers -> Seq(Event)]
         /\ \A q \in Servers \cup Workers : Len(events'[q]) <= MaxEvents
<1>0. MaxEvents \in Nat
  BY ConstantsAssumption
<1>1. events[p] \o new \in Seq(Event) /\ log[p] \o new \in Seq(Event)
  BY DEF TypeOK
<1>2. PICK full \in Seq(Event) : full = events[p] \o new
  BY <1>1
<1>3. Latest(full, MaxEvents) \in Seq(Event) /\ Len(Latest(full, MaxEvents)) <= MaxEvents
  BY <1>0, LatestIs
<1>4. events' = [events EXCEPT ![p] = Latest(full, MaxEvents)]
      /\ log' = [log EXCEPT ![p] = log[p] \o new]
  BY <1>2 DEF Record
<1> QED BY <1>1, <1>3, <1>4 DEF TypeOK

\* The end of the checks, or of the page.
LEMMA AnsweredTypes ==
  ASSUME TypeOK, NEW s \in Servers, NEW c \in Calls, NEW page \in Page,
         call[c] \in Request, Answered(s, c, page)
  PROVE  /\ server' \in [Servers -> Handler \cup {Down, Idle}]
         /\ call' \in [Calls -> Request \cup {Unsent}]
         /\ answer' \in [Calls -> Answer]
<1>1. call \in [Calls -> Request \cup {Unsent}] /\ answer \in [Calls -> Answer]
  BY DEF TypeOK, Request, Answer
<1>2. [kind |-> "page", page |-> page] \in Answer
  BY DEF Answer
<1>3. [call[c] EXCEPT !.at = "client"] \in Request
  BY DEF Request
<1>4. call' = [call EXCEPT ![c] = [call[c] EXCEPT !.at = "client"]]
  BY DEF Answered, Goto
<1> QED BY <1>1, <1>2, <1>3, <1>4 DEF Answered, Reply, TypeOK

LEMMA FinishTypes ==
  ASSUME TypeOK, NEW s \in Servers, NEW c \in Calls, NEW page \in Page,
         NEW failures \in Seq(Event), call[c] \in Request,
         Finish(s, c, page, failures)
  PROVE  /\ events' \in [Servers \cup Workers -> Seq(Event)]
         /\ log' \in [Servers \cup Workers -> Seq(Event)]
         /\ \A q \in Servers \cup Workers : Len(events'[q]) <= MaxEvents
         /\ server' \in [Servers -> Handler \cup {Down, Idle}]
         /\ call' \in [Calls -> Request \cup {Unsent}]
         /\ answer' \in [Calls -> Answer]
<1>1. /\ events' \in [Servers \cup Workers -> Seq(Event)]
      /\ log' \in [Servers \cup Workers -> Seq(Event)]
      /\ \A q \in Servers \cup Workers : Len(events'[q]) <= MaxEvents
  BY RecordTypes DEF Finish
<1>2. Listed(s)' \in Seq(Event)
  <2>1. events'[s] \in Seq(Event) /\ Limit \in Nat
    BY <1>1, ConstantsAssumption
  <2>2. Latest(events'[s], Limit) \in Seq(Event)
    BY <2>1, LatestIs
  <2> QED BY <2>2, ReverseIs DEF Listed
<1> DEFINE full == [page EXCEPT !.events = Listed(s)']
           h == [pc |-> "count", call |-> c, failures |-> failures, page |-> full]
<1>3. full \in Page
  BY <1>2 DEF Page
<1>4. h \in Handler
  BY <1>3 DEF Handler
<1>5. \/ server' = [server EXCEPT ![s] = h] /\ UNCHANGED <<call, answer>>
      \/ Answered(s, c, full) \/ Answered(s, c, page)
  BY DEF Finish
<1> HIDE DEF full, h
<1>6. CASE server' = [server EXCEPT ![s] = h] /\ UNCHANGED <<call, answer>>
  BY <1>1, <1>4, <1>6 DEF TypeOK, Request, Answer
<1> QED BY <1>1, <1>3, <1>5, <1>6, AnsweredTypes

\* A round after one more probe.
NextCheck(old, c, met, d, check, page, new, failures) ==
  /\ old \in Page /\ c \in Calls /\ met \in Seq(Event) /\ d \in Dependency
  /\ Len(old.checks) \in 1..Len(Probes) /\ d = Probes[Len(old.checks)]
  /\ up \subseteq old.was_up /\ Dependency \ up \subseteq old.was_down
  /\ Prefix(old) /\ Meets(met, old, c)
  /\ check \in Check /\ check = [name |-> d, status |-> Verdict(d)]
  /\ page \in Page /\ page.checks = Append(old.checks, check)
  /\ page.was_up = old.was_up /\ page.was_down = old.was_down
  /\ new \in Event /\ new = NewEvent("dependency.health_failed", d, c)
  /\ failures \in Seq(Event)
  /\ failures = IF d \in up \/ d \notin DEPENDENCY_CHECK_NAMES THEN met ELSE Append(met, new)

LEMMA ProbeRound ==
  ASSUME NEW old, NEW c, NEW met, NEW d, NEW check, NEW page, NEW new, NEW failures,
         NextCheck(old, c, met, d, check, page, new, failures)
  PROVE  Len(page.checks) = Len(old.checks) + 1 /\ Prefix(page) /\ Meets(failures, page, c)
<1> USE DEF NextCheck
<1>3. PICK n \in Nat : n = Len(old.checks) /\ n >= 1
  <2>1. Len(old.checks) \in Nat /\ Len(old.checks) >= 1
    BY ProbesLength
  <2> QED BY <2>1
<1>6. old.checks \in Seq(Check)
  BY DEF Page
<1>7. /\ Len(page.checks) = n + 1 /\ page.checks[n + 1] = check
      /\ \A i \in 1..n : page.checks[i] = old.checks[i]
      /\ DOMAIN page.checks = 1..(n + 1) /\ DOMAIN old.checks = 1..n
  BY <1>3, <1>6
<1>8. Tells(page, d, check.status)
  BY DEF Tells, Verdict
<1>9. Prefix(page)
  <2>1. page.checks[1] = [name |-> "configuration", status |-> "ready"]
    BY <1>3, <1>7 DEF Prefix
  <2>2. ASSUME NEW i \in 2..(n + 1)
        PROVE  /\ page.checks[i].name = Probes[i - 1]
               /\ Tells(page, page.checks[i].name, page.checks[i].status)
    <3>1. CASE i = n + 1
      <4>1. i - 1 = n /\ d = Probes[n]
        BY <1>3, <3>1
      <4> QED BY <1>7, <1>8, <3>1, <4>1
    <3>2. CASE i # n + 1
      <4>1. i \in 2..n /\ i \in 1..n
        BY <3>2
      <4>2. page.checks[i] = old.checks[i]
        BY <1>7, <4>1
      <4>3. old.checks[i].name = Probes[i - 1] /\ Tells(old, old.checks[i].name, old.checks[i].status)
        BY <1>3, <4>1 DEF Prefix
      <4> QED BY <4>2, <4>3 DEF Tells
    <3> QED BY <3>1, <3>2
  <2> QED BY <1>7, <2>1, <2>2 DEF Prefix
<1>10. CASE d \in up \/ d \notin DEPENDENCY_CHECK_NAMES
  <2>1. failures = met
    BY <1>10
  <2>2. Len(failures) < Len(page.checks)
    BY <1>3, <1>7, <2>1 DEF Meets
  <2>3. ~(check.status = "not_ready" /\ check.name \in DEPENDENCY_CHECK_NAMES)
    BY <1>10 DEF Verdict, DEPENDENCY_CHECK_NAMES
  <2>4. ASSUME NEW i \in DOMAIN page.checks, page.checks[i].status = "not_ready",
               page.checks[i].name \in DEPENDENCY_CHECK_NAMES
        PROVE  \E j \in DOMAIN failures :
                 failures[j] = NewEvent("dependency.health_failed", page.checks[i].name, c)
    <3>1. i # n + 1
      BY <1>7, <2>3, <2>4
    <3>2. i \in 1..n
      BY <1>7, <3>1
    <3> QED BY <1>7, <2>1, <2>4, <3>2 DEF Meets
  <2>5. \A j \in DOMAIN failures : failures[j].cause \in Calls
    BY <2>1 DEF Meets
  <2>6. Meets(failures, page, c)
    BY <2>2, <2>4, <2>5 DEF Meets
  <2> QED BY <1>7, <1>9, <1>3, <2>6
<1>11. CASE ~(d \in up \/ d \notin DEPENDENCY_CHECK_NAMES)
  <2>1. failures = Append(met, new)
    BY <1>11
  <2>2. new.cause = c
    BY DEF NewEvent
  <2>3. new = NewEvent("dependency.health_failed", check.name, c)
    OBVIOUS
  <2>4. /\ Len(failures) = Len(met) + 1 /\ failures[Len(met) + 1] = new
        /\ \A j \in 1..Len(met) : failures[j] = met[j]
        /\ DOMAIN failures = 1..(Len(met) + 1) /\ DOMAIN met = 1..Len(met) /\ Len(met) \in Nat
    BY <2>1
  <2>5. Len(failures) < Len(page.checks)
    BY <1>3, <1>7, <2>4 DEF Meets
  <2>6. \A j \in DOMAIN failures : failures[j].cause \in Calls
    <3>1. ASSUME NEW j \in 1..(Len(met) + 1) PROVE failures[j].cause \in Calls
      <4>1. CASE j = Len(met) + 1
        BY <2>2, <2>4, <4>1
      <4>2. CASE j # Len(met) + 1
        <5>1. j \in 1..Len(met)
          BY <2>4, <4>2
        <5> QED BY <2>4, <5>1 DEF Meets
      <4> QED BY <4>1, <4>2
    <3> QED BY <2>4, <3>1
  <2>7. ASSUME NEW i \in DOMAIN page.checks, page.checks[i].status = "not_ready",
               page.checks[i].name \in DEPENDENCY_CHECK_NAMES
        PROVE  \E j \in DOMAIN failures :
                 failures[j] = NewEvent("dependency.health_failed", page.checks[i].name, c)
    <3>1. CASE i = n + 1
      <4>1. Len(met) + 1 \in DOMAIN failures
        BY <2>4
      <4> QED BY <1>7, <2>3, <2>4, <3>1, <4>1
    <3>2. CASE i # n + 1
      <4>1. i \in 1..n
        BY <1>7, <3>2
      <4>a. page.checks[i] = old.checks[i] /\ i \in DOMAIN old.checks
        BY <1>7, <4>1
      <4>2. PICK j \in DOMAIN met :
              met[j] = NewEvent("dependency.health_failed", page.checks[i].name, c)
        BY <2>7, <4>a DEF Meets
      <4>3. j \in DOMAIN failures /\ failures[j] = met[j]
        BY <2>4, <4>2
      <4> QED BY <4>2, <4>3
    <3> QED BY <3>1, <3>2
  <2>8. Meets(failures, page, c)
    BY <2>5, <2>6, <2>7 DEF Meets
  <2> QED BY <1>7, <1>9, <1>3, <2>8
<1> QED BY <1>10, <1>11

\* A probe: the page has one more check, the failures to record are those of the
\* page, and the handler goes on probing or ends its checks.
Probed(s, h, page, failures) ==
  /\ h = server[s] /\ h.pc = "probe" /\ Probing
  /\ Len(h.page.checks) \in 1..Len(Probes) /\ Len(page.checks) = Len(h.page.checks) + 1
  /\ up \subseteq page.was_up /\ Dependency \ up \subseteq page.was_down
  /\ Prefix(page) /\ Meets(failures, page, h.call)
  /\ h.call \in Calls /\ call[h.call] \in Request
  /\ call[h.call].at = "app" /\ call[h.call].by = s /\ call[h.call].path = page.path
  /\ UNCHANGED <<settings, up, counters>>

KeepsOn(s, h, page, failures) ==
  /\ Len(h.page.checks) < Len(Probes)
  /\ server' = [server EXCEPT ![s] = [h EXCEPT !.page = page, !.failures = failures]]
  /\ UNCHANGED <<call, answer, events, log>>

Stops(s, h, page, failures) ==
  Complete(page) /\ Finish(s, h.call, page, failures)

LEMMA ProbeStep ==
  ASSUME TypeInv, NEW s \in Servers, Probe(s)
  PROVE  \E h \in Handler, page \in Page, failures \in Seq(Event) :
           /\ Probed(s, h, page, failures)
           /\ KeepsOn(s, h, page, failures) \/ Stops(s, h, page, failures)
<1>0. TypeOK /\ RequestsOK /\ RoundsOK
  BY DEF TypeInv
<1>1. At(s, "probe") /\ UNCHANGED <<settings, up, counters>>
  BY DEF Probe
<1>2. server[s] \in Handler /\ server[s].pc = "probe"
  BY <1>0, <1>1, ProcessTypes DEF At
<1>3. Len(server[s].page.checks) \in 1..Len(Probes) /\ Probing
  BY <1>0, <1>2 DEF RoundsOK, RoundOK
<1>4. PICK h \in Handler : h = server[s]
  BY <1>2
<1>d. Probes[Len(h.page.checks)] \in Dependency
  BY <1>3, <1>4, ProbesAre
<1>5. PICK d \in Dependency : d = Probes[Len(h.page.checks)]
  BY <1>d
<1>6. PICK old \in Page, met \in Seq(Event), c \in Calls :
        old = h.page /\ met = h.failures /\ c = h.call
  BY DEF Handler
<1>a. [name |-> d, status |-> Verdict(d)] \in Check
  BY DEF Check, Verdict, Status
<1>7. PICK check \in Check : check = [name |-> d, status |-> Verdict(d)]
  BY <1>a
<1>b. Append(old.checks, check) \in Seq(Check)
  <2>1. old.checks \in Seq(Check)
    BY DEF Page
  <2>2. \A q \in Seq(Check) : Append(q, check) \in Seq(Check)
    OBVIOUS
  <2> QED BY <2>1, <2>2
<1>8. PICK checks \in Seq(Check) : checks = Append(old.checks, check)
  BY <1>b
<1> DEFINE page == [old EXCEPT !.checks = checks]
           new == NewEvent("dependency.health_failed", d, c)
           failures == IF d \in up \/ d \notin DEPENDENCY_CHECK_NAMES THEN met ELSE Append(met, new)
<1>9. /\ page \in Page /\ page.path = old.path /\ page.checks = checks
      /\ page.was_up = old.was_up /\ page.was_down = old.was_down
  BY DEF Page
<1>10. new \in Event
  BY DEF NewEvent, Event, EventType
<1>c. failures \in Seq(Event)
  BY <1>10
<1>11. \/ /\ Len(h.page.checks) < Len(Probes)
          /\ server' = [server EXCEPT ![s].page = page, ![s].failures = failures]
          /\ UNCHANGED <<call, answer, events, log>>
       \/ /\ ~(Len(h.page.checks) < Len(Probes))
          /\ Finish(s, c, page, failures)
  BY <1>4, <1>5, <1>6, <1>7, <1>8 DEF Probe
<1>12. RoundOK(h)
  BY <1>0, <1>2, <1>4 DEF RoundsOK
<1>13. /\ Len(page.checks) = Len(old.checks) + 1
       /\ up \subseteq page.was_up /\ Dependency \ up \subseteq page.was_down
       /\ Prefix(page) /\ Meets(failures, page, c)
  <2>1. /\ Len(old.checks) \in 1..Len(Probes) /\ d = Probes[Len(old.checks)]
        /\ up \subseteq old.was_up /\ Dependency \ up \subseteq old.was_down
        /\ Prefix(old) /\ Meets(met, old, c)
    BY <1>2, <1>4, <1>5, <1>6, <1>12 DEF RoundOK
  <2>2. page.checks = Append(old.checks, check)
    BY <1>8, <1>9
  <2>3. failures = IF d \in up \/ d \notin DEPENDENCY_CHECK_NAMES THEN met ELSE Append(met, new)
    OBVIOUS
  <2> HIDE DEF page, new, failures
  <2>4. new = NewEvent("dependency.health_failed", d, c)
    BY DEF new
  <2>5. Len(page.checks) = Len(old.checks) + 1 /\ Prefix(page) /\ Meets(failures, page, c)
    <3>1. NextCheck(old, c, met, d, check, page, new, failures)
      BY <1>7, <1>9, <1>10, <1>c, <2>1, <2>2, <2>3, <2>4 DEF NextCheck
    <3> QED BY <3>1, ProbeRound
  <2> QED BY <1>9, <2>1, <2>5
<1> HIDE DEF page, failures
<1>14. /\ call[c] \in Request /\ call[c].at = "app" /\ call[c].by = s /\ call[c].path = page.path
  <2>1. call[c].at = "app" /\ call[c].by = s /\ call[c].path = h.page.path
    BY <1>0, <1>2, <1>4, <1>6 DEF RequestsOK
  <2> QED BY <1>0, <1>6, <1>9, <2>1, SentTypes
<1>15. Probed(s, h, page, failures)
  BY <1>1, <1>2, <1>3, <1>4, <1>6, <1>13, <1>14 DEF Probed
<1>16. KeepsOn(s, h, page, failures) \/ Stops(s, h, page, failures)
  <2>1. CASE /\ Len(h.page.checks) < Len(Probes)
             /\ server' = [server EXCEPT ![s].page = page, ![s].failures = failures]
             /\ UNCHANGED <<call, answer, events, log>>
    <3>1. server' = [server EXCEPT ![s] = [h EXCEPT !.page = page, !.failures = failures]]
      BY <1>4, <2>1 DEF Handler
    <3> QED BY <2>1, <3>1 DEF KeepsOn
  <2>2. CASE ~(Len(h.page.checks) < Len(Probes)) /\ Finish(s, c, page, failures)
    <3>1. Len(h.page.checks) = Len(Probes)
      BY <1>3, <1>4, <2>2, ProbesLength
    <3>2. Complete(page)
      BY <1>3, <1>6, <1>13, <3>1 DEF Complete
    <3> QED BY <1>6, <2>2, <3>2 DEF Stops
  <2> QED BY <1>6, <1>11, <2>1, <2>2
<1> QED BY <1>9, <1>c, <1>15, <1>16

\* A fresh page.
LEMMA NewPageTypes ==
  ASSUME TypeOK, NEW c \in Calls, call[c].at = "app", call[c].path \in {"ready", "operations"}
  PROVE  NewPage(c, ConfigurationChecks) \in Page
<1>1. ConfigurationChecks \in Seq(Check)
  BY ConfigurationChecksAre DEF TypeOK
<1>2. up \in SUBSET Dependency
  BY DEF TypeOK
<1> QED BY <1>1, <1>2 DEF NewPage, Page, Status

LEMMA TypeStep == TypeInv /\ [Next]_vars => TypeOK'
<1> SUFFICES ASSUME TypeInv, [Next]_vars PROVE TypeOK'
  OBVIOUS
<1>0. TypeOK /\ RequestsOK /\ RoundsOK
  BY DEF TypeInv
<1>c. MaxChanges \in Nat /\ MaxJobs \in Nat /\ MaxCrashes \in Nat /\ Fragile \subseteq Dependency
  BY ConstantsAssumption
<1> DEFINE Processes == server' \in [Servers -> Handler \cup {Down, Idle}]
           Requests  == call' \in [Calls -> Request \cup {Unsent}]
           Answers   == answer' \in [Calls -> Answer]
           Stores    == /\ events' \in [Servers \cup Workers -> Seq(Event)]
                        /\ log' \in [Servers \cup Workers -> Seq(Event)]
                        /\ \A q \in Servers \cup Workers : Len(events'[q]) <= MaxEvents
           Rest      == /\ settings' \in Settings /\ up' \subseteq Dependency
                        /\ changes' \in 0..MaxChanges /\ jobs' \in 0..MaxJobs
                        /\ crashes' \in 0..MaxCrashes
<1>g. Processes /\ Requests /\ Answers /\ Stores /\ Rest => TypeOK'
  BY DEF TypeOK, Request, Answer
<1>p. UNCHANGED server => Processes
  BY <1>0 DEF TypeOK
<1>r. UNCHANGED call => Requests
  BY <1>0 DEF TypeOK, Request
<1>a. UNCHANGED answer => Answers
  BY <1>0 DEF TypeOK, Answer
<1>s. UNCHANGED <<events, log>> => Stores
  BY <1>0 DEF TypeOK
<1>t. UNCHANGED <<settings, up, counters>> => Rest
  BY <1>0 DEF TypeOK, counters
<1>w. ASSUME NEW c \in Calls, call[c].at # "client", NEW step \in {"client", "limiter", "unavailable", "app"},
             Goto(c, step)
      PROVE  Requests
  <2>1. call[c] \in Request /\ call \in [Calls -> Request \cup {Unsent}]
    BY <1>0, <1>w, SentTypes DEF TypeOK, Request
  <2>2. [call[c] EXCEPT !.at = step] \in Request
    BY <2>1 DEF Request
  <2>3. call' = [call EXCEPT ![c] = [call[c] EXCEPT !.at = step]]
    BY <1>w DEF Goto
  <2> QED BY <2>1, <2>2, <2>3
<1>q. ASSUME NEW c \in Calls, NEW a \in Answer, Reply(c, a)
      PROVE  Answers
  BY <1>0, <1>q DEF Reply, TypeOK, Answer
<1>1. ASSUME NEW d \in Fragile, Change(d) PROVE TypeOK'
  <2>1. up' \subseteq Dependency
    BY <1>0, <1>1, <1>c DEF Change, TypeOK
  <2>2. Processes
    <3>1. ASSUME NEW s \in Servers, server[s] \notin {Idle, Down}
          PROVE  [server[s] EXCEPT !.page.was_up = @ \cup up',
                                   !.page.was_down = @ \cup (Dependency \ up')] \in Handler
      <4>1. server[s] \in Handler
        BY <1>0, <3>1, ProcessTypes
      <4> QED BY <2>1, <4>1 DEF Handler, Page
    <3> QED BY <1>0, <1>1, <3>1 DEF Change, TypeOK
  <2>3. Rest
    <3>1. /\ changes < MaxChanges /\ changes' = changes + 1
          /\ UNCHANGED <<settings, jobs, crashes>>
      BY <1>1 DEF Change
    <3>2. changes \in 0..MaxChanges /\ settings \in Settings /\ jobs \in 0..MaxJobs
          /\ crashes \in 0..MaxCrashes
      BY <1>0 DEF TypeOK
    <3> QED BY <1>c, <2>1, <3>1, <3>2
  <2> QED BY <1>1, <1>g, <1>r, <1>a, <1>s, <2>2, <2>3 DEF Change
<1>2. ASSUME NEW c \in Calls, NEW s \in Servers, Send(c, s) PROVE TypeOK'
  <2>1. Requests
    BY <1>0, <1>2 DEF Send, TypeOK, Request, Path
  <2> QED BY <1>2, <1>g, <1>p, <1>a, <1>s, <1>t, <2>1 DEF Send
<1>3. ASSUME NEW c \in Calls, CheckLimit(c) PROVE TypeOK'
  <2>1. \/ Goto(c, "app") /\ UNCHANGED answer
        \/ Goto(c, "client") /\ Reply(c, [kind |-> "limited"])
        \/ Goto(c, "unavailable") /\ UNCHANGED answer
    BY <1>3 DEF CheckLimit
  <2>2. [kind |-> "limited"] \in Answer
    BY DEF Answer
  <2>3. Requests /\ Answers
    BY <1>3, <1>w, <1>q, <1>a, <2>1, <2>2 DEF CheckLimit
  <2> QED BY <1>3, <1>g, <1>p, <1>s, <1>t, <2>3 DEF CheckLimit
<1>4. ASSUME NEW c \in Calls, Unavailable(c) PROVE TypeOK'
  <2> DEFINE new == <<NewEvent("rate_limit.backend_unavailable", "rate_limit", c)>>
  <2>1. call[c] \in Request /\ call \in [Calls -> Request \cup {Unsent}]
    BY <1>0, <1>4, SentTypes DEF Unavailable, TypeOK, Request
  <2>2. new \in Seq(Event) /\ call[c].by \in Servers
    BY <2>1 DEF NewEvent, Event, EventType, Request
  <2>3. Stores
    BY <1>0, <1>4, <2>2, RecordTypes DEF Unavailable
  <2>4. \/ /\ call' = [call EXCEPT ![c].at = "app", ![c].backend = "unavailable"]
           /\ UNCHANGED answer
        \/ Goto(c, "client") /\ Reply(c, [kind |-> "refused"])
    BY <1>4 DEF Unavailable
  <2>5. CASE /\ call' = [call EXCEPT ![c].at = "app", ![c].backend = "unavailable"]
             /\ UNCHANGED answer
    <3>1. [call[c] EXCEPT !.at = "app", !.backend = "unavailable"] \in Request
      BY <2>1 DEF Request
    <3>2. call' = [call EXCEPT ![c] = [call[c] EXCEPT !.at = "app", !.backend = "unavailable"]]
      BY <2>1, <2>5 DEF Request
    <3>3. Requests
      BY <2>1, <3>1, <3>2
    <3> QED BY <1>4, <1>g, <1>p, <1>a, <1>t, <2>3, <2>5, <3>3 DEF Unavailable
  <2>6. CASE Goto(c, "client") /\ Reply(c, [kind |-> "refused"])
    <3>1. [kind |-> "refused"] \in Answer
      BY DEF Answer
    <3>2. Requests /\ Answers
      BY <1>4, <1>w, <1>q, <2>6, <3>1 DEF Unavailable
    <3> QED BY <1>4, <1>g, <1>p, <1>t, <2>3, <3>2 DEF Unavailable
  <2> QED BY <2>4, <2>5, <2>6
<1>5. ASSUME NEW s \in Servers, NEW c \in Calls, Begin(s, c) PROVE TypeOK'
  <2>1. call[c] \in Request /\ call[c].at = "app" /\ call[c].path \in {"ready", "operations"}
    BY <1>0, <1>5, SentTypes DEF Begin, Takes
  <2>2. PICK page \in Page : page = NewPage(c, ConfigurationChecks)
    BY <1>0, <2>1, NewPageTypes
  <2>3. CASE Probing
    <3>1. server' = [server EXCEPT ![s] =
            [pc |-> "probe", call |-> c, failures |-> <<>>, page |-> page]]
      BY <1>5, <2>2, <2>3 DEF Begin
    <3>2. [pc |-> "probe", call |-> c, failures |-> <<>>, page |-> page] \in Handler
      BY DEF Handler
    <3>3. Processes
      BY <1>0, <3>1, <3>2 DEF TypeOK
    <3> QED BY <1>5, <1>g, <1>r, <1>a, <1>s, <1>t, <2>3, <3>3 DEF Begin
  <2>4. CASE ~Probing
    <3>1. Finish(s, c, page, <<>>)
      BY <1>5, <2>2, <2>4 DEF Begin
    <3>2. <<>> \in Seq(Event)
      OBVIOUS
    <3>3. Stores /\ Processes /\ Requests /\ Answers
      BY <1>0, <2>1, <3>1, <3>2, FinishTypes
    <3> QED BY <1>5, <1>g, <1>t, <3>3 DEF Begin
  <2> QED BY <2>3, <2>4
<1>6. ASSUME NEW s \in Servers, NEW c \in Calls, Upload(s, c) PROVE TypeOK'
  <2>1. Stores
    <3>1. ASSUME NEW type \in {"indexing.queue_unavailable", "indexing.failed"},
                 Record(s, <<NewEvent(type, "indexing", c)>>)
          PROVE  Stores
      <4>1. <<NewEvent(type, "indexing", c)>> \in Seq(Event)
        BY DEF NewEvent, Event, EventType
      <4> QED BY <1>0, <3>1, <4>1, RecordTypes
    <3> QED BY <1>6, <1>s, <3>1 DEF Upload
  <2>2. [kind |-> "done"] \in Answer
    BY DEF Answer
  <2>3. Requests /\ Answers
    BY <1>6, <1>w, <1>q, <2>2 DEF Upload, Takes
  <2> QED BY <1>6, <1>g, <1>p, <1>t, <2>1, <2>3 DEF Upload
<1>7. ASSUME NEW s \in Servers, Probe(s) PROVE TypeOK'
  <2>1. PICK h \in Handler, page \in Page, failures \in Seq(Event) :
          Probed(s, h, page, failures) /\ (KeepsOn(s, h, page, failures) \/ Stops(s, h, page, failures))
    BY <1>7, ProbeStep
  <2>2. UNCHANGED <<settings, up, counters>> /\ h.call \in Calls /\ call[h.call] \in Request
    BY <2>1 DEF Probed
  <2>3. CASE KeepsOn(s, h, page, failures)
    <3>1. [h EXCEPT !.page = page, !.failures = failures] \in Handler
      BY DEF Handler
    <3>2. Processes
      BY <1>0, <2>3, <3>1 DEF KeepsOn, TypeOK
    <3> QED BY <1>g, <1>r, <1>a, <1>s, <1>t, <2>2, <2>3, <3>2 DEF KeepsOn
  <2>4. CASE Stops(s, h, page, failures)
    <3>1. Finish(s, h.call, page, failures)
      BY <2>4 DEF Stops
    <3>2. Stores /\ Processes /\ Requests /\ Answers
      BY <1>0, <2>2, <3>1, FinishTypes
    <3> QED BY <1>g, <1>t, <2>2, <3>2
  <2> QED BY <2>1, <2>3, <2>4
<1>8. ASSUME NEW s \in Servers, PendingCount(s) PROVE TypeOK'
  <2>1. server[s] \in Handler
    BY <1>0, <1>8, ProcessTypes DEF PendingCount, At
  <2>2. PICK h \in Handler : h = server[s]
    BY <2>1
  <2>3. h.call \in Calls /\ h.page \in Page
    BY DEF Handler
  <2>4. PICK page \in Page : page = [h.page EXCEPT !.queue = Verdict("redis")]
    BY <2>3 DEF Page, Verdict, Status
  <2>5. Answered(s, h.call, page)
    BY <1>8, <2>2, <2>4 DEF PendingCount
  <2>6. call[h.call] \in Request
    BY <1>0, <2>1, <2>2, <2>3, SentTypes DEF RequestsOK
  <2>7. Processes /\ Requests /\ Answers
    BY <1>0, <2>3, <2>5, <2>6, AnsweredTypes
  <2> QED BY <1>8, <1>g, <1>s, <1>t, <2>7 DEF PendingCount
<1>9. ASSUME NEW s \in Servers, Crash(s) PROVE TypeOK'
  <2>1. Processes
    BY <1>0, <1>9 DEF Crash, TypeOK
  <2>2. Stores
    <3>1. <<>> \in Seq(Event) /\ Len(<<>>) <= MaxEvents
      BY ConstantsAssumption
    <3> QED BY <1>0, <1>9, <3>1 DEF Crash, TypeOK
  <2>3. Requests
    <3>1. ASSUME NEW c \in Calls, call[c].at # "client"
          PROVE  [call[c] EXCEPT !.at = "client"] \in Request
      BY <1>0, <3>1, SentTypes DEF Request
    <3>2. call \in [Calls -> Request \cup {Unsent}]
      BY <1>0 DEF TypeOK, Request
    <3> QED BY <1>9, <3>1, <3>2 DEF Crash
  <2>4. Answers
    BY <1>0, <1>9 DEF Crash, TypeOK, Answer
  <2>5. Rest
    BY <1>0, <1>9, <1>c DEF Crash, TypeOK
  <2> QED BY <1>g, <2>1, <2>2, <2>3, <2>4, <2>5
<1>10. ASSUME NEW s \in Servers, Start(s) PROVE TypeOK'
  <2>1. Processes
    BY <1>0, <1>10 DEF Start, TypeOK
  <2> QED BY <1>10, <1>g, <1>r, <1>a, <1>s, <1>t, <2>1 DEF Start
<1>11. ASSUME NEW w \in Workers, JobFailed(w) PROVE TypeOK'
  <2>1. \A type \in EventType : <<NewEvent(type, "indexing", w)>> \in Seq(Event)
    BY DEF NewEvent, Event
  <2>2. \E type \in EventType : Record(w, <<NewEvent(type, "indexing", w)>>)
    BY <1>11 DEF JobFailed, EventType
  <2>3. Stores
    BY <1>0, <2>1, <2>2, RecordTypes
  <2>4. Rest
    BY <1>0, <1>11, <1>c DEF JobFailed, TypeOK
  <2> QED BY <1>11, <1>g, <1>p, <1>r, <1>a, <2>3, <2>4 DEF JobFailed
<1>12. CASE UNCHANGED vars
  BY <1>12, <1>g, <1>p, <1>r, <1>a, <1>s, <1>t DEF vars
<1> QED BY <1>1, <1>2, <1>3, <1>4, <1>5, <1>6, <1>7, <1>8, <1>9, <1>10, <1>11, <1>12 DEF Next

\* A handler that ends leaves its process idle and its request answered.
LEMMA AnsweredRequest ==
  ASSUME TypeInv, NEW s \in Servers, NEW c \in Calls, NEW page, Answered(s, c, page),
         call[c].at = "app", call[c].by = s,
         server[s] \in Handler => server[s].call = c
  PROVE  RequestsOK'
<1>0. TypeOK /\ RequestsOK
  BY DEF TypeInv
<1>1. call[c] \in Request
  BY <1>0, SentTypes
<1>2. /\ call'[c] = [call[c] EXCEPT !.at = "client"]
      /\ \A k \in Calls : k # c => call'[k] = call[k] /\ answer'[k] = answer[k]
      /\ answer'[c] = [kind |-> "page", page |-> page]
  BY <1>0 DEF Answered, Goto, Reply, TypeOK
<1>3. call'[c] # Unsent /\ call'[c].at = "client"
  <2>1. "by" \in DOMAIN call'[c] /\ "by" \notin DOMAIN Unsent
    BY <1>1, <1>2 DEF Request, Unsent
  <2> QED BY <1>1, <1>2, <2>1 DEF Request
<1>4. answer'[c] # NoAnswer
  <2>1. answer'[c].kind = "page" /\ NoAnswer.kind = "none"
    BY <1>2 DEF NoAnswer
  <2> QED BY <2>1
<1>5. server'[s] = Idle /\ \A r \in Servers : r # s => server'[r] = server[r]
  BY <1>0 DEF Answered, TypeOK
<1>6. Idle \notin Handler
  BY DEF Idle, Handler
<1>7. ASSUME NEW r \in Servers, server'[r] \in Handler
      PROVE  /\ call'[server'[r].call].at = "app" /\ call'[server'[r].call].by = r
             /\ call'[server'[r].call].path = server'[r].page.path
  <2>1. r # s /\ server'[r] = server[r]
    BY <1>5, <1>6, <1>7
  <2>2. server[r].call \in Calls
    BY <1>7, <2>1 DEF Handler
  <2>3. call[server[r].call].by = r
    BY <1>0, <1>7, <2>1 DEF RequestsOK
  <2> QED BY <1>0, <1>2, <1>7, <2>1, <2>2, <2>3 DEF RequestsOK
<1>8. ASSUME NEW k \in Calls
      PROVE  answer'[k] = NoAnswer <=> (call'[k] = Unsent \/ call'[k].at # "client")
  <2>1. CASE k = c
    BY <1>3, <1>4, <2>1
  <2>2. CASE k # c
    <3>1. call'[k] = call[k] /\ answer'[k] = answer[k]
      BY <1>2, <2>2
    <3> QED BY <1>0, <3>1 DEF RequestsOK
  <2> QED BY <2>1, <2>2
<1> QED BY <1>7, <1>8 DEF RequestsOK

\* A handler that begins or goes on holds the request it has.
LEMMA GoesOn ==
  ASSUME TypeInv, NEW s \in Servers, NEW h \in Handler,
         server' = [server EXCEPT ![s] = h], UNCHANGED <<call, answer>>,
         call[h.call].at = "app", call[h.call].by = s, call[h.call].path = h.page.path
  PROVE  RequestsOK'
<1>1. server'[s] = h /\ \A r \in Servers : r # s => server'[r] = server[r]
  BY DEF TypeInv, TypeOK
<1> QED BY <1>1 DEF TypeInv, RequestsOK

LEMMA FinishRequest ==
  ASSUME TypeInv, NEW s \in Servers, NEW c \in Calls, NEW page \in Page,
         NEW failures \in Seq(Event), Finish(s, c, page, failures),
         call[c].at = "app", call[c].by = s, call[c].path = page.path,
         server[s] \in Handler => server[s].call = c
  PROVE  RequestsOK'
<1>0. TypeOK
  BY DEF TypeInv
<1>1. call[c] \in Request
  BY <1>0, SentTypes
<1>2. Listed(s)' \in Seq(Event)
  <2>1. events'[s] \in Seq(Event) /\ Limit \in Nat
    BY <1>0, <1>1, FinishTypes, ConstantsAssumption
  <2>2. Latest(events'[s], Limit) \in Seq(Event)
    BY <2>1, LatestIs
  <2> QED BY <2>2, ReverseIs DEF Listed
<1>e. PICK list \in Seq(Event) : list = Listed(s)'
  BY <1>2
<1>f. [page EXCEPT !.events = list] \in Page /\ [page EXCEPT !.events = list].path = page.path
  BY DEF Page
<1>3. PICK full \in Page : full = [page EXCEPT !.events = Listed(s)'] /\ full.path = page.path
  BY <1>e, <1>f
<1>4. \/ /\ server' = [server EXCEPT ![s] =
              [pc |-> "count", call |-> c, failures |-> failures, page |-> full]]
         /\ UNCHANGED <<call, answer>>
      \/ Answered(s, c, full) \/ Answered(s, c, page)
  BY <1>3 DEF Finish
<1>5. [pc |-> "count", call |-> c, failures |-> failures, page |-> full] \in Handler
  BY DEF Handler
<1> QED BY <1>3, <1>4, <1>5, AnsweredRequest, GoesOn

LEMMA RequestsStep == TypeInv /\ [Next]_vars => RequestsOK'
<1> SUFFICES ASSUME TypeInv, [Next]_vars PROVE RequestsOK'
  OBVIOUS
<1>0. TypeOK /\ RequestsOK /\ RoundsOK
  BY DEF TypeInv
<1>h. ASSUME NEW s \in Servers, server[s] \in Handler
      PROVE  /\ server[s].call \in Calls /\ server[s].page \in Page
             /\ call[server[s].call].at = "app" /\ call[server[s].call].by = s
             /\ call[server[s].call].path = server[s].page.path
  BY <1>0, <1>h DEF RequestsOK, Handler
<1>i. Idle \notin Handler /\ Down \notin Handler
  BY DEF Idle, Down, Handler
<1>1. ASSUME NEW d \in Fragile, Change(d) PROVE RequestsOK'
  <2>1. ASSUME NEW s \in Servers, server'[s] \in Handler
        PROVE  server[s] \in Handler /\ server'[s].call = server[s].call
               /\ server'[s].page.path = server[s].page.path
    <3>1. server[s] \notin {Idle, Down}
      BY <1>1, <1>i, <2>1 DEF Change
    <3>2. server[s] \in Handler
      BY <1>0, <3>1, ProcessTypes
    <3>3. server'[s] = [server[s] EXCEPT !.page.was_up = @ \cup up',
                                         !.page.was_down = @ \cup (Dependency \ up')]
      BY <1>1, <3>1 DEF Change
    <3>4. PICK h \in Handler : h = server[s]
      BY <3>2
    <3>5. h.page \in Page
      BY DEF Handler
    <3>6. server'[s].call = h.call /\ server'[s].page =
            [h.page EXCEPT !.was_up = @ \cup up', !.was_down = @ \cup (Dependency \ up')]
      BY <3>3, <3>4 DEF Handler
    <3>7. server'[s].page.path = h.page.path
      BY <3>5, <3>6 DEF Page
    <3> QED BY <3>2, <3>4, <3>6, <3>7
  <2>2. UNCHANGED <<call, answer>>
    BY <1>1 DEF Change
  <2> QED BY <1>0, <2>1, <2>2 DEF RequestsOK
\* One request moves on or is answered, no handler has it.
<1>m. ASSUME NEW c \in Calls, UNCHANGED server,
             \A s \in Servers : server[s] \in Handler => server[s].call # c,
             \A k \in Calls : k # c => call'[k] = call[k] /\ answer'[k] = answer[k],
             answer'[c] = NoAnswer <=> (call'[c] = Unsent \/ call'[c].at # "client")
      PROVE  RequestsOK'
  BY <1>0, <1>h, <1>m DEF RequestsOK
<1>2. ASSUME NEW c \in Calls, NEW s \in Servers, Send(c, s) PROVE RequestsOK'
  <2>1. call[c] = Unsent /\ answer[c] = NoAnswer
    BY <1>0, <1>2 DEF Send, RequestsOK
  <2>2. call'[c].at # "client" /\ \A k \in Calls : k # c => call'[k] = call[k]
    BY <1>0, <1>2 DEF Send, TypeOK
  <2>3. \A r \in Servers : server[r] \in Handler => server[r].call # c
    BY <1>h, <2>1 DEF Unsent
  <2> QED BY <1>2, <1>m, <2>1, <2>2, <2>3 DEF Send
\* A request that no handler has gets to another place, or its answer.
<1>n. ASSUME NEW c \in Calls, call[c].at \in {"limiter", "unavailable"} \/ \E s \in Servers : Takes(s, c),
             NEW to \in Request,
             call' = [call EXCEPT ![c] = to], UNCHANGED server,
             \/ to.at # "client" /\ UNCHANGED answer
             \/ to.at = "client" /\ \E a : a # NoAnswer /\ Reply(c, a)
      PROVE  RequestsOK'
  <2>1. call[c].at # "client" /\ answer[c] = NoAnswer
    BY <1>0, <1>n DEF RequestsOK, Takes
  <2>2. \A r \in Servers : server[r] \in Handler => server[r].call # c
    <3>1. ASSUME NEW r \in Servers, server[r] \in Handler, server[r].call = c PROVE FALSE
      <4>1. call[c].at = "app" /\ call[c].by = r
        BY <1>h, <3>1
      <4>2. Takes(r, c)
        BY <1>n, <4>1 DEF Takes
      <4> QED BY <1>0, <1>i, <3>1, <4>2, ProcessTypes DEF Takes
    <3> QED BY <3>1
  <2>3. call'[c] = to /\ \A k \in Calls : k # c => call'[k] = call[k]
    BY <1>0, <1>n DEF TypeOK
  <2>4. to # Unsent
    <3>1. "by" \in DOMAIN to /\ "by" \notin DOMAIN Unsent
      BY DEF Request, Unsent
    <3> QED BY <3>1
  <2>5. CASE to.at # "client" /\ UNCHANGED answer
    BY <1>m, <1>n, <2>1, <2>2, <2>3, <2>5
  <2>6. CASE to.at = "client" /\ \E a : a # NoAnswer /\ Reply(c, a)
    <3>1. answer'[c] # NoAnswer /\ \A k \in Calls : k # c => answer'[k] = answer[k]
      BY <1>0, <2>6 DEF Reply, TypeOK
    <3> QED BY <1>m, <1>n, <2>2, <2>3, <2>4, <2>6, <3>1
  <2> QED BY <1>n, <2>5, <2>6
<1>a. \A kind \in {"limited", "refused", "done", "lost"} : [kind |-> kind] # NoAnswer
  <2>1. \A kind : [kind |-> kind].kind = kind
    OBVIOUS
  <2> QED BY <2>1 DEF NoAnswer
<1>w. ASSUME NEW c \in Calls, call[c].at # "client", NEW step \in {"client", "limiter", "unavailable", "app"}
      PROVE  /\ [call[c] EXCEPT !.at = step] \in Request
             /\ [call[c] EXCEPT !.at = step].at = step
             /\ Goto(c, step) => call' = [call EXCEPT ![c] = [call[c] EXCEPT !.at = step]]
  <2>1. call[c] \in Request
    BY <1>0, <1>w, SentTypes
  <2> QED BY <2>1 DEF Goto, Request
<1>3. ASSUME NEW c \in Calls, CheckLimit(c) PROVE RequestsOK'
  <2>1. \/ Goto(c, "app") /\ UNCHANGED answer
        \/ Goto(c, "client") /\ Reply(c, [kind |-> "limited"])
        \/ Goto(c, "unavailable") /\ UNCHANGED answer
    BY <1>3 DEF CheckLimit
  <2>2. call[c].at = "limiter" /\ UNCHANGED server
    BY <1>3 DEF CheckLimit
  <2> QED BY <1>a, <1>n, <1>w, <2>1, <2>2
<1>4. ASSUME NEW c \in Calls, Unavailable(c) PROVE RequestsOK'
  <2>1. call[c].at = "unavailable" /\ UNCHANGED server
    BY <1>4 DEF Unavailable
  <2>2. call[c] \in Request
    BY <1>0, <2>1, SentTypes
  <2>3. \/ /\ call' = [call EXCEPT ![c].at = "app", ![c].backend = "unavailable"]
           /\ UNCHANGED answer
        \/ Goto(c, "client") /\ Reply(c, [kind |-> "refused"])
    BY <1>4 DEF Unavailable
  <2>4. CASE /\ call' = [call EXCEPT ![c].at = "app", ![c].backend = "unavailable"]
             /\ UNCHANGED answer
    <3> DEFINE to == [call[c] EXCEPT !.at = "app", !.backend = "unavailable"]
    <3>1. to \in Request /\ to.at = "app"
      BY <2>2 DEF Request
    <3>2. call' = [call EXCEPT ![c] = to]
      BY <2>2, <2>4 DEF Request
    <3> HIDE DEF to
    <3> QED BY <1>n, <2>1, <2>4, <3>1, <3>2
  <2>5. CASE Goto(c, "client") /\ Reply(c, [kind |-> "refused"])
    BY <1>a, <1>n, <1>w, <2>1, <2>5
  <2> QED BY <2>3, <2>4, <2>5
<1>5. ASSUME NEW s \in Servers, NEW c \in Calls, Begin(s, c) PROVE RequestsOK'
  <2>1. /\ call[c].at = "app" /\ call[c].by = s /\ call[c].path \in {"ready", "operations"}
        /\ server[s] \notin Handler
    BY <1>0, <1>5, <1>i, ProcessTypes DEF Begin, Takes
  <2>2. PICK page \in Page : page = NewPage(c, ConfigurationChecks)
    BY <1>0, <2>1, NewPageTypes
  <2>3. page.path = call[c].path
    BY <2>2 DEF NewPage
  <2>4. CASE Probing
    <3>1. server' = [server EXCEPT ![s] =
            [pc |-> "probe", call |-> c, failures |-> <<>>, page |-> page]]
          /\ UNCHANGED <<call, answer>>
      BY <1>5, <2>2, <2>4 DEF Begin
    <3>2. [pc |-> "probe", call |-> c, failures |-> <<>>, page |-> page] \in Handler
      BY DEF Handler
    <3> QED BY <2>1, <2>3, <3>1, <3>2, GoesOn
  <2>5. CASE ~Probing
    <3>1. Finish(s, c, page, <<>>)
      BY <1>5, <2>2, <2>5 DEF Begin
    <3>2. <<>> \in Seq(Event)
      OBVIOUS
    <3> QED BY <2>1, <2>3, <3>1, <3>2, FinishRequest
  <2> QED BY <2>4, <2>5
<1>6. ASSUME NEW s \in Servers, NEW c \in Calls, Upload(s, c) PROVE RequestsOK'
  <2>1. Takes(s, c) /\ call[c].at # "client" /\ Goto(c, "client")
        /\ Reply(c, [kind |-> "done"]) /\ UNCHANGED server
    BY <1>6 DEF Upload, Takes
  <2> QED BY <1>a, <1>n, <1>w, <2>1
<1>7. ASSUME NEW s \in Servers, Probe(s) PROVE RequestsOK'
  <2>1. PICK h \in Handler, page \in Page, failures \in Seq(Event) :
          Probed(s, h, page, failures) /\ (KeepsOn(s, h, page, failures) \/ Stops(s, h, page, failures))
    BY <1>7, ProbeStep
  <2>2. PICK c \in Calls : c = h.call
    BY <2>1 DEF Probed
  <2>3. call[c].at = "app" /\ call[c].by = s /\ call[c].path = page.path /\ server[s].call = c
    BY <2>1, <2>2 DEF Probed
  <2>4. CASE KeepsOn(s, h, page, failures)
    <3>1. PICK g \in Handler : g = [h EXCEPT !.page = page, !.failures = failures]
      BY DEF Handler
    <3>2. g.call = c /\ g.page = page
      BY <2>2, <3>1 DEF Handler
    <3>3. server' = [server EXCEPT ![s] = g] /\ UNCHANGED <<call, answer>>
      BY <2>4, <3>1 DEF KeepsOn
    <3> QED BY <2>3, <3>2, <3>3, GoesOn
  <2>5. CASE Stops(s, h, page, failures)
    <3>1. Finish(s, c, page, failures)
      BY <2>2, <2>5 DEF Stops
    <3> QED BY <2>3, <3>1, FinishRequest
  <2> QED BY <2>1, <2>4, <2>5
<1>8. ASSUME NEW s \in Servers, PendingCount(s) PROVE RequestsOK'
  <2>1. server[s] \in Handler
    BY <1>0, <1>8, ProcessTypes DEF PendingCount, At
  <2>2. \E page : Answered(s, server[s].call, page)
    BY <1>8 DEF PendingCount
  <2> QED BY <1>h, <2>1, <2>2, AnsweredRequest
<1>9. ASSUME NEW s \in Servers, Crash(s) PROVE RequestsOK'
  <2>1. ASSUME NEW c \in Calls, call[c].at # "client", call[c].by = s
        PROVE  answer'[c] # NoAnswer /\ call'[c] # Unsent /\ call'[c].at = "client"
    <3>1. call[c] \in Request
      BY <1>0, <2>1, SentTypes
    <3>2. call'[c] = [call[c] EXCEPT !.at = "client"] /\ answer'[c] = [kind |-> "lost"]
      BY <1>9, <2>1 DEF Crash
    <3>3. "by" \in DOMAIN call'[c] /\ "by" \notin DOMAIN Unsent
      BY <3>1, <3>2 DEF Request, Unsent
    <3> QED BY <1>a, <3>1, <3>2, <3>3 DEF Request
  <2>2. ASSUME NEW c \in Calls, ~(call[c].at # "client" /\ call[c].by = s)
        PROVE  answer'[c] = answer[c] /\ call'[c] = call[c]
    BY <1>9, <2>2 DEF Crash
  <2>3. server'[s] = Down /\ \A r \in Servers : r # s => server'[r] = server[r]
    BY <1>0, <1>9 DEF Crash, TypeOK
  <2>4. ASSUME NEW r \in Servers, server'[r] \in Handler
        PROVE  /\ server'[r] = server[r] /\ server[r] \in Handler
               /\ call'[server[r].call] = call[server[r].call]
    BY <1>h, <1>i, <2>2, <2>3, <2>4
  <2>5. \A c \in Calls : answer'[c] = NoAnswer <=> (call'[c] = Unsent \/ call'[c].at # "client")
    BY <1>0, <2>1, <2>2 DEF RequestsOK
  <2> QED BY <1>h, <2>4, <2>5 DEF RequestsOK
<1>10. ASSUME NEW s \in Servers, Start(s) PROVE RequestsOK'
  <2>1. server'[s] = Idle /\ \A r \in Servers : r # s => server'[r] = server[r]
    BY <1>0, <1>10 DEF Start, TypeOK
  <2> QED BY <1>0, <1>10, <1>i, <2>1 DEF Start, RequestsOK
<1>11. CASE UNCHANGED <<server, call, answer>>
  BY <1>0, <1>11 DEF RequestsOK
<1>12. ASSUME NEW w \in Workers, JobFailed(w) PROVE RequestsOK'
  BY <1>11, <1>12 DEF JobFailed
<1>13. CASE UNCHANGED vars
  BY <1>11, <1>13 DEF vars
<1> QED BY <1>1, <1>2, <1>3, <1>4, <1>5, <1>6, <1>7, <1>8, <1>9, <1>10, <1>12, <1>13 DEF Next


-----------------------------------------------------------------------------
(* Rounds. *)

\* Nothing changes the settings.
LEMMA SameSettings ==
  ASSUME [Next]_vars
  PROVE  /\ settings' = settings /\ Probes' = Probes /\ (Probing <=> Probing')
         /\ ConfigurationChecks' = ConfigurationChecks
<1>1. settings' = settings
  BY DEF Next, vars, Change, CheckLimit, Unavailable, Send, Begin, Upload, Probe, PendingCount,
         Crash, Start, JobFailed
<1> QED BY <1>1 DEF Probes, Probing, ConfigurationChecks

\* A page that begins.
LEMMA BeginRound ==
  ASSUME TypeOK, NEW c \in Calls, NEW page \in Page, page = NewPage(c, ConfigurationChecks)
  PROVE  /\ up \subseteq page.was_up /\ Dependency \ up \subseteq page.was_down
         /\ Probing => /\ Len(page.checks) \in 1..Len(Probes)
                       /\ Prefix(page) /\ Meets(<<>>, page, c)
         /\ ~Probing => Complete(page)
         /\ Meets(<<>>, page, c)
<1>0. settings \in Settings
  BY DEF TypeOK
<1>1. page.checks = ConfigurationChecks /\ page.was_up = up /\ page.was_down = Dependency \ up
  BY DEF NewPage
<1>2. Meets(<<>>, page, c)
  <2>1. Len(<<>>) < Len(page.checks) /\ DOMAIN <<>> = {}
    BY <1>0, <1>1, ConfigurationChecksAre
  <2>2. \A i \in DOMAIN page.checks : page.checks[i].name \notin DEPENDENCY_CHECK_NAMES
    BY <1>0, <1>1, ConfigurationChecksAre DEF DEPENDENCY_CHECK_NAMES
  <2> QED BY <2>1, <2>2 DEF Meets
<1>3. ASSUME Probing PROVE Len(page.checks) \in 1..Len(Probes) /\ Prefix(page)
  <2>1. page.checks = <<[name |-> "configuration", status |-> "ready"]>>
    BY <1>0, <1>1, <1>3, ConfigurationChecksAre DEF Probing
  <2>2. Len(page.checks) = 1 /\ page.checks[1] = [name |-> "configuration", status |-> "ready"]
    BY <2>1
  <2>3. Len(page.checks) \in 1..Len(Probes)
    BY <2>2, ProbesLength
  <2>4. 2..Len(page.checks) = {}
    BY <2>2
  <2> QED BY <2>2, <2>3, <2>4 DEF Prefix
<1> QED BY <1>1, <1>2, <1>3 DEF Complete

\* What a process at work does next is one round's next step.
LEMMA Following ==
  ASSUME TypeInv, [Next]_vars, UNCHANGED up, NEW s \in Servers, NEW g,
         server' = [server EXCEPT ![s] = g], g \in Handler => RoundOK(g)
  PROVE  RoundsOK'
<1>1. /\ Probes' = Probes /\ (Probing <=> Probing') /\ ConfigurationChecks' = ConfigurationChecks
  BY SameSettings
<1>2. \A h \in Handler : RoundOK(h)' <=> RoundOK(h)
  BY <1>1 DEF RoundOK, Prefix, Complete, Meets, Tells
<1>3. server'[s] = g /\ \A r \in Servers : r # s => server'[r] = server[r]
  BY DEF TypeInv, TypeOK
<1>4. ASSUME NEW r \in Servers, server'[r] \in Handler PROVE RoundOK(server'[r])
  BY <1>3, <1>4 DEF TypeInv, RoundsOK
<1>5. ASSUME NEW r \in Servers, server'[r] \in Handler PROVE RoundOK(server[r])'
  <2>1. PICK h \in Handler : h = server'[r]
    BY <1>5
  <2>2. RoundOK(h)'
    BY <1>2, <1>4, <2>1
  <2> QED BY <2>1, <2>2 DEF RoundOK, Prefix, Complete, Meets, Tells
<1> QED BY <1>5 DEF RoundsOK

LEMMA RoundsStep == TypeInv /\ [Next]_vars => RoundsOK'
<1> SUFFICES ASSUME TypeInv, [Next]_vars PROVE RoundsOK'
  OBVIOUS
<1>0. TypeOK /\ RequestsOK /\ RoundsOK
  BY DEF TypeInv
<1>e. /\ Probes' = Probes /\ (Probing <=> Probing') /\ ConfigurationChecks' = ConfigurationChecks
  BY SameSettings
<1>i. Idle \notin Handler /\ Down \notin Handler
  BY DEF Idle, Down, Handler
\* The checks end.
<1>f. ASSUME NEW s \in Servers, NEW c \in Calls, NEW page \in Page, NEW failures \in Seq(Event),
             Finish(s, c, page, failures), UNCHANGED up, call[c] \in Request,
             up \subseteq page.was_up, Dependency \ up \subseteq page.was_down, Complete(page)
      PROVE  RoundsOK'
  <2>1. Listed(s)' \in Seq(Event)
    <3>1. events'[s] \in Seq(Event) /\ Limit \in Nat
      BY <1>0, <1>f, FinishTypes, ConstantsAssumption
    <3>2. Latest(events'[s], Limit) \in Seq(Event)
      BY <3>1, LatestIs
    <3> QED BY <3>2, ReverseIs DEF Listed
  <2>2. PICK list \in Seq(Event) : list = Listed(s)'
    BY <2>1
  <2> DEFINE full == [page EXCEPT !.events = list]
  <2>3. /\ full.was_up = page.was_up /\ full.was_down = page.was_down
        /\ full.path = page.path /\ full.checks = page.checks
    BY DEF Page
  <2> HIDE DEF full
  <2>4. \/ /\ page.path = "operations"
           /\ server' = [server EXCEPT ![s] =
                [pc |-> "count", call |-> c, failures |-> failures, page |-> full]]
        \/ server' = [server EXCEPT ![s] = Idle]
    BY <1>f, <2>2 DEF Finish, Answered, full
  <2>5. CASE /\ page.path = "operations"
             /\ server' = [server EXCEPT ![s] =
                  [pc |-> "count", call |-> c, failures |-> failures, page |-> full]]
    <3>1. Complete(full)
      BY <1>f, <2>3 DEF Complete, Prefix, Tells
    <3>2. RoundOK([pc |-> "count", call |-> c, failures |-> failures, page |-> full])
      BY <1>f, <2>3, <2>5, <3>1 DEF RoundOK
    <3> QED BY <1>f, <2>5, <3>2, Following
  <2>6. CASE server' = [server EXCEPT ![s] = Idle]
    BY <1>f, <1>i, <2>6, Following
  <2> QED BY <2>4, <2>5, <2>6
<1>1. ASSUME NEW d \in Fragile, Change(d) PROVE RoundsOK'
  <2>1. ASSUME NEW s \in Servers, server'[s] \in Handler
        PROVE  RoundOK(server[s])'
    <3>1. server[s] \notin {Idle, Down}
      BY <1>1, <1>i, <2>1 DEF Change
    <3>2. server[s] \in Handler /\ RoundOK(server[s])
      BY <1>0, <3>1, ProcessTypes DEF RoundsOK
    <3>3. PICK h \in Handler : h = server[s]
      BY <3>2
    <3>4. PICK page \in Page : page = h.page
      BY DEF Handler
    <3>5. server'[s] = [h EXCEPT !.page = [page EXCEPT !.was_up = @ \cup up',
                                                       !.was_down = @ \cup (Dependency \ up')]]
      BY <1>1, <3>1, <3>3, <3>4 DEF Change, Handler, Page
    <3> DEFINE new == [page EXCEPT !.was_up = @ \cup up', !.was_down = @ \cup (Dependency \ up')]
    <3>6. /\ new.checks = page.checks /\ new.path = page.path
          /\ new.was_up = page.was_up \cup up' /\ new.was_down = page.was_down \cup (Dependency \ up')
      BY DEF Page
    <3>7. /\ server'[s].page = new /\ server'[s].pc = h.pc /\ server'[s].failures = h.failures
          /\ server'[s].call = h.call
      BY <3>5 DEF Handler
    <3> HIDE DEF new
    <3>8. Prefix(page) => Prefix(new)
      BY <3>6 DEF Prefix, Tells
    <3>9. Complete(page) => Complete(new)
      BY <3>6, <3>8 DEF Complete
    <3>10. Meets(h.failures, page, h.call) => Meets(h.failures, new, h.call)
      BY <3>6 DEF Meets
    <3>11. /\ Prefix(new) <=> Prefix(server[s].page)'
           /\ Complete(new) <=> Complete(server[s].page)'
           /\ Meets(h.failures, new, h.call) <=>
                Meets(server[s].failures, server[s].page, server[s].call)'
      BY <1>e, <3>7 DEF Prefix, Complete, Meets, Tells
    <3>12. up' \subseteq new.was_up /\ Dependency \ up' \subseteq new.was_down
      BY <3>6
    <3> QED BY <1>e, <3>2, <3>3, <3>4, <3>6, <3>7, <3>8, <3>9, <3>10, <3>11, <3>12 DEF RoundOK
  <2> QED BY <2>1 DEF RoundsOK
<1>5. ASSUME NEW s \in Servers, NEW c \in Calls, Begin(s, c) PROVE RoundsOK'
  <2>1. /\ call[c].at = "app" /\ call[c].path \in {"ready", "operations"} /\ UNCHANGED up
        /\ call[c] \in Request
    BY <1>0, <1>5, SentTypes DEF Begin, Takes
  <2>2. PICK page \in Page : page = NewPage(c, ConfigurationChecks)
    BY <1>0, <2>1, NewPageTypes
  <2>3. /\ up \subseteq page.was_up /\ Dependency \ up \subseteq page.was_down
        /\ Probing => /\ Len(page.checks) \in 1..Len(Probes)
                      /\ Prefix(page) /\ Meets(<<>>, page, c)
        /\ ~Probing => Complete(page)
    BY <1>0, <2>2, BeginRound
  <2>4. CASE Probing
    <3>1. server' = [server EXCEPT ![s] =
            [pc |-> "probe", call |-> c, failures |-> <<>>, page |-> page]]
      BY <1>5, <2>2, <2>4 DEF Begin
    <3>2. RoundOK([pc |-> "probe", call |-> c, failures |-> <<>>, page |-> page])
      BY <2>3, <2>4 DEF RoundOK
    <3> QED BY <2>1, <3>1, <3>2, Following
  <2>5. CASE ~Probing
    <3>1. Finish(s, c, page, <<>>)
      BY <1>5, <2>2, <2>5 DEF Begin
    <3>2. <<>> \in Seq(Event)
      OBVIOUS
    <3> QED BY <1>f, <2>1, <2>3, <2>5, <3>1, <3>2
  <2> QED BY <2>4, <2>5
<1>7. ASSUME NEW s \in Servers, Probe(s) PROVE RoundsOK'
  <2>1. PICK h \in Handler, page \in Page, failures \in Seq(Event) :
          Probed(s, h, page, failures) /\ (KeepsOn(s, h, page, failures) \/ Stops(s, h, page, failures))
    BY <1>7, ProbeStep
  <2>2. /\ h.pc = "probe" /\ Probing /\ UNCHANGED up /\ h.call \in Calls /\ call[h.call] \in Request
        /\ Len(h.page.checks) \in 1..Len(Probes) /\ Len(page.checks) = Len(h.page.checks) + 1
        /\ up \subseteq page.was_up /\ Dependency \ up \subseteq page.was_down
        /\ Prefix(page) /\ Meets(failures, page, h.call)
    BY <2>1 DEF Probed
  <2>3. CASE KeepsOn(s, h, page, failures)
    <3> DEFINE g == [h EXCEPT !.page = page, !.failures = failures]
    <3>1. /\ g.call = h.call /\ g.page = page /\ g.failures = failures /\ g.pc = "probe"
      BY <2>2 DEF Handler
    <3>2. server' = [server EXCEPT ![s] = g] /\ Len(h.page.checks) < Len(Probes)
      BY <2>3 DEF KeepsOn
    <3> HIDE DEF g
    <3>3. Len(page.checks) \in 1..Len(Probes)
      BY <2>2, <3>2, ProbesLength
    <3>4. RoundOK(g)
      BY <2>2, <3>1, <3>3 DEF RoundOK
    <3> QED BY <2>2, <3>2, <3>4, Following
  <2>4. CASE Stops(s, h, page, failures)
    BY <1>f, <2>2, <2>4 DEF Stops
  <2> QED BY <2>1, <2>3, <2>4
<1>8. ASSUME NEW s \in Servers, PendingCount(s) \/ Crash(s) \/ Start(s) PROVE RoundsOK'
  <2>1. PICK g \in {Idle, Down} : server' = [server EXCEPT ![s] = g]
    BY <1>8 DEF PendingCount, Answered, Crash, Start
  <2>2. UNCHANGED up
    BY <1>8 DEF PendingCount, Crash, Start
  <2> QED BY <1>i, <2>1, <2>2, Following
<1>9. CASE UNCHANGED <<server, up>>
  <2>1. ASSUME NEW s \in Servers, server'[s] \in Handler PROVE RoundOK(server[s])'
    <3>1. RoundOK(server[s])
      BY <1>0, <1>9, <2>1 DEF RoundsOK
    <3> QED BY <1>9, <1>e, <3>1 DEF RoundOK, Prefix, Complete, Meets, Tells
  <2> QED BY <2>1 DEF RoundsOK
<1>10. ASSUME NEW c \in Calls, CheckLimit(c) \/ Unavailable(c) PROVE RoundsOK'
  BY <1>9, <1>10 DEF CheckLimit, Unavailable
<1>11. ASSUME NEW c \in Calls, NEW s \in Servers, Send(c, s) \/ Upload(s, c) PROVE RoundsOK'
  BY <1>9, <1>11 DEF Send, Upload
<1>12. ASSUME NEW w \in Workers, JobFailed(w) PROVE RoundsOK'
  BY <1>9, <1>12 DEF JobFailed
<1>13. CASE UNCHANGED vars
  BY <1>9, <1>13 DEF vars
<1> QED BY <1>1, <1>5, <1>7, <1>8, <1>10, <1>11, <1>12, <1>13 DEF Next

LEMMA TypeInit == Init => TypeInv
<1> SUFFICES ASSUME Init PROVE TypeInv
  OBVIOUS
<1>1. Idle \notin Handler /\ Unsent.at = "client" /\ NoAnswer.kind = "none"
  BY DEF Idle, Handler, Unsent, NoAnswer
<1>2. TypeOK
  <2>1. <<>> \in Seq(Event) /\ Len(<<>>) <= MaxEvents
    BY ConstantsAssumption
  <2> QED BY <2>1, ConstantsAssumption DEF Init, TypeOK, NoAnswer
<1>3. RequestsOK /\ RoundsOK
  BY <1>1 DEF Init, RequestsOK, RoundsOK
<1> QED BY <1>2, <1>3 DEF TypeInv

\* Types, and that no store ever keeps more than MaxEvents events.
THEOREM TypeCorrect == Spec => []TypeOK
<1>1. TypeInv /\ [Next]_vars => TypeInv'
  BY TypeStep, RequestsStep, RoundsStep DEF TypeInv
<1>2. TypeInv => TypeOK
  BY DEF TypeInv
<1> QED BY TypeInit, <1>1, <1>2, PTL DEF Spec

-----------------------------------------------------------------------------
(* What is recorded, and by whom. *)

Outage(c) == NewEvent("rate_limit.backend_unavailable", "rate_limit", c)

\* The checks of the handler of c on s end.
Ends(s, c, page, failures) ==
  /\ Finish(s, c, page, failures)
  /\ page \in Page /\ failures \in Seq(Event) /\ c \in Calls
  /\ Complete(page) /\ Meets(failures, page, c)
  /\ call[c] \in Request /\ call[c].at = "app" /\ call[c].by = s /\ call[c].path = page.path
  /\ server[s].pc \in {"idle", "probe"}
  /\ UNCHANGED <<settings, up>>

\* A handler that begins, or probes, goes on probing or ends its checks.
LEMMA BeginEnds ==
  ASSUME TypeInv, NEW s \in Servers, NEW c \in Calls, Begin(s, c)
  PROVE  \/ UNCHANGED <<events, log, call, answer>> /\ \E h : h.pc = "probe" /\ server' = [server EXCEPT ![s] = h]
         \/ \E page, failures : Ends(s, c, page, failures)
<1>0. TypeOK
  BY DEF TypeInv
<1>1. /\ call[c].at = "app" /\ call[c].by = s /\ call[c].path \in {"ready", "operations"}
      /\ UNCHANGED <<settings, up>> /\ call[c] \in Request /\ server[s].pc = "idle"
  BY <1>0, SentTypes DEF Begin, Takes, At
<1>2. PICK page \in Page : page = NewPage(c, ConfigurationChecks)
  BY <1>0, <1>1, NewPageTypes
<1>3. (~Probing => Complete(page)) /\ Meets(<<>>, page, c) /\ page.path = call[c].path
  BY <1>0, <1>2, BeginRound DEF NewPage
<1>4. CASE Probing
  <2> DEFINE h == [pc |-> "probe", call |-> c, failures |-> <<>>, page |-> page]
  <2>1. UNCHANGED <<events, log, call, answer>> /\ server' = [server EXCEPT ![s] = h] /\ h.pc = "probe"
    BY <1>2, <1>4 DEF Begin
  <2> QED BY <2>1
<1>5. CASE ~Probing
  <2>1. Finish(s, c, page, <<>>) /\ <<>> \in Seq(Event)
    BY <1>2, <1>5 DEF Begin
  <2>2. Ends(s, c, page, <<>>)
    BY <1>1, <1>3, <1>5, <2>1 DEF Ends
  <2> QED BY <2>2
<1> QED BY <1>4, <1>5

LEMMA ProbeEnds ==
  ASSUME TypeInv, NEW s \in Servers, Probe(s)
  PROVE  \/ UNCHANGED <<events, log, call, answer>> /\ \E h : h.pc = "probe" /\ server' = [server EXCEPT ![s] = h]
         \/ \E page, failures : Ends(s, server[s].call, page, failures)
<1>1. PICK h \in Handler, page \in Page, failures \in Seq(Event) :
        Probed(s, h, page, failures) /\ (KeepsOn(s, h, page, failures) \/ Stops(s, h, page, failures))
  BY ProbeStep
<1>2. CASE KeepsOn(s, h, page, failures)
  <2> DEFINE g == [h EXCEPT !.page = page, !.failures = failures]
  <2>1. g.pc = "probe"
    BY <1>1 DEF Probed, Handler
  <2>2. server' = [server EXCEPT ![s] = g] /\ UNCHANGED <<events, log, call, answer>>
    BY <1>2 DEF KeepsOn
  <2> QED BY <2>1, <2>2
<1>3. CASE Stops(s, h, page, failures)
  <2>1. Ends(s, h.call, page, failures)
    BY <1>1, <1>3 DEF Probed, Stops, Ends
  <2>2. h.call = server[s].call
    BY <1>1 DEF Probed
  <2> QED BY <2>1, <2>2
<1> QED BY <1>1, <1>2, <1>3

\* What becomes of the events of a process in one step: nothing, more of them, or,
\* for a process that dies with its requests, all are gone.
Grows(p, new) ==
  /\ new \in Seq(Event)
  /\ events'[p] = Latest(events[p] \o new, MaxEvents) /\ log'[p] = log[p] \o new
  /\ p \in Servers => /\ \A i \in DOMAIN new : new[i].cause \in Calls
                      /\ server[p].pc \in {"idle", "probe"}

Gone(p) ==
  /\ p \in Servers /\ events'[p] = <<>> /\ log'[p] = <<>> /\ server'[p] = Down
  /\ \A c \in Calls : call[c].at # "client" /\ call[c].by = p => call'[c].at = "client"

Kept(p) == events'[p] = events[p] /\ log'[p] = log[p]

LEMMA LogStep ==
  ASSUME TypeInv, [Next]_vars, NEW p \in Servers \cup Workers
  PROVE  Kept(p) \/ Gone(p) \/ \E new : Grows(p, new)
<1>0. TypeOK /\ RequestsOK /\ RoundsOK
  BY DEF TypeInv
<1>r. ASSUME NEW q \in Servers \cup Workers, NEW new \in Seq(Event), Record(q, new),
             q \in Servers => /\ \A i \in DOMAIN new : new[i].cause \in Calls
                              /\ server[q].pc \in {"idle", "probe"}
      PROVE  Kept(p) \/ Grows(p, new)
  <2>1. CASE p = q
    BY <1>0, <1>r, <2>1 DEF Record, Grows, TypeOK
  <2>2. CASE p # q
    BY <1>0, <1>r, <2>2 DEF Record, Kept, TypeOK
  <2> QED BY <2>1, <2>2
<1>o. ASSUME NEW type \in EventType, NEW source \in Dependency \cup {"rate_limit", "indexing"},
             NEW cause \in Calls \cup Workers, NEW q \in Servers \cup Workers,
             Record(q, <<NewEvent(type, source, cause)>>),
             q \in Servers => cause \in Calls /\ server[q].pc = "idle"
      PROVE  Kept(p) \/ \E new : Grows(p, new)
  <2> DEFINE e == NewEvent(type, source, cause)
             new == <<e>>
  <2>1. e \in Event /\ e.cause = cause
    BY DEF NewEvent, Event
  <2> HIDE DEF e
  <2>2. new \in Seq(Event) /\ DOMAIN new = {1} /\ new[1] = e
    BY <2>1
  <2>3. Record(q, new)
    BY <1>o DEF e
  <2> HIDE DEF new
  <2> QED BY <1>o, <1>r, <2>1, <2>2, <2>3
<1>e. ASSUME NEW s \in Servers, NEW c, NEW page, NEW failures, Ends(s, c, page, failures)
      PROVE  Kept(p) \/ \E new : Grows(p, new)
  BY <1>e, <1>r DEF Ends, Finish, Meets
<1>1. UNCHANGED <<events, log>> => Kept(p)
  BY DEF Kept
<1>2. ASSUME NEW c \in Calls, Unavailable(c) PROVE Kept(p) \/ \E new : Grows(p, new)
  <2>1. call[c].by \in Servers
    BY <1>0, <1>2, SentTypes DEF Unavailable, Request
  <2> QED BY <1>2, <1>o, <2>1 DEF Unavailable, At, EventType
<1>3. ASSUME NEW s \in Servers, NEW c \in Calls, Begin(s, c)
      PROVE  Kept(p) \/ \E new : Grows(p, new)
  <2>1. UNCHANGED <<events, log>> \/ \E page, failures : Ends(s, c, page, failures)
    BY <1>3, BeginEnds
  <2>2. CASE UNCHANGED <<events, log>>
    BY <1>1, <2>2
  <2>3. CASE ~(UNCHANGED <<events, log>>)
    BY <1>e, <2>1, <2>3
  <2> QED BY <2>2, <2>3
<1>4. ASSUME NEW s \in Servers, Probe(s) PROVE Kept(p) \/ \E new : Grows(p, new)
  <2>1. UNCHANGED <<events, log>> \/ \E c, page, failures : Ends(s, c, page, failures)
    BY <1>4, ProbeEnds
  <2>2. CASE UNCHANGED <<events, log>>
    BY <1>1, <2>2
  <2>3. CASE ~(UNCHANGED <<events, log>>)
    BY <1>e, <2>1, <2>3
  <2> QED BY <2>2, <2>3
<1>5. ASSUME NEW s \in Servers, NEW c \in Calls, Upload(s, c)
      PROVE  Kept(p) \/ \E new : Grows(p, new)
  <2>1. server[s].pc = "idle"
    BY <1>5 DEF Upload, Takes, At
  <2>2. \/ UNCHANGED <<events, log>>
        \/ Record(s, <<NewEvent("indexing.queue_unavailable", "indexing", c)>>)
        \/ Record(s, <<NewEvent("indexing.failed", "indexing", c)>>)
    BY <1>5 DEF Upload
  <2>3. {"indexing.queue_unavailable", "indexing.failed"} \subseteq EventType
    BY DEF EventType
  <2>4. ASSUME NEW type \in EventType, Record(s, <<NewEvent(type, "indexing", c)>>)
        PROVE  Kept(p) \/ \E new : Grows(p, new)
    BY <1>o, <2>1, <2>4
  <2>5. CASE UNCHANGED <<events, log>>
    BY <1>1, <2>5
  <2>6. CASE Record(s, <<NewEvent("indexing.queue_unavailable", "indexing", c)>>)
    BY <2>3, <2>4, <2>6
  <2>7. CASE Record(s, <<NewEvent("indexing.failed", "indexing", c)>>)
    BY <2>3, <2>4, <2>7
  <2> QED BY <2>2, <2>5, <2>6, <2>7
<1>6. ASSUME NEW w \in Workers, JobFailed(w) PROVE Kept(p) \/ \E new : Grows(p, new)
  <2>1. w \notin Servers
    BY ConstantsAssumption
  <2> QED BY <1>6, <1>o, <2>1 DEF JobFailed, EventType
<1>7. ASSUME NEW s \in Servers, Crash(s) PROVE Kept(p) \/ Gone(p)
  <2>1. CASE p = s
    <3>1. events'[p] = <<>> /\ log'[p] = <<>> /\ server'[p] = Down
      BY <1>0, <1>7, <2>1 DEF Crash, TypeOK
    <3>2. ASSUME NEW c \in Calls, call[c].at # "client", call[c].by = p
          PROVE  call'[c].at = "client"
      <4>1. call'[c] = [call[c] EXCEPT !.at = "client"] /\ call[c] \in Request
        BY <1>0, <1>7, <2>1, <3>2, SentTypes DEF Crash
      <4> QED BY <4>1 DEF Request
    <3> QED BY <2>1, <3>1, <3>2 DEF Gone
  <2>2. CASE p # s
    BY <1>0, <1>7, <2>2 DEF Crash, Kept, TypeOK
  <2> QED BY <2>1, <2>2
<1>8. ASSUME NEW c \in Calls, CheckLimit(c) PROVE Kept(p)
  BY <1>1, <1>8 DEF CheckLimit, Kept
<1>9. ASSUME NEW c \in Calls, NEW s \in Servers, Send(c, s) PROVE Kept(p)
  BY <1>9 DEF Send, Kept
<1>10. ASSUME NEW s \in Servers, PendingCount(s) \/ Start(s) PROVE Kept(p)
  BY <1>10 DEF PendingCount, Start, Kept
<1>11. ASSUME NEW d \in Fragile, Change(d) PROVE Kept(p)
  BY <1>11 DEF Change, Kept
<1>12. CASE UNCHANGED vars
  BY <1>12 DEF vars, Kept
<1> QED BY <1>2, <1>3, <1>4, <1>5, <1>6, <1>7, <1>8, <1>9, <1>10, <1>11, <1>12 DEF Next

\* A store holds the latest of what its process recorded since it was started, and
\* what an API process recorded were failures of requests.
StoresOK ==
  /\ \A p \in Servers \cup Workers : events[p] = Latest(log[p], MaxEvents)
  /\ \A s \in Servers : \A i \in DOMAIN log[s] : log[s][i].cause \in Calls

LEMMA StoresStep == TypeInv /\ StoresOK /\ [Next]_vars => StoresOK'
<1> SUFFICES ASSUME TypeInv, StoresOK, [Next]_vars PROVE StoresOK'
  OBVIOUS
<1>0. \A p \in Servers \cup Workers : log[p] \in Seq(Event) /\ events[p] = Latest(log[p], MaxEvents)
  BY DEF TypeInv, TypeOK, StoresOK
<1>m. MaxEvents \in Nat
  BY ConstantsAssumption
<1>1. ASSUME NEW p \in Servers \cup Workers
      PROVE  /\ events'[p] = Latest(log'[p], MaxEvents)
             /\ p \in Servers => \A i \in DOMAIN log'[p] : log'[p][i].cause \in Calls
  <2>1. CASE Kept(p)
    BY <1>0, <2>1 DEF Kept, StoresOK
  <2>2. CASE Gone(p)
    <3>1. Latest(<<>>, MaxEvents) = <<>> /\ DOMAIN <<>> = {}
      BY <1>m DEF Latest
    <3> QED BY <2>2, <3>1 DEF Gone
  <2>3. ASSUME NEW new, Grows(p, new)
        PROVE  /\ events'[p] = Latest(log'[p], MaxEvents)
               /\ p \in Servers => \A i \in DOMAIN log'[p] : log'[p][i].cause \in Calls
    <3>1. PICK old \in Seq(Event) : old = log[p]
      BY <1>0
    <3>2. new \in Seq(Event) /\ log'[p] = old \o new
      BY <2>3, <3>1 DEF Grows
    <3>3. events'[p] = Latest(Latest(old, MaxEvents) \o new, MaxEvents)
      BY <1>0, <2>3, <3>1 DEF Grows
    <3>4. events'[p] = Latest(log'[p], MaxEvents)
      BY <1>m, <3>2, <3>3, LatestOfMore
    <3>5. ASSUME p \in Servers, NEW i \in DOMAIN log'[p] PROVE log'[p][i].cause \in Calls
      <4>1. /\ \A j \in DOMAIN new : new[j].cause \in Calls
            /\ \A j \in DOMAIN old : old[j].cause \in Calls
        BY <2>3, <3>1, <3>5 DEF Grows, StoresOK
      <4>2. /\ DOMAIN log'[p] = 1..(Len(old) + Len(new)) /\ Len(old) \in Nat /\ Len(new) \in Nat
            /\ log'[p][i] = IF i <= Len(old) THEN old[i] ELSE new[i - Len(old)]
            /\ DOMAIN old = 1..Len(old) /\ DOMAIN new = 1..Len(new)
        BY <3>2, <3>5
      <4>3. i \in 1..(Len(old) + Len(new))
        BY <3>5, <4>2
      <4>4. CASE i <= Len(old)
        BY <4>1, <4>2, <4>3, <4>4
      <4>5. CASE ~(i <= Len(old))
        <5>1. i - Len(old) \in DOMAIN new
          BY <4>2, <4>3, <4>5
        <5> QED BY <4>1, <4>2, <4>5, <5>1
      <4> QED BY <4>4, <4>5
    <3> QED BY <3>4, <3>5
  <2> QED BY <2>1, <2>2, <2>3, LogStep
<1> QED BY <1>1 DEF StoresOK

\* A request on its way that found the limiter's backend out has its outage recorded.
Found(c, p) == \E i \in DOMAIN log[p] : log[p][i] = Outage(c)

OutagesOK ==
  \A c \in Calls : call[c].at # "client" /\ call[c].backend = "unavailable" => Found(c, call[c].by)

\* Who meets an outage.
LEMMA CallStep ==
  ASSUME TypeInv, [Next]_vars, NEW c \in Calls, call'[c].at # "client",
         call'[c].backend = "unavailable"
  PROVE  \/ call[c].at # "client" /\ call[c].backend = "unavailable" /\ call'[c].by = call[c].by
         \/ Unavailable(c)
<1>0. TypeOK /\ call \in [Calls -> Request \cup {Unsent}]
  BY DEF TypeInv, TypeOK, Request
<1> DEFINE Goal == call[c].at # "client" /\ call[c].backend = "unavailable" /\ call'[c].by = call[c].by
<1>s. UNCHANGED call => Goal
  OBVIOUS
<1>g. ASSUME NEW k \in Calls, NEW step, call[k].at # "client", Goto(k, step) PROVE Goal
  <2>1. CASE k = c
    <3>1. call[c] \in Request
      BY <1>0, <1>g, <2>1, SentTypes
    <3>2. call'[c] = [call[c] EXCEPT !.at = step]
      BY <1>0, <1>g, <2>1 DEF Goto
    <3> QED BY <1>g, <2>1, <3>1, <3>2 DEF Request
  <2>2. CASE k # c
    BY <1>0, <1>g, <2>2 DEF Goto
  <2> QED BY <2>1, <2>2
<1>e. ASSUME NEW s \in Servers, NEW k, NEW page, NEW failures, Ends(s, k, page, failures)
      PROVE  Goal
  <2>1. UNCHANGED call \/ Goto(k, "client")
    BY <1>e DEF Ends, Finish, Answered
  <2> QED BY <1>e, <1>g, <1>s, <2>1 DEF Ends
<1>1. ASSUME NEW k \in Calls, Unavailable(k) PROVE Goal \/ Unavailable(c)
  <2>1. CASE k # c
    <3>1. call'[c] = call[c]
      BY <1>0, <1>1, <2>1 DEF Unavailable, Goto
    <3> QED BY <3>1
  <2> QED BY <1>1, <2>1
<1>2. ASSUME NEW k \in Calls, CheckLimit(k) PROVE Goal
  BY <1>2, <1>g DEF CheckLimit
<1>3. ASSUME NEW k \in Calls, NEW s \in Servers, Send(k, s) PROVE Goal
  <2>1. PICK path \in Path, at \in {"app", "limiter"} : call' = [call EXCEPT ![k] =
          [path |-> path, by |-> s, backend |-> "available", at |-> at]]
    BY <1>3 DEF Send
  <2>2. CASE k = c
    BY <1>0, <2>1, <2>2
  <2>3. CASE k # c
    BY <1>0, <2>1, <2>3
  <2> QED BY <2>2, <2>3
<1>4. ASSUME NEW s \in Servers, NEW k \in Calls, Begin(s, k) PROVE Goal
  BY <1>4, <1>e, <1>s, BeginEnds
<1>5. ASSUME NEW s \in Servers, Probe(s) PROVE Goal
  BY <1>5, <1>e, <1>s, ProbeEnds
<1>6. ASSUME NEW s \in Servers, NEW k \in Calls, Upload(s, k) PROVE Goal
  BY <1>6, <1>g DEF Upload, Takes
<1>7. ASSUME NEW s \in Servers, PendingCount(s) PROVE Goal
  <2>1. server[s] \in Handler
    BY <1>0, <1>7, ProcessTypes DEF PendingCount, At
  <2>2. server[s].call \in Calls /\ call[server[s].call].at = "app"
    BY <2>1 DEF TypeInv, RequestsOK, Handler
  <2>3. Goto(server[s].call, "client")
    BY <1>7 DEF PendingCount, Answered
  <2> QED BY <1>g, <2>2, <2>3
<1>8. ASSUME NEW s \in Servers, Crash(s) PROVE Goal
  <2>1. CASE call[c].at # "client" /\ call[c].by = s
    <3>1. call'[c] = [call[c] EXCEPT !.at = "client"] /\ call[c] \in Request
      BY <1>0, <1>8, <2>1, SentTypes DEF Crash
    <3> QED BY <3>1 DEF Request
  <2>2. CASE ~(call[c].at # "client" /\ call[c].by = s)
    BY <1>8, <2>2 DEF Crash
  <2> QED BY <2>1, <2>2
<1>9. ASSUME NEW s \in Servers, Start(s) PROVE Goal
  BY <1>9, <1>s DEF Start
<1>10. ASSUME NEW d \in Fragile, Change(d) PROVE Goal
  BY <1>10, <1>s DEF Change
<1>11. ASSUME NEW w \in Workers, JobFailed(w) PROVE Goal
  BY <1>11, <1>s DEF JobFailed
<1>12. CASE UNCHANGED vars
  BY <1>12, <1>s DEF vars
<1> QED BY <1>1, <1>2, <1>3, <1>4, <1>5, <1>6, <1>7, <1>8, <1>9, <1>10, <1>11, <1>12 DEF Next

LEMMA OutagesStep == TypeInv /\ OutagesOK /\ [Next]_vars => OutagesOK'
<1> SUFFICES ASSUME TypeInv, OutagesOK, [Next]_vars,
                    NEW c \in Calls, call'[c].at # "client", call'[c].backend = "unavailable"
             PROVE  \E i \in DOMAIN log'[call'[c].by] : log'[call'[c].by][i] = Outage(c)
  BY DEF OutagesOK, Found, Outage, NewEvent
<1>0. TypeOK
  BY DEF TypeInv
<1>1. CASE call[c].at # "client" /\ call[c].backend = "unavailable" /\ call'[c].by = call[c].by
  <2>1. PICK p \in Servers : p = call[c].by
    BY <1>0, <1>1, SentTypes DEF Request
  <2>2. PICK i \in DOMAIN log[p] : log[p][i] = Outage(c)
    BY <1>1, <2>1 DEF OutagesOK, Found
  <2>3. CASE Kept(p)
    BY <1>1, <2>1, <2>2, <2>3 DEF Kept
  <2>4. CASE Gone(p)
    BY <1>1, <2>1, <2>4 DEF Gone
  <2>5. ASSUME NEW new, Grows(p, new)
        PROVE  i \in DOMAIN log'[p] /\ log'[p][i] = log[p][i]
    <3>1. PICK old \in Seq(Event) : old = log[p]
      BY <1>0 DEF TypeOK
    <3>2. new \in Seq(Event) /\ log'[p] = old \o new
      BY <2>5, <3>1 DEF Grows
    <3>3. i \in 1..Len(old)
      BY <2>2, <3>1
    <3> QED BY <3>1, <3>2, <3>3
  <2> QED BY <1>1, <2>1, <2>2, <2>3, <2>4, <2>5, LogStep
<1>2. CASE Unavailable(c)
  <2>1. call[c] \in Request
    BY <1>0, <1>2, SentTypes DEF Unavailable
  <2>2. PICK p \in Servers : p = call[c].by
    BY <2>1 DEF Request
  <2>3. call'[c].by = p
    <3>1. CASE call' = [call EXCEPT ![c].at = "app", ![c].backend = "unavailable"]
      <4>1. call'[c] = [call[c] EXCEPT !.at = "app", !.backend = "unavailable"]
        BY <1>0, <2>1, <3>1 DEF TypeOK, Request
      <4> QED BY <2>1, <2>2, <4>1 DEF Request
    <3>2. CASE Goto(c, "client")
      <4>1. call'[c] = [call[c] EXCEPT !.at = "client"]
        BY <1>0, <3>2 DEF TypeOK, Goto
      <4> QED BY <2>1, <2>2, <4>1 DEF Request
    <3> QED BY <1>2, <3>1, <3>2 DEF Unavailable
  <2>4. PICK old \in Seq(Event) : old = log[p]
    BY <1>0 DEF TypeOK
  <2>5. log'[p] = old \o <<Outage(c)>>
    BY <1>0, <1>2, <2>2, <2>4 DEF Unavailable, Record, Outage, TypeOK
  <2>6. Outage(c) \in Event
    BY DEF Outage, NewEvent, Event, EventType
  <2>7. PICK e \in Event : e = Outage(c)
    BY <2>6
  <2>8. Len(old) + 1 \in DOMAIN (old \o <<e>>) /\ (old \o <<e>>)[Len(old) + 1] = e
    OBVIOUS
  <2> QED BY <2>3, <2>5, <2>7, <2>8
<1> QED BY <1>1, <1>2, CallStep

-----------------------------------------------------------------------------
(* What a page lists. *)

Shown(page, e) == \E i \in DOMAIN page.events : page.events[i] = e

Lists(page, c, backend) ==
  /\ \A i \in DOMAIN page.checks :
       page.checks[i].status = "not_ready" /\ page.checks[i].name \in DEPENDENCY_CHECK_NAMES =>
         Shown(page, NewEvent("dependency.health_failed", page.checks[i].name, c))
  /\ backend = "unavailable" => Len(page.events) = Limit \/ Shown(page, Outage(c))
  /\ \A i \in DOMAIN page.events : page.events[i].cause \in Calls

\* The latest events of a sequence, newest first, hold each of its last Limit.
LEMMA ShownLatest ==
  ASSUME NEW S, NEW s \in Seq(S), NEW i \in DOMAIN s, i > Len(s) - Limit
  PROVE  \E j \in DOMAIN Reverse(Latest(s, Limit)) : Reverse(Latest(s, Limit))[j] = s[i]
<1>l. Limit \in Nat
  BY ConstantsAssumption
<1> DEFINE t == Latest(s, Limit)
           r == Reverse(t)
<1>1. /\ t \in Seq(S) /\ Len(t) = IF Len(s) <= Limit THEN Len(s) ELSE Limit
      /\ \A k \in 1..Len(t) : t[k] = s[Len(s) - Len(t) + k]
  BY <1>l, LatestIs
<1> HIDE DEF t
<1>2. r \in Seq(S) /\ Len(r) = Len(t) /\ \A k \in 1..Len(t) : r[Len(t) - k + 1] = t[k]
  BY <1>1, ReverseIs
<1> HIDE DEF r
<1>3. PICK n \in Nat, m \in Nat : n = Len(s) /\ m = Len(t)
  BY <1>1
<1>4. i \in 1..n /\ i > n - Limit /\ m = IF n <= Limit THEN n ELSE Limit
  BY <1>1, <1>3
<1>5. PICK k \in 1..m : k = i - (n - m)
  <2>1. i - (n - m) \in 1..m
    BY <1>l, <1>4
  <2> QED BY <2>1
<1>6. n - m + k = i /\ m - k + 1 \in 1..m
  BY <1>3, <1>5, <1>4
<1>7. t[k] = s[i] /\ r[m - k + 1] = t[k]
  BY <1>1, <1>2, <1>3, <1>5, <1>6
<1>8. m - k + 1 \in DOMAIN r
  BY <1>2, <1>3, <1>6
<1> QED BY <1>7, <1>8 DEF r, t

\* Everything in a page's list was recorded.
LEMMA ShownIsThere ==
  ASSUME NEW S, NEW s \in Seq(S), NEW j \in DOMAIN Reverse(Latest(s, Limit))
  PROVE  \E i \in DOMAIN s : Reverse(Latest(s, Limit))[j] = s[i]
<1>l. Limit \in Nat
  BY ConstantsAssumption
<1> DEFINE t == Latest(s, Limit)
           r == Reverse(t)
<1>1. /\ t \in Seq(S) /\ Len(t) = IF Len(s) <= Limit THEN Len(s) ELSE Limit
      /\ \A k \in 1..Len(t) : t[k] = s[Len(s) - Len(t) + k]
  BY <1>l, LatestIs
<1> HIDE DEF t
<1>2. r \in Seq(S) /\ Len(r) = Len(t) /\ \A k \in 1..Len(t) : r[Len(t) - k + 1] = t[k]
  BY <1>1, ReverseIs
<1>j. j \in DOMAIN r
  BY DEF t
<1> HIDE DEF r
<1>3. PICK n \in Nat, m \in Nat : n = Len(s) /\ m = Len(t)
  BY <1>1
<1>4. j \in 1..m /\ m <= n
  BY <1>1, <1>2, <1>3, <1>j, <1>l
<1>5. PICK k \in 1..m : k = m - j + 1
  <2>1. m - j + 1 \in 1..m
    BY <1>4
  <2> QED BY <2>1
<1>6. m - k + 1 = j /\ n - m + k \in 1..n
  BY <1>3, <1>4, <1>5
<1>7. r[j] = s[n - m + k]
  BY <1>1, <1>2, <1>3, <1>5, <1>6
<1>8. n - m + k \in DOMAIN s
  BY <1>3, <1>6
<1> QED BY <1>7, <1>8 DEF r, t

\* The page when the checks end: the failures recorded last are on it, and the
\* outage its request came through, if the page has room.
LEMMA EndLists ==
  ASSUME TypeInv, StoresOK, OutagesOK, [Next]_vars,
         NEW s \in Servers, NEW c \in Calls, NEW page, NEW failures, Ends(s, c, page, failures)
  PROVE  LET full == [page EXCEPT !.events = Listed(s)'] IN
         /\ full \in Page /\ full.path = page.path /\ full.checks = page.checks
         /\ full.was_up = page.was_up /\ full.was_down = page.was_down /\ full.queue = page.queue
         /\ full.events = Reverse(Latest(log'[s], Limit))
         /\ Lists(full, c, call[c].backend)
<1>0. TypeOK /\ StoresOK'
  BY StoresStep DEF TypeInv
<1>l. Limit \in Nat /\ MaxEvents \in Nat /\ 7 <= Limit /\ Limit <= MaxEvents
  BY ConstantsAssumption
<1>1. PICK new \in Seq(Event), old \in Seq(Event) : new = failures /\ old = log[s]
  BY <1>0 DEF TypeOK, Ends
<1>2. log'[s] = old \o new
  BY <1>0, <1>1 DEF Ends, Finish, Record, TypeOK
<1>a. old \o new \in Seq(Event)
  OBVIOUS
<1>3. PICK all \in Seq(Event) : all = old \o new
  BY <1>a
<1>4. events'[s] = Latest(all, MaxEvents)
  BY <1>0, <1>2, <1>3 DEF StoresOK
<1>5. Listed(s)' = Reverse(Latest(all, Limit))
  BY <1>4, <1>l, <1>3, LatestOfLatest DEF Listed
<1>6. Latest(all, Limit) \in Seq(Event)
  BY <1>l, LatestIs
<1>7. PICK list \in Seq(Event) : list = Reverse(Latest(all, Limit))
  BY <1>6, ReverseIs
<1>p. page \in Page
  BY DEF Ends
<1> DEFINE full == [page EXCEPT !.events = list]
<1>8. /\ full \in Page /\ full.path = page.path /\ full.checks = page.checks /\ full.events = list
      /\ full.was_up = page.was_up /\ full.was_down = page.was_down /\ full.queue = page.queue
  BY <1>p DEF Page
<1> HIDE DEF full
\* Few enough failures.
<1>9. Len(new) <= 7
  <2>1. Len(page.checks) <= 8 /\ Len(page.checks) \in Nat
    <3>1. CASE Probing
      <4>1. Len(page.checks) = Len(Probes) + 1
        BY <3>1 DEF Ends, Complete
      <4> QED BY <4>1, ProbesLength
    <3>2. CASE ~Probing
      <4>1. page.checks = ConfigurationChecks
        BY <3>2 DEF Ends, Complete
      <4>2. settings \in Settings
        BY <1>0 DEF TypeOK
      <4>3. Len(ConfigurationChecks) \in 1..2
        BY <4>2, ConfigurationChecksAre
      <4>4. \A n \in 1..2 : n \in Nat /\ n <= 8
        OBVIOUS
      <4> QED BY <4>1, <4>3, <4>4
    <3> QED BY <3>1, <3>2
  <2>2. Len(new) < Len(page.checks)
    BY <1>1 DEF Ends, Meets
  <2> QED BY <1>1, <2>1, <2>2
<1>10. /\ Len(all) = Len(old) + Len(new) /\ Len(old) \in Nat /\ Len(new) \in Nat
       /\ DOMAIN old = 1..Len(old) /\ DOMAIN new = 1..Len(new)
       /\ DOMAIN all = 1..(Len(old) + Len(new))
       /\ \A i \in 1..Len(old) : all[i] = old[i]
       /\ \A i \in 1..Len(new) : all[Len(old) + i] = new[i]
  BY <1>1, <1>3
<1>11. ASSUME NEW i \in DOMAIN page.checks, page.checks[i].status = "not_ready",
              page.checks[i].name \in DEPENDENCY_CHECK_NAMES
       PROVE  Shown(full, NewEvent("dependency.health_failed", page.checks[i].name, c))
  <2> DEFINE e == NewEvent("dependency.health_failed", page.checks[i].name, c)
  <2>1. PICK j \in DOMAIN new : new[j] = e
    BY <1>1, <1>11 DEF Ends, Meets
  <2> HIDE DEF e
  <2>2. Len(old) + j \in DOMAIN all /\ all[Len(old) + j] = e
    BY <1>10, <2>1
  <2>3. Len(old) + j > Len(all) - Limit
    BY <1>9, <1>10, <1>l, <2>1
  <2>4. \E k \in DOMAIN list : list[k] = e
    BY <1>7, <2>2, <2>3, ShownLatest
  <2> QED BY <1>8, <2>4 DEF Shown, e
<1>12. ASSUME call[c].backend = "unavailable"
       PROVE  Len(list) = Limit \/ Shown(full, Outage(c))
  <2>1. PICK i \in DOMAIN old : old[i] = Outage(c)
    BY <1>1, <1>12 DEF OutagesOK, Found, Ends
  <2>2. i \in DOMAIN all /\ all[i] = Outage(c)
    BY <1>10, <2>1
  <2>3. CASE Len(all) <= Limit
    <3>1. i > Len(all) - Limit
      BY <1>10, <1>l, <2>1, <2>3
    <3>2. \E k \in DOMAIN list : list[k] = Outage(c)
      BY <1>7, <2>2, <3>1, ShownLatest
    <3> QED BY <1>8, <3>2 DEF Shown
  <2>4. CASE ~(Len(all) <= Limit)
    <3>1. Len(Latest(all, Limit)) = Limit
      BY <1>l, <2>4, LatestIs
    <3> QED BY <1>6, <1>7, <3>1, ReverseIs
  <2> QED BY <2>3, <2>4
<1>13. ASSUME NEW j \in DOMAIN list PROVE list[j].cause \in Calls
  <2>1. PICK i \in DOMAIN all : list[j] = all[i]
    BY <1>7, <1>13, ShownIsThere
  <2> QED BY <1>0, <1>2, <1>3, <2>1 DEF StoresOK
<1>14. Lists(full, c, call[c].backend)
  BY <1>8, <1>11, <1>12, <1>13 DEF Lists
<1>15. full = [page EXCEPT !.events = Listed(s)'] /\ list = Reverse(Latest(log'[s], Limit))
  BY <1>2, <1>3, <1>5, <1>7 DEF full
<1> QED BY <1>8, <1>14, <1>15

\* A handler that waits for the length of the queue has its list, which nothing
\* recorded since makes old: its process records nothing before the answer.
CountsOK ==
  \A s \in Servers : server[s] \in Handler /\ server[s].pc = "count" =>
    LET h == server[s] IN
      /\ h.page.events = Reverse(Latest(log[s], Limit))
      /\ Lists(h.page, h.call, call[h.call].backend)

\* Where a handler that waits for the length of the queue comes from.
LEMMA CountStep ==
  ASSUME TypeInv, [Next]_vars, NEW s \in Servers, server'[s] \in Handler, server'[s].pc = "count"
  PROVE  \/ /\ server[s] \in Handler /\ server[s].pc = "count" /\ server'[s].call = server[s].call
            /\ server'[s].page.events = server[s].page.events
            /\ server'[s].page.checks = server[s].page.checks
         \/ \E c, page, failures :
              /\ Ends(s, c, page, failures) /\ UNCHANGED call
              /\ server'[s] = [pc |-> "count", call |-> c, failures |-> failures,
                               page |-> [page EXCEPT !.events = Listed(s)']]
<1>0. TypeOK
  BY DEF TypeInv
<1>i. Idle \notin Handler /\ Down \notin Handler
  BY DEF Idle, Down, Handler
<1> DEFINE Same == /\ server[s] \in Handler /\ server[s].pc = "count" /\ server'[s].call = server[s].call
                   /\ server'[s].page.events = server[s].page.events
                   /\ server'[s].page.checks = server[s].page.checks
           New == \E c, page, failures :
              /\ Ends(s, c, page, failures) /\ UNCHANGED call
              /\ server'[s] = [pc |-> "count", call |-> c, failures |-> failures,
                               page |-> [page EXCEPT !.events = Listed(s)']]
<1>s. ASSUME server'[s] = server[s] PROVE Same
  BY <1>s
<1>e. ASSUME NEW r \in Servers, NEW c, NEW page, NEW failures, Ends(r, c, page, failures)
      PROVE  Same \/ New
  <2>1. \/ /\ server' = [server EXCEPT ![r] =
                [pc |-> "count", call |-> c, failures |-> failures,
                 page |-> [page EXCEPT !.events = Listed(r)']]]
           /\ UNCHANGED call
        \/ server' = [server EXCEPT ![r] = Idle]
    BY <1>e DEF Ends, Finish, Answered
  <2>2. CASE r = s
    <3>1. server \in [Servers -> Handler \cup {Down, Idle}]
      BY <1>0 DEF TypeOK
    <3>2. server' # [server EXCEPT ![s] = Idle]
      BY <1>i, <3>1
    <3>3. UNCHANGED call /\ server' = [server EXCEPT ![s] =
            [pc |-> "count", call |-> c, failures |-> failures,
             page |-> [page EXCEPT !.events = Listed(s)']]]
      BY <2>1, <2>2, <3>2
    <3>4. server'[s] = [pc |-> "count", call |-> c, failures |-> failures,
                        page |-> [page EXCEPT !.events = Listed(s)']]
      BY <3>1, <3>3
    <3> QED BY <1>e, <2>2, <3>3, <3>4
  <2>3. CASE r # s
    BY <1>0, <1>s, <2>1, <2>3 DEF TypeOK
  <2> QED BY <2>2, <2>3
<1>h. ASSUME NEW r \in Servers, NEW h, h.pc = "probe", server' = [server EXCEPT ![r] = h]
      PROVE  Same
  <2>1. r # s
    BY <1>0, <1>h DEF TypeOK
  <2> QED BY <1>0, <1>h, <1>s, <2>1 DEF TypeOK
<1>1. ASSUME NEW d \in Fragile, Change(d) PROVE Same
  <2>1. server[s] \notin {Idle, Down}
    BY <1>1, <1>i DEF Change
  <2>2. server[s] \in Handler
    BY <1>0, <2>1, ProcessTypes
  <2>3. server'[s] = [server[s] EXCEPT !.page.was_up = @ \cup up',
                                       !.page.was_down = @ \cup (Dependency \ up')]
    BY <1>1, <2>1 DEF Change
  <2>4. PICK h \in Handler : h = server[s]
    BY <2>2
  <2>5. h.page \in Page
    BY DEF Handler
  <2>6. /\ server'[s].call = h.call /\ server'[s].pc = h.pc
        /\ server'[s].page =
             [h.page EXCEPT !.was_up = @ \cup up', !.was_down = @ \cup (Dependency \ up')]
    BY <2>3, <2>4 DEF Handler
  <2>7. server'[s].page.events = h.page.events /\ server'[s].page.checks = h.page.checks
    BY <2>5, <2>6 DEF Page
  <2> QED BY <2>2, <2>4, <2>6, <2>7
<1>2. ASSUME NEW r \in Servers, NEW c \in Calls, Begin(r, c) PROVE Same \/ New
  BY <1>2, <1>e, <1>h, BeginEnds
<1>3. ASSUME NEW r \in Servers, Probe(r) PROVE Same \/ New
  BY <1>3, <1>e, <1>h, ProbeEnds
<1>4. ASSUME NEW r \in Servers, PendingCount(r) \/ Crash(r) \/ Start(r) PROVE Same
  <2>1. PICK g \in {Idle, Down} : server' = [server EXCEPT ![r] = g]
    BY <1>4 DEF PendingCount, Answered, Crash, Start
  <2>2. r # s
    BY <1>0, <1>i, <2>1 DEF TypeOK
  <2> QED BY <1>0, <1>s, <2>1, <2>2 DEF TypeOK
<1>5. CASE UNCHANGED server
  BY <1>5, <1>s
<1>6. ASSUME NEW c \in Calls, CheckLimit(c) \/ Unavailable(c) PROVE Same
  BY <1>5, <1>6 DEF CheckLimit, Unavailable
<1>7. ASSUME NEW c \in Calls, NEW r \in Servers, Send(c, r) \/ Upload(r, c) PROVE Same
  BY <1>5, <1>7 DEF Send, Upload
<1>8. ASSUME NEW w \in Workers, JobFailed(w) PROVE Same
  BY <1>5, <1>8 DEF JobFailed
<1>9. CASE UNCHANGED vars
  BY <1>5, <1>9 DEF vars
<1> QED BY <1>1, <1>2, <1>3, <1>4, <1>6, <1>7, <1>8, <1>9 DEF Next

LEMMA CountsStep == TypeInv /\ StoresOK /\ OutagesOK /\ CountsOK /\ [Next]_vars => CountsOK'
<1> SUFFICES ASSUME TypeInv, StoresOK, OutagesOK, CountsOK, [Next]_vars,
                    NEW s \in Servers, server'[s] \in Handler, server'[s].pc = "count"
             PROVE  LET h == server'[s] IN
                      /\ h.page.events = Reverse(Latest(log'[s], Limit))
                      /\ Lists(h.page, h.call, call'[h.call].backend)
  BY DEF CountsOK, Lists, Shown, Outage, NewEvent
<1>0. TypeOK /\ RequestsOK /\ RequestsOK'
  BY RequestsStep DEF TypeInv
<1>1. CASE /\ server[s] \in Handler /\ server[s].pc = "count" /\ server'[s].call = server[s].call
           /\ server'[s].page.events = server[s].page.events
           /\ server'[s].page.checks = server[s].page.checks
  <2>1. PICK c \in Calls : c = server[s].call
    BY <1>1 DEF Handler
  <2>2. Kept(s)
    <3>1. ~Gone(s)
      BY DEF Gone, Down, Handler
    <3>2. ASSUME NEW new PROVE ~Grows(s, new)
      BY <1>1 DEF Grows
    <3> QED BY <3>1, <3>2, LogStep
  <2>3. call'[c].at = "app" /\ call[c].at = "app"
    BY <1>0, <1>1, <2>1 DEF RequestsOK
  <2>4. call'[c].backend = "unavailable" => call[c].backend = "unavailable"
    BY <2>3, CallStep DEF Unavailable
  <2>5. /\ server[s].page.events = Reverse(Latest(log[s], Limit))
        /\ Lists(server[s].page, c, call[c].backend)
    BY <1>1, <2>1 DEF CountsOK
  <2>6. Lists(server'[s].page, c, call'[c].backend)
    BY <1>1, <2>4, <2>5 DEF Lists, Shown
  <2> QED BY <1>1, <2>1, <2>2, <2>5, <2>6 DEF Kept
<1>2. ASSUME NEW c, NEW page, NEW failures, Ends(s, c, page, failures), UNCHANGED call,
             server'[s] = [pc |-> "count", call |-> c, failures |-> failures,
                           page |-> [page EXCEPT !.events = Listed(s)']]
      PROVE  LET h == server'[s] IN
               /\ h.page.events = Reverse(Latest(log'[s], Limit))
               /\ Lists(h.page, h.call, call'[h.call].backend)
  <2>1. c \in Calls
    BY <1>2 DEF Ends
  <2> DEFINE full == [page EXCEPT !.events = Listed(s)']
  <2>2. full.events = Reverse(Latest(log'[s], Limit)) /\ Lists(full, c, call[c].backend)
    BY <1>2, <2>1, EndLists
  <2> HIDE DEF full
  <2>3. server'[s].page = full /\ server'[s].call = c
    BY <1>2 DEF full
  <2> QED BY <1>2, <2>2, <2>3
<1> QED BY <1>1, <1>2, CountStep

-----------------------------------------------------------------------------
(* The pages that were answered. *)

PagesOK ==
  \A c \in Calls : answer[c].kind = "page" =>
    LET page == answer[c].page IN
      /\ Complete(page)
      /\ page.path = "operations" =>
           /\ settings.queue = "redis" => Tells(page, "redis", page.queue)
           /\ Lists(page, c, call[c].backend)

\* An answered request, answered by the process once and for all.
OldPage(c) ==
  answer[c].kind = "page" /\ answer'[c] = answer[c] /\ call'[c].backend = call[c].backend

\* The answer of a handler of a process.
CountedPage(s, c) ==
  /\ server[s] \in Handler /\ server[s].pc = "count" /\ server[s].call = c
  /\ answer'[c] = [kind |-> "page", page |-> [server[s].page EXCEPT !.queue = Verdict("redis")]]
  /\ Kept(s) /\ call'[c].backend = call[c].backend

EndedPage(s, c, page, failures) ==
  /\ Ends(s, c, page, failures)
  /\ ~(page.path = "operations" /\ settings.queue = "redis")
  /\ answer'[c] = [kind |-> "page", page |->
       IF page.path = "operations" THEN [page EXCEPT !.events = Listed(s)'] ELSE page]
  /\ call'[c].backend = call[c].backend

LEMMA AnswerStep ==
  ASSUME TypeInv, [Next]_vars, NEW c \in Calls, answer'[c].kind = "page"
  PROVE  \/ OldPage(c)
         \/ \E s \in Servers : CountedPage(s, c) \/ \E page, failures : EndedPage(s, c, page, failures)
<1>0. TypeOK /\ RequestsOK /\ call \in [Calls -> Request \cup {Unsent}] /\ answer \in [Calls -> Answer]
  BY DEF TypeInv, TypeOK, Request, Answer
<1> DEFINE New == \E s \in Servers : CountedPage(s, c) \/ \E page, failures : EndedPage(s, c, page, failures)
<1>s. UNCHANGED <<call, answer>> => OldPage(c)
  BY DEF OldPage
\* One request moves on without a page.
<1>o. ASSUME NEW k \in Calls, call[k] = Unsent \/ call[k].at # "client",
             \A j \in Calls : j # k => call'[j] = call[j] /\ answer'[j] = answer[j],
             answer'[k] = answer[k] \/ answer'[k].kind # "page"
      PROVE  OldPage(c)
  <2>1. answer[k] = NoAnswer /\ NoAnswer.kind = "none"
    BY <1>0, <1>o DEF RequestsOK, NoAnswer
  <2>2. c # k
    BY <1>o, <2>1
  <2> QED BY <1>o, <2>2 DEF OldPage
<1>g. ASSUME NEW k \in Calls, NEW step, call[k].at # "client", Goto(k, step),
             UNCHANGED answer \/ \E a : a.kind # "page" /\ Reply(k, a)
      PROVE  OldPage(c)
  <2>1. \A j \in Calls : j # k => call'[j] = call[j] /\ answer'[j] = answer[j]
    BY <1>0, <1>g DEF Goto, Reply
  <2>2. answer'[k] = answer[k] \/ answer'[k].kind # "page"
    BY <1>0, <1>g DEF Reply
  <2> QED BY <1>g, <1>o, <2>1, <2>2
<1>n. \A kind \in {"limited", "refused", "done", "lost"} : [kind |-> kind].kind # "page"
  OBVIOUS
<1>b. ASSUME call[c].at # "client", Goto(c, "client") PROVE call'[c].backend = call[c].backend
  <2>1. call[c] \in Request
    BY <1>0, <1>b, SentTypes
  <2>2. call'[c] = [call[c] EXCEPT !.at = "client"]
    BY <1>0, <1>b DEF Goto
  <2> QED BY <2>1, <2>2 DEF Request
\* Another request gets a page.
<1>k. ASSUME NEW k, k # c, Goto(k, "client"), NEW a, Reply(k, a) PROVE OldPage(c)
  BY <1>0, <1>k DEF Goto, Reply, OldPage
<1>e. ASSUME NEW s \in Servers, NEW k, NEW page, NEW failures, Ends(s, k, page, failures)
      PROVE  OldPage(c) \/ New
  <2>1. CASE page.path = "operations" /\ settings.queue = "redis"
    BY <1>e, <1>s, <2>1 DEF Ends, Finish
  <2>2. CASE ~(page.path = "operations" /\ settings.queue = "redis")
    <3>1. PICK q : q = IF page.path = "operations" THEN [page EXCEPT !.events = Listed(s)'] ELSE page
      OBVIOUS
    <3>2. Goto(k, "client") /\ Reply(k, [kind |-> "page", page |-> q])
      BY <1>e, <2>2, <3>1 DEF Ends, Finish, Answered
    <3>3. CASE k = c
      <4>1. answer'[c] = [kind |-> "page", page |-> q]
        BY <1>0, <3>2, <3>3 DEF Reply
      <4>b. call'[c].backend = call[c].backend
        BY <1>b, <1>e, <3>2, <3>3 DEF Ends
      <4>2. EndedPage(s, c, page, failures)
        BY <1>e, <2>2, <3>1, <3>3, <4>1, <4>b DEF EndedPage
      <4> QED BY <4>2
    <3>4. CASE k # c
      BY <1>k, <3>2, <3>4
    <3> QED BY <3>3, <3>4
  <2> QED BY <2>1, <2>2
<1>1. ASSUME NEW k \in Calls, CheckLimit(k) PROVE OldPage(c)
  BY <1>1, <1>g, <1>n DEF CheckLimit
<1>2. ASSUME NEW k \in Calls, Unavailable(k) PROVE OldPage(c)
  <2>1. CASE call' = [call EXCEPT ![k].at = "app", ![k].backend = "unavailable"] /\ UNCHANGED answer
    <3>1. \A j \in Calls : j # k => call'[j] = call[j]
      BY <1>0, <2>1
    <3> QED BY <1>2, <1>o, <2>1, <3>1 DEF Unavailable
  <2>2. CASE Goto(k, "client") /\ Reply(k, [kind |-> "refused"])
    BY <1>2, <1>g, <1>n, <2>2 DEF Unavailable
  <2> QED BY <1>2, <2>1, <2>2 DEF Unavailable
<1>3. ASSUME NEW k \in Calls, NEW s \in Servers, Send(k, s) PROVE OldPage(c)
  <2>1. \A j \in Calls : j # k => call'[j] = call[j]
    BY <1>0, <1>3 DEF Send
  <2> QED BY <1>3, <1>o, <2>1 DEF Send
<1>4. ASSUME NEW s \in Servers, NEW k \in Calls, Begin(s, k) PROVE OldPage(c) \/ New
  BY <1>4, <1>e, <1>s, BeginEnds
<1>5. ASSUME NEW s \in Servers, Probe(s) PROVE OldPage(c) \/ New
  BY <1>5, <1>e, <1>s, ProbeEnds
<1>6. ASSUME NEW s \in Servers, NEW k \in Calls, Upload(s, k) PROVE OldPage(c)
  BY <1>6, <1>g, <1>n DEF Upload, Takes
<1>7. ASSUME NEW s \in Servers, PendingCount(s) PROVE OldPage(c) \/ New
  <2>1. server[s] \in Handler /\ server[s].pc = "count"
    BY <1>0, <1>7, ProcessTypes DEF PendingCount, At
  <2>2. PICK k \in Calls : k = server[s].call
    BY <2>1 DEF Handler
  <2>3. PICK q : q = [server[s].page EXCEPT !.queue = Verdict("redis")]
    OBVIOUS
  <2>4. Goto(k, "client") /\ Reply(k, [kind |-> "page", page |-> q]) /\ UNCHANGED <<events, log>>
    BY <1>7, <2>2, <2>3 DEF PendingCount, Answered
  <2>5. CASE k = c
    <3>1. answer'[c] = [kind |-> "page", page |-> q]
      BY <1>0, <2>4, <2>5 DEF Reply
    <3>b. call[c].at = "app"
      <4>1. server[s].call = c
        BY <2>2, <2>5
      <4> QED BY <1>0, <2>1, <4>1 DEF RequestsOK
    <3>c. call'[c].backend = call[c].backend
      BY <1>b, <2>4, <2>5, <3>b
    <3>2. CountedPage(s, c)
      BY <2>1, <2>2, <2>3, <2>4, <2>5, <3>1, <3>c DEF CountedPage, Kept
    <3> QED BY <3>2
  <2>6. CASE k # c
    BY <1>k, <2>4, <2>6
  <2> QED BY <2>5, <2>6
<1>8. ASSUME NEW s \in Servers, Crash(s) PROVE OldPage(c)
  <2>1. CASE call[c].at # "client" /\ call[c].by = s
    BY <1>8, <1>n, <2>1 DEF Crash
  <2>2. CASE ~(call[c].at # "client" /\ call[c].by = s)
    BY <1>8, <2>2 DEF Crash, OldPage
  <2> QED BY <2>1, <2>2
<1>9. ASSUME NEW s \in Servers, Start(s) PROVE OldPage(c)
  BY <1>9, <1>s DEF Start
<1>10. ASSUME NEW d \in Fragile, Change(d) PROVE OldPage(c)
  BY <1>10, <1>s DEF Change
<1>11. ASSUME NEW w \in Workers, JobFailed(w) PROVE OldPage(c)
  BY <1>11, <1>s DEF JobFailed
<1>12. CASE UNCHANGED vars
  BY <1>12, <1>s DEF vars
<1> QED BY <1>1, <1>2, <1>3, <1>4, <1>5, <1>6, <1>7, <1>8, <1>9, <1>10, <1>11, <1>12 DEF Next

LEMMA PagesStep ==
  TypeInv /\ StoresOK /\ OutagesOK /\ CountsOK /\ PagesOK /\ [Next]_vars => PagesOK'
<1> SUFFICES ASSUME TypeInv, StoresOK, OutagesOK, CountsOK, PagesOK, [Next]_vars,
                    NEW c \in Calls, answer'[c].kind = "page"
             PROVE  LET page == answer'[c].page IN
                      /\ Complete(answer[c].page)'
                      /\ page.path = "operations" =>
                           /\ settings'.queue = "redis" => Tells(page, "redis", page.queue)
                           /\ Lists(page, c, call'[c].backend)
  BY DEF PagesOK, Lists, Shown, Tells, Outage, NewEvent
<1>0. TypeOK /\ RoundsOK /\ RequestsOK
  BY DEF TypeInv
<1>1. /\ settings' = settings /\ Probes' = Probes /\ (Probing <=> Probing')
      /\ ConfigurationChecks' = ConfigurationChecks
  BY SameSettings
<1>2. Complete(answer[c].page)' <=> Complete(answer'[c].page)
  BY <1>1 DEF Complete, Prefix, Tells
<1>3. CASE OldPage(c)
  <2>1. /\ Complete(answer[c].page)
        /\ answer[c].page.path = "operations" =>
             /\ settings.queue = "redis" => Tells(answer[c].page, "redis", answer[c].page.queue)
             /\ Lists(answer[c].page, c, call[c].backend)
    BY <1>3 DEF OldPage, PagesOK
  <2> QED BY <1>1, <1>2, <1>3, <2>1 DEF OldPage
<1>4. ASSUME NEW s \in Servers, CountedPage(s, c)
      PROVE  LET page == answer'[c].page IN
               /\ Complete(page)
               /\ settings.queue = "redis" => Tells(page, "redis", page.queue)
               /\ Lists(page, c, call'[c].backend)
  <2>1. server[s] \in Handler /\ server[s].pc = "count" /\ server[s].call = c
    BY <1>4 DEF CountedPage
  <2>2. PICK old \in Page : old = server[s].page
    BY <2>1 DEF Handler
  <2>3. PICK page \in Page : page = [old EXCEPT !.queue = Verdict("redis")]
    BY DEF Page, Verdict, Status
  <2>4. answer'[c].page = page
    BY <1>4, <2>2, <2>3 DEF CountedPage
  <2>5. /\ page.checks = old.checks /\ page.events = old.events /\ page.queue = Verdict("redis")
        /\ page.was_up = old.was_up /\ page.was_down = old.was_down
    BY <2>3 DEF Page
  <2>6. /\ Complete(old) /\ up \subseteq old.was_up /\ Dependency \ up \subseteq old.was_down
    BY <1>0, <2>1, <2>2 DEF RoundsOK, RoundOK
  <2>7. Lists(old, c, call[c].backend)
    BY <2>1, <2>2 DEF CountsOK
  <2>8. Complete(page)
    BY <2>5, <2>6 DEF Complete, Prefix, Tells
  <2>9. Tells(page, "redis", page.queue)
    BY <2>5, <2>6 DEF Tells, Verdict, Dependency
  <2>10. Lists(page, c, call'[c].backend)
    BY <1>4, <2>5, <2>7 DEF CountedPage, Lists, Shown
  <2> QED BY <2>4, <2>8, <2>9, <2>10
<1>5. ASSUME NEW s \in Servers, NEW old, NEW failures, EndedPage(s, c, old, failures)
      PROVE  LET page == answer'[c].page IN
               /\ Complete(page)
               /\ page.path = "operations" =>
                    /\ settings.queue = "redis" => Tells(page, "redis", page.queue)
                    /\ Lists(page, c, call'[c].backend)
  <2>0. Ends(s, c, old, failures)
    BY <1>5 DEF EndedPage
  <2> DEFINE full == [old EXCEPT !.events = Listed(s)']
  <2>1. /\ full.path = old.path /\ full.checks = old.checks
        /\ full.was_up = old.was_up /\ full.was_down = old.was_down
        /\ Lists(full, c, call[c].backend)
    BY <2>0, EndLists
  <2>2. /\ answer'[c].page = IF old.path = "operations" THEN full ELSE old
        /\ ~(old.path = "operations" /\ settings.queue = "redis")
        /\ call'[c].backend = call[c].backend
    BY <1>5 DEF EndedPage
  <2> HIDE DEF full
  <2>3. Complete(old)
    BY <2>0 DEF Ends
  <2>4. Complete(full)
    BY <2>1, <2>3 DEF Complete, Prefix, Tells
  <2> QED BY <2>1, <2>2, <2>3, <2>4
<1> QED BY <1>1, <1>2, <1>3, <1>4, <1>5, AnswerStep

-----------------------------------------------------------------------------
(* The theorems. *)

Inv == TypeInv /\ StoresOK /\ OutagesOK /\ CountsOK /\ PagesOK

LEMMA InvInit == Init => Inv
<1> SUFFICES ASSUME Init PROVE Inv
  OBVIOUS
<1>1. TypeInv
  BY TypeInit
<1>2. Latest(<<>>, MaxEvents) = <<>> /\ DOMAIN <<>> = {}
  BY ConstantsAssumption DEF Latest
<1>3. Idle \notin Handler /\ Unsent.at = "client" /\ NoAnswer.kind = "none"
  BY DEF Idle, Handler, Unsent, NoAnswer
<1>4. StoresOK
  BY <1>2 DEF Init, StoresOK
<1>5. OutagesOK /\ CountsOK /\ PagesOK
  BY <1>3 DEF Init, OutagesOK, CountsOK, PagesOK
<1> QED BY <1>1, <1>4, <1>5 DEF Inv

LEMMA InvStep == Inv /\ [Next]_vars => Inv'
BY TypeStep, RequestsStep, RoundsStep, StoresStep, OutagesStep, CountsStep, PagesStep DEF Inv, TypeInv

LEMMA InvHolds == Spec => []Inv
BY InvInit, InvStep, PTL DEF Spec

\* What a complete page says is true.
LEMMA CompleteIsTrue ==
  ASSUME TypeOK, NEW page \in Page, Complete(page)
  PROVE  LET names == {page.checks[i].name : i \in DOMAIN page.checks} IN
         /\ \A i, j \in DOMAIN page.checks :
              page.checks[i].name = page.checks[j].name => i = j
         /\ \/ settings.problems # {} /\ names = settings.problems
            \/ /\ settings.problems = {}
               /\ names = {"configuration"} \cup (IF settings.probing THEN Needed ELSE {})
         /\ \A i \in DOMAIN page.checks :
              IF page.checks[i].name \in Dependency
                THEN Tells(page, page.checks[i].name, page.checks[i].status)
                ELSE page.checks[i].status = "ready" <=> page.checks[i].name = "configuration"
<1>0. settings \in Settings
  BY DEF TypeOK
<1>1. CASE ~Probing
  <2>1. page.checks = ConfigurationChecks
    BY <1>1 DEF Complete
  <2>2. settings.problems # {} \/ ~settings.probing
    BY <1>1 DEF Probing
  <2> QED BY <1>0, <2>1, <2>2, ConfigurationChecksAre
<1>2. CASE Probing
  <2> DEFINE first == [name |-> "configuration", status |-> "ready"]
  <2>0. settings.probing /\ settings.problems = {}
    BY <1>2 DEF Probing
  <2>1. PICK n \in Nat : n = Len(Probes) /\ n \in 3..7
    BY ProbesLength
  <2>2. /\ Len(page.checks) = n + 1 /\ page.checks[1] = first
        /\ \A i \in 2..(n + 1) : /\ page.checks[i].name = Probes[i - 1]
                                 /\ Tells(page, page.checks[i].name, page.checks[i].status)
    BY <1>2, <2>1 DEF Complete, Prefix
  <2>3. DOMAIN page.checks = 1..(n + 1) /\ DOMAIN Probes = 1..n
    BY <2>1, <2>2, ProbesAre DEF Page
  <2>4. /\ \A i \in 1..n : Probes[i] \in Dependency
        /\ \A i, j \in 1..n : Probes[i] = Probes[j] => i = j
        /\ {Probes[i] : i \in 1..n} = Needed
    BY <2>1, <2>3, ProbesAre DEF Distinct, Names
  <2>5. first.name = "configuration" /\ first.status = "ready" /\ "configuration" \notin Dependency
    BY DEF Dependency
  <2>6. ASSUME NEW i \in 2..(n + 1)
        PROVE  /\ i - 1 \in 1..n /\ page.checks[i].name = Probes[i - 1]
               /\ page.checks[i].name \in Dependency
               /\ Tells(page, page.checks[i].name, page.checks[i].status)
    <3>1. i - 1 \in 1..n
      BY <2>1
    <3> QED BY <2>2, <2>4, <3>1
  <2>7. \A i \in 1..(n + 1) : i = 1 \/ i \in 2..(n + 1)
    BY <2>1
  <2>8. ASSUME NEW i \in 1..(n + 1), NEW j \in 1..(n + 1), page.checks[i].name = page.checks[j].name
        PROVE  i = j
    <3>1. CASE i = 1 \/ j = 1
      BY <2>2, <2>5, <2>6, <2>7, <2>8, <3>1
    <3>2. CASE i # 1 /\ j # 1
      <4>1. i \in 2..(n + 1) /\ j \in 2..(n + 1)
        BY <2>7, <3>2
      <4>2. i - 1 \in 1..n /\ j - 1 \in 1..n /\ Probes[i - 1] = Probes[j - 1]
        BY <2>6, <2>8, <4>1
      <4>3. i - 1 = j - 1
        BY <2>4, <4>2
      <4> QED BY <4>1, <4>3
    <3> QED BY <3>1, <3>2
  <2>9. {page.checks[i].name : i \in 1..(n + 1)} = {"configuration"} \cup Needed
    <3>1. ASSUME NEW d \in Needed PROVE \E i \in 1..(n + 1) : page.checks[i].name = d
      <4>1. PICK i \in 1..n : Probes[i] = d
        BY <2>4
      <4>2. i + 1 \in 2..(n + 1) /\ i + 1 \in 1..(n + 1) /\ (i + 1) - 1 = i
        BY <2>1
      <4> QED BY <2>6, <4>1, <4>2
    <3>2. ASSUME NEW i \in 1..(n + 1) PROVE page.checks[i].name \in {"configuration"} \cup Needed
      <4>1. CASE i = 1
        BY <2>2, <2>5, <4>1
      <4>2. CASE i # 1
        <5>1. i \in 2..(n + 1)
          BY <2>7, <4>2
        <5> QED BY <2>4, <2>6, <5>1
      <4> QED BY <4>1, <4>2
    <3>3. 1 \in 1..(n + 1) /\ page.checks[1].name = "configuration"
      BY <2>1, <2>2, <2>5
    <3> QED BY <3>1, <3>2, <3>3
  <2>10. ASSUME NEW i \in 1..(n + 1)
         PROVE  IF page.checks[i].name \in Dependency
                  THEN Tells(page, page.checks[i].name, page.checks[i].status)
                  ELSE page.checks[i].status = "ready" <=> page.checks[i].name = "configuration"
    BY <2>2, <2>5, <2>6, <2>7
  <2> QED BY <2>0, <2>3, <2>8, <2>9, <2>10
<1> QED BY <1>1, <1>2

\* A page speaks of everything its process needs, once, and tells only what was so
\* while its handler ran.
THEOREM PagesAreTrue == Spec => []AnswersAreTrue
<1>1. Inv => AnswersAreTrue
  <2> SUFFICES ASSUME Inv, NEW c \in Calls, answer[c].kind = "page"
               PROVE  LET page == answer[c].page IN Complete(page) /\ page \in Page /\
                        (page.path = "operations" /\ settings.queue = "redis" =>
                           Tells(page, "redis", page.queue))
    BY CompleteIsTrue DEF AnswersAreTrue, Pages, Tells, Inv, TypeInv
  <2>1. answer[c].page \in Page
    BY DEF Inv, TypeInv, TypeOK
  <2> QED BY <2>1 DEF Inv, PagesOK
<1> QED BY <1>1, InvHolds, PTL

\* The operations page shows the failures its own checks met whose names are known.
THEOREM FailuresAreShown == Spec => []FailuresAreListed
<1>1. Inv => FailuresAreListed
  BY DEF Inv, PagesOK, Lists, Shown, Outage, FailuresAreListed, Pages
<1> QED BY <1>1, InvHolds, PTL

\* Whatever the size of the stores and however often it is asked, an operations page
\* lists no event of a worker: the second half of why OutageIsListed fails.
Unseen == \A c \in Pages : LET page == answer[c].page IN
  page.path = "operations" => \A i \in DOMAIN page.events : page.events[i].cause \in Calls

THEOREM WorkersUnseen == Spec => []Unseen
<1>1. Inv => Unseen
  BY DEF Inv, PagesOK, Lists, Unseen, Pages
<1> QED BY <1>1, InvHolds, PTL

\* The operations page lists the latest events its process recorded.
THEOREM ListsTheLatest == Spec => PageIsLatest
<1> DEFINE New(c) == answer[c] = NoAnswer /\ answer'[c].kind = "page" /\ call[c].path = "operations"
           Good(c) == answer'[c].page.events = Reverse(Latest(log'[call[c].by], Limit))
<1>1. ASSUME Inv, [Next]_vars, NEW c \in Calls, New(c) PROVE Good(c)
  <2>0. TypeInv /\ StoresOK /\ OutagesOK /\ CountsOK
    BY <1>1 DEF Inv
  <2>1. ~OldPage(c)
    BY <1>1 DEF OldPage, NoAnswer
  <2>2. ASSUME NEW s \in Servers, CountedPage(s, c) PROVE Good(c)
    <3>1. /\ server[s] \in Handler /\ server[s].pc = "count" /\ server[s].call = c
          /\ answer'[c].page = [server[s].page EXCEPT !.queue = Verdict("redis")]
          /\ log'[s] = log[s]
      BY <2>2 DEF CountedPage, Kept
    <3>2. server[s].page.events = Reverse(Latest(log[s], Limit)) /\ call[c].by = s
      BY <2>0, <3>1 DEF CountsOK, TypeInv, RequestsOK
    <3>3. answer'[c].page.events = server[s].page.events
      BY <3>1 DEF Handler, Page
    <3> QED BY <3>1, <3>2, <3>3
  <2>3. ASSUME NEW s \in Servers, NEW page, NEW failures, EndedPage(s, c, page, failures)
        PROVE  Good(c)
    <3>1. Ends(s, c, page, failures)
      BY <2>3 DEF EndedPage
    <3>2. page.path = "operations" /\ call[c].by = s
      BY <1>1, <3>1 DEF Ends
    <3>3. answer'[c].page = [page EXCEPT !.events = Listed(s)']
      BY <2>3, <3>2 DEF EndedPage
    <3>4. [page EXCEPT !.events = Listed(s)'].events = Reverse(Latest(log'[s], Limit))
      BY <1>1, <2>0, <3>1, EndLists
    <3> QED BY <3>2, <3>3, <3>4
  <2> QED BY <1>1, <2>0, <2>1, <2>2, <2>3, AnswerStep
<1>2. Inv /\ [Next]_vars => [\A c \in Calls : New(c) => Good(c)]_vars
  BY <1>1
<1> QED BY <1>2, InvHolds, PTL DEF Spec, PageIsLatest

=============================================================================
