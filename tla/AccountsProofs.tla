--------------------------- MODULE AccountsProofs ---------------------------
(* Theorems about Accounts: types, ownership of employee ids, tokens, and   *)
(* the implementation of AccountBook.                                       *)
EXTENDS Accounts, TLAPS

-----------------------------------------------------------------------------
(* Whole seconds. *)

\* n \div q is the whole number of q's in n.
LEMMA WholeSeconds ==
  ASSUME NEW n \in Nat, NEW q \in Nat \ {0}
  PROVE  n \div q \in Nat /\ q * (n \div q) <= n /\ n < q * (n \div q) + q
<1>1. n \in Int /\ q \in Int /\ q > 0
  OBVIOUS
<1>2. n \div q \in Int
  BY <1>1
<1>3. n % q \in 0..(q - 1)
  BY <1>1
<1>4. n = q * (n \div q) + (n % q)
  BY <1>1
<1>5. q * (n \div q) \in Int
  BY <1>1, <1>2
<1>6. n \div q >= 0
  <2> DEFINE m == n \div q
  <2>1. m \in Int /\ n = q * m + (n % q)
    BY <1>2, <1>4
  <2> HIDE DEF m
  <2>2. ASSUME m <= -1 PROVE FALSE
    <3>1. q * m <= q * (-1)
      BY <1>1, <2>1, <2>2
    <3>2. q * (-1) = -q /\ q * m \in Int
      BY <1>1, <2>1
    <3> QED BY <1>1, <1>3, <2>1, <3>1, <3>2
  <2> QED BY <2>1, <2>2 DEF m
<1> QED BY <1>1, <1>2, <1>3, <1>4, <1>5, <1>6

\* More ticks are no fewer seconds.
LEMMA SecondsMonotone ==
  ASSUME NEW q \in Nat \ {0}, NEW m \in Nat, NEW n \in Nat, m <= n
  PROVE  m \div q <= n \div q
<1> DEFINE a == m \div q
           b == n \div q
<1>1. a \in Nat /\ q * a <= m
  BY WholeSeconds
<1>2. b \in Nat /\ n < q * b + q
  BY WholeSeconds
<1> HIDE DEF a, b
<1>3. ASSUME b + 1 <= a PROVE FALSE
  <2>1. q * (b + 1) <= q * a
    BY <1>1, <1>2, <1>3
  <2>2. q * (b + 1) = q * b + q /\ q * a \in Nat /\ q * b \in Nat
    BY <1>1, <1>2
  <2> QED BY <1>1, <1>2, <2>1, <2>2
<1>4. a <= b
  BY <1>1, <1>2, <1>3
<1> QED BY <1>4 DEF a, b

\* A number that has no more seconds than another is less than a second later.
LEMMA SecondsApart ==
  ASSUME NEW q \in Nat \ {0}, NEW m \in Nat, NEW n \in Nat, m \div q >= n \div q
  PROVE  n < m + q
<1> DEFINE a == m \div q
           b == n \div q
<1>1. a \in Nat /\ q * a <= m /\ b \in Nat /\ n < q * b + q
  BY WholeSeconds
<1>2. b <= a
  OBVIOUS
<1> HIDE DEF a, b
<1>3. q * b <= q * a /\ q * b \in Nat /\ q * a \in Nat
  BY <1>1, <1>2
<1> QED BY <1>1, <1>3

-----------------------------------------------------------------------------
(* Types. *)

Reply == [result : Result, token : Token \cup {NoToken},
          workspace : Context \cup {NoContext}, by : Servers, start : Nat]

\* Every process has a store, and its clock and a token's expiry are seconds.
LEMMA Basics ==
  /\ \A s \in Servers : Home(s) \in Homes
  /\ \A p \in Passwords : MemberRow(p) \in Row /\ MemberRow(p) # NoRow
  /\ NoRow \notin Row
<1> USE ConstantsAssumption DEF Row, NoRow, MemberRow, Roles
<1>1. \A s \in Servers : Home(s) \in Homes
  BY DEF Home, Homes
<1>2. \A p \in Passwords : MemberRow(p) \in Row /\ MemberRow(p).role # "none"
  OBVIOUS
<1>3. \A r \in Row : r.role # "none"
  OBVIOUS
<1> QED BY <1>1, <1>2, <1>3

\* What a token is made of.
LEMMA TokenTypes ==
  ASSUME time \in Nat, NEW s \in Servers, NEW e \in Employees, NEW row \in Row
  PROVE  /\ Who(e, row) \in Context
         /\ NewToken(s, e, row) \in Token
         /\ NewToken(s, e, row) =
              [who |-> Who(e, row), at |-> time,
               exp |-> (time + Offset[s] + TTL * PerSecond) \div PerSecond]
<1>1. Who(e, row) \in Context
  BY DEF Who, Context, Row
<1>2. TTL * PerSecond \in Nat /\ Offset[s] \in Nat /\ PerSecond \in Nat \ {0}
  BY ConstantsAssumption
<1>3. (time + Offset[s] + TTL * PerSecond) \div PerSecond \in Nat
  BY <1>2, WholeSeconds
<1> QED BY <1>1, <1>3 DEF NewToken, Token, Seconds, Clock

\* What the end of a handler leaves.
LEMMA AnswerTypes ==
  ASSUME TypeOK, NEW s \in Servers, NEW k \in Calls, NEW result \in Result,
         NEW token \in Token \cup {NoToken}, NEW workspace \in Context \cup {NoContext},
         Answer(s, k, result, token, workspace)
  PROVE  /\ reply' \in [Calls -> Reply \cup {NoReply}]
         /\ server' \in [Servers -> {Down, Idle} \cup [pc : {"create_user"}, call : Calls]]
<1>1. [result |-> result, token |-> token, workspace |-> workspace,
       by |-> s, start |-> starts[s]] \in Reply
  BY DEF TypeOK, Reply
<1>2. reply \in [Calls -> Reply \cup {NoReply}]
  BY DEF TypeOK, Reply
<1> QED BY <1>1, <1>2 DEF Answer, TypeOK

\* Why a step keeps the types, and why no request is answered twice: a request
\* taken up was sent, is a sign-up once it has come to the insert, is in the
\* hands of one process, and has no answer yet.
RequestsOK ==
  /\ \A k \in Calls : reply[k] # NoReply \/ k \in inbox => ask[k] # Unsent
  /\ \A k \in inbox : reply[k] = NoReply
  /\ \A s \in Servers : At(s, "create_user") =>
       /\ ask[server[s].call] # Unsent /\ reply[server[s].call] = NoReply
       /\ server[s].call \notin inbox
       /\ \A r \in Servers :
            At(r, "create_user") /\ server[r].call = server[s].call => r = s

\* The request in the hands of a process.
LEMMA HandlerTypes ==
  ASSUME TypeOK
  PROVE  \A s \in Servers : At(s, "create_user") => server[s].call \in Calls
BY DEF TypeOK, At, Down, Idle

LEMMA TypeStep == TypeOK /\ RequestsOK /\ [Next]_vars => TypeOK'
<1> SUFFICES ASSUME TypeOK, RequestsOK, [Next]_vars PROVE TypeOK'
  OBVIOUS
<1>c. MaxTime \in Nat /\ MaxCrashes \in Nat /\ Configs \subseteq [Employees -> Row \cup {NoRow}]
  BY ConstantsAssumption
<1>t. time \in Nat
  BY <1>c DEF TypeOK
<1>l. LoggedOut \in [waits : Calls \cup {"none"}, token : Token \cup {NoToken},
                     shown : Context \cup {NoContext}]
  BY DEF LoggedOut
<1>1. ASSUME NEW t \in Tabs, NEW k \in Calls, Submit(t, k) PROVE TypeOK'
  BY <1>1 DEF Submit, TypeOK, process
<1>2. ASSUME NEW t \in Tabs, Heard(t) PROVE TypeOK'
  <2> DEFINE r == reply[tab[t].waits]
             session == [waits |-> "none", token |-> r.token, shown |-> r.workspace]
  <2>1. r \in Reply
    BY <1>2 DEF Heard, TypeOK, Reply
  <2>2. session \in [waits : Calls \cup {"none"}, token : Token \cup {NoToken},
                     shown : Context \cup {NoContext}]
    BY <2>1 DEF Reply
  <2>3. tab' \in [Tabs -> [waits : Calls \cup {"none"}, token : Token \cup {NoToken},
                           shown : Context \cup {NoContext}]]
    <3>1. tab' = [tab EXCEPT ![t] = IF r.result \in Welcome THEN session ELSE LoggedOut]
      BY <1>2 DEF Heard
    <3> HIDE DEF session
    <3> QED BY <3>1, <2>2, <1>l DEF TypeOK
  <2> QED BY <1>2, <2>3 DEF Heard, TypeOK, process, requests
<1>3. ASSUME NEW t \in Tabs, GiveUp(t) \/ Logout(t) PROVE TypeOK'
  BY <1>3, <1>l DEF GiveUp, Logout, TypeOK, process, requests
<1>4. ASSUME NEW s \in Servers, Start(s) PROVE TypeOK'
  <2>1. Home(s) \in Homes
    BY Basics
  <2>2. PICK seed \in Configs :
          users' = [users EXCEPT ![Home(s)] =
            [e \in Employees |-> IF @[e] # NoRow THEN @[e] ELSE seed[e]]]
    BY <1>4 DEF Start
  <2>3. users' \in [Homes -> [Employees -> Row \cup {NoRow}]]
    BY <1>c, <2>1, <2>2 DEF TypeOK
  <2> QED BY <1>4, <2>3 DEF Start, TypeOK, requests
<1>5. ASSUME NEW s \in Servers, Crash(s) PROVE TypeOK'
  BY <1>5, <1>c DEF Crash, TypeOK, requests, Empty, Homes
<1>6. ASSUME NEW s \in Servers, NEW k \in Calls, GetUser(s, k) PROVE TypeOK'
  <2> DEFINE q == ask[k]
             row == Rows(s)[q.employee]
  <2>1. q.kind \in {"signup", "login"} => q \in Ask
    BY DEF TypeOK, Unsent
  <2>2. q \in Ask => row \in Row \cup {NoRow}
    BY Basics DEF TypeOK, Ask, Rows
  <2>3. reply' \in [Calls -> Reply \cup {NoReply}]
        /\ server' \in [Servers -> {Down, Idle} \cup [pc : {"create_user"}, call : Calls]]
    <3>1. ASSUME NEW result \in Result, Refuse(s, k, result)
          PROVE  reply' \in [Calls -> Reply \cup {NoReply}]
                 /\ server' \in [Servers -> {Down, Idle} \cup [pc : {"create_user"}, call : Calls]]
      BY <3>1, AnswerTypes DEF Refuse
    <3>2. CASE q.kind = "signup" /\ row # NoRow /\ Refuse(s, k, "duplicate")
      BY <3>1, <3>2 DEF Result
    <3>3. CASE server' = [server EXCEPT ![s] = [pc |-> "create_user", call |-> k]]
               /\ UNCHANGED reply
      BY <3>3 DEF TypeOK, Reply
    <3>4. CASE q.kind = "login" /\ row # NoRow /\ row.password = q.password
               /\ LetIn(s, k, q.employee, row, "welcome")
      <4>1. q \in Ask /\ row \in Row
        BY <2>1, <2>2, <3>4
      <4>2. NewToken(s, q.employee, row) \in Token /\ Who(q.employee, row) \in Context
        BY <4>1, <1>t, TokenTypes DEF Ask
      <4> QED BY <3>4, <4>2, AnswerTypes DEF LetIn, Result, Welcome
    <3>5. CASE Refuse(s, k, "refused") \/ Refuse(s, k, "failed")
      BY <3>1, <3>5 DEF Result
    <3> QED BY <1>6, <3>2, <3>3, <3>4, <3>5 DEF GetUser
  <2> QED BY <1>6, <2>3 DEF GetUser, TypeOK, Reply
<1>7. ASSUME NEW s \in Servers, CreateUser(s) PROVE TypeOK'
  <2> DEFINE k == server[s].call
             e == ask[k].employee
             row == MemberRow(ask[k].password)
  <2>0. server[s] \in [pc : {"create_user"}, call : Calls]
    BY <1>7 DEF CreateUser, At, TypeOK, Down, Idle
  <2>1. k \in Calls
    BY <2>0
  <2>2. ask[k] \in Ask
    BY <1>7, <2>1 DEF CreateUser, RequestsOK, TypeOK
  <2>3. e \in Employees /\ row \in Row /\ Home(s) \in Homes
    BY <2>2, Basics DEF Ask
  <2>4. users' \in [Homes -> [Employees -> Row \cup {NoRow}]]
    <3>1. users' = users \/ Insert(s, e, row)
      BY <1>7 DEF CreateUser
    <3>2. users \in [Homes -> [Employees -> Row \cup {NoRow}]]
      BY DEF TypeOK
    <3> HIDE DEF e, row
    <3>3. CASE Insert(s, e, row)
      <4>1. users[Home(s)] \in [Employees -> Row \cup {NoRow}]
        BY <2>3, <3>2
      <4>2. [users[Home(s)] EXCEPT ![e] = row] \in [Employees -> Row \cup {NoRow}]
        BY <2>3, <4>1
      <4>3. users' = [users EXCEPT ![Home(s)] = [users[Home(s)] EXCEPT ![e] = row]]
        BY <3>3 DEF Insert
      <4> QED BY <2>3, <3>2, <4>2, <4>3
    <3> QED BY <3>1, <3>2, <3>3
  <2>5. Refuse(s, k, "duplicate") \/ Refuse(s, k, "failed") \/ LetIn(s, k, e, row, "created")
    BY <1>7 DEF CreateUser
  <2>6. reply' \in [Calls -> Reply \cup {NoReply}]
        /\ server' \in [Servers -> {Down, Idle} \cup [pc : {"create_user"}, call : Calls]]
    <3>1. NewToken(s, e, row) \in Token /\ Who(e, row) \in Context
      BY <1>t, <2>3, TokenTypes
    <3> HIDE DEF k, e, row
    <3> QED BY <2>1, <2>5, <3>1, AnswerTypes DEF Refuse, LetIn, Result, Welcome
  <2> QED BY <1>7, <2>4, <2>6 DEF CreateUser, TypeOK, Reply, requests
<1>8. CASE Tick
  BY <1>8, <1>c DEF Tick, TypeOK, process, requests
<1>9. CASE UNCHANGED vars
  BY <1>9 DEF vars, TypeOK, process, requests
<1> QED BY <1>1, <1>2, <1>3, <1>4, <1>5, <1>6, <1>7, <1>8, <1>9 DEF Next

LEMMA RequestsStep == TypeOK /\ RequestsOK /\ [Next]_vars => RequestsOK'
<1> SUFFICES ASSUME TypeOK, RequestsOK, [Next]_vars PROVE RequestsOK'
  OBVIOUS
<1>1. ASSUME NEW t \in Tabs, NEW k \in Calls, Submit(t, k) PROVE RequestsOK'
  <2>1. reply[k] = NoReply /\ ask[k] = Unsent /\ reply' = reply /\ server' = server
        /\ inbox' = inbox \cup {k}
    BY <1>1 DEF Submit, RequestsOK, process
  <2>2. PICK q \in Ask : ask' = [ask EXCEPT ![k] = q]
    BY <1>1 DEF Submit
  <2>3. q # Unsent
    BY DEF Ask, Unsent
  <2> QED BY <2>1, <2>2, <2>3 DEF RequestsOK, TypeOK, At
<1>2. CASE UNCHANGED <<server, ask, inbox, reply>>
  BY <1>2 DEF RequestsOK, At
<1>3. ASSUME NEW t \in Tabs, Heard(t) \/ GiveUp(t) \/ Logout(t) PROVE RequestsOK'
  BY <1>2, <1>3 DEF Heard, GiveUp, Logout, process, requests
<1>4. ASSUME NEW s \in Servers, Start(s) \/ Crash(s) PROVE RequestsOK'
  <2>1. /\ server' = [server EXCEPT ![s] = Idle] \/ server' = [server EXCEPT ![s] = Down]
        /\ UNCHANGED <<ask, inbox, reply>>
    BY <1>4 DEF Start, Crash, requests
  <2>2. \A r \in Servers : At(r, "create_user")' => r # s /\ server'[r] = server[r]
    BY <2>1 DEF At, TypeOK, Idle, Down
  <2> QED BY <2>1, <2>2 DEF RequestsOK, At
<1>5. ASSUME NEW s \in Servers, NEW k \in Calls, GetUser(s, k) PROVE RequestsOK'
  <2>1. /\ inbox' = inbox \ {k} /\ ask' = ask /\ k \in inbox /\ At(s, "idle")
        /\ ask[k] # Unsent /\ reply[k] = NoReply
    BY <1>5 DEF GetUser, RequestsOK
  <2>2. \/ server' = [server EXCEPT ![s] = Idle]
           /\ \A l \in Calls : l # k => reply'[l] = reply[l]
        \/ server' = [server EXCEPT ![s] = [pc |-> "create_user", call |-> k]]
           /\ reply' = reply
    BY <1>5 DEF GetUser, Refuse, LetIn, Answer, TypeOK
  <2>3. \A r \in Servers : At(r, "create_user") => server[r].call # k
    BY <2>1 DEF RequestsOK
  <2>4. \A r \in Servers : At(r, "create_user") =>
          server[r].call \in Calls /\ reply'[server[r].call] = NoReply
    BY <2>2, <2>3, HandlerTypes DEF RequestsOK
  <2>5. CASE server' = [server EXCEPT ![s] = Idle]
    <3>1. \A r \in Servers : At(r, "create_user")' =>
            At(r, "create_user") /\ server'[r] = server[r]
      BY <2>5 DEF At, TypeOK, Idle
    <3>2. \A l \in Calls : l # k => reply'[l] = reply[l]
      BY <2>2
    <3> QED BY <2>1, <2>4, <3>1, <3>2 DEF RequestsOK, TypeOK
  <2>6. CASE /\ server' = [server EXCEPT ![s] = [pc |-> "create_user", call |-> k]]
             /\ reply' = reply
    <3>1. \A r \in Servers : r # s /\ At(r, "create_user")' =>
            At(r, "create_user") /\ server'[r] = server[r]
      BY <2>6 DEF At, TypeOK
    <3>2. server'[s].call = k
      BY <2>6 DEF TypeOK
    <3> QED BY <2>1, <2>3, <2>4, <2>6, <3>1, <3>2 DEF RequestsOK, TypeOK
  <2> QED BY <2>2, <2>5, <2>6
<1>6. ASSUME NEW s \in Servers, CreateUser(s) PROVE RequestsOK'
  <2>1. /\ inbox' = inbox /\ ask' = ask /\ At(s, "create_user")
        /\ server' = [server EXCEPT ![s] = Idle]
        /\ \A l \in Calls : l # server[s].call => reply'[l] = reply[l]
    BY <1>6 DEF CreateUser, Refuse, LetIn, Answer, TypeOK, requests
  <2>2. \A r \in Servers : At(r, "create_user")' =>
          /\ At(r, "create_user") /\ server'[r] = server[r] /\ r # s
          /\ server[r].call \in Calls
    BY <2>1, HandlerTypes DEF At, TypeOK, Idle
  <2>3. \A r \in Servers : At(r, "create_user")' => server[r].call # server[s].call
    BY <2>1, <2>2 DEF RequestsOK
  <2>4. server[s].call \in Calls /\ ask[server[s].call] # Unsent
        /\ server[s].call \notin inbox
    BY <2>1, HandlerTypes DEF RequestsOK
  <2> QED BY <2>1, <2>2, <2>3, <2>4 DEF RequestsOK, TypeOK
<1>7. CASE Tick
  BY <1>2, <1>7 DEF Tick, process, requests
<1>8. CASE UNCHANGED vars
  BY <1>2, <1>8 DEF vars, process, requests
<1> QED BY <1>1, <1>3, <1>4, <1>5, <1>6, <1>7, <1>8 DEF Next

LEMMA TypeInit == Init => TypeOK /\ RequestsOK
<1> SUFFICES ASSUME Init PROVE TypeOK /\ RequestsOK
  OBVIOUS
<1>1. MaxTime \in Nat /\ MaxCrashes \in Nat
  BY ConstantsAssumption
<1> QED BY <1>1 DEF Init, TypeOK, RequestsOK, Empty, LoggedOut, Down, Idle, At

\* Types hold in every reachable state, for every set of processes, tabs and
\* requests and every configuration.
THEOREM TypeCorrect == Spec => []TypeOK
<1>1. TypeOK /\ RequestsOK /\ [Next]_vars => (TypeOK /\ RequestsOK)'
  BY TypeStep, RequestsStep
<1> QED BY <1>1, TypeInit, PTL DEF Spec

-----------------------------------------------------------------------------
(* Accounts and tokens. *)

TypeInv == TypeOK /\ RequestsOK

\* What is true of an answer once it is given: the process was started no more
\* often then than now, and a token carries its expiry and the shown workspace.
RepliesOK ==
  \A k \in Calls : reply[k] # NoReply =>
    /\ reply[k].start <= starts[reply[k].by]
    /\ Welcomed(k) => LET token == reply[k].token IN
         /\ token \in Token /\ token.at <= time
         /\ token.exp =
              (token.at + Offset[reply[k].by] + TTL * PerSecond) \div PerSecond
         /\ reply[k].workspace = token.who

\* An answer is given once, and its request stays what it was.
LEMMA AnswersStay ==
  ASSUME TypeInv, [Next]_vars, NEW k \in Calls, reply[k] # NoReply
  PROVE  reply'[k] = reply[k] /\ ask'[k] = ask[k] /\ ask[k] \in Ask
<1>0. ask[k] \in Ask
  BY DEF TypeInv, RequestsOK, TypeOK
<1>1. ASSUME NEW t \in Tabs, NEW l \in Calls, Submit(t, l) PROVE reply'[k] = reply[k] /\ ask'[k] = ask[k]
  BY <1>1 DEF Submit, TypeInv, RequestsOK, TypeOK
<1>2. ASSUME NEW s \in Servers, NEW l \in Calls, GetUser(s, l)
      PROVE  reply'[k] = reply[k] /\ ask'[k] = ask[k]
  <2>1. l # k
    BY <1>2 DEF GetUser, TypeInv, RequestsOK
  <2> QED BY <1>2, <2>1 DEF GetUser, Refuse, LetIn, Answer, TypeInv, TypeOK
<1>3. ASSUME NEW s \in Servers, CreateUser(s) PROVE reply'[k] = reply[k] /\ ask'[k] = ask[k]
  <2>1. server[s].call # k /\ ask' = ask
    BY <1>3 DEF CreateUser, TypeInv, RequestsOK, requests
  <2>2. \A l \in Calls : l # server[s].call => reply'[l] = reply[l]
    BY <1>3 DEF CreateUser, Refuse, LetIn, Answer, TypeInv, TypeOK
  <2> QED BY <2>1, <2>2
<1>4. CASE UNCHANGED requests /\ UNCHANGED reply
  BY <1>0, <1>4 DEF requests
<1>5. \/ UNCHANGED requests /\ UNCHANGED reply
      \/ \E t \in Tabs, l \in Calls : Submit(t, l)
      \/ \E s \in Servers : CreateUser(s) \/ \E l \in Calls : GetUser(s, l)
  BY DEF Next, vars, Tick, Heard, GiveUp, Logout, Start, Crash, requests
<1> QED BY <1>0, <1>1, <1>2, <1>3, <1>4, <1>5

\* Starts are counted, and a process that is down comes up by one.
LEMMA StartsCounted ==
  ASSUME TypeInv, [Next]_vars, NEW s \in Servers
  PROVE  /\ starts[s] \in Nat /\ starts'[s] \in Nat /\ starts[s] <= starts'[s]
         /\ At(s, "down") /\ ~At(s, "down")' => starts[s] < starts'[s]
<1>1. ASSUME NEW r \in Servers, Start(r) PROVE starts' = [starts EXCEPT ![r] = @ + 1]
                                  /\ \A q \in Servers : q # r => server'[q] = server[q]
  BY <1>1 DEF Start, TypeInv, TypeOK
<1>2. ASSUME NEW r \in Servers, Crash(r) \/ CreateUser(r) \/ (\E k \in Calls : GetUser(r, k))
      PROVE starts' = starts /\ (At(s, "down") => server'[s].pc = "down")
  BY <1>2 DEF Crash, CreateUser, GetUser, Refuse, LetIn, Answer, At, TypeInv, TypeOK, Down
<1>3. CASE UNCHANGED process
  BY <1>3 DEF process, At, TypeInv, TypeOK
<1>4. \/ UNCHANGED process
      \/ \E r \in Servers : Start(r) \/ Crash(r) \/ CreateUser(r) \/ \E k \in Calls : GetUser(r, k)
  BY DEF Next, vars, Tick, Submit, Heard, GiveUp, Logout
<1>5. starts \in [Servers -> Nat]
  BY DEF TypeInv, TypeOK
<1> QED BY <1>1, <1>2, <1>3, <1>4, <1>5 DEF At

\* The row of an employee id stays what it is as long as its store stands.
LEMMA RowsStay ==
  ASSUME TypeInv, [Next]_vars, NEW s \in Servers, NEW e \in Employees,
         Home(s) = "shared" \/ ~At(s, "down")', Rows(s)[e] # NoRow
  PROVE  Rows(s)'[e] = Rows(s)[e]
<1>0. users \in [Homes -> [Employees -> Row \cup {NoRow}]] /\ Home(s) \in Homes
      /\ (Home(s) = "shared" \/ Home(s) = s)
  BY Basics DEF TypeInv, TypeOK, Home
<1>1. ASSUME NEW r \in Servers, Start(r) PROVE users'[Home(s)][e] = users[Home(s)][e]
  <2>1. PICK seed \in Configs :
          users' = [users EXCEPT ![Home(r)] =
            [d \in Employees |-> IF @[d] # NoRow THEN @[d] ELSE seed[d]]]
    BY <1>1 DEF Start
  <2>2. Home(r) \in Homes
    BY Basics
  <2> QED BY <1>0, <2>1, <2>2 DEF Rows
<1>2. ASSUME NEW r \in Servers, Crash(r) PROVE users'[Home(s)][e] = users[Home(s)][e]
  <2>1. users' = users \/ (Home(r) = r /\ users' = [users EXCEPT ![r] = Empty])
    BY <1>2 DEF Crash
  <2>2. server'[r].pc = "down"
    BY <1>2 DEF Crash, TypeInv, TypeOK, Down
  <2>3. r # "shared"
    BY ConstantsAssumption
  <2> QED BY <1>0, <2>1, <2>2, <2>3 DEF At
<1>3. ASSUME NEW r \in Servers, CreateUser(r) PROVE users'[Home(s)][e] = users[Home(s)][e]
  <2> DEFINE d == ask[server[r].call].employee
             row == MemberRow(ask[server[r].call].password)
  <2>1. users' = users \/ (Rows(r)[d] = NoRow /\ Insert(r, d, row))
    BY <1>3 DEF CreateUser
  <2>2. Home(r) \in Homes
    BY Basics
  <2> HIDE DEF d, row
  <2>3. CASE Rows(r)[d] = NoRow /\ Insert(r, d, row)
    <3>1. users' = [users EXCEPT ![Home(r)] = [users[Home(r)] EXCEPT ![d] = row]]
      BY <2>3 DEF Insert
    <3>2. Home(r) = Home(s) => d # e
      BY <2>3 DEF Rows
    <3> QED BY <1>0, <2>2, <3>1, <3>2
  <2> QED BY <2>1, <2>3
<1>4. \/ UNCHANGED users
      \/ \E r \in Servers : Start(r) \/ Crash(r) \/ CreateUser(r)
  BY DEF Next, vars, Tick, Submit, Heard, GiveUp, Logout, GetUser
<1> QED BY <1>1, <1>2, <1>3, <1>4 DEF Rows

\* What stands after a step stood before it, if the answer was there.
LEMMA StandingBefore ==
  ASSUME TypeInv, RepliesOK, [Next]_vars, NEW k \in Calls, reply[k] # NoReply, Standing(k)'
  PROVE  Standing(k)
<1>1. PICK s \in Servers : s = reply[k].by
  BY DEF TypeInv, TypeOK
<1>2. reply'[k] = reply[k] /\ reply[k].start \in Nat
  BY AnswersStay DEF TypeInv, TypeOK
<1>3. reply[k].start <= starts[s]
  BY <1>1 DEF RepliesOK
<1>4. /\ starts[s] \in Nat /\ starts'[s] \in Nat /\ starts[s] <= starts'[s]
      /\ At(s, "down") /\ ~At(s, "down")' => starts[s] < starts'[s]
  BY <1>1, StartsCounted
<1>5. Home(s) = "shared" \/ (starts'[s] = reply[k].start /\ ~At(s, "down")')
  BY <1>1, <1>2 DEF Standing, At
<1>6. Home(s) = "shared" \/ (starts[s] = reply[k].start /\ ~At(s, "down"))
  BY <1>2, <1>3, <1>4, <1>5
<1> QED BY <1>1, <1>6 DEF Standing

\* What a step that answers a request has seen and written: a request is let in
\* with a token of the row it finds or inserts; a sign-up, if there was no row.
LEMMA NewReply ==
  ASSUME TypeInv, [Next]_vars, NEW k \in Calls, reply[k] = NoReply, reply'[k] # NoReply
  PROVE  \E s \in Servers, e \in Employees :
           /\ ask'[k] = ask[k] /\ ask[k].employee = e
           /\ reply'[k].by = s /\ reply'[k].start = starts[s] /\ starts' = starts
           /\ ~At(s, "down") /\ ~At(s, "down")' /\ time' = time
           /\ \A l \in Calls : l # k => reply'[l] = reply[l]
           /\ reply'[k].result = "created" => Rows(s)[e] = NoRow
           /\ Welcomed(k)' => \E row \in Row :
                /\ Rows(s)'[e] = row /\ row.password = ask[k].password
                /\ reply'[k].token = NewToken(s, e, row)
                /\ reply'[k].workspace = Who(e, row)
<1>t. reply \in [Calls -> Reply \cup {NoReply}] /\ DOMAIN server = Servers
  BY DEF TypeInv, TypeOK, Reply
<1>a. ASSUME NEW s \in Servers, NEW l \in Calls, NEW result, NEW token, NEW workspace,
             Answer(s, l, result, token, workspace)
      PROVE  /\ ~At(s, "down")'
             /\ \A m \in Calls : m # l => reply'[m] = reply[m]
             /\ reply'[l] = [result |-> result, token |-> token, workspace |-> workspace,
                             by |-> s, start |-> starts[s]]
  BY <1>a, <1>t DEF Answer, At, Idle
<1>1. ASSUME NEW s \in Servers, NEW l \in Calls, GetUser(s, l) PROVE
        /\ l = k
        /\ \E e \in Employees :
           /\ ask'[k] = ask[k] /\ ask[k].employee = e
           /\ reply'[k].by = s /\ reply'[k].start = starts[s] /\ starts' = starts
           /\ ~At(s, "down") /\ ~At(s, "down")' /\ time' = time
           /\ \A m \in Calls : m # k => reply'[m] = reply[m]
           /\ reply'[k].result # "created"
           /\ Welcomed(k)' => \E row \in Row :
                /\ Rows(s)'[e] = row /\ row.password = ask[k].password
                /\ reply'[k].token = NewToken(s, e, row)
                /\ reply'[k].workspace = Who(e, row)
  <2> DEFINE q == ask[l]
             e == q.employee
             row == Rows(s)[e]
  <2>1. /\ ask' = ask /\ starts' = starts /\ users' = users /\ time' = time
        /\ At(s, "idle") /\ l \in inbox
    BY <1>1 DEF GetUser
  <2>2. ask[l] \in Ask
    BY <2>1 DEF TypeInv, TypeOK, RequestsOK
  <2>3. e \in Employees /\ row \in Row \cup {NoRow}
    BY <2>2, Basics DEF Ask, Rows, TypeInv, TypeOK
  <2>4. \/ \E result \in {"duplicate", "refused", "failed"} : Refuse(s, l, result)
        \/ /\ row # NoRow /\ row.password = q.password
           /\ LetIn(s, l, e, row, "welcome")
    <3>1. reply' # reply
      OBVIOUS
    <3> QED BY <1>1, <3>1 DEF GetUser
  <2> HIDE DEF e, row
  <2>5. CASE \E result \in {"duplicate", "refused", "failed"} : Refuse(s, l, result)
    <3>1. PICK result \in {"duplicate", "refused", "failed"} : Refuse(s, l, result)
      BY <2>5
    <3>2. /\ ~At(s, "down")' /\ \A m \in Calls : m # l => reply'[m] = reply[m]
          /\ reply'[l] = [result |-> result, token |-> NoToken, workspace |-> NoContext,
                          by |-> s, start |-> starts[s]]
      BY <3>1, <1>a DEF Refuse
    <3>3. l = k /\ reply'[k].result = result /\ ~Welcomed(k)'
      BY <3>2 DEF Welcomed, Welcome
    <3> QED BY <2>1, <2>3, <3>2, <3>3 DEF e, At
  <2>6. CASE /\ row # NoRow /\ row.password = q.password
             /\ LetIn(s, l, e, row, "welcome")
    <3>1. /\ ~At(s, "down")' /\ \A m \in Calls : m # l => reply'[m] = reply[m]
          /\ reply'[l] = [result |-> "welcome", token |-> NewToken(s, e, row),
                          workspace |-> Who(e, row), by |-> s, start |-> starts[s]]
      BY <2>6, <1>a DEF LetIn
    <3>2. l = k
      BY <3>1
    <3>3. row \in Row /\ Rows(s)'[e] = row
      BY <2>1, <2>3, <2>6 DEF row, Rows
    <3> QED BY <2>1, <2>3, <2>6, <3>1, <3>2, <3>3 DEF e, At
  <2> QED BY <2>4, <2>5, <2>6
<1>2. ASSUME NEW s \in Servers, CreateUser(s) PROVE
        \E e \in Employees :
           /\ ask'[k] = ask[k] /\ ask[k].employee = e
           /\ reply'[k].by = s /\ reply'[k].start = starts[s] /\ starts' = starts
           /\ ~At(s, "down") /\ ~At(s, "down")' /\ time' = time
           /\ \A m \in Calls : m # k => reply'[m] = reply[m]
           /\ reply'[k].result = "created" => Rows(s)[e] = NoRow
           /\ Welcomed(k)' => \E row \in Row :
                /\ Rows(s)'[e] = row /\ row.password = ask[k].password
                /\ reply'[k].token = NewToken(s, e, row)
                /\ reply'[k].workspace = Who(e, row)
  <2> DEFINE l == server[s].call
             e == ask[l].employee
             row == MemberRow(ask[l].password)
  <2>1. /\ ask' = ask /\ starts' = starts /\ time' = time /\ At(s, "create_user")
    BY <1>2 DEF CreateUser, requests
  <2>2. l \in Calls
    BY <2>1, HandlerTypes DEF TypeInv
  <2>3. ask[l] \in Ask
    BY <2>1, <2>2 DEF TypeInv, TypeOK, RequestsOK
  <2>4. e \in Employees /\ row \in Row /\ Home(s) \in Homes /\ row.password = ask[l].password
    BY <2>3, Basics DEF Ask, MemberRow
  <2>5. \/ \E result \in {"duplicate", "failed"} : Refuse(s, l, result)
        \/ Rows(s)[e] = NoRow /\ Insert(s, e, row) /\ LetIn(s, l, e, row, "created")
    BY <1>2 DEF CreateUser
  <2> HIDE DEF l, e, row
  <2>6. CASE \E result \in {"duplicate", "failed"} : Refuse(s, l, result)
    <3>1. PICK result \in {"duplicate", "failed"} : Refuse(s, l, result)
      BY <2>6
    <3>2. /\ ~At(s, "down")' /\ \A m \in Calls : m # l => reply'[m] = reply[m]
          /\ reply'[l] = [result |-> result, token |-> NoToken, workspace |-> NoContext,
                          by |-> s, start |-> starts[s]]
      BY <2>2, <3>1, <1>a DEF Refuse
    <3>3. l = k /\ reply'[k].result = result /\ ~Welcomed(k)'
      BY <3>2 DEF Welcomed, Welcome
    <3> QED BY <2>1, <2>4, <3>2, <3>3 DEF e, At
  <2>7. CASE Rows(s)[e] = NoRow /\ Insert(s, e, row) /\ LetIn(s, l, e, row, "created")
    <3>1. /\ ~At(s, "down")' /\ \A m \in Calls : m # l => reply'[m] = reply[m]
          /\ reply'[l] = [result |-> "created", token |-> NewToken(s, e, row),
                          workspace |-> Who(e, row), by |-> s, start |-> starts[s]]
      BY <2>2, <2>7, <1>a DEF LetIn
    <3>2. l = k
      BY <3>1
    <3>3. Rows(s)'[e] = row
      BY <2>4, <2>7 DEF Rows, Insert, TypeInv, TypeOK
    <3> QED BY <2>1, <2>4, <2>7, <3>1, <3>2, <3>3 DEF e, At
  <2> QED BY <2>5, <2>6, <2>7
<1>3. \E s \in Servers : CreateUser(s) \/ \E l \in Calls : GetUser(s, l)
  BY DEF Next, vars, Tick, Submit, Heard, GiveUp, Logout, Start, Crash
<1> QED BY <1>1, <1>2, <1>3

\* Why every session is somebody's: its token is that of an answer.
SessionsOK ==
  \A t \in Tabs : tab[t].token # NoToken =>
    /\ tab[t].shown = tab[t].token.who
    /\ \E k \in Calls : Welcomed(k) /\ reply[k].token = tab[t].token

\* The inductive invariant.
Inv == TypeInv /\ RepliesOK /\ OneOwner /\ AccountsAreKept /\ SessionsOK

\* A known answer is known after the step, a new one is of NewReply.
LEMMA TimePasses ==
  ASSUME TypeInv, [Next]_vars
  PROVE  time \in Nat /\ time <= time' /\ (\A s \in Servers : starts[s] <= starts'[s])
<1>1. time \in Nat
  BY ConstantsAssumption DEF TypeInv, TypeOK
<1>2. time' = time \/ time' = time + 1
  BY DEF Next, vars, Tick, Submit, Heard, GiveUp, Logout, Start, Crash, GetUser, CreateUser
<1> QED BY <1>1, <1>2, StartsCounted

LEMMA RepliesStep == Inv /\ [Next]_vars => RepliesOK'
<1> SUFFICES ASSUME Inv, [Next]_vars, NEW k \in Calls, reply'[k] # NoReply
             PROVE  /\ reply'[k].start <= starts'[reply'[k].by]
                    /\ Welcomed(k)' =>
                         /\ reply'[k].token \in Token /\ reply'[k].token.at <= time'
                         /\ reply'[k].token.exp =
                              (reply'[k].token.at + Offset[reply'[k].by] + TTL * PerSecond) \div PerSecond
                         /\ reply'[k].workspace = reply'[k].token.who
  BY DEF RepliesOK
<1>0. TypeInv /\ RepliesOK /\ time \in Nat /\ time <= time'
      /\ \A s \in Servers : starts[s] <= starts'[s] /\ starts[s] \in Nat /\ starts'[s] \in Nat
  BY TimePasses, StartsCounted DEF Inv
<1>1. CASE reply[k] # NoReply
  <2>1. reply'[k] = reply[k] /\ (Welcomed(k)' => Welcomed(k))
    BY <1>0, <1>1, AnswersStay DEF Welcomed
  <2>2. reply[k] \in Reply
    BY <1>0, <1>1 DEF TypeInv, TypeOK, Reply
  <2>3. reply[k].by \in Servers /\ reply[k].start \in Nat
        /\ reply[k].start <= starts[reply[k].by]
    BY <1>0, <1>1, <2>2 DEF RepliesOK, Reply
  <2>4. reply'[k].start <= starts'[reply'[k].by]
    BY <1>0, <2>1, <2>3
  <2>5. ASSUME Welcomed(k)'
        PROVE  /\ reply'[k].token \in Token /\ reply'[k].token.at <= time'
               /\ reply'[k].token.exp =
                    (reply'[k].token.at + Offset[reply'[k].by] + TTL * PerSecond) \div PerSecond
               /\ reply'[k].workspace = reply'[k].token.who
    <3>1. /\ reply[k].token \in Token /\ reply[k].token.at <= time
          /\ reply[k].token.exp =
                (reply[k].token.at + Offset[reply[k].by] + TTL * PerSecond) \div PerSecond
          /\ reply[k].workspace = reply[k].token.who
      BY <1>0, <1>1, <2>1, <2>5 DEF RepliesOK
    <3>2. reply[k].token.at \in Nat /\ time' \in Int
      <4>1. time' = time \/ time' = time + 1
        BY DEF Next, vars, Tick, Submit, Heard, GiveUp, Logout, Start, Crash, GetUser, CreateUser
      <4> QED BY <1>0, <3>1, <4>1 DEF Token
    <3> QED BY <1>0, <2>1, <3>1, <3>2
  <2> QED BY <2>4, <2>5
<1>2. CASE reply[k] = NoReply
  <2>1. PICK s \in Servers, e \in Employees :
          /\ reply'[k].by = s /\ reply'[k].start = starts[s] /\ starts' = starts /\ time' = time
          /\ Welcomed(k)' => \E row \in Row :
               /\ reply'[k].token = NewToken(s, e, row)
               /\ reply'[k].workspace = Who(e, row)
    BY <1>0, <1>2, NewReply
  <2>2. ASSUME Welcomed(k)'
        PROVE  /\ reply'[k].token \in Token /\ reply'[k].token.at <= time'
               /\ reply'[k].token.exp =
                    (reply'[k].token.at + Offset[reply'[k].by] + TTL * PerSecond) \div PerSecond
               /\ reply'[k].workspace = reply'[k].token.who
    <3>1. PICK row \in Row : reply'[k].token = NewToken(s, e, row)
                             /\ reply'[k].workspace = Who(e, row)
      BY <2>1, <2>2
    <3>2. /\ NewToken(s, e, row) \in Token
          /\ NewToken(s, e, row) =
               [who |-> Who(e, row), at |-> time,
                exp |-> (time + Offset[s] + TTL * PerSecond) \div PerSecond]
      BY <1>0, TokenTypes
    <3> QED BY <1>0, <2>1, <3>1, <3>2
  <2> QED BY <1>0, <2>1, <2>2
<1> QED BY <1>1, <1>2

LEMMA KeptStep == Inv /\ [Next]_vars => AccountsAreKept'
<1> SUFFICES ASSUME Inv, [Next]_vars, NEW k \in Calls, Welcomed(k)', Standing(k)'
             PROVE  \E s \in Servers, e \in Employees, row \in Row :
                      /\ reply'[k].by = s /\ ask'[k].employee = e
                      /\ Rows(s)'[e] = row /\ row.password = ask'[k].password
                      /\ reply'[k].token.who = Who(e, row)
  BY Basics DEF AccountsAreKept, Rows
<1>0. TypeInv /\ RepliesOK /\ AccountsAreKept
  BY DEF Inv
<1>t. time \in Nat
  BY <1>0, TimePasses
<1>1. CASE reply[k] # NoReply
  <2>1. reply'[k] = reply[k] /\ ask'[k] = ask[k] /\ ask[k] \in Ask /\ Welcomed(k)
    BY <1>0, <1>1, AnswersStay DEF Welcomed
  <2>2. PICK s \in Servers : s = reply[k].by
    BY <1>0, <1>1 DEF TypeInv, TypeOK
  <2>3. PICK e \in Employees : e = ask[k].employee
    BY <2>1 DEF Ask
  <2>4. PICK row : row = Rows(s)[e]
    OBVIOUS
  <2>5. Standing(k) /\ (Home(s) = "shared" \/ ~At(s, "down")')
    BY <1>0, <1>1, <2>1, <2>2, StandingBefore DEF Standing
  <2>6. row # NoRow /\ row.password = ask[k].password
        /\ reply[k].token.who = Who(e, row)
    BY <1>0, <2>1, <2>2, <2>3, <2>4, <2>5 DEF AccountsAreKept
  <2>7. row \in Row
    BY <1>0, <2>4, <2>6, Basics DEF Rows, TypeInv, TypeOK
  <2>8. Rows(s)'[e] = row
    BY <1>0, <2>4, <2>5, <2>6, RowsStay
  <2> QED BY <2>1, <2>2, <2>3, <2>6, <2>7, <2>8
<1>2. CASE reply[k] = NoReply
  <2>1. PICK s \in Servers, e \in Employees :
          /\ ask'[k] = ask[k] /\ ask[k].employee = e /\ reply'[k].by = s
          /\ \E row \in Row :
                /\ Rows(s)'[e] = row /\ row.password = ask[k].password
                /\ reply'[k].token = NewToken(s, e, row)
    BY <1>0, <1>2, NewReply DEF Welcomed
  <2>2. PICK row \in Row : /\ Rows(s)'[e] = row /\ row.password = ask[k].password
                           /\ reply'[k].token = NewToken(s, e, row)
    BY <2>1
  <2>3. reply'[k].token.who = Who(e, row)
    BY <1>t, <2>2, TokenTypes
  <2> QED BY <2>1, <2>2, <2>3
<1> QED BY <1>1, <1>2

LEMMA OwnerStep == Inv /\ [Next]_vars => OneOwner'
<1> DEFINE Created(k) == reply[k] # NoReply /\ reply[k].result = "created"
<1>s. SUFFICES ASSUME Inv, [Next]_vars, NEW k \in Calls, NEW l \in Calls,
                    Created(k)', Created(l)', ask'[k].employee = ask'[l].employee,
                    OneStore(k, l)', k # l
             PROVE  FALSE
  BY DEF OneOwner
<1>0. TypeInv /\ RepliesOK /\ OneOwner /\ AccountsAreKept
  BY <1>s DEF Inv
\* One of two sign-ups is there when the other is answered: its row stands.
<1>1. ASSUME NEW m \in Calls, NEW n \in Calls, m # n, Created(m)', Created(n)',
             ask'[m].employee = ask'[n].employee, OneStore(m, n)',
             reply[m] # NoReply, reply[n] = NoReply
      PROVE  FALSE
  <2>1. reply'[m] = reply[m] /\ ask'[m] = ask[m]
    BY <1>0, <1>1, <1>s, AnswersStay
  <2>2. PICK s \in Servers, e \in Employees :
          /\ ask'[n] = ask[n] /\ ask[n].employee = e
          /\ reply'[n].by = s /\ reply'[n].start = starts[s]
          /\ ~At(s, "down") /\ Rows(s)[e] = NoRow
    BY <1>0, <1>1, <1>s, NewReply
  <2>3. PICK r \in Servers : r = reply[m].by
    BY <1>0, <1>1 DEF TypeInv, TypeOK
  <2>4. Home(r) = Home(s) /\ (Home(r) = "shared" \/ reply[m].start = starts[s])
    BY <1>1, <2>1, <2>2, <2>3 DEF OneStore
  <2>5. Home(r) = "shared" \/ r = s
    BY <2>4, ConstantsAssumption DEF Home
  <2>6. Standing(m) /\ Welcomed(m)
    BY <1>1, <2>1, <2>2, <2>3, <2>4, <2>5 DEF Standing, Welcomed, Welcome
  <2>7. Rows(r)[ask[m].employee] # NoRow
    BY <1>0, <2>3, <2>6 DEF AccountsAreKept
  <2> QED BY <1>1, <2>1, <2>2, <2>4, <2>7 DEF Rows
<1>2. OneStore(l, k)'
  BY <1>s DEF OneStore
<1>3. CASE reply[k] # NoReply /\ reply[l] # NoReply
  <2>1. reply'[k] = reply[k] /\ ask'[k] = ask[k] /\ reply'[l] = reply[l] /\ ask'[l] = ask[l]
    BY <1>0, <1>3, <1>s, AnswersStay
  <2> QED BY <1>0, <1>3, <1>s, <2>1 DEF OneOwner, OneStore
<1>4. CASE reply[k] = NoReply /\ reply[l] = NoReply
  <2>1. \A m \in Calls : m # k => reply'[m] = reply[m]
    BY <1>0, <1>4, <1>s, NewReply
  <2> QED BY <1>4, <1>s, <2>1
<1> QED BY <1>1, <1>2, <1>3, <1>4, <1>s

LEMMA SessionsStep == Inv /\ [Next]_vars => SessionsOK'
<1> SUFFICES ASSUME Inv, [Next]_vars, NEW t \in Tabs, tab'[t].token # NoToken
             PROVE  /\ tab'[t].shown = tab'[t].token.who
                    /\ \E k \in Calls : Welcomed(k)' /\ reply'[k].token = tab'[t].token
  BY DEF SessionsOK
<1>0. TypeInv /\ RepliesOK /\ SessionsOK
  BY DEF Inv
<1>1. ASSUME NEW k \in Calls, Welcomed(k)
      PROVE  Welcomed(k)' /\ reply'[k].token = reply[k].token
  BY <1>0, <1>1, AnswersStay DEF Welcomed
<1>2. CASE tab'[t].token = tab[t].token /\ tab'[t].shown = tab[t].shown
  BY <1>0, <1>1, <1>2 DEF SessionsOK
<1>3. CASE Heard(t)
  <2> DEFINE k == tab[t].waits
             r == reply[k]
  <2>1. k \in Calls /\ r # NoReply
    BY <1>0, <1>3 DEF Heard, TypeInv, TypeOK
  <2>2. tab'[t] = IF r.result \in Welcome
          THEN [waits |-> "none", token |-> r.token, shown |-> r.workspace] ELSE LoggedOut
    BY <1>0, <1>3 DEF Heard, TypeInv, TypeOK
  <2>3. r.result \in Welcome
    BY <2>2 DEF LoggedOut
  <2>4. Welcomed(k) /\ r.workspace = r.token.who
    BY <1>0, <2>1, <2>3 DEF Welcomed, RepliesOK
  <2> QED BY <1>1, <2>1, <2>2, <2>3, <2>4
<1>4. \/ tab'[t].token = tab[t].token /\ tab'[t].shown = tab[t].shown
      \/ tab'[t] = LoggedOut \/ Heard(t)
  <2>1. tab \in [Tabs -> [waits : Calls \cup {"none"}, token : Token \cup {NoToken},
                          shown : Context \cup {NoContext}]]
    BY <1>0 DEF TypeInv, TypeOK
  <2>2. ASSUME NEW u \in Tabs, (\E k \in Calls : Submit(u, k)) \/ GiveUp(u) \/ Logout(u)
        PROVE  \/ tab'[t].token = tab[t].token /\ tab'[t].shown = tab[t].shown
               \/ tab'[t] = LoggedOut
    BY <2>1, <2>2 DEF Submit, GiveUp, Logout
  <2>3. ASSUME NEW u \in Tabs, Heard(u), u # t PROVE tab'[t] = tab[t]
    BY <2>1, <2>3 DEF Heard
  <2>4. \/ UNCHANGED tab
        \/ \E u \in Tabs : (\E k \in Calls : Submit(u, k)) \/ Heard(u) \/ GiveUp(u) \/ Logout(u)
    BY DEF Next, vars, Tick, Start, Crash, GetUser, CreateUser
  <2> QED BY <2>2, <2>3, <2>4
<1> QED BY <1>2, <1>3, <1>4 DEF LoggedOut

LEMMA InvStep == Inv /\ [Next]_vars => Inv'
<1>1. Inv /\ [Next]_vars => TypeInv'
  BY TypeStep, RequestsStep DEF Inv, TypeInv
<1> QED BY <1>1, RepliesStep, OwnerStep, KeptStep, SessionsStep DEF Inv

LEMMA InvInit == Init => Inv
<1> SUFFICES ASSUME Init PROVE Inv
  OBVIOUS
<1>1. \A k \in Calls : reply[k] = NoReply
  BY DEF Init
<1>2. \A t \in Tabs : tab[t].token = NoToken
  BY DEF Init, LoggedOut
<1> QED BY <1>1, <1>2, TypeInit
        DEF Inv, TypeInv, RepliesOK, OneOwner, AccountsAreKept, SessionsOK, Welcomed

LEMMA InvHolds == Spec => []Inv
BY InvInit, InvStep, PTL DEF Spec

\* No employee id is given away twice, however many processes and requests race.
THEOREM OwnerUnique == Spec => []OneOwner
<1>1. Inv => OneOwner
  BY DEF Inv
<1> QED BY <1>1, InvHolds, PTL

\* No race and no process start takes an account over while its store stands.
THEOREM AccountsKept == Spec => []AccountsAreKept
<1>1. Inv => AccountsAreKept
  BY DEF Inv
<1> QED BY <1>1, InvHolds, PTL

\* Every session comes from a request with the password in its row, and shows
\* what its token says, which is what the store has.
THEOREM SessionsTrue == Spec => []SessionsAreTrue
<1>1. ASSUME Inv PROVE SessionsAreTrue
  <2>1. ASSUME NEW t \in Tabs, tab[t].token # NoToken
        PROVE  /\ tab[t].shown = tab[t].token.who
               /\ \E k \in Calls :
                    /\ Welcomed(k) /\ reply[k].token = tab[t].token
                    /\ Standing(k) =>
                         LET row == Rows(reply[k].by)[ask[k].employee] IN
                           /\ row # NoRow /\ row.password = ask[k].password
                           /\ tab[t].shown = Who(ask[k].employee, row)
    <3>1. PICK k \in Calls : Welcomed(k) /\ reply[k].token = tab[t].token
      BY <1>1, <2>1 DEF Inv, SessionsOK
    <3>2. tab[t].shown = tab[t].token.who
      BY <1>1, <2>1 DEF Inv, SessionsOK
    <3>3. Standing(k) =>
            LET row == Rows(reply[k].by)[ask[k].employee] IN
              /\ row # NoRow /\ row.password = ask[k].password
              /\ reply[k].token.who = Who(ask[k].employee, row)
      BY <1>1, <3>1 DEF Inv, AccountsAreKept
    <3> QED BY <3>1, <3>2, <3>3
  <2> QED BY <2>1 DEF SessionsAreTrue
<1> QED BY <1>1, InvHolds, PTL

\* A token's life in true time, for clocks at most Skew apart.
LEMMA TokenLives ==
  ASSUME Inv, NEW k \in Calls, NEW s \in Servers, Welcomed(k)
  PROVE  LET age == time - reply[k].token.at
             ttl == TTL * PerSecond
         IN /\ age <= ttl - Skew => Accepts(s, reply[k].token)
            /\ Accepts(s, reply[k].token) => age < ttl + PerSecond + Skew
<1>1. PICK r \in Servers : reply[k].by = r
  BY DEF Inv, TypeInv, TypeOK, Welcomed
<1>2. PICK ttl : ttl = TTL * PerSecond
  OBVIOUS
<1>3. PICK at : at = reply[k].token.at
  OBVIOUS
<1>4. /\ at \in Nat /\ at <= time /\ time \in Nat
      /\ reply[k].token.exp = (at + Offset[r] + ttl) \div PerSecond
  BY <1>1, <1>2, <1>3, ConstantsAssumption DEF Inv, RepliesOK, Token, TypeInv, TypeOK, Welcomed
<1>5. /\ Offset[r] \in Nat /\ Offset[s] \in Nat /\ Skew \in Nat
      /\ Offset[r] <= Offset[s] + Skew /\ Offset[s] <= Offset[r] + Skew
      /\ PerSecond \in Nat \ {0} /\ ttl \in Nat
  BY <1>2, ConstantsAssumption
<1> DEFINE issued == at + Offset[r] + ttl
           now    == time + Offset[s]
<1>6. issued \in Nat /\ now \in Nat
  BY <1>4, <1>5
<1>7. Accepts(s, reply[k].token) <=> issued \div PerSecond >= now \div PerSecond
  BY <1>4 DEF Accepts, Seconds, Clock
<1>8. ASSUME time - at <= ttl - Skew PROVE Accepts(s, reply[k].token)
  <2>1. now <= issued
    BY <1>4, <1>5, <1>8
  <2> HIDE DEF now, issued
  <2>2. now \div PerSecond <= issued \div PerSecond
    BY <1>5, <1>6, <2>1, SecondsMonotone
  <2>3. now \div PerSecond \in Nat /\ issued \div PerSecond \in Nat
    BY <1>5, <1>6, WholeSeconds
  <2> QED BY <1>7, <2>2, <2>3
<1>9. ASSUME Accepts(s, reply[k].token) PROVE time - at < ttl + PerSecond + Skew
  <2> HIDE DEF now, issued
  <2>1. now < issued + PerSecond
    BY <1>5, <1>6, <1>7, <1>9, SecondsApart
  <2> USE DEF now, issued
  <2> QED BY <1>4, <1>5, <2>1
<1> QED BY <1>2, <1>3, <1>8, <1>9

\* A token is accepted for its time to live and no more than a second, and what
\* the clocks are apart, longer: for every time to live and every clock.
THEOREM TokensLive == Spec => []LivesItsTime
<1>1. Inv => LivesItsTime
  BY TokenLives DEF LivesItsTime
<1> QED BY <1>1, InvHolds, PTL

-----------------------------------------------------------------------------
(* The implementation of AccountBook. *)

\* The end of a handler is an answer in the book, if the store is the shared one.
LEMMA BookAnswered ==
  ASSUME TypeInv, NEW s \in Servers, NEW k \in Calls, NEW result, NEW token, NEW workspace,
         ask' = ask, Answer(s, k, result, token, workspace), reply[k] = NoReply
  PROVE  /\ BookAnswer[k] = [result |-> "none"]
         /\ Home(s) # "shared" => BookAnswer' = BookAnswer
         /\ Home(s) = "shared" => BookAnswer' =
              [BookAnswer EXCEPT ![k] = [result |-> result, employee |-> ask[k].employee,
                                         password |-> ask[k].password]]
<1>1. reply \in [Calls -> Reply \cup {NoReply}]
  BY DEF TypeInv, TypeOK, Reply
<1>2. /\ \A l \in Calls : l # k => reply'[l] = reply[l]
      /\ reply'[k] = [result |-> result, token |-> token, workspace |-> workspace,
                      by |-> s, start |-> starts[s]]
  BY <1>1 DEF Answer
<1>3. reply'[k] # NoReply /\ reply'[k].by = s /\ reply'[k].result = result
  <2>1. reply'[k].by = s /\ reply'[k].result = result
    BY <1>2
  <2>2. "by" \in DOMAIN reply'[k] /\ "by" \notin DOMAIN NoReply
    BY <1>2 DEF NoReply
  <2> QED BY <2>1, <2>2
<1>4. BookAnswer[k] = [result |-> "none"]
  BY DEF BookAnswer
<1>5. \A l \in Calls : l # k => BookAnswer'[l] = BookAnswer[l]
  BY <1>2 DEF BookAnswer
<1>6. BookAnswer'[k] =
        IF Home(s) = "shared"
          THEN [result |-> result, employee |-> ask[k].employee, password |-> ask[k].password]
          ELSE [result |-> "none"]
  BY <1>3 DEF BookAnswer
<1>7. BookAnswer' = [l \in Calls |-> BookAnswer'[l]] /\ BookAnswer = [l \in Calls |-> BookAnswer[l]]
  BY DEF BookAnswer
<1> QED BY <1>4, <1>5, <1>6, <1>7

\* A step that answers nobody leaves the answers in the book.
LEMMA BookUnanswered ==
  ASSUME TypeInv, [Next]_vars, UNCHANGED reply
  PROVE  UNCHANGED BookAnswer
<1>1. \A k \in Calls : reply[k] # NoReply => ask'[k] = ask[k]
  BY AnswersStay
<1> QED BY <1>1 DEF BookAnswer

LEMMA BookInit == Init => Book!Init
BY DEF Init, Book!Init, Homes, Empty, BookAnswer, Book!NoAnswer

LEMMA BookStep == Inv /\ [Next]_vars => [Book!Next]_<<users["shared"], BookAnswer>>
<1> SUFFICES ASSUME Inv, [Next]_vars
             PROVE  Book!Next \/ UNCHANGED <<users["shared"], BookAnswer>>
  OBVIOUS
<1>0. TypeInv /\ users \in [Homes -> [Employees -> Row \cup {NoRow}]] /\ "shared" \in Homes
  BY DEF Inv, TypeInv, TypeOK, Homes
<1>1. CASE UNCHANGED <<users, reply>>
  BY <1>0, <1>1, BookUnanswered
<1>2. ASSUME NEW s \in Servers, Start(s)
      PROVE  Book!Next \/ UNCHANGED <<users["shared"], BookAnswer>>
  <2>1. PICK seed \in Configs :
          users' = [users EXCEPT ![Home(s)] =
            [e \in Employees |-> IF @[e] # NoRow THEN @[e] ELSE seed[e]]]
    BY <1>2 DEF Start
  <2>2. UNCHANGED BookAnswer
    BY <1>0, <1>2, BookUnanswered DEF Start
  <2>3. CASE Home(s) = "shared"
    <3>1. users'["shared"] = [e \in Employees |->
            IF users["shared"][e] # NoRow THEN users["shared"][e] ELSE seed[e]]
      BY <1>0, <2>1, <2>3
    <3> QED BY <2>2, <3>1 DEF Book!Next, Book!Open
  <2>4. CASE Home(s) # "shared"
    BY <1>0, <2>1, <2>2, <2>4
  <2> QED BY <2>3, <2>4
<1>3. ASSUME NEW s \in Servers, Crash(s)
      PROVE  UNCHANGED <<users["shared"], BookAnswer>>
  BY <1>0, <1>3, BookUnanswered, ConstantsAssumption DEF Crash
<1>4. ASSUME NEW s \in Servers, NEW k \in Calls, ask[k] \in Ask, reply[k] = NoReply, ask' = ask,
             NEW result, Refuse(s, k, result) \/ \E e, row : LetIn(s, k, e, row, result),
             \/ Home(s) # "shared" /\ users'["shared"] = users["shared"]
             \/ Home(s) = "shared" /\ LET e == ask[k].employee
                                         p == ask[k].password
                                         row == users["shared"][e]
                  IN \/ /\ UNCHANGED users
                        /\ \/ row # NoRow /\ result = "duplicate"
                           \/ row # NoRow /\ row.password = p /\ result = "welcome"
                           \/ (row # NoRow => row.password # p) /\ result = "refused"
                           \/ result = "failed"
                     \/ /\ row = NoRow /\ result \in {"created", "failed"}
                        /\ users'["shared"] = [users["shared"] EXCEPT ![e] = MemberRow(p)]
      PROVE  Book!Next \/ UNCHANGED <<users["shared"], BookAnswer>>
  <2>1. \E token, workspace : Answer(s, k, result, token, workspace)
    BY <1>4 DEF Refuse, LetIn
  <2>2. /\ BookAnswer[k] = [result |-> "none"]
        /\ Home(s) # "shared" => BookAnswer' = BookAnswer
        /\ Home(s) = "shared" => BookAnswer' =
             [BookAnswer EXCEPT ![k] = [result |-> result, employee |-> ask[k].employee,
                                        password |-> ask[k].password]]
    BY <1>0, <1>4, <2>1, BookAnswered
  <2>3. CASE Home(s) = "shared"
    <3> DEFINE e == ask[k].employee
               p == ask[k].password
    <3>1. e \in Employees /\ p \in Passwords
      BY <1>4 DEF Ask
    <3>2. k \in DOMAIN BookAnswer
      BY DEF BookAnswer
    <3>3. BookAnswer[k] = Book!NoAnswer /\ BookAnswer'[k] # Book!NoAnswer
          /\ Book!Say(k, result, e, p)
      <4>1. Book!Say(k, result, e, p)
        BY <2>2, <2>3 DEF Book!Say, Book!Answer
      <4>2. BookAnswer'[k] = [result |-> result, employee |-> e, password |-> p]
        BY <2>2, <2>3, <3>2
      <4>3. "employee" \in DOMAIN BookAnswer'[k] /\ "employee" \notin DOMAIN Book!NoAnswer
        BY <4>2 DEF Book!NoAnswer
      <4> QED BY <2>2, <4>1, <4>3 DEF Book!NoAnswer
    <3>4. Book!SignUp(k, e, p) \/ Book!Tell(k, e, p)
      BY <1>4, <2>3, <3>1, <3>3 DEF Book!SignUp, Book!Tell
    <3> QED BY <3>1, <3>3, <3>4 DEF Book!Next, Book!Settle
  <2>4. CASE Home(s) # "shared"
    BY <1>4, <2>2, <2>4
  <2> QED BY <2>3, <2>4
<1>5. ASSUME NEW s \in Servers, NEW k \in Calls, GetUser(s, k), reply' # reply
      PROVE  Book!Next \/ UNCHANGED <<users["shared"], BookAnswer>>
  <2>1. ask[k] \in Ask /\ reply[k] = NoReply /\ ask' = ask /\ UNCHANGED users
    BY <1>0, <1>5 DEF GetUser, TypeInv, TypeOK, RequestsOK
  <2> DEFINE e == ask[k].employee
             row == Rows(s)[e]
  <2>2. \/ row # NoRow /\ Refuse(s, k, "duplicate")
        \/ row # NoRow /\ row.password = ask[k].password /\ LetIn(s, k, e, row, "welcome")
        \/ (row # NoRow => row.password # ask[k].password) /\ Refuse(s, k, "refused")
        \/ Refuse(s, k, "failed")
    BY <1>5 DEF GetUser
  <2>3. Home(s) = "shared" => row = users["shared"][e]
    BY DEF Rows
  <2> HIDE DEF e, row
  <2> QED BY <1>4, <2>1, <2>2, <2>3 DEF e
<1>6. ASSUME NEW s \in Servers, CreateUser(s)
      PROVE  Book!Next \/ UNCHANGED <<users["shared"], BookAnswer>>
  <2> DEFINE k == server[s].call
             e == ask[k].employee
             row == MemberRow(ask[k].password)
  <2>1. At(s, "create_user") /\ ask' = ask
    BY <1>6 DEF CreateUser, requests
  <2>2. k \in Calls
    BY <1>0, <2>1, HandlerTypes DEF TypeInv
  <2>3. ask[k] \in Ask /\ reply[k] = NoReply
    BY <1>0, <2>1, <2>2 DEF TypeInv, TypeOK, RequestsOK
  <2>4. \/ Rows(s)[e] # NoRow /\ Refuse(s, k, "duplicate") /\ UNCHANGED users
        \/ /\ Rows(s)[e] = NoRow /\ Insert(s, e, row)
           /\ LetIn(s, k, e, row, "created") \/ Refuse(s, k, "failed")
        \/ Refuse(s, k, "failed") /\ UNCHANGED users
    BY <1>6 DEF CreateUser
  <2>5. Home(s) = "shared" => Rows(s) = users["shared"]
    BY DEF Rows
  <2> HIDE DEF k
  <2>6. Insert(s, e, row) =>
          IF Home(s) = "shared" THEN users'["shared"] = [users["shared"] EXCEPT ![e] = row]
          ELSE users'["shared"] = users["shared"]
    BY <1>0 DEF Insert
  <2> QED BY <1>4, <2>1, <2>2, <2>3, <2>4, <2>5, <2>6
<1>7. \/ UNCHANGED <<users, reply>>
      \/ \E s \in Servers :
           \/ Start(s) \/ Crash(s) \/ CreateUser(s)
           \/ \E k \in Calls : GetUser(s, k) /\ reply' # reply
  BY DEF Next, vars, Tick, Submit, Heard, GiveUp, Logout, GetUser
<1> QED BY <1>1, <1>2, <1>3, <1>5, <1>6, <1>7

\* Any number of processes with one PostgreSQL store behave as one account book,
\* whose requests take effect at one instant each.
THEOREM BookImplemented == Spec => ImplementsAccountBook
<1>1. Inv /\ [Next]_vars => [Book!Next]_<<users["shared"], BookAnswer>>
  BY BookStep
<1> QED BY <1>1, BookInit, InvHolds, PTL DEF Spec, ImplementsAccountBook, Book!Spec

=============================================================================
