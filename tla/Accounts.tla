------------------------------ MODULE Accounts ------------------------------
(***************************************************************************)
(* Sign-up, log-in and access tokens: the auth router and AuthService, the *)
(* two user stores, and the login card of the frontend (App.tsx).          *)
(*                                                                         *)
(* API processes with the PostgreSQL store share one table; a process with *)
(* the in-memory store has users of its own, which end with it.  Handlers  *)
(* make one store call per action, so that handlers of other processes,    *)
(* process starts and crashes come between the look-up of a sign-up and    *)
(* its insert.  Every process reads a wall clock of its own.               *)
(*                                                                         *)
(* A password hash is the password it verifies.  A token is its payload:   *)
(* only processes that hold the secret can sign one.  Display names,       *)
(* requests refused before they reach the store (a blank employee id, a    *)
(* short password) and API keys, which are configuration, are left out.    *)
(***************************************************************************)
EXTENDS Integers

CONSTANTS
  Employees, Passwords, Workspaces,
  Servers,          \* API processes; one event loop each: one handler at a time
  Tabs,             \* browser tabs with the frontend
  Calls,            \* sign-up and log-in requests
  Backend,          \* auth_user_backend of each process
  Configs,          \* the auth_users a process may be started with: for each
                    \* employee id a row or NoRow
  SignupWorkspace,  \* signup_default_workspace_id
  TTL,              \* auth_token_ttl_seconds
  PerSecond,        \* ticks of time in a second
  Offset,           \* how many ticks the clock of each process is ahead
  Skew,             \* how far two of these clocks may be apart
  MaxTime,          \* bound: ticks that pass
  MaxCrashes        \* bound: how often processes die

Roles == {"member", "admin"}
Row   == [password : Passwords, workspace : Workspaces, role : Roles]
NoRow == [role |-> "none"]

ASSUME ConstantsAssumption ==
  /\ Backend \in [Servers -> {"inmemory", "postgres"}]
  /\ Configs \subseteq [Employees -> Row \cup {NoRow}]
  /\ SignupWorkspace \in Workspaces
  /\ TTL \in Nat \ {0} /\ PerSecond \in Nat \ {0}
  /\ Skew \in Nat /\ Offset \in [Servers -> Nat]
  /\ \A s, r \in Servers : Offset[s] <= Offset[r] + Skew
  /\ MaxTime \in Nat /\ MaxCrashes \in Nat
  /\ "shared" \notin Servers /\ "none" \notin Calls

\* The table of PostgreSQL, and the dictionary of each process.
Homes   == {"shared"} \cup Servers
Home(s) == IF Backend[s] = "postgres" THEN "shared" ELSE s

Ask     == [kind : {"signup", "login"}, employee : Employees, password : Passwords]
Context == [employee : Employees, workspace : Workspaces, role : Roles]
Token   == [who : Context, exp : Nat, at : Nat]   \* at: history, when it was issued
Welcome  == {"created", "welcome"}
Result  == Welcome \cup {"duplicate", "refused", "failed"}

Unsent    == [kind |-> "none"]
NoContext == [role |-> "none"]
NoToken   == [who |-> NoContext]
NoReply   == [result |-> "none"]

VARIABLES
  time,     \* true time, in ticks
  users,    \* the rows of each store
  server,   \* what each process is doing
  starts,   \* how often each process was started
  crashes,  \* how often processes died
  ask,      \* what each request asks
  inbox,    \* requests that no process has taken up
  reply,    \* how each request was answered, whoever hears it
  tab       \* the session of each browser tab

requests == <<ask, inbox>>
process  == <<server, starts, crashes>>
vars == <<time, users, process, requests, reply, tab>>

LoggedOut == [waits |-> "none", token |-> NoToken, shown |-> NoContext]
Down      == [pc |-> "down"]
Idle      == [pc |-> "idle"]
Empty     == [e \in Employees |-> NoRow]

Init ==
  /\ time   = 0
  /\ users  = [h \in Homes |-> Empty]
  /\ server = [s \in Servers |-> Down]
  /\ starts = [s \in Servers |-> 0]
  /\ crashes = 0
  /\ ask    = [k \in Calls |-> Unsent]
  /\ inbox  = {}
  /\ reply  = [k \in Calls |-> NoReply]
  /\ tab    = [t \in Tabs |-> LoggedOut]

-----------------------------------------------------------------------------
(* Access tokens.                                                          *)

Clock(s)   == time + Offset[s]
Seconds(n) == n \div PerSecond

\* The payload's fields, as create_access_token takes them from the row and
\* validate_access_token gives them back.
Who(e, row) == [employee |-> e, workspace |-> row.workspace, role |-> row.role]

\* Mutant of NewToken: the time to live is taken off.
TokenExpired(s, e, row) ==
  [who |-> Who(e, row), exp |-> Seconds(Clock(s) - TTL * PerSecond), at |-> time]

\* int() cuts the expiry down to a whole second.
NewToken(s, e, row) ==
  [who |-> Who(e, row), exp |-> Seconds(Clock(s) + TTL * PerSecond), at |-> time]

\* Mutant of Accepts: the second of the expiry is too late.
AcceptsBefore(s, token) == token.exp > Seconds(Clock(s))

\* Whether process s takes the token for its page and API requests.
Accepts(s, token) == token.exp >= Seconds(Clock(s))

-----------------------------------------------------------------------------
(* The frontend.                                                           *)

\* submitAuth: the login card is shown only without a session, and is locked
\* while it waits.
Submit(t, k) ==
  /\ tab[t] = LoggedOut
  /\ ask[k] = Unsent
  /\ \E q \in Ask : ask' = [ask EXCEPT ![k] = q]
  /\ inbox' = inbox \cup {k}
  /\ tab' = [tab EXCEPT ![t].waits = k]
  /\ UNCHANGED <<time, users, process, reply>>

\* The answer arrives: token and workspace are kept, or both are cleared.
Heard(t) ==
  /\ tab[t].waits # "none"
  /\ LET r == reply[tab[t].waits] IN
       /\ r # NoReply
       /\ tab' = [tab EXCEPT ![t] =
            IF r.result \in Welcome
              THEN [waits |-> "none", token |-> r.token, shown |-> r.workspace]
              ELSE LoggedOut]
  /\ UNCHANGED <<time, users, process, requests, reply>>

\* No answer: the gateway's timeout, a broken connection, or a page reload.
GiveUp(t) ==
  /\ tab[t].waits # "none"
  /\ tab' = [tab EXCEPT ![t] = LoggedOut]
  /\ UNCHANGED <<time, users, process, requests, reply>>

Logout(t) ==
  /\ tab[t].token # NoToken
  /\ tab' = [tab EXCEPT ![t] = LoggedOut]
  /\ UNCHANGED <<time, users, process, requests, reply>>

-----------------------------------------------------------------------------
(* The API processes.                                                      *)

At(s, step)   == server[s].pc = step
Rows(s)       == users[Home(s)]
MemberRow(p)  == [password |-> p, workspace |-> SignupWorkspace, role |-> "member"]
Insert(s, e, row) == users' = [users EXCEPT ![Home(s)][e] = row]

\* Mutant of Start: the configured users replace the rows of their ids.
StartReplacing(s) ==
  /\ At(s, "down")
  /\ starts' = [starts EXCEPT ![s] = @ + 1]
  /\ server' = [server EXCEPT ![s] = Idle]
  /\ \E seed \in Configs :
       users' = [users EXCEPT ![Home(s)] =
         [e \in Employees |-> IF seed[e] # NoRow THEN seed[e] ELSE @[e]]]
  /\ UNCHANGED <<time, crashes, requests, reply, tab>>

\* create_app: the configured users are inserted unless their id is taken; the
\* dictionary of the in-memory store holds nothing but them.
Start(s) ==
  /\ At(s, "down")
  /\ starts' = [starts EXCEPT ![s] = @ + 1]
  /\ server' = [server EXCEPT ![s] = Idle]
  /\ \E seed \in Configs :
       users' = [users EXCEPT ![Home(s)] =
         [e \in Employees |-> IF @[e] # NoRow THEN @[e] ELSE seed[e]]]
  /\ UNCHANGED <<time, crashes, requests, reply, tab>>

\* The process ends, with the request in its hands and the users it keeps.
Crash(s) ==
  /\ ~At(s, "down")
  /\ crashes < MaxCrashes
  /\ crashes' = crashes + 1
  /\ server' = [server EXCEPT ![s] = Down]
  /\ users' = IF Home(s) = s THEN [users EXCEPT ![s] = Empty] ELSE users
  /\ UNCHANGED <<time, starts, requests, reply, tab>>

\* The handler's end.  With a row, the token and the workspace it shows are
\* made of that row.
Answer(s, k, result, token, workspace) ==
  /\ reply' = [reply EXCEPT ![k] =
       [result |-> result, token |-> token, workspace |-> workspace,
        by |-> s, start |-> starts[s]]]
  /\ server' = [server EXCEPT ![s] = Idle]

LetIn(s, k, e, row, result) == Answer(s, k, result, NewToken(s, e, row), Who(e, row))
Refuse(s, k, result)        == Answer(s, k, result, NoToken, NoContext)

\* Mutant of GetUser: the password is not verified.
GetUserUnverified(s, k) ==
  /\ At(s, "idle")
  /\ k \in inbox
  /\ inbox' = inbox \ {k}
  /\ LET q   == ask[k]
         row == Rows(s)[q.employee]
     IN \/ /\ q.kind = "signup" /\ row # NoRow
           /\ Refuse(s, k, "duplicate")
        \/ /\ q.kind = "signup" /\ row = NoRow
           /\ server' = [server EXCEPT ![s] = [pc |-> "create_user", call |-> k]]
           /\ UNCHANGED reply
        \/ /\ q.kind = "login" /\ row # NoRow
           /\ LetIn(s, k, q.employee, row, "welcome")
        \/ /\ q.kind = "login" /\ row = NoRow
           /\ Refuse(s, k, "refused")
        \/ /\ Home(s) = "shared"
           /\ Refuse(s, k, "failed")
  /\ UNCHANGED <<time, users, starts, crashes, ask, tab>>

\* An idle process takes up a request: register_user and authenticate_user
\* first look the employee id up.
GetUser(s, k) ==
  /\ At(s, "idle")
  /\ k \in inbox
  /\ inbox' = inbox \ {k}
  /\ LET q   == ask[k]
         row == Rows(s)[q.employee]
     IN \/ /\ q.kind = "signup" /\ row # NoRow
           /\ Refuse(s, k, "duplicate")
        \/ /\ q.kind = "signup" /\ row = NoRow
           /\ server' = [server EXCEPT ![s] = [pc |-> "create_user", call |-> k]]
           /\ UNCHANGED reply
        \/ /\ q.kind = "login" /\ row # NoRow /\ row.password = q.password
           /\ LetIn(s, k, q.employee, row, "welcome")
        \/ /\ q.kind = "login" /\ (row # NoRow => row.password # q.password)
           /\ Refuse(s, k, "refused")
        \/ /\ Home(s) = "shared"   \* PostgreSQL raises: 500
           /\ Refuse(s, k, "failed")
  /\ UNCHANGED <<time, users, starts, crashes, ask, tab>>

\* Mutants of CreateUser: the insert replaces a row; its answer is not looked at.
CreateReplacing(s) ==
  /\ At(s, "create_user")
  /\ LET k == server[s].call
         row == MemberRow(ask[k].password)
     IN /\ Insert(s, ask[k].employee, row)
        /\ LetIn(s, k, ask[k].employee, row, "created")
  /\ UNCHANGED <<time, starts, crashes, requests, tab>>

CreateUnchecked(s) ==
  /\ At(s, "create_user")
  /\ LET k == server[s].call
         row == MemberRow(ask[k].password)
     IN /\ IF Rows(s)[ask[k].employee] = NoRow
             THEN Insert(s, ask[k].employee, row) ELSE UNCHANGED users
        /\ LetIn(s, k, ask[k].employee, row, "created")
  /\ UNCHANGED <<time, starts, crashes, requests, tab>>

\* create_user inserts unless the id is taken.  PostgreSQL may raise instead, or
\* commit the row and lose the reply: 500 either way (a process that dies after
\* the commit has answered nobody, as after a 500 that nobody hears).
CreateUser(s) ==
  /\ At(s, "create_user")
  /\ LET k == server[s].call
         e == ask[k].employee
         row == MemberRow(ask[k].password)
     IN \/ /\ Rows(s)[e] # NoRow
           /\ Refuse(s, k, "duplicate")
           /\ UNCHANGED users
        \/ /\ Rows(s)[e] = NoRow
           /\ Insert(s, e, row)
           /\ \/ LetIn(s, k, e, row, "created")
              \/ Home(s) = "shared" /\ Refuse(s, k, "failed")
        \/ /\ Home(s) = "shared"
           /\ Refuse(s, k, "failed")
           /\ UNCHANGED users
  /\ UNCHANGED <<time, starts, crashes, requests, tab>>

Tick ==
  /\ time < MaxTime
  /\ time' = time + 1
  /\ UNCHANGED <<users, process, requests, reply, tab>>

Next ==
  \/ Tick
  \/ \E t \in Tabs :
       (\E k \in Calls : Submit(t, k)) \/ Heard(t) \/ GiveUp(t) \/ Logout(t)
  \/ \E s \in Servers :
       \/ Start(s) \/ Crash(s)
       \/ \E k \in Calls : GetUser(s, k)
       \/ CreateUser(s)

Spec == Init /\ [][Next]_vars

-----------------------------------------------------------------------------
(* Properties.                                                             *)

TypeOK ==
  /\ time \in 0..MaxTime
  /\ users \in [Homes -> [Employees -> Row \cup {NoRow}]]
  /\ server \in [Servers -> {Down, Idle} \cup [pc : {"create_user"}, call : Calls]]
  /\ starts \in [Servers -> Nat] /\ crashes \in 0..MaxCrashes
  /\ ask \in [Calls -> Ask \cup {Unsent}]
  /\ inbox \subseteq Calls
  /\ reply \in [Calls -> [result : Result, token : Token \cup {NoToken},
                          workspace : Context \cup {NoContext},
                          by : Servers, start : Nat] \cup {NoReply}]
  /\ tab \in [Tabs -> [waits : Calls \cup {"none"}, token : Token \cup {NoToken},
                       shown : Context \cup {NoContext}]]

Welcomed(k) == reply[k] # NoReply /\ reply[k].result \in Welcome

\* The store that answered request k still has the rows it had then: only the
\* in-memory store loses them, with its process.
Standing(k) ==
  LET s == reply[k].by IN
    Home(s) = "shared" \/ (starts[s] = reply[k].start /\ ~At(s, "down"))

\* Both requests were answered from one store, in one life of it.
OneStore(k, l) ==
  /\ Home(reply[k].by) = Home(reply[l].by)
  /\ Home(reply[k].by) = "shared" \/ reply[k].start = reply[l].start

\* No employee id is given away twice: however two sign-ups race through look-up
\* and insert, in one process or several, at most one is answered 201.
OneOwner ==
  \A k, l \in Calls :
    /\ reply[k] # NoReply /\ reply[k].result = "created"
    /\ reply[l] # NoReply /\ reply[l].result = "created"
    /\ ask[k].employee = ask[l].employee
    /\ OneStore(k, l)
    => k = l

\* Whoever was let in once can log in with the same password as long as the
\* store stands, and the token's workspace and role are still the row's: no race
\* of sign-ups, and no process that starts with the id among its configured
\* users, takes an account over.
AccountsAreKept ==
  \A k \in Calls : Welcomed(k) /\ Standing(k) =>
    LET row == Rows(reply[k].by)[ask[k].employee] IN
      /\ row # NoRow /\ row.password = ask[k].password
      /\ reply[k].token.who = Who(ask[k].employee, row)

\* A session is the answer to a request that came with the password in the row
\* of its employee id, and its header shows what the API will take the token for,
\* which nobody reads from the store again: the workspace and the role in the row.
SessionsAreTrue ==
  \A t \in Tabs : tab[t].token # NoToken =>
    /\ tab[t].shown = tab[t].token.who
    /\ \E k \in Calls :
         /\ Welcomed(k) /\ reply[k].token = tab[t].token
         /\ Standing(k) =>
              LET row == Rows(reply[k].by)[ask[k].employee] IN
                /\ row # NoRow /\ row.password = ask[k].password
                /\ tab[t].shown = Who(ask[k].employee, row)

\* A token is accepted for its time to live, on any process and in spite of the
\* seconds cut off and the clocks apart, and no longer than a second more.
LivesItsTime ==
  \A k \in Calls, s \in Servers : Welcomed(k) =>
    LET age == time - reply[k].token.at
        ttl == TTL * PerSecond
    IN /\ age <= ttl - Skew => Accepts(s, reply[k].token)
       /\ Accepts(s, reply[k].token) => age < ttl + PerSecond + Skew

\* What a request has been answered, if a process with PostgreSQL answered it.
BookAnswer == [k \in Calls |->
  IF reply[k] # NoReply /\ Home(reply[k].by) = "shared"
    THEN [result |-> reply[k].result, employee |-> ask[k].employee, password |-> ask[k].password]
    ELSE [result |-> "none"]]

\* The processes that share the PostgreSQL store implement AccountBook: between
\* look-up, insert, lost answers and crashes every request takes effect at once
\* or not at all, and no answer but a 500 leaves anything open.
Book == INSTANCE AccountBook WITH
  NoAccount <- NoRow, Member <- [p \in Passwords |-> MemberRow(p)],
  Seeds   <- Configs,
  account <- users["shared"],
  answer  <- BookAnswer

ImplementsAccountBook == Book!Spec

=============================================================================
