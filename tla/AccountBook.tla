----------------------------- MODULE AccountBook -----------------------------
(***************************************************************************)
(* What sign-up and log-in promise, as if every request took effect at one *)
(* instant: an employee id belongs to whoever signed up with it first, for *)
(* ever; whoever gives the password of the account is let in, and nobody   *)
(* else; only an answer that says nothing ("failed") leaves it open        *)
(* whether a sign-up took effect.                                          *)
(***************************************************************************)
CONSTANTS
  Employees, Passwords,
  Calls,      \* the requests
  NoAccount,
  Member,     \* the account that a sign-up opens, by its password
  Seeds       \* the accounts a process may be configured to open

VARIABLES
  account,    \* the account of each employee id
  answer      \* how each request was answered

Answer(result, e, p) == [result |-> result, employee |-> e, password |-> p]
NoAnswer == [result |-> "none"]

Init ==
  /\ account = [e \in Employees |-> NoAccount]
  /\ answer  = [k \in Calls |-> NoAnswer]

Say(k, result, e, p) == answer' = [answer EXCEPT ![k] = Answer(result, e, p)]

\* An employee id gets its account; the answer says so, or is lost.
SignUp(k, e, p) ==
  /\ account[e] = NoAccount
  /\ account' = [account EXCEPT ![e] = Member[p]]
  /\ Say(k, "created", e, p) \/ Say(k, "failed", e, p)

\* Answers that tell what is in the book, and change nothing.
Tell(k, e, p) ==
  /\ UNCHANGED account
  /\ \/ account[e] # NoAccount /\ Say(k, "duplicate", e, p)
     \/ account[e] # NoAccount /\ account[e].password = p /\ Say(k, "welcome", e, p)
     \/ /\ account[e] # NoAccount => account[e].password # p
        /\ Say(k, "refused", e, p)
     \/ Say(k, "failed", e, p)

\* A request is answered, once.
Settle(k) ==
  /\ answer[k] = NoAnswer /\ answer'[k] # NoAnswer
  /\ \E e \in Employees, p \in Passwords : SignUp(k, e, p) \/ Tell(k, e, p)

\* A process starts: configured accounts are opened unless the id is taken.
Open ==
  /\ UNCHANGED answer
  /\ \E seed \in Seeds :
       account' = [e \in Employees |->
                     IF account[e] # NoAccount THEN account[e] ELSE seed[e]]

Next == Open \/ \E k \in Calls : Settle(k)

Spec == Init /\ [][Next]_<<account, answer>>

=============================================================================
