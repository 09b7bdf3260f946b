----------------------------- MODULE MCAccounts -----------------------------
(* Values of the constants of Accounts for TLC. *)
EXTENDS Accounts, TLC

CONSTANTS e1, p1, p2, w1, w2, s1, s2, s3, k1, k2, t1

OneEmployee   == {e1}
TwoPasswords  == {p1, p2}
TwoWorkspaces == {w1, w2}
ThreeServers  == {s1, s2, s3}
TwoCalls      == {k1, k2}
OneTab        == {t1}

\* Two processes share PostgreSQL, the third keeps its users in memory.
TwoShareOneAlone == s1 :> "postgres" @@ s2 :> "postgres" @@ s3 :> "inmemory"

\* Started without configured users, or with an administrator of that id.
WithOrWithoutAdmin ==
  {[e \in Employees |-> NoRow],
   [e \in Employees |-> [password |-> p1, workspace |-> w2, role |-> "admin"]]}

\* The clock of the second process is ahead.
SecondAhead == [s \in Servers |-> IF s = s2 THEN 1 ELSE 0]

=============================================================================
