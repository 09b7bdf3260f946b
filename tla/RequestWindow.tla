---------------------------- MODULE RequestWindow ----------------------------
(***************************************************************************)
(* What a sliding window promises: at most Limit requests are admitted in  *)
(* any Span of time.  Time is that of an outside observer.                 *)
(***************************************************************************)
EXTENDS Integers, Sequences

CONSTANTS Limit, Span

VARIABLES
  time,      \* now
  admitted   \* when each admitted request was admitted, in order

Init ==
  /\ time = 0
  /\ admitted = <<>>

Pass ==
  /\ time' \in Nat
  /\ time' > time
  /\ UNCHANGED admitted

\* The request that came Limit admissions ago has left the window.
Admit ==
  /\ Len(admitted) >= Limit => admitted[Len(admitted) - Limit + 1] + Span <= time
  /\ admitted' = Append(admitted, time)
  /\ UNCHANGED time

Next == Pass \/ Admit

Spec == Init /\ [][Next]_<<time, admitted>>

=============================================================================
