------------------------------- MODULE Capture -------------------------------
(***************************************************************************)
(* What a quote collector promises about the events it takes from the SDK, *)
(* with no threads, locks or disk in it: events are settled in the order   *)
(* in which they were taken; a settled event is kept, or it is outside the *)
(* scope of the session, or the session knows that one was lost; and the   *)
(* session passes only when nothing was lost and nothing is left to settle.*)
(***************************************************************************)
EXTENDS Sequences

CONSTANTS Events,        \* events the SDK may deliver
          Foreign        \* those that are not data of the session

VARIABLES pending,       \* events taken, in order
          kept,          \* events kept, in order
          lost,          \* the session knows that an event was lost
          passed

vars == << pending, kept, lost, passed >>

Init == pending = << >> /\ kept = << >> /\ lost = FALSE /\ passed = FALSE

Take ==
  /\ \E e \in Events : pending' = Append(pending, e)
  /\ UNCHANGED << kept, lost, passed >>

Settle == pending # << >> /\ pending' = Tail(pending)

Keep ==
  /\ Settle /\ kept' = Append(kept, Head(pending))
  /\ UNCHANGED << lost, passed >>

Ignore ==
  /\ Settle /\ Head(pending) \in Foreign
  /\ UNCHANGED << kept, lost, passed >>

\* While it is settled, or before it was taken.
Lose ==
  /\ Settle \/ UNCHANGED pending
  /\ lost' = TRUE /\ UNCHANGED << kept, passed >>

Pass ==
  /\ ~lost /\ pending = << >> /\ kept # << >>
  /\ passed' = TRUE /\ UNCHANGED << pending, kept, lost >>

Next == Take \/ Keep \/ Ignore \/ Lose \/ Pass

Spec == Init /\ [][Next]_vars
==============================================================================
