------------------------------ MODULE Delivery ------------------------------
(***************************************************************************)
(* What Relax promises the consumer of RELAX_EVENTS_QUEUE, however many    *)
(* brokers run side by side: every mutex field is claimed once, nothing is *)
(* queued under a field that was not claimed, all copies queued under one  *)
(* field are the same event, and there are at most MaxCopies of them.      *)
(* A claim may stay without a copy: delivery is at most "MaxCopies times", *)
(* never "at least once".                                                  *)
(***************************************************************************)
EXTENDS Events, Sequences, FiniteSets

CONSTANT MaxCopies   \* how often one event may be found in the queue

VARIABLES
  claimed,   \* the claimed mutex fields
  queue      \* everything ever pushed on RELAX_EVENTS_QUEUE, oldest first

vars == <<claimed, queue>>

\* The positions of the queue that hold an event of field k.
Positions(q, k) == {i \in 1..Len(q) : KeyOf(q[i]) = k}
Copies(q, k) == Cardinality(Positions(q, k))

Init == claimed = {} /\ queue = <<>>

Claim(k) ==
  /\ k \in Key \ claimed
  /\ claimed' = claimed \cup {k}
  /\ UNCHANGED queue

Enqueue(e) ==
  /\ e \in Event
  /\ KeyOf(e) \in claimed
  /\ \A i \in Positions(queue, KeyOf(e)) : queue[i] = e
  /\ Copies(queue, KeyOf(e)) < MaxCopies
  /\ queue' = Append(queue, e)
  /\ UNCHANGED claimed

\* The bounds name what the step adds; Key and Event are infinite.
Next ==
  \/ \E k \in claimed' : Claim(k)
  \/ \E i \in DOMAIN queue' : Enqueue(queue'[i])

Spec == Init /\ [][Next]_vars
=============================================================================
