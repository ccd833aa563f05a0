----------------------------- MODULE EventFifo -----------------------------
(***************************************************************************)
(* What the event queue promises: events are handed out one at a time, in  *)
(* the order in which they were added, each as often as it was added.      *)
(***************************************************************************)
EXTENDS Sequences

CONSTANTS Event, Nothing

VARIABLES queue, current

Add(e) == queue' = Append(queue, e) /\ UNCHANGED current

Take == queue # <<>> /\ current' = Head(queue) /\ queue' = Tail(queue)

\* Handing out ends only when there is nothing left.
Finish == queue = <<>> /\ current' = Nothing /\ UNCHANGED queue

Init == queue = <<>> /\ current = Nothing

Next == (\E e \in Event : Add(e)) \/ Take \/ Finish

Spec == Init /\ [][Next]_<<queue, current>>
=============================================================================
