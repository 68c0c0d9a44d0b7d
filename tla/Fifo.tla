-------------------------------- MODULE Fifo --------------------------------
(***************************************************************************)
(* What every FIFO of the system promises its two users: values come out   *)
(* once each, in the order they went in, and no more than Capacity are     *)
(* inside.  The users are independent; a value put in can be taken out.    *)
(***************************************************************************)
EXTENDS Naturals, Sequences

CONSTANTS
  Value,
  Capacity                  \* a natural number

VARIABLE queue

Init == queue = <<>>

Put ==
  /\ Len(queue) < Capacity
  /\ \E v \in Value : queue' = Append(queue, v)

Get ==
  /\ queue # <<>>
  /\ queue' = Tail(queue)

Next == Put \/ Get

Spec == Init /\ [][Next]_queue

\* A reader that takes what it is offered gets everything: the queue is empty
\* again and again, or values keep coming out.
Drained == []<>(queue = <<>>) \/ []<><<Get>>_queue
=============================================================================
