----------------------------- MODULE BoundedFifo -----------------------------
(* What a single-producer single-consumer queue promises: a first-in         *)
(* first-out queue of at most Bound values.  `item' is the value the         *)
(* consumer last read at the front of the queue.                             *)
EXTENDS Naturals, Sequences

CONSTANTS Values,   \* the values that can be pushed
          Bound,    \* how many values the queue can hold
          NoValue   \* the consumer has read nothing yet

VARIABLES queue, item
vars == <<queue, item>>

Init == queue = <<>> /\ item = NoValue

\* The producer appends a value, never beyond the bound.
Push(v) == /\ Len(queue) < Bound
           /\ queue' = Append(queue, v)
           /\ UNCHANGED item

\* The consumer reads the oldest value, which stays in the queue.
Read == /\ queue # <<>>
        /\ item' = Head(queue)
        /\ UNCHANGED queue

\* The consumer removes the oldest value, read or not.
Pop == /\ queue # <<>>
       /\ queue' = Tail(queue)
       /\ UNCHANGED item

Next == Read \/ Pop \/ \E v \in Values : Push(v)

Spec == Init /\ [][Next]_vars
==============================================================================
