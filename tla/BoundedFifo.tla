---------------------------- MODULE BoundedFifo ----------------------------
(***************************************************************************)
(* What a queue of libgilberta promises its users: a first-in first-out    *)
(* sequence of at most Capacity elements, whose operations report what     *)
(* they did.  Queue.tla is shown to implement it.                          *)
(***************************************************************************)
EXTENDS Naturals, Sequences

CONSTANTS
  Elem,       \* the values a queue element can have
  ZeroElem,   \* what an element-less push stores
  NoElem,     \* "no element was returned"
  Capacity    \* most elements the queue holds

VARIABLES
  fifo,       \* the queued elements, oldest first
  last        \* the outcome of the last call

vars == <<fifo, last>>

Outcome(code, out) == [code |-> code, out |-> out]

Init ==
  /\ fifo = << >>
  /\ last = Outcome("SUCCESS", NoElem)

Push(e) ==
  /\ Len(fifo) < Capacity
  /\ fifo' = Append(fifo, e)
  /\ last' = Outcome("SUCCESS", NoElem)

RefusePush ==
  /\ Len(fifo) = Capacity
  /\ last' = Outcome("QUEUE_FULL", NoElem)
  /\ UNCHANGED fifo

\* The caller may take the head without looking at it (copy = FALSE).
Pop(copy) ==
  /\ fifo # << >>
  /\ fifo' = Tail(fifo)
  /\ last' = Outcome("SUCCESS", IF copy THEN Head(fifo) ELSE NoElem)

Peek ==
  /\ fifo # << >>
  /\ last' = Outcome("SUCCESS", Head(fifo))
  /\ UNCHANGED fifo

\* The caller rewrites the head in place through the pointer it peeked.
Update(e) ==
  /\ fifo # << >>
  /\ fifo' = [fifo EXCEPT ![1] = e]
  /\ last' = Outcome("SUCCESS", e)

RefuseRead ==
  /\ fifo = << >>
  /\ last' = Outcome("QUEUE_EMPTY", NoElem)
  /\ UNCHANGED fifo

Next ==
  \/ \E e \in Elem : Push(e) \/ Update(e)
  \/ Push(ZeroElem)
  \/ \E copy \in BOOLEAN : Pop(copy)
  \/ Peek
  \/ RefusePush
  \/ RefuseRead

Spec == Init /\ [][Next]_vars

=============================================================================
