------------------------------- MODULE Queue -------------------------------
(***************************************************************************)
(* The ring buffer of queue.c.  Every packet queue (s_queue and r_queue of *)
(* a channel) and the event queue of a context is one.  The pool is what   *)
(* malloc returned: its first contents are arbitrary.                      *)
(***************************************************************************)
EXTENDS Naturals, Sequences

CONSTANTS
  Elem,       \* the values a queue element can have
  ZeroElem,   \* an element with every byte zero
  NoElem,     \* "no element was returned"
  Capacity    \* number of slots of the pool

ASSUME CapacityAssumption == Capacity \in Nat \ {0}
ASSUME ElemAssumption == ZeroElem \in Elem /\ NoElem \notin Elem

VARIABLES
  pool,       \* slot -> element
  head,       \* slot of the oldest element
  length,     \* number of queued elements
  last        \* the outcome of the last call

vars == <<pool, head, length, last>>

Slot == 0 .. Capacity - 1

Outcome(code, out) == [code |-> code, out |-> out]
Outcomes == [code : {"SUCCESS", "QUEUE_FULL", "QUEUE_EMPTY"},
             out  : Elem \cup {NoElem}]

(***************************************************************************)
(* Mutations of the helpers below, used to show what the checks can see.   *)
(***************************************************************************)
BugWraparound(k) == k
BugTailSlot == (head + length + 1) % Capacity
BugFull == length > Capacity

\* Position k counted around the ring.
Wrap(k) == k % Capacity

\* The slot the next element is pushed to.
TailSlot == Wrap(head + length)

Full == length >= Capacity
Empty == length = 0

-----------------------------------------------------------------------------
Init ==
  /\ pool \in [Slot -> Elem]
  /\ head = 0
  /\ length = 0
  /\ last = Outcome("SUCCESS", NoElem)

Push(e) ==
  /\ ~Full
  /\ pool' = [pool EXCEPT ![TailSlot] = e]
  /\ length' = length + 1
  /\ last' = Outcome("SUCCESS", NoElem)
  /\ UNCHANGED head

\* glbqueue_push(queue, NULL) stores a zeroed element.
PushNull == Push(ZeroElem)

RefusePush ==
  /\ Full
  /\ last' = Outcome("QUEUE_FULL", NoElem)
  /\ UNCHANGED <<pool, head, length>>

\* copy: the caller passed a buffer for the element.
Pop(copy) ==
  /\ ~Empty
  /\ head' = Wrap(head + 1)
  /\ length' = length - 1
  /\ last' = Outcome("SUCCESS", IF copy THEN pool[head] ELSE NoElem)
  /\ UNCHANGED pool

Peek ==
  /\ ~Empty
  /\ last' = Outcome("SUCCESS", pool[head])
  /\ UNCHANGED <<pool, head, length>>

\* glb_tick peeks the head of s_queue and stamps the packet in place.
Update(e) ==
  /\ ~Empty
  /\ pool' = [pool EXCEPT ![head] = e]
  /\ last' = Outcome("SUCCESS", e)
  /\ UNCHANGED <<head, length>>

RefuseRead ==
  /\ Empty
  /\ last' = Outcome("QUEUE_EMPTY", NoElem)
  /\ UNCHANGED <<pool, head, length>>

Next ==
  \/ \E e \in Elem : Push(e) \/ Update(e)
  \/ PushNull
  \/ \E copy \in BOOLEAN : Pop(copy)
  \/ Peek
  \/ RefusePush
  \/ RefuseRead

Spec == Init /\ [][Next]_vars

-----------------------------------------------------------------------------
(***************************************************************************)
(* The head stays inside the pool and the length within the capacity:      *)
(* glbqueue_push and glbqueue_pop compute their memory addresses from      *)
(* them without another check.                                             *)
(***************************************************************************)
TypeOK ==
  /\ pool \in [Slot -> Elem]
  /\ head \in Slot
  /\ length \in 0 .. Capacity
  /\ last \in Outcomes

\* The elements a reader would pop, oldest first.
Contents == [i \in 1 .. length |-> pool[Wrap(head + i - 1)]]

Fifo == INSTANCE BoundedFifo WITH fifo <- Contents

(***************************************************************************)
(* The ring buffer is a bounded FIFO: across any number of wrap-arounds it *)
(* returns the elements in the order of their pushes, overwrites none that *)
(* is still queued, and refuses exactly when it is full or empty.          *)
(***************************************************************************)
ImplementsFifo == Fifo!Spec

=============================================================================
