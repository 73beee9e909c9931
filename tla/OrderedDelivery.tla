-------------------------- MODULE OrderedDelivery --------------------------
(***************************************************************************)
(* What a reliable channel promises: every message the sender accepted is  *)
(* handed over once and in order, and the sender forgets a message only    *)
(* after it was handed over.  The n-th message accepted on a channel is    *)
(* named by the number n.                                                  *)
(***************************************************************************)
EXTENDS Naturals, Sequences

CONSTANTS
  Channel,    \* the reliable channels
  Window      \* most accepted messages that are not yet confirmed

VARIABLES
  accepted,   \* channel -> number of messages the sender accepted
  delivered,  \* channel -> the messages handed over, in order
  confirmed   \* channel -> number of messages the sender knows delivered

vars == <<accepted, delivered, confirmed>>

Init ==
  /\ accepted = [c \in Channel |-> 0]
  /\ delivered = [c \in Channel |-> << >>]
  /\ confirmed = [c \in Channel |-> 0]

Accept(c) ==
  /\ accepted[c] - confirmed[c] < Window
  /\ accepted' = [accepted EXCEPT ![c] = @ + 1]
  /\ UNCHANGED <<delivered, confirmed>>

Deliver(c) ==
  /\ Len(delivered[c]) < accepted[c]
  /\ delivered' = [delivered EXCEPT ![c] = Append(@, Len(@) + 1)]
  /\ UNCHANGED <<accepted, confirmed>>

Confirm(c) ==
  /\ confirmed[c] < Len(delivered[c])
  /\ confirmed' = [confirmed EXCEPT ![c] = @ + 1]
  /\ UNCHANGED <<accepted, delivered>>

Next == \E c \in Channel : Accept(c) \/ Deliver(c) \/ Confirm(c)

Spec == Init /\ [][Next]_vars

=============================================================================
