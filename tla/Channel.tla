------------------------------ MODULE Channel ------------------------------
(***************************************************************************)
(* The data path of an established connection, in one direction: glb_send, *)
(* the transmission part of glb_tick and its DATA-ACK handler at the       *)
(* sender; its DATA handler, glb_pollevent and glb_popdata at the          *)
(* receiver; between them a UDP path that loses, duplicates and reorders   *)
(* packets, and a NAT that may move the sender to a new address.           *)
(*                                                                         *)
(* The n-th message accepted on a channel is named by the number n.  A     *)
(* packet that will not arrive, because sendto failed, the path lost it or *)
(* its checksum will not match, is lost when it is sent.  A timer may be   *)
(* expired at every tick.                                                  *)
(***************************************************************************)
EXTENDS Integers, Sequences, FiniteSets

CONSTANTS
  Channels,   \* channel ids of the context
  Reliable,   \* those configured with GLB_CHANNEL_FLAG_RELIABLE
  SeqMod,     \* number of sequence numbers (2^32 in the code)
  Isn,        \* con->seq at the handshake: first number of every channel
  QueueCap,   \* slots of s_queue and of r_queue (32 in the code)
  EventCap,   \* slots of the event queue (eventqueue_length)
  RecvLimit,  \* packets processed per tick (16 in the code)
  MaxRetry,   \* transmissions before a STALLED event (5 in the code)
  Drains,     \* the application empties its event queue after every tick
  MaxSend,    \* bound: messages accepted on a reliable channel
  MaxLoose,   \* bound: the same on an unreliable one
  MaxRebind   \* bound: address changes of the sender

ASSUME ChannelAssumption ==
  /\ Reliable \subseteq Channels
  /\ SeqMod \in Nat \ {0}
  /\ Isn \in 0 .. SeqMod - 1
  /\ {QueueCap, EventCap, RecvLimit} \subseteq Nat \ {0}
  /\ {MaxRetry, MaxSend, MaxRebind} \subseteq Nat
  /\ MaxLoose \in 0 .. MaxSend
  /\ Drains \in BOOLEAN

VARIABLES
  \* the sender
  seq,        \* channel -> number of the next packet
  sq,         \* channel -> s_queue: packets waiting for their DATA-ACK
  txEvents,   \* its event queue: the seq of each STALLED event
  saddr,      \* its current public address, counted from 0
  \* the receiver
  ack,        \* channel -> number of the next packet expected
  rq,         \* channel -> r_queue: messages waiting for glb_popdata
  rxEvents,   \* its event queue
  peer,       \* con->peer_addr: where it believes the sender is
  budget,     \* packets it may still read in this tick; 0 between ticks
  \* the network: what may still arrive
  datas,      \* DATA packets
  acks,       \* DATA-ACK packets
  \* history
  accepted,   \* channel -> number of messages glb_send accepted
  got         \* reliable channel -> messages glb_popdata returned

sender   == <<seq, sq, txEvents, accepted>>
receiver == <<ack, rq, rxEvents, peer, budget, got>>
network  == <<datas, acks>>
vars     == <<sender, saddr, receiver, network>>

SeqNo == 0 .. SeqMod - 1
Addr  == 0 .. MaxRebind

Queued  == [seq : SeqNo, data : 1 .. MaxSend, rtx : 0 .. MaxRetry]
DataPkt == [ch : Channels, seq : SeqNo, data : 1 .. MaxSend, from : Addr]
AckPkt  == [ch : Channels, ack : SeqNo, to : Addr]

Received(ch) == [type |-> "RECEIVE", ch |-> ch]
Migrated     == [type |-> "MIGRATION"]
RxEvent      == {Received(ch) : ch \in Channels} \cup {Migrated}

-----------------------------------------------------------------------------
(***************************************************************************)
(* Mutations of the helpers below, used to show what the checks can see.   *)
(***************************************************************************)
BugHasRoom(q, cap) == Len(q) <= cap
BugTrusted(m) == TRUE
BugOld(m) == FALSE
BugReAck(m, lost) == acks
BugAnnounced(m) == rxEvents
BugAcknowledges(m) == TRUE
BugReady(ch) == \A c \in Reliable \cup {ch} : sq[c] # << >> <=> c = ch

(***************************************************************************)
(* Sequence numbers are uint32_t: they wrap, and are compared as integers. *)
(***************************************************************************)
NextSeq(s) == (s + 1) % SeqMod

\* glbqueue_push.  Where its result is ignored, a full queue drops the element.
HasRoom(q, cap) == Len(q) < cap
PushOrDrop(q, e, cap) == IF HasRoom(q, cap) THEN Append(q, e) ELSE q

(***************************************************************************)
(* The checks of the DATA handler on a packet m, in the order of the code: *)
(* does it come from the known address, or is it the very packet a         *)
(* reliable channel waits for; is it a repetition; is it ahead of a        *)
(* missing one.                                                            *)
(***************************************************************************)
Trusted(m) == \/ m.from = peer
              \/ m.ch \in Reliable /\ m.seq = ack[m.ch]
Old(m)     == m.ch \in Reliable /\ m.seq < ack[m.ch]
Future(m)  == m.ch \in Reliable /\ m.seq > ack[m.ch]

\* The network after a packet was sent.
Sent(net, pkt, lost) == IF lost THEN net ELSE net \cup {pkt}

\* The DATA-ACKs on the network after m was answered, to address a.
Answered(m, a, lost) == Sent(acks, [ch |-> m.ch, ack |-> m.seq, to |-> a], lost)
ReAck(m, lost) == Answered(m, peer, lost)

\* The event queue after m arrived: a move of the peer, then the message.
Announced(m) ==
  LET moved == IF m.from = peer THEN rxEvents
               ELSE PushOrDrop(rxEvents, Migrated, EventCap)
  IN  PushOrDrop(moved, Received(m.ch), EventCap)

\* Does DATA-ACK m name the head of the send queue?
Acknowledges(m) == m.ack = Head(sq[m.ch]).seq

\* The head of s_queue after one more transmission, and whether that was
\* one too many.
GivenUp(pkt) == pkt.rtx + 1 > MaxRetry
Retried(pkt) == [pkt EXCEPT !.rtx = IF GivenUp(pkt) THEN 0 ELSE @ + 1]

-----------------------------------------------------------------------------
Init ==
  /\ seq = [ch \in Channels |-> Isn]
  /\ ack = [ch \in Channels |-> Isn]
  /\ sq = [ch \in Channels |-> << >>]
  /\ rq = [ch \in Channels |-> << >>]
  /\ got = [ch \in Reliable |-> << >>]
  /\ accepted = [ch \in Channels |-> 0]
  /\ txEvents = << >> /\ rxEvents = << >>
  /\ datas = {} /\ acks = {}
  /\ saddr = 0 /\ peer = 0
  /\ budget = 0

-----------------------------------------------------------------------------
(***************************************************************************)
(* The sender.                                                             *)
(***************************************************************************)

MaxAccept(ch) == IF ch \in Reliable THEN MaxSend ELSE MaxLoose

\* glb_send; on a full s_queue it returns an error and changes nothing.
Send(ch) ==
  /\ accepted[ch] < MaxAccept(ch)
  /\ HasRoom(sq[ch], QueueCap)
  /\ sq' = [sq EXCEPT ![ch] = Append(@, [seq |-> seq[ch],
                                        data |-> accepted[ch] + 1,
                                        rtx |-> 0])]
  /\ seq' = [seq EXCEPT ![ch] = NextSeq(@)]
  /\ accepted' = [accepted EXCEPT ![ch] = @ + 1]
  /\ UNCHANGED <<txEvents, saddr, receiver, network>>

\* A channel has something to send, whatever the others wait for.
Ready(ch) == sq[ch] # << >>

\* glb_tick sends the head of s_queue when its timer has expired: the only
\* transmission of an unreliable packet, one of many of a reliable one.
Transmit(ch, lost) ==
  /\ Ready(ch)
  /\ LET pkt == Head(sq[ch])
     IN  /\ datas' = Sent(datas, [ch |-> ch, seq |-> pkt.seq,
                                 data |-> pkt.data, from |-> saddr], lost)
         /\ \/ /\ ch \notin Reliable
               /\ sq' = [sq EXCEPT ![ch] = Tail(@)]
               /\ UNCHANGED txEvents
            \/ /\ ch \in Reliable
               /\ sq' = [sq EXCEPT ![ch][1] = Retried(pkt)]
               /\ txEvents' = IF GivenUp(pkt)
                              THEN PushOrDrop(txEvents, pkt.seq, EventCap)
                              ELSE txEvents
  /\ UNCHANGED <<seq, accepted, saddr, receiver, acks>>

\* keep: the path delivers the packet again later.
Consume(net, m, keep) == IF keep THEN net ELSE net \ {m}

\* The DATA-ACK handler.  A packet to an address the NAT has given up does
\* not arrive.
ReceiveAck(m, keep) ==
  /\ m \in acks
  /\ m.to = saddr
  /\ acks' = Consume(acks, m, keep)
  /\ sq' = IF sq[m.ch] # << >> /\ Acknowledges(m)
           THEN [sq EXCEPT ![m.ch] = Tail(@)]
           ELSE sq
  /\ UNCHANGED <<seq, txEvents, accepted, saddr, receiver, datas>>

\* The sender's application polls a STALLED event.
SenderPoll ==
  /\ txEvents # << >>
  /\ txEvents' = Tail(txEvents)
  /\ UNCHANGED <<seq, sq, accepted, saddr, receiver, network>>

-----------------------------------------------------------------------------
(***************************************************************************)
(* The receiver.                                                           *)
(***************************************************************************)

\* glb_tick starts its receive loop.
StartTick ==
  /\ budget = 0
  /\ Drains => rxEvents = << >>
  /\ budget' = RecvLimit
  /\ UNCHANGED <<sender, saddr, ack, rq, rxEvents, peer, got, network>>

\* The socket has no more packets.
EndReceive ==
  /\ budget > 0
  /\ budget' = 0
  /\ UNCHANGED <<sender, saddr, ack, rq, rxEvents, peer, got, network>>

\* The DATA handler.
Drop(m) ==
  /\ ~Trusted(m) \/ Future(m)
  /\ UNCHANGED <<ack, rq, rxEvents, peer, acks>>

Repeat(m, lost) ==
  /\ Trusted(m) /\ Old(m)
  /\ acks' = ReAck(m, lost)
  /\ UNCHANGED <<ack, rq, rxEvents, peer>>

Arrive(m, lost) ==
  /\ Trusted(m) /\ ~Old(m) /\ ~Future(m)
  /\ peer' = m.from
  /\ rq' = [rq EXCEPT ![m.ch] = PushOrDrop(@, m.data, QueueCap)]
  /\ ack' = [ack EXCEPT ![m.ch] = NextSeq(@)]
  /\ acks' = IF m.ch \in Reliable THEN Answered(m, m.from, lost) ELSE acks
  /\ rxEvents' = Announced(m)

\* lost: what becomes of the DATA-ACK, if the handler sends one.
ReceiveData(m, keep, lost) ==
  /\ budget > 0
  /\ budget' = budget - 1
  /\ m \in datas
  /\ datas' = Consume(datas, m, keep)
  /\ Drop(m) \/ Repeat(m, lost) \/ Arrive(m, lost)
  /\ UNCHANGED <<sender, saddr, got>>

\* The application polls an event; told of a message it calls glb_popdata,
\* which finds nothing when the queue is empty.
Poll ==
  /\ budget = 0
  /\ rxEvents # << >>
  /\ rxEvents' = Tail(rxEvents)
  /\ \/ \E ch \in Channels :
          /\ Head(rxEvents) = Received(ch) /\ rq[ch] # << >>
          /\ got' = IF ch \in Reliable
                    THEN [got EXCEPT ![ch] = Append(@, Head(rq[ch]))] ELSE got
          /\ rq' = [rq EXCEPT ![ch] = Tail(@)]
     \/ /\ \A ch \in Channels : Head(rxEvents) = Received(ch) => rq[ch] = << >>
        /\ UNCHANGED <<got, rq>>
  /\ UNCHANGED <<sender, saddr, ack, peer, budget, network>>

-----------------------------------------------------------------------------
\* The NAT moves the sender to a fresh address.
Rebind ==
  /\ saddr < MaxRebind
  /\ saddr' = saddr + 1
  /\ UNCHANGED <<sender, receiver, network>>

Next ==
  \/ \E ch \in Channels : Send(ch)
  \/ \E ch \in Channels, lost \in BOOLEAN : Transmit(ch, lost)
  \/ \E m \in datas, keep, lost \in BOOLEAN : ReceiveData(m, keep, lost)
  \/ \E m \in acks, keep \in BOOLEAN : ReceiveAck(m, keep)
  \/ SenderPoll \/ StartTick \/ EndReceive \/ Poll
  \/ Rebind

Spec == Init /\ [][Next]_vars

\* Both sides call glb_tick regularly and the receiver's application polls.
\* The path is fair to reliable channels: of the transmissions of a packet,
\* and of the answers to it, not all are lost, and one that is not lost
\* arrives.
Fairness ==
  /\ \A ch \in Channels : WF_vars(Transmit(ch, FALSE))
  /\ \A ch \in Reliable, n \in 1 .. MaxSend :
       /\ SF_vars(\E m \in datas, keep \in BOOLEAN :
                   /\ m.ch = ch /\ m.data = n /\ m.from = saddr
                   /\ ReceiveData(m, keep, FALSE))
       /\ SF_vars(\E m \in acks, keep \in BOOLEAN :
                   /\ m.ch = ch /\ m.ack = (Isn + n - 1) % SeqMod
                   /\ ReceiveAck(m, keep))
  /\ WF_vars(StartTick) /\ WF_vars(EndReceive) /\ WF_vars(Poll)

FairSpec == Spec /\ Fairness

-----------------------------------------------------------------------------
TypeOK ==
  /\ seq \in [Channels -> SeqNo] /\ ack \in [Channels -> SeqNo]
  /\ sq \in [Channels -> Seq(Queued)]
  /\ rq \in [Channels -> Seq(1 .. MaxSend)]
  /\ got \in [Reliable -> Seq(1 .. MaxSend)]
  /\ accepted \in [Channels -> 0 .. MaxSend]
  /\ \A ch \in Channels : Len(sq[ch]) <= QueueCap /\ Len(rq[ch]) <= QueueCap
  /\ txEvents \in Seq(SeqNo) /\ Len(txEvents) <= EventCap
  /\ rxEvents \in Seq(RxEvent) /\ Len(rxEvents) <= EventCap
  /\ saddr \in Addr /\ peer \in Addr
  /\ budget \in 0 .. RecvLimit
  /\ datas \subseteq DataPkt /\ acks \subseteq AckPkt

\* The messages handed to the receiving side of a reliable channel, in order.
Delivered(ch) == got[ch] \o rq[ch]

\* The messages of a channel that left the sender's queue.
Confirmed(ch) == accepted[ch] - Len(sq[ch])

Abstract == INSTANCE OrderedDelivery WITH
  Channel   <- Reliable,
  Window    <- QueueCap,
  accepted  <- [ch \in Reliable |-> accepted[ch]],
  delivered <- [ch \in Reliable |-> Delivered(ch)],
  confirmed <- [ch \in Reliable |-> Confirmed(ch)]

(***************************************************************************)
(* Reliable channels deliver every message once and in order, and a        *)
(* message leaves s_queue only after the receiver has queued it: what      *)
(* glb_send, the retransmissions, the seq/ack comparisons of the DATA      *)
(* handler and the DATA-ACK handler achieve together.                      *)
(***************************************************************************)
ImplementsDelivery == Abstract!Spec

(***************************************************************************)
(* Every message waiting in r_queue has exactly one RECEIVE event waiting  *)
(* for it: an application that pops one message per event, as the README   *)
(* shows, neither misses data nor finds the queue empty.                   *)
(***************************************************************************)
Announcements(ch) == {i \in 1 .. Len(rxEvents) : rxEvents[i] = Received(ch)}
EventPerMessage ==
  \A ch \in Channels : Cardinality(Announcements(ch)) = Len(rq[ch])

(***************************************************************************)
(* A reliable channel has at most one message that the receiver has and    *)
(* the sender does not know of, because only the head of s_queue is sent;  *)
(* what the receiver has is an unbroken prefix of what was accepted.       *)
(***************************************************************************)
OneInFlight ==
  \A ch \in Reliable :
    /\ Len(Delivered(ch)) \in Confirmed(ch) .. Confirmed(ch) + 1
    /\ \A i \in 1 .. Len(Delivered(ch)) : Delivered(ch)[i] = i

(***************************************************************************)
(* The strengthening these properties rest on.  Room: a tick reads at most *)
(* RecvLimit packets, each adds at most one message and two events, and    *)
(* the application empties the queues between ticks, so that no push is    *)
(* ever refused.  Order: with no sequence number reused, the number of a   *)
(* packet tells its message; s_queue holds the messages that are accepted  *)
(* and not confirmed; the receiver is at most one message ahead; only      *)
(* delivered messages are acknowledged.                                    *)
(***************************************************************************)
Attentive ==
  Drains /\ RecvLimit <= QueueCap /\ 2 * RecvLimit <= EventCap

NoWrap == Isn + MaxSend < SeqMod

Count(ch) == Len(got[ch]) + Len(rq[ch])

Room ==
  /\ EventPerMessage
  /\ \A ch \in Channels : Len(rq[ch]) + budget <= RecvLimit
  /\ Len(rxEvents) + 2 * budget <= 2 * RecvLimit

SenderOrder(ch) ==
  /\ seq[ch] = Isn + accepted[ch]
  /\ Len(sq[ch]) <= accepted[ch]
  /\ \A i \in 1 .. Len(sq[ch]) :
       /\ sq[ch][i].data = Confirmed(ch) + i
       /\ sq[ch][i].seq = Isn + Confirmed(ch) + i - 1

DataOrder(m) ==
  /\ m.seq = Isn + m.data - 1
  /\ m.data <= accepted[m.ch]
  /\ m.ch \in Reliable => m.data <= Confirmed(m.ch) + 1

AckOrder(m) == m.ch \in Reliable /\ m.ack < ack[m.ch]

ReceiverOrder(ch) ==
  /\ ack[ch] = Isn + Count(ch)
  /\ Count(ch) \in Confirmed(ch) .. Confirmed(ch) + 1
  /\ Count(ch) <= accepted[ch]
  /\ \A i \in 1 .. Len(got[ch]) : got[ch][i] = i
  /\ \A i \in 1 .. Len(rq[ch]) : rq[ch][i] = Len(got[ch]) + i

Order ==
  /\ \A ch \in Channels : SenderOrder(ch)
  /\ \A m \in datas : DataOrder(m)
  /\ \A m \in acks : AckOrder(m)
  /\ \A ch \in Reliable : ReceiverOrder(ch)

(***************************************************************************)
(* With one reliable channel the receiver never moves the connection back  *)
(* to an address the sender has left.  With two it may: Trusted takes the  *)
(* packet that ANY reliable channel waits for, and one that was delayed on *)
(* the old path undoes the move that a packet of the other announced.      *)
(***************************************************************************)
OneReliable == \A c, d \in Reliable : c = d

MigratesForward == [][OneReliable => peer' >= peer]_vars

(***************************************************************************)
(* Every message accepted on a reliable channel reaches the application,   *)
(* as long as its number is not past a wrap.  At the wrap the channel may  *)
(* stall: the repetition of the last number is Future to a receiver that   *)
(* has it and expects 0, is dropped and is never answered again.           *)
(***************************************************************************)
AllDelivered ==
  \A ch \in Reliable : \A n \in {i \in 1 .. MaxSend : Isn + i <= SeqMod} :
    accepted[ch] >= n ~> Len(got[ch]) >= n

(***************************************************************************)
(* Every packet leaves its s_queue, a reliable one when it is              *)
(* acknowledged, an unreliable one when it is sent: the queue makes room   *)
(* for glb_send again.  Of a reliable channel all packets but the one with *)
(* the last number before the wrap, and those behind it.                   *)
(***************************************************************************)
QueuesDrain ==
  \A ch \in Channels :
    \A n \in {i \in 1 .. MaxAccept(ch) : ch \in Reliable => Isn + i < SeqMod} :
      accepted[ch] >= n ~> Confirmed(ch) >= n

=============================================================================
