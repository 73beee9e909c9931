--------------------------- MODULE ChannelProofs ---------------------------
(***************************************************************************)
(* Proofs about the data path of Channel.tla, for every set of channels,   *)
(* every queue size and every number of messages.                          *)
(***************************************************************************)
EXTENDS Channel, SequenceTheorems, FiniteSetTheorems, TLAPS

USE DEF sender, receiver, network

-----------------------------------------------------------------------------
(***************************************************************************)
(* The constants, in the form the provers use them.                        *)
(***************************************************************************)
LEMMA Constants ==
  /\ Reliable \subseteq Channels
  /\ SeqMod \in Nat /\ SeqMod > 0
  /\ Isn \in Nat /\ Isn < SeqMod
  /\ QueueCap \in Nat /\ QueueCap > 0
  /\ EventCap \in Nat /\ EventCap > 0
  /\ RecvLimit \in Nat /\ RecvLimit > 0
  /\ MaxRetry \in Nat /\ MaxSend \in Nat /\ MaxRebind \in Nat
BY ChannelAssumption

\* A channel that takes a message has not taken the most it may.
LEMMA SendBound ==
  ASSUME TypeOK, NEW ch \in Channels, Send(ch)
  PROVE  accepted[ch] \in Nat /\ accepted[ch] < MaxSend
<1>1. accepted[ch] \in Nat /\ accepted[ch] < MaxAccept(ch)
  BY Constants DEF Send, TypeOK
<1>2. MaxAccept(ch) \in Nat /\ MaxAccept(ch) <= MaxSend
  BY Constants, ChannelAssumption DEF MaxAccept
<1> QED  BY <1>1, <1>2, Constants

LEMMA NextSeqType ==
  ASSUME NEW s \in SeqNo
  PROVE  NextSeq(s) \in SeqNo
BY Constants DEF NextSeq, SeqNo

(***************************************************************************)
(* A push keeps a queue within its capacity.                               *)
(***************************************************************************)
LEMMA PushType ==
  ASSUME NEW S, NEW q \in Seq(S), NEW e \in S, NEW cap \in Nat, Len(q) <= cap
  PROVE  /\ PushOrDrop(q, e, cap) \in Seq(S)
         /\ Len(PushOrDrop(q, e, cap)) <= cap
BY AppendProperties DEF PushOrDrop, HasRoom

\* The event queue after the events of one arrival.
LEMMA AnnouncedType ==
  ASSUME TypeOK, NEW m \in DataPkt
  PROVE  Announced(m) \in Seq(RxEvent) /\ Len(Announced(m)) <= EventCap
<1> DEFINE moved == IF m.from = peer THEN rxEvents
                    ELSE PushOrDrop(rxEvents, Migrated, EventCap)
<1>1. Migrated \in RxEvent /\ Received(m.ch) \in RxEvent
  BY DEF RxEvent, DataPkt
<1>2. moved \in Seq(RxEvent) /\ Len(moved) <= EventCap
  BY <1>1, Constants, PushType DEF TypeOK
<1>3. PushOrDrop(moved, Received(m.ch), EventCap) \in Seq(RxEvent)
      /\ Len(PushOrDrop(moved, Received(m.ch), EventCap)) <= EventCap
  BY <1>1, <1>2, Constants, PushType
<1> QED  BY <1>3 DEF Announced

\* The head of s_queue after a retransmission.
LEMMA RetriedType ==
  ASSUME NEW pkt \in Queued
  PROVE  /\ Retried(pkt) \in Queued
         /\ Retried(pkt).seq = pkt.seq /\ Retried(pkt).data = pkt.data
BY Constants DEF Retried, GivenUp, Queued

(***************************************************************************)
(* Type correctness: every counter stays in its range and every queue      *)
(* within its capacity.                                                    *)
(***************************************************************************)
LEMMA InitType == Init => TypeOK
BY Constants DEF Init, TypeOK, SeqNo, Addr

LEMMA NextType == TypeOK /\ [Next]_vars => TypeOK'
<1> SUFFICES ASSUME TypeOK, [Next]_vars PROVE TypeOK'
  OBVIOUS
<1>1. ASSUME NEW ch \in Channels, Send(ch) PROVE TypeOK'
  <2>0. accepted[ch] \in Nat /\ accepted[ch] < MaxSend
    BY <1>1, SendBound
  <2>1. [seq |-> seq[ch], data |-> accepted[ch] + 1, rtx |-> 0] \in Queued
    BY <2>0, Constants DEF TypeOK, Queued
  <2>2. sq' \in [Channels -> Seq(Queued)]
    BY <1>1, <2>1, AppendProperties DEF Send, TypeOK
  <2>3. \A c \in Channels : Len(sq'[c]) <= QueueCap
    BY <1>1, <2>1, AppendProperties, Constants DEF Send, TypeOK, HasRoom
  <2>4. seq' \in [Channels -> SeqNo]
    BY <1>1, NextSeqType DEF Send, TypeOK
  <2>5. accepted' \in [Channels -> 0 .. MaxSend]
    BY <1>1, <2>0, Constants DEF Send, TypeOK
  <2> QED  BY <1>1, <2>2, <2>3, <2>4, <2>5 DEF Send, TypeOK
<1>2. ASSUME NEW ch \in Channels, NEW lost \in BOOLEAN, Transmit(ch, lost)
      PROVE  TypeOK'
  <2> DEFINE pkt == Head(sq[ch])
             out == [ch |-> ch, seq |-> pkt.seq, data |-> pkt.data, from |-> saddr]
  <2>1. pkt \in Queued /\ Tail(sq[ch]) \in Seq(Queued)
        /\ Len(Tail(sq[ch])) <= QueueCap /\ Len(sq[ch]) >= 1
    BY <1>2, HeadTailProperties, EmptySeq, LenProperties, Constants
       DEF Transmit, Ready, TypeOK
  <2>2. out \in DataPkt
    BY <2>1 DEF DataPkt, Queued, TypeOK
  <2>3. datas' \subseteq DataPkt
    BY <1>2, <2>2 DEF Transmit, Ready, TypeOK, Sent
  <2>4. CASE ch \notin Reliable
    <3>1. sq' = [sq EXCEPT ![ch] = Tail(@)] /\ txEvents' = txEvents
      BY <1>2, <2>4 DEF Transmit, Ready
    <3>2. sq' \in [Channels -> Seq(Queued)]
          /\ \A c \in Channels : Len(sq'[c]) <= QueueCap
      BY <2>1, <3>1 DEF TypeOK
    <3> QED  BY <1>2, <2>3, <3>1, <3>2 DEF Transmit, Ready, TypeOK
  <2>5. CASE ch \in Reliable
    <3>1. sq' = [sq EXCEPT ![ch] = [sq[ch] EXCEPT ![1] = Retried(pkt)]]
          /\ txEvents' = IF GivenUp(pkt) THEN PushOrDrop(txEvents, pkt.seq, EventCap)
                         ELSE txEvents
      BY <1>2, <2>5 DEF Transmit, Ready
    <3>2. [sq[ch] EXCEPT ![1] = Retried(pkt)] \in Seq(Queued)
          /\ Len([sq[ch] EXCEPT ![1] = Retried(pkt)]) = Len(sq[ch])
      BY <2>1, RetriedType, ExceptSeq, LenProperties DEF TypeOK
    <3>3. sq' \in [Channels -> Seq(Queued)]
          /\ \A c \in Channels : Len(sq'[c]) <= QueueCap
      BY <3>1, <3>2 DEF TypeOK
    <3>4. pkt.seq \in SeqNo
      BY <2>1 DEF Queued
    <3>5. txEvents' \in Seq(SeqNo) /\ Len(txEvents') <= EventCap
      BY <3>1, <3>4, PushType, Constants DEF TypeOK
    <3> QED  BY <1>2, <2>3, <3>3, <3>5 DEF Transmit, Ready, TypeOK
  <2> QED  BY <2>4, <2>5
<1>3. ASSUME NEW m \in datas, NEW keep \in BOOLEAN, NEW lost \in BOOLEAN,
             ReceiveData(m, keep, lost)
      PROVE  TypeOK'
  <2>1. m \in DataPkt
    BY DEF TypeOK
  <2>2. budget' \in 0 .. RecvLimit /\ datas' \subseteq DataPkt
    BY <1>3, Constants DEF ReceiveData, TypeOK, Consume
  <2>3. CASE Drop(m)
    BY <1>3, <2>2, <2>3 DEF Drop, ReceiveData, TypeOK
  <2>4. CASE Repeat(m, lost)
    <3>1. [ch |-> m.ch, ack |-> m.seq, to |-> peer] \in AckPkt
      BY <2>1 DEF DataPkt, AckPkt, TypeOK
    <3>2. acks' \subseteq AckPkt
      BY <2>4, <3>1 DEF Repeat, ReAck, Answered, Sent, TypeOK
    <3> QED  BY <1>3, <2>2, <2>4, <3>2 DEF Repeat, ReceiveData, TypeOK
  <2>5. CASE Arrive(m, lost)
    <3>1. [ch |-> m.ch, ack |-> m.seq, to |-> m.from] \in AckPkt
      BY <2>1 DEF DataPkt, AckPkt
    <3>2. acks' \subseteq AckPkt
      BY <2>5, <3>1 DEF Arrive, Answered, Sent, TypeOK
    <3>3. ack' \in [Channels -> SeqNo]
      BY <2>1, <2>5, NextSeqType DEF Arrive, TypeOK, DataPkt
    <3>4. PushOrDrop(rq[m.ch], m.data, QueueCap) \in Seq(1 .. MaxSend)
          /\ Len(PushOrDrop(rq[m.ch], m.data, QueueCap)) <= QueueCap
      BY <2>1, PushType, Constants DEF TypeOK, DataPkt
    <3>5. rq' \in [Channels -> Seq(1 .. MaxSend)]
          /\ \A c \in Channels : Len(rq'[c]) <= QueueCap
      BY <2>1, <2>5, <3>4 DEF Arrive, TypeOK, DataPkt
    <3>6. rxEvents' \in Seq(RxEvent) /\ Len(rxEvents') <= EventCap
      BY <2>1, <2>5, AnnouncedType DEF Arrive
    <3>7. peer' \in Addr
      BY <2>1, <2>5 DEF Arrive, DataPkt
    <3> QED
      BY <1>3, <2>2, <2>5, <3>2, <3>3, <3>5, <3>6, <3>7 DEF Arrive, ReceiveData, TypeOK
  <2> QED  BY <1>3, <2>3, <2>4, <2>5 DEF ReceiveData
<1>4. ASSUME NEW m \in acks, NEW keep \in BOOLEAN, ReceiveAck(m, keep)
      PROVE  TypeOK'
  <2>1. m.ch \in Channels
    BY DEF TypeOK, AckPkt
  <2>2. acks' \subseteq AckPkt
    BY <1>4 DEF ReceiveAck, TypeOK, Consume
  <2>3. sq' \in [Channels -> Seq(Queued)]
        /\ \A c \in Channels : Len(sq'[c]) <= QueueCap
    <3>1. CASE sq' = sq
      BY <3>1 DEF TypeOK
    <3>2. CASE sq[m.ch] # << >> /\ sq' = [sq EXCEPT ![m.ch] = Tail(@)]
      <4>1. Tail(sq[m.ch]) \in Seq(Queued) /\ Len(Tail(sq[m.ch])) <= QueueCap
        BY <2>1, <3>2, HeadTailProperties, LenProperties, Constants DEF TypeOK
      <4> QED  BY <2>1, <3>2, <4>1 DEF TypeOK
    <3> QED  BY <1>4, <3>1, <3>2 DEF ReceiveAck
  <2> QED  BY <1>4, <2>2, <2>3 DEF ReceiveAck, TypeOK
<1>5. CASE SenderPoll
  BY <1>5, HeadTailProperties, LenProperties, Constants DEF SenderPoll, TypeOK
<1>6. CASE StartTick
  BY <1>6, Constants DEF StartTick, TypeOK
<1>7. CASE EndReceive
  BY <1>7, Constants DEF EndReceive, TypeOK
<1>8. CASE Poll
  <2>1. rxEvents' \in Seq(RxEvent) /\ Len(rxEvents') <= EventCap
    BY <1>8, HeadTailProperties, LenProperties, Constants DEF Poll, TypeOK
  <2>2. ASSUME NEW ch \in Channels, rq[ch] # << >>,
               got' = IF ch \in Reliable
                      THEN [got EXCEPT ![ch] = Append(@, Head(rq[ch]))] ELSE got,
               rq' = [rq EXCEPT ![ch] = Tail(@)]
        PROVE  TypeOK'
    <3>1. Head(rq[ch]) \in 1 .. MaxSend /\ Tail(rq[ch]) \in Seq(1 .. MaxSend)
          /\ Len(Tail(rq[ch])) <= QueueCap
      BY <2>2, HeadTailProperties, LenProperties, Constants DEF TypeOK
    <3>2. rq' \in [Channels -> Seq(1 .. MaxSend)]
          /\ \A c \in Channels : Len(rq'[c]) <= QueueCap
      BY <2>2, <3>1 DEF TypeOK
    <3>3. got' \in [Reliable -> Seq(1 .. MaxSend)]
      BY <2>2, <3>1, AppendProperties DEF TypeOK
    <3> QED  BY <1>8, <2>1, <3>2, <3>3 DEF Poll, TypeOK
  <2>3. CASE UNCHANGED <<got, rq>>
    BY <1>8, <2>1, <2>3 DEF Poll, TypeOK
  <2> QED  BY <1>8, <2>2, <2>3 DEF Poll
<1>9. CASE Rebind
  BY <1>9, Constants DEF Rebind, TypeOK, Addr
<1>10. CASE UNCHANGED vars
  BY <1>10 DEF vars, TypeOK
<1> QED
  BY <1>1, <1>2, <1>3, <1>4, <1>5, <1>6, <1>7, <1>8, <1>9, <1>10 DEF Next

THEOREM TypeCorrect == Spec => []TypeOK
BY InitType, NextType, PTL DEF Spec

-----------------------------------------------------------------------------
(***************************************************************************)
(* Counting the occurrences of an element in a queue.                      *)
(***************************************************************************)
Places(q, e) == {i \in 1 .. Len(q) : q[i] = e}
Occurrences(q, e) == Cardinality(Places(q, e))

LEMMA PlacesFinite ==
  ASSUME NEW S, NEW q \in Seq(S), NEW e
  PROVE  IsFiniteSet(Places(q, e)) /\ Occurrences(q, e) \in Nat
<1>1. Len(q) \in Nat /\ Places(q, e) \in SUBSET (1 .. Len(q))
  BY LenProperties DEF Places
<1>2. IsFiniteSet(1 .. Len(q))
  BY <1>1, FS_Interval
<1>3. IsFiniteSet(Places(q, e))
  BY <1>1, <1>2, FS_Subset
<1> QED  BY <1>3, FS_CardinalityType DEF Occurrences

LEMMA OccurrencesAppend ==
  ASSUME NEW S, NEW q \in Seq(S), NEW x \in S, NEW e
  PROVE  /\ x = e => Occurrences(Append(q, x), e) = Occurrences(q, e) + 1
         /\ x # e => Occurrences(Append(q, x), e) = Occurrences(q, e)
<1>1. Len(q) \in Nat /\ Len(Append(q, x)) = Len(q) + 1
      /\ \A i \in 1 .. Len(q) : Append(q, x)[i] = q[i]
      /\ Append(q, x)[Len(q) + 1] = x
  BY AppendProperties, LenProperties
<1>2. IsFiniteSet(Places(q, e)) /\ Occurrences(q, e) \in Nat
  BY PlacesFinite
<1>3. CASE x = e
  <2>1. Places(Append(q, x), e) = Places(q, e) \cup {Len(q) + 1}
    BY <1>1, <1>3 DEF Places
  <2>2. Len(q) + 1 \notin Places(q, e)
    BY <1>1 DEF Places
  <2> QED  BY <1>2, <1>3, <2>1, <2>2, FS_AddElement DEF Occurrences
<1>4. CASE x # e
  <2>1. Places(Append(q, x), e) = Places(q, e)
    BY <1>1, <1>4 DEF Places
  <2> QED  BY <1>2, <1>4, <2>1 DEF Occurrences
<1> QED  BY <1>3, <1>4

LEMMA OccurrencesTail ==
  ASSUME NEW S, NEW q \in Seq(S), q # << >>, NEW e
  PROVE  /\ Head(q) = e => Occurrences(Tail(q), e) = Occurrences(q, e) - 1
         /\ Head(q) # e => Occurrences(Tail(q), e) = Occurrences(q, e)
<1> DEFINE P == Places(Tail(q), e)
           R == Places(q, e) \ {1}
           f == [i \in P |-> i + 1]
<1>1. Len(q) \in Nat /\ Len(q) >= 1 /\ Tail(q) \in Seq(S) /\ Head(q) = q[1]
      /\ Len(Tail(q)) = Len(q) - 1
      /\ \A i \in 1 .. Len(q) - 1 : Tail(q)[i] = q[i + 1]
  BY HeadTailProperties, LenProperties, EmptySeq
<1>2. f \in Bijection(P, R)
  <2>1. P = {i \in 1 .. Len(q) - 1 : q[i + 1] = e}
    BY <1>1 DEF Places
  <2>2. R = {i \in 2 .. Len(q) : q[i] = e}
    BY <1>1 DEF Places
  <2>3. f \in [P -> R]
    BY <1>1, <2>1, <2>2
  <2>4. \A i, j \in P : f[i] = f[j] => i = j
    BY <1>1, <2>1
  <2>5. \A k \in R : \E i \in P : f[i] = k
    <3> SUFFICES ASSUME NEW k \in R PROVE \E i \in P : f[i] = k
      OBVIOUS
    <3>1. k - 1 \in P /\ f[k - 1] = k
      BY <1>1, <2>1, <2>2
    <3> QED  BY <3>1
  <2> QED  BY <2>3, <2>4, <2>5 DEF Bijection, Injection, Surjection, IsInjective
<1>3. IsFiniteSet(P) /\ Cardinality(R) = Cardinality(P)
  <2>1. IsFiniteSet(P)
    BY <1>1, PlacesFinite
  <2>2. ExistsBijection(P, R)
    BY <1>2 DEF ExistsBijection
  <2> HIDE DEF P, R
  <2> QED  BY <2>1, <2>2, FS_Bijection
<1>4. IsFiniteSet(Places(q, e)) /\ Occurrences(q, e) \in Nat
  BY PlacesFinite
<1>5. Cardinality(R) = IF 1 \in Places(q, e) THEN Occurrences(q, e) - 1
                       ELSE Occurrences(q, e)
  BY <1>4, FS_RemoveElement DEF Occurrences
<1>6. 1 \in Places(q, e) <=> Head(q) = e
  BY <1>1 DEF Places
<1> QED  BY <1>3, <1>4, <1>5, <1>6 DEF Occurrences

-----------------------------------------------------------------------------
(***************************************************************************)
(* Room.  The event queue counts the messages of every r_queue, and one    *)
(* tick cannot overfill either.                                            *)
(***************************************************************************)
LEMMA AnnouncementsCount ==
  /\ \A ch : Cardinality(Announcements(ch)) = Occurrences(rxEvents, Received(ch))
  /\ \A ch : Cardinality(Announcements(ch))' = Occurrences(rxEvents', Received(ch))
BY DEF Announcements, Occurrences, Places, Received

LEMMA EventsDiffer ==
  /\ \A c, d \in Channels : Received(c) = Received(d) => c = d
  /\ \A c \in Channels : Received(c) # Migrated
<1>1. \A c : Received(c).type = "RECEIVE" /\ Received(c).ch = c
  BY DEF Received
<1>2. Migrated.type = "MIGRATION"
  BY DEF Migrated
<1> QED  BY <1>1, <1>2

\* With room in both queues, an arrival adds one message and announces it.
LEMMA ArriveAdds ==
  ASSUME TypeOK, Attentive, Room, budget > 0,
         NEW m \in DataPkt, NEW lost \in BOOLEAN, Arrive(m, lost)
  PROVE  /\ rq' = [rq EXCEPT ![m.ch] = Append(@, m.data)]
         /\ \A c \in Channels :
              /\ c = m.ch => Occurrences(rxEvents', Received(c)) =
                               Occurrences(rxEvents, Received(c)) + 1
              /\ c # m.ch => Occurrences(rxEvents', Received(c)) =
                               Occurrences(rxEvents, Received(c))
         /\ Len(rxEvents') <= Len(rxEvents) + 2
<1> DEFINE moved == IF m.from = peer THEN rxEvents
                    ELSE PushOrDrop(rxEvents, Migrated, EventCap)
<1>1. m.ch \in Channels /\ m.data \in 1 .. MaxSend
  BY DEF DataPkt
<1>2. budget \in Nat /\ Len(rxEvents) \in Nat /\ Len(rq[m.ch]) \in Nat
      /\ rxEvents \in Seq(RxEvent)
  BY <1>1, LenProperties, Constants DEF TypeOK
<1>3. Len(rq[m.ch]) < QueueCap /\ Len(rxEvents) + 1 < EventCap
  BY <1>1, <1>2, Constants DEF Room, Attentive
<1>4. rq' = [rq EXCEPT ![m.ch] = Append(@, m.data)]
  BY <1>1, <1>3 DEF Arrive, PushOrDrop, HasRoom, TypeOK
<1>5. Migrated \in RxEvent /\ Received(m.ch) \in RxEvent
  BY <1>1 DEF RxEvent
<1>6. /\ moved \in Seq(RxEvent)
      /\ Len(moved) \in Len(rxEvents) .. Len(rxEvents) + 1
      /\ \A c \in Channels : Occurrences(moved, Received(c)) =
                              Occurrences(rxEvents, Received(c))
  <2>1. CASE m.from = peer
    BY <1>2, <2>1
  <2>2. CASE m.from # peer
    <3>1. moved = Append(rxEvents, Migrated)
      BY <1>2, <1>3, <2>2, Constants DEF PushOrDrop, HasRoom
    <3>2. \A c \in Channels : Occurrences(Append(rxEvents, Migrated), Received(c)) =
                              Occurrences(rxEvents, Received(c))
      <4> SUFFICES ASSUME NEW c \in Channels
                   PROVE  Occurrences(Append(rxEvents, Migrated), Received(c)) =
                          Occurrences(rxEvents, Received(c))
        OBVIOUS
      <4>1. Occurrences(rxEvents, Received(c)) \in Nat
        BY <1>2, PlacesFinite
      <4> QED  BY <1>2, <1>5, <4>1, EventsDiffer, OccurrencesAppend
    <3>3. /\ Append(rxEvents, Migrated) \in Seq(RxEvent)
          /\ Len(Append(rxEvents, Migrated)) = Len(rxEvents) + 1
      BY <1>2, <1>5, AppendProperties
    <3> HIDE DEF moved
    <3> QED  BY <1>2, <3>1, <3>2, <3>3
  <2> QED  BY <2>1, <2>2
<1> HIDE DEF moved
<1>7. rxEvents' = Append(moved, Received(m.ch))
  <2>1. rxEvents' = PushOrDrop(moved, Received(m.ch), EventCap)
    BY DEF Arrive, Announced, moved
  <2>2. Len(moved) < EventCap
    BY <1>2, <1>3, <1>6, Constants
  <2> QED  BY <2>1, <2>2 DEF PushOrDrop, HasRoom
<1>8. Len(rxEvents') <= Len(rxEvents) + 2
  BY <1>2, <1>5, <1>6, <1>7, AppendProperties
<1>9. ASSUME NEW c \in Channels
      PROVE  /\ c = m.ch => Occurrences(rxEvents', Received(c)) =
                              Occurrences(rxEvents, Received(c)) + 1
             /\ c # m.ch => Occurrences(rxEvents', Received(c)) =
                              Occurrences(rxEvents, Received(c))
  <2>1. /\ Received(m.ch) = Received(c) =>
             Occurrences(Append(moved, Received(m.ch)), Received(c)) =
               Occurrences(moved, Received(c)) + 1
        /\ Received(m.ch) # Received(c) =>
             Occurrences(Append(moved, Received(m.ch)), Received(c)) =
               Occurrences(moved, Received(c))
    BY <1>5, <1>6, OccurrencesAppend
  <2>2. Received(m.ch) = Received(c) <=> c = m.ch
    BY <1>1, EventsDiffer
  <2> QED  BY <1>6, <1>7, <2>1, <2>2
<1> QED  BY <1>4, <1>8, <1>9

\* Polling a RECEIVE event finds a message, and takes one of each.
LEMMA PollTakes ==
  ASSUME TypeOK, Room, Poll
  PROVE  /\ \A c \in Channels :
              /\ Head(rxEvents) = Received(c) =>
                   Occurrences(rxEvents', Received(c)) =
                     Occurrences(rxEvents, Received(c)) - 1
              /\ Head(rxEvents) # Received(c) =>
                   Occurrences(rxEvents', Received(c)) =
                     Occurrences(rxEvents, Received(c))
         /\ Len(rxEvents') = Len(rxEvents) - 1
         /\ \A c \in Channels : Head(rxEvents) = Received(c) => rq[c] # << >>
<1>1. rxEvents \in Seq(RxEvent) /\ rxEvents # << >> /\ rxEvents' = Tail(rxEvents)
  BY DEF Poll, TypeOK
<1>2. \A c \in Channels :
        /\ Head(rxEvents) = Received(c) =>
             Occurrences(rxEvents', Received(c)) =
               Occurrences(rxEvents, Received(c)) - 1
        /\ Head(rxEvents) # Received(c) =>
             Occurrences(rxEvents', Received(c)) =
               Occurrences(rxEvents, Received(c))
  BY <1>1, OccurrencesTail
<1>3. ASSUME NEW c \in Channels, Head(rxEvents) = Received(c) PROVE rq[c] # << >>
  <2>1. Occurrences(Tail(rxEvents), Received(c)) \in Nat
    BY <1>1, HeadTailProperties, PlacesFinite
  <2>2. Occurrences(rxEvents, Received(c)) \in Nat
    BY <1>1, PlacesFinite
  <2>3. Occurrences(rxEvents, Received(c)) > 0
    BY <1>1, <1>2, <1>3, <2>1, <2>2
  <2>4. Len(rq[c]) > 0
    BY <2>3, AnnouncementsCount DEF Room, EventPerMessage
  <2> QED  BY <2>4, EmptySeq
<1> QED  BY <1>1, <1>2, <1>3, HeadTailProperties

LEMMA RoomInit ==
  Init => Room
<1> SUFFICES ASSUME Init PROVE Room
  OBVIOUS
<1>1. rxEvents = << >> /\ budget = 0
      /\ \A ch \in Channels : rq[ch] = << >> /\ Len(rq[ch]) = 0
  BY EmptySeq DEF Init
<1>2. Len(rxEvents) = 0
  BY <1>1, EmptySeq
<1>3. \A ch : Announcements(ch) = {}
  BY <1>2 DEF Announcements
<1>4. \A ch : Cardinality(Announcements(ch)) = 0
  BY <1>3, FS_EmptySet
<1> QED  BY <1>1, <1>2, <1>4, Constants DEF Room, EventPerMessage

LEMMA RoomNext ==
  ASSUME TypeOK, Attentive, Room, [Next]_vars
  PROVE  Room'
<1>1. /\ budget \in Nat /\ Len(rxEvents) \in Nat /\ rxEvents \in Seq(RxEvent)
      /\ \A c \in Channels : Len(rq[c]) \in Nat /\ rq[c] \in Seq(1 .. MaxSend)
  BY LenProperties, Constants DEF TypeOK
<1>2. \A c \in Channels : Occurrences(rxEvents, Received(c)) = Len(rq[c])
  BY AnnouncementsCount DEF Room, EventPerMessage
<1>3. SUFFICES /\ \A c \in Channels :
                    Occurrences(rxEvents', Received(c)) = Len(rq'[c])
               /\ \A c \in Channels : Len(rq'[c]) + budget' <= RecvLimit
               /\ Len(rxEvents') + 2 * budget' <= 2 * RecvLimit
  BY AnnouncementsCount DEF Room, EventPerMessage
<1>4. CASE UNCHANGED <<rq, rxEvents, budget>>
  BY <1>2, <1>4 DEF Room
<1>5. CASE StartTick
  <2>1. rxEvents = << >> /\ rxEvents' = rxEvents /\ rq' = rq /\ budget' = RecvLimit
    BY <1>5 DEF StartTick, Attentive
  <2>2. Len(rxEvents) = 0
    BY <2>1, EmptySeq
  <2>3. ASSUME NEW c \in Channels PROVE Len(rq[c]) = 0
    <3>1. Places(rxEvents, Received(c)) = {}
      BY <2>2 DEF Places
    <3> QED  BY <1>2, <3>1, FS_EmptySet DEF Occurrences
  <2> QED  BY <1>2, <2>1, <2>2, <2>3, Constants
<1>6. CASE EndReceive
  BY <1>1, <1>2, <1>6, Constants DEF EndReceive, Room
<1> DEFINE Goal ==
           /\ \A c \in Channels :
                Occurrences(rxEvents', Received(c)) = Len(rq'[c])
           /\ \A c \in Channels : Len(rq'[c]) + budget' <= RecvLimit
           /\ Len(rxEvents') + 2 * budget' <= 2 * RecvLimit
<1>7. ASSUME NEW m \in datas, NEW keep \in BOOLEAN, NEW lost \in BOOLEAN,
             ReceiveData(m, keep, lost)
      PROVE  Goal
  <2>1. budget > 0 /\ budget' = budget - 1 /\ m \in DataPkt
    BY <1>7 DEF ReceiveData, TypeOK
  <2>2. CASE UNCHANGED <<rq, rxEvents>>
    BY <1>1, <1>2, <2>1, <2>2, Constants DEF Room
  <2>3. CASE Arrive(m, lost)
    <3>1. /\ rq' = [rq EXCEPT ![m.ch] = Append(@, m.data)]
          /\ \A c \in Channels :
               /\ c = m.ch => Occurrences(rxEvents', Received(c)) =
                                Occurrences(rxEvents, Received(c)) + 1
               /\ c # m.ch => Occurrences(rxEvents', Received(c)) =
                                Occurrences(rxEvents, Received(c))
          /\ Len(rxEvents') <= Len(rxEvents) + 2
      BY <2>1, <2>3, ArriveAdds
    <3>2. m.ch \in Channels /\ m.data \in 1 .. MaxSend
      BY <2>1 DEF DataPkt
    <3>3. \A c \in Channels :
            /\ c = m.ch => Len(rq'[c]) = Len(rq[c]) + 1
            /\ c # m.ch => Len(rq'[c]) = Len(rq[c])
      BY <1>1, <3>1, <3>2, AppendProperties DEF TypeOK
    <3>4. Len(rxEvents') \in Nat
      BY NextType, LenProperties DEF TypeOK
    <3>5. ASSUME NEW c \in Channels
          PROVE  /\ Occurrences(rxEvents', Received(c)) = Len(rq'[c])
                 /\ Len(rq'[c]) + budget' <= RecvLimit
      <4>1. /\ Occurrences(rxEvents, Received(c)) = Len(rq[c]) /\ Len(rq[c]) \in Nat
            /\ Len(rq[c]) + budget <= RecvLimit
        BY <1>1, <1>2 DEF Room
      <4>2. CASE c = m.ch
        BY <1>1, <2>1, <3>1, <3>3, <4>1, <4>2, Constants
      <4>3. CASE c # m.ch
        BY <1>1, <2>1, <3>1, <3>3, <4>1, <4>3, Constants
      <4> QED  BY <4>2, <4>3
    <3> QED  BY <1>1, <2>1, <3>1, <3>4, <3>5, Constants DEF Room
  <2> QED  BY <1>7, <2>2, <2>3 DEF ReceiveData, Drop, Repeat
<1>8. CASE Poll
  <2>1. /\ \A c \in Channels :
             /\ Head(rxEvents) = Received(c) =>
                  Occurrences(rxEvents', Received(c)) =
                    Occurrences(rxEvents, Received(c)) - 1
             /\ Head(rxEvents) # Received(c) =>
                  Occurrences(rxEvents', Received(c)) =
                    Occurrences(rxEvents, Received(c))
        /\ Len(rxEvents') = Len(rxEvents) - 1
        /\ \A c \in Channels : Head(rxEvents) = Received(c) => rq[c] # << >>
    BY <1>8, PollTakes
  <2>2. budget' = budget
    BY <1>8 DEF Poll
  <2>3. ASSUME NEW c \in Channels
        PROVE  /\ Head(rxEvents) = Received(c) => Len(rq'[c]) = Len(rq[c]) - 1
               /\ Head(rxEvents) # Received(c) => Len(rq'[c]) = Len(rq[c])
    <3>1. ASSUME NEW d \in Channels, Head(rxEvents) = Received(d),
                 rq' = [rq EXCEPT ![d] = Tail(@)]
          PROVE  /\ Head(rxEvents) = Received(c) => Len(rq'[c]) = Len(rq[c]) - 1
                 /\ Head(rxEvents) # Received(c) => Len(rq'[c]) = Len(rq[c])
      <4>1. Len(Tail(rq[d])) = Len(rq[d]) - 1
        BY <1>1, <2>1, <3>1, HeadTailProperties
      <4>2. Head(rxEvents) = Received(c) <=> c = d
        BY <3>1, EventsDiffer
      <4>3. rq'[d] = Tail(rq[d]) /\ (c # d => rq'[c] = rq[c])
        BY <3>1 DEF TypeOK
      <4> QED  BY <4>1, <4>2, <4>3
    <3>2. CASE /\ rq' = rq
               /\ Head(rxEvents) = Received(c) => rq[c] = << >>
      BY <2>1, <3>2
    <3> QED  BY <1>8, <3>1, <3>2 DEF Poll
  <2>4. ASSUME NEW c \in Channels
        PROVE  /\ Occurrences(rxEvents', Received(c)) = Len(rq'[c])
               /\ Len(rq'[c]) + budget' <= RecvLimit
    <3>1. /\ Occurrences(rxEvents, Received(c)) = Len(rq[c]) /\ Len(rq[c]) \in Nat
          /\ Len(rq[c]) + budget <= RecvLimit
      BY <1>1, <1>2 DEF Room
    <3>2. CASE Head(rxEvents) = Received(c)
      <4>1. /\ Occurrences(rxEvents', Received(c)) = Len(rq[c]) - 1
            /\ Len(rq'[c]) = Len(rq[c]) - 1
        BY <2>1, <2>3, <3>1, <3>2
      <4> QED  BY <1>1, <2>2, <3>1, <4>1, Constants
    <3>3. CASE Head(rxEvents) # Received(c)
      <4>1. /\ Occurrences(rxEvents', Received(c)) = Len(rq[c])
            /\ Len(rq'[c]) = Len(rq[c])
        BY <2>1, <2>3, <3>1, <3>3
      <4> QED  BY <1>1, <2>2, <3>1, <4>1, Constants
    <3> QED  BY <3>2, <3>3
  <2> QED  BY <1>1, <2>1, <2>2, <2>4, Constants DEF Room
<1>9. ASSUME NEW ch \in Channels, NEW lost \in BOOLEAN, Send(ch) \/ Transmit(ch, lost)
      PROVE  UNCHANGED <<rq, rxEvents, budget>>
  BY <1>9 DEF Send, Transmit, Ready
<1>10. ASSUME NEW m \in acks, NEW keep \in BOOLEAN, ReceiveAck(m, keep)
       PROVE  UNCHANGED <<rq, rxEvents, budget>>
  BY <1>10 DEF ReceiveAck
<1>11. ASSUME SenderPoll \/ Rebind \/ UNCHANGED vars
       PROVE  UNCHANGED <<rq, rxEvents, budget>>
  BY <1>11 DEF SenderPoll, Rebind, vars
<1> QED
  BY <1>4, <1>5, <1>6, <1>7, <1>8, <1>9, <1>10, <1>11 DEF Next

(***************************************************************************)
(* An application that empties its event queue after every tick never      *)
(* loses a message or an event to a full queue, when r_queue holds one     *)
(* tick's packets and the event queue two events for each: it is told once *)
(* of every message.                                                       *)
(***************************************************************************)
THEOREM NothingDropped ==
  ASSUME Attentive
  PROVE  Spec => []Room
<1>1. TypeOK /\ Room /\ [Next]_vars => Room'
  BY RoomNext
<1> QED  BY <1>1, RoomInit, TypeCorrect, PTL DEF Spec

(***************************************************************************)
(* Every message in r_queue has one RECEIVE event in the event queue, for  *)
(* such an application: glb_popdata per event neither misses nor lacks a   *)
(* message.                                                                *)
(***************************************************************************)
THEOREM OneEventEach ==
  ASSUME Attentive
  PROVE  Spec => []EventPerMessage
<1>1. Room => EventPerMessage  BY DEF Room
<1> QED  BY <1>1, NothingDropped, PTL

=============================================================================
