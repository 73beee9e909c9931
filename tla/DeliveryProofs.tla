--------------------------- MODULE DeliveryProofs ---------------------------
(***************************************************************************)
(* Proofs that the data path of Channel.tla delivers what it promises, for *)
(* every number of channels and messages, every queue size and every path, *)
(* while no sequence number is reused.                                     *)
(***************************************************************************)
EXTENDS ChannelProofs

USE DEF sender, receiver, network

-----------------------------------------------------------------------------
(***************************************************************************)
(* What Order says of one channel, and when it is kept.                    *)
(***************************************************************************)
LEMMA Lengths ==
  ASSUME TypeOK, NEW ch \in Channels
  PROVE  /\ accepted[ch] \in Nat /\ accepted[ch] <= MaxSend
         /\ seq[ch] \in Nat /\ ack[ch] \in Nat
         /\ Len(sq[ch]) \in Nat /\ Len(rq[ch]) \in Nat
         /\ Confirmed(ch) \in Int /\ Confirmed(ch) = accepted[ch] - Len(sq[ch])
BY LenProperties, Constants DEF TypeOK, SeqNo, Confirmed

LEMMA CountType ==
  ASSUME TypeOK, NEW ch \in Reliable
  PROVE  /\ ch \in Channels
         /\ Len(got[ch]) \in Nat /\ Len(rq[ch]) \in Nat
         /\ Count(ch) \in Nat /\ Count(ch) = Len(got[ch]) + Len(rq[ch])
<1>1. ch \in Channels
  BY Constants
<1>2. Len(got[ch]) \in Nat /\ Len(rq[ch]) \in Nat
  BY <1>1, LenProperties DEF TypeOK
<1>3. \A a, b \in Nat : a + b \in Nat
  OBVIOUS
<1>4. Len(got[ch]) + Len(rq[ch]) \in Nat
  BY <1>2, <1>3, Zenon
<1> QED  BY <1>1, <1>2, <1>4, Zenon DEF Count

LEMMA PacketTypes ==
  ASSUME TypeOK
  PROVE  /\ \A m \in datas : /\ m \in DataPkt /\ m.ch \in Channels
                             /\ m.seq \in Nat /\ m.data \in Nat /\ m.data >= 1
                             /\ m.data \in 1 .. MaxSend /\ m.from \in Addr
         /\ \A m \in acks : m.ch \in Channels /\ m.ack \in Nat
BY Constants DEF TypeOK, DataPkt, AckPkt, SeqNo

LEMMA HeadAndTail ==
  ASSUME NEW S, NEW q \in Seq(S), q # << >>
  PROVE  /\ Head(q) = q[1] /\ Head(q) \in S
         /\ Len(Tail(q)) = Len(q) - 1
         /\ \A i \in 1 .. Len(Tail(q)) : Tail(q)[i] = q[i + 1]
BY HeadTailProperties, LenProperties, EmptySeq

LEMMA NextSeqNoWrap ==
  ASSUME NEW s \in Nat, s + 1 < SeqMod
  PROVE  NextSeq(s) = s + 1
BY Constants DEF NextSeq

LEMMA SenderKept ==
  ASSUME NEW ch \in Channels,
         seq'[ch] = seq[ch], sq'[ch] = sq[ch], accepted'[ch] = accepted[ch]
  PROVE  Confirmed(ch)' = Confirmed(ch) /\ (SenderOrder(ch) => SenderOrder(ch)')
BY DEF Confirmed, SenderOrder

LEMMA ReceiverKept ==
  ASSUME TypeOK, NEW ch \in Reliable, ReceiverOrder(ch),
         ack'[ch] = ack[ch], rq'[ch] = rq[ch], got'[ch] = got[ch],
         Confirmed(ch)' = Confirmed(ch),
         accepted'[ch] \in Nat, accepted'[ch] >= accepted[ch]
  PROVE  ReceiverOrder(ch)'
<1>1. Count(ch)' = Count(ch) /\ Count(ch) \in Nat
  BY CountType DEF Count
<1>2. accepted[ch] \in Nat
  BY Lengths, CountType
<1> QED  BY <1>1, <1>2 DEF ReceiverOrder

LEMMA DataKept ==
  ASSUME TypeOK, NEW m \in datas, DataOrder(m),
         accepted'[m.ch] \in Nat, accepted'[m.ch] >= accepted[m.ch],
         Confirmed(m.ch)' \in Int, Confirmed(m.ch)' >= Confirmed(m.ch)
  PROVE  DataOrder(m)'
<1>1. m.ch \in Channels /\ m.data \in Nat
  BY PacketTypes
<1>2. accepted[m.ch] \in Nat /\ Confirmed(m.ch) \in Int
  BY <1>1, Lengths
<1> QED  BY <1>1, <1>2 DEF DataOrder

LEMMA OrderInit == Init => Order
<1> SUFFICES ASSUME Init PROVE Order
  OBVIOUS
<1>1. ASSUME NEW ch \in Channels
      PROVE  /\ seq[ch] = Isn /\ accepted[ch] = 0 /\ ack[ch] = Isn
             /\ Len(sq[ch]) = 0 /\ Len(rq[ch]) = 0 /\ Confirmed(ch) = 0
  BY EmptySeq DEF Init, Confirmed
<1>2. \A ch \in Reliable : Len(got[ch]) = 0
  BY EmptySeq DEF Init
<1>3. datas = {} /\ acks = {}
  BY DEF Init
<1>4. ASSUME NEW ch \in Channels PROVE SenderOrder(ch)
  BY <1>1, Constants DEF SenderOrder
<1>5. ASSUME NEW ch \in Reliable PROVE ReceiverOrder(ch)
  <2>1. ch \in Channels
    BY Constants
  <2>2. 0 + 0 = 0
    OBVIOUS
  <2>3. Count(ch) = 0
    BY <1>1, <1>2, <2>1, <2>2, Zenon DEF Count
  <2> QED  BY <1>1, <1>2, <2>1, <2>3, Constants DEF ReceiverOrder
<1> QED  BY <1>3, <1>4, <1>5 DEF Order

-----------------------------------------------------------------------------
(***************************************************************************)
(* The sender's steps.                                                     *)
(***************************************************************************)

\* glb_send appends the next message with the next number.
LEMMA SendOrder ==
  ASSUME TypeOK, TypeOK', NoWrap, Order, NEW ch \in Channels, Send(ch)
  PROVE  Order'
<1> DEFINE pkt == [seq |-> seq[ch], data |-> accepted[ch] + 1, rtx |-> 0]
<1>1. /\ accepted[ch] < MaxSend
      /\ sq'[ch] = Append(sq[ch], pkt)
      /\ seq'[ch] = NextSeq(seq[ch]) /\ accepted'[ch] = accepted[ch] + 1
      /\ UNCHANGED <<ack, rq, got, datas, acks>>
  BY SendBound DEF Send, TypeOK
<1>2. ASSUME NEW c \in Channels, c # ch
      PROVE  sq'[c] = sq[c] /\ seq'[c] = seq[c] /\ accepted'[c] = accepted[c]
  BY <1>2 DEF Send, TypeOK
<1>3. pkt \in Queued
  BY <1>1, Constants DEF TypeOK, Queued
<1>4. /\ Len(sq'[ch]) = Len(sq[ch]) + 1
      /\ sq'[ch][Len(sq[ch]) + 1] = pkt
      /\ \A i \in 1 .. Len(sq[ch]) : sq'[ch][i] = sq[ch][i]
  BY <1>1, <1>3, AppendProperties DEF TypeOK
<1>5. Confirmed(ch)' = Confirmed(ch)
  BY <1>1, <1>4, Lengths DEF Confirmed
<1>6. SenderOrder(ch)
  BY DEF Order
<1>7. seq[ch] = Isn + accepted[ch]
  BY <1>6 DEF SenderOrder
<1>8. seq'[ch] = Isn + accepted'[ch]
  BY <1>1, <1>7, NextSeqNoWrap, Lengths, Constants DEF NoWrap
<1>9. ASSUME NEW i \in 1 .. Len(sq'[ch])
      PROVE  /\ sq'[ch][i].data = Confirmed(ch) + i
             /\ sq'[ch][i].seq = Isn + Confirmed(ch) + i - 1
  <2>1. CASE i = Len(sq[ch]) + 1
    <3>1. sq'[ch][i].data = accepted[ch] + 1 /\ sq'[ch][i].seq = seq[ch]
      BY <1>4, <2>1
    <3>2. Confirmed(ch) + i = accepted[ch] + 1
      BY <2>1, Lengths
    <3>3. Isn + Confirmed(ch) + i - 1 = seq[ch]
      BY <1>7, <2>1, Lengths, Constants
    <3> QED  BY <3>1, <3>2, <3>3
  <2>2. CASE i # Len(sq[ch]) + 1
    <3>1. i \in 1 .. Len(sq[ch])
      BY <1>4, <2>2, Lengths
    <3> QED  BY <1>4, <1>6, <3>1 DEF SenderOrder
  <2> QED  BY <2>1, <2>2
<1>10. Len(sq'[ch]) <= accepted'[ch]
  BY <1>1, <1>4, <1>6, Lengths DEF SenderOrder
<1>11. SenderOrder(ch)'
  BY <1>5, <1>8, <1>9, <1>10 DEF SenderOrder
<1>12. ASSUME NEW c \in Channels
       PROVE  /\ SenderOrder(c)' /\ Confirmed(c)' = Confirmed(c)
              /\ accepted'[c] \in Nat /\ accepted'[c] >= accepted[c]
  <2>1. CASE c = ch
    BY <1>1, <1>5, <1>11, <2>1, Lengths
  <2>2. CASE c # ch
    BY <1>2, <2>2, Lengths, SenderKept DEF Order
  <2> QED  BY <2>1, <2>2
<1>13. ASSUME NEW m \in datas' PROVE DataOrder(m)'
  <2>1. m \in datas /\ m.ch \in Channels /\ DataOrder(m)
    BY <1>1, PacketTypes DEF Order
  <2>2. Confirmed(m.ch)' \in Int /\ Confirmed(m.ch)' >= Confirmed(m.ch)
    BY <1>12, <2>1, Lengths
  <2> QED  BY <1>12, <2>1, <2>2, DataKept
<1>14. ASSUME NEW m \in acks' PROVE AckOrder(m)'
  BY <1>1 DEF Order, AckOrder
<1>15. ASSUME NEW c \in Reliable PROVE ReceiverOrder(c)'
  BY <1>1, <1>12, CountType, ReceiverKept DEF Order
<1> QED  BY <1>12, <1>13, <1>14, <1>15 DEF Order

\* The head of s_queue is the first message that is not confirmed.
LEMMA HeadIsNext ==
  ASSUME TypeOK, NEW ch \in Channels, SenderOrder(ch), sq[ch] # << >>
  PROVE  /\ Len(sq[ch]) >= 1 /\ Head(sq[ch]) \in Queued
         /\ Head(sq[ch]) = sq[ch][1]
         /\ Head(sq[ch]).data = Confirmed(ch) + 1
         /\ Head(sq[ch]).seq = Isn + Confirmed(ch)
         /\ Confirmed(ch) + 1 <= accepted[ch]
<1>1. Len(sq[ch]) >= 1 /\ Head(sq[ch]) = sq[ch][1] /\ Head(sq[ch]) \in Queued
  BY EmptySeq, HeadTailProperties, LenProperties DEF TypeOK
<1>2. /\ sq[ch][1].data = Confirmed(ch) + 1
      /\ sq[ch][1].seq = Isn + Confirmed(ch) + 1 - 1
  <2>1. 1 \in 1 .. Len(sq[ch])
    BY <1>1, Lengths
  <2> QED  BY <2>1 DEF SenderOrder
<1> QED  BY <1>1, <1>2, Lengths, Constants

\* Without its head, s_queue holds one message less and one more is confirmed.
LEMMA HeadLeaves ==
  ASSUME TypeOK, NEW ch \in Channels, SenderOrder(ch), sq[ch] # << >>,
         sq'[ch] = Tail(sq[ch]), seq'[ch] = seq[ch], accepted'[ch] = accepted[ch]
  PROVE  SenderOrder(ch)' /\ Confirmed(ch)' = Confirmed(ch) + 1
<1>1. /\ Len(sq'[ch]) = Len(sq[ch]) - 1 /\ Len(sq[ch]) >= 1
      /\ \A i \in 1 .. Len(sq'[ch]) : sq'[ch][i] = sq[ch][i + 1]
  BY HeadTailProperties, HeadIsNext DEF TypeOK
<1>2. Confirmed(ch)' = Confirmed(ch) + 1
  BY <1>1, Lengths DEF Confirmed
<1>3. ASSUME NEW i \in 1 .. Len(sq'[ch])
      PROVE  /\ sq'[ch][i].data = Confirmed(ch) + 1 + i
             /\ sq'[ch][i].seq = Isn + (Confirmed(ch) + 1) + i - 1
  <2>1. i \in Nat /\ i + 1 \in 1 .. Len(sq[ch])
    BY <1>1, Lengths
  <2>2. /\ sq[ch][i + 1].data = Confirmed(ch) + (i + 1)
        /\ sq[ch][i + 1].seq = Isn + Confirmed(ch) + (i + 1) - 1
    BY <2>1 DEF SenderOrder
  <2>3. Confirmed(ch) + (i + 1) = Confirmed(ch) + 1 + i
    BY <2>1, Lengths
  <2>4. Isn + Confirmed(ch) + (i + 1) - 1 = Isn + (Confirmed(ch) + 1) + i - 1
    BY <2>1, Lengths, Constants
  <2> QED  BY <1>1, <2>2, <2>3, <2>4
<1>4. Len(sq'[ch]) <= accepted'[ch] /\ seq'[ch] = Isn + accepted'[ch]
  BY <1>1, Lengths DEF SenderOrder
<1> QED  BY <1>2, <1>3, <1>4 DEF SenderOrder

\* A retransmission changes only the count of transmissions.
LEMMA HeadResent ==
  ASSUME TypeOK, NEW ch \in Channels, SenderOrder(ch), sq[ch] # << >>,
         sq'[ch] = [sq[ch] EXCEPT ![1] = Retried(Head(sq[ch]))],
         seq'[ch] = seq[ch], accepted'[ch] = accepted[ch]
  PROVE  SenderOrder(ch)' /\ Confirmed(ch)' = Confirmed(ch)
<1> DEFINE pkt == Head(sq[ch])
<1>1. /\ Retried(pkt) \in Queued
      /\ Retried(pkt).seq = sq[ch][1].seq /\ Retried(pkt).data = sq[ch][1].data
  BY HeadIsNext, RetriedType
<1>2. /\ Len(sq'[ch]) = Len(sq[ch])
      /\ \A i \in 1 .. Len(sq[ch]) :
           sq'[ch][i] = IF i = 1 THEN Retried(pkt) ELSE sq[ch][i]
  BY <1>1, HeadIsNext, ExceptSeq, Lengths DEF TypeOK
<1>3. Confirmed(ch)' = Confirmed(ch)
  BY <1>2 DEF Confirmed
<1>4. ASSUME NEW i \in 1 .. Len(sq[ch])
      PROVE  /\ sq'[ch][i].data = sq[ch][i].data
             /\ sq'[ch][i].seq = sq[ch][i].seq
  BY <1>1, <1>2
<1> HIDE DEF pkt
<1> QED  BY <1>2, <1>3, <1>4 DEF SenderOrder

\* glb_tick sends the head of s_queue; an unreliable packet leaves with it.
LEMMA TransmitOrder ==
  ASSUME TypeOK, TypeOK', Order, NEW ch \in Channels, NEW lost \in BOOLEAN,
         Transmit(ch, lost)
  PROVE  Order'
<1>0. PICK out : out = [ch |-> ch, seq |-> Head(sq[ch]).seq,
                        data |-> Head(sq[ch]).data, from |-> saddr]
  OBVIOUS
<1>1. /\ sq[ch] # << >> /\ datas' \subseteq datas \cup {out}
      /\ UNCHANGED <<seq, accepted, ack, rq, got, acks>>
  BY <1>0 DEF Transmit, Ready, Sent
<1>2. SenderOrder(ch)
  BY DEF Order
<1>3. /\ SenderOrder(ch)'
      /\ Confirmed(ch)' \in {Confirmed(ch), Confirmed(ch) + 1}
      /\ ch \in Reliable => Confirmed(ch)' = Confirmed(ch)
  <2>1. CASE ch \notin Reliable
    <3>1. sq'[ch] = Tail(sq[ch])
      BY <2>1 DEF Transmit, Ready, TypeOK
    <3> QED  BY <1>1, <1>2, <2>1, <3>1, HeadLeaves
  <2>2. CASE ch \in Reliable
    <3>1. sq'[ch] = [sq[ch] EXCEPT ![1] = Retried(Head(sq[ch]))]
      BY <2>2 DEF Transmit, Ready, TypeOK
    <3> QED  BY <1>1, <1>2, <2>2, <3>1, HeadResent
  <2> QED  BY <2>1, <2>2
<1>4. ASSUME NEW c \in Channels, c # ch PROVE sq'[c] = sq[c]
  BY <1>4 DEF Transmit, Ready, TypeOK
<1>5. ASSUME NEW c \in Channels
      PROVE  /\ SenderOrder(c)'
             /\ Confirmed(c)' \in Int /\ Confirmed(c)' >= Confirmed(c)
             /\ c \in Reliable => Confirmed(c)' = Confirmed(c)
  <2>1. CASE c = ch
    BY <1>3, <2>1, Lengths
  <2>2. CASE c # ch
    <3>1. SenderOrder(c)' /\ Confirmed(c)' = Confirmed(c)
      BY <1>1, <1>4, <2>2, SenderKept DEF Order
    <3> QED  BY <3>1, Lengths
  <2> QED  BY <2>1, <2>2
<1>6. /\ out.ch = ch /\ out.seq = Isn + Confirmed(ch)
      /\ out.data = Confirmed(ch) + 1 /\ Confirmed(ch) + 1 <= accepted[ch]
  BY <1>0, <1>1, <1>2, HeadIsNext
<1>7. DataOrder(out)'
  <2>1. out.seq = Isn + out.data - 1
    BY <1>6, Lengths, Constants
  <2>2. out.data <= accepted'[ch]
    BY <1>1, <1>6
  <2>3. ch \in Reliable => out.data <= Confirmed(ch)' + 1
    <3> SUFFICES ASSUME ch \in Reliable PROVE out.data <= Confirmed(ch)' + 1
      OBVIOUS
    <3>1. Confirmed(ch)' = Confirmed(ch)
      BY <1>3
    <3> QED  BY <1>6, <3>1, Lengths
  <2> QED  BY <1>6, <2>1, <2>2, <2>3 DEF DataOrder
<1>8. ASSUME NEW m \in datas' PROVE DataOrder(m)'
  <2>1. CASE m \in datas
    <3>1. m.ch \in Channels /\ DataOrder(m)
      BY <2>1, PacketTypes DEF Order
    <3>2. accepted[m.ch] \in Nat /\ accepted' = accepted
      BY <1>1, <3>1, Lengths
    <3> QED  BY <1>5, <2>1, <3>1, <3>2, DataKept
  <2>2. CASE m = out
    BY <1>7, <2>2
  <2> QED  BY <1>1, <2>1, <2>2
<1>9. ASSUME NEW m \in acks' PROVE AckOrder(m)'
  BY <1>1 DEF Order, AckOrder
<1>10. ASSUME NEW c \in Reliable PROVE ReceiverOrder(c)'
  <2>1. c \in Channels /\ accepted[c] \in Nat
    BY CountType, Lengths
  <2> QED  BY <1>1, <1>5, <2>1, ReceiverKept DEF Order
<1> QED  BY <1>5, <1>8, <1>9, <1>10 DEF Order

\* A DATA-ACK names a message the receiver has: the head of s_queue, which
\* leaves, or one that left before.
LEMMA ReceiveAckOrder ==
  ASSUME TypeOK, TypeOK', Order, NEW m \in acks, NEW keep \in BOOLEAN,
         ReceiveAck(m, keep)
  PROVE  Order'
<1>1. /\ m.ch \in Reliable /\ m.ch \in Channels /\ m.ack \in Nat
      /\ m.ack < ack[m.ch]
  BY PacketTypes DEF Order, AckOrder
<1>2. /\ UNCHANGED <<seq, accepted, ack, rq, got, datas>> /\ acks' \subseteq acks
  BY DEF ReceiveAck, Consume
<1>3. ASSUME NEW n \in acks' PROVE AckOrder(n)'
  BY <1>2 DEF Order, AckOrder
<1>4. CASE sq' = sq
  <2>1. ASSUME NEW c \in Channels
        PROVE  SenderOrder(c)' /\ Confirmed(c)' = Confirmed(c)
    BY <1>2, <1>4, SenderKept DEF Order
  <2>2. ASSUME NEW n \in datas' PROVE DataOrder(n)'
    <3>1. n \in datas /\ n.ch \in Channels /\ DataOrder(n)
      BY <1>2, PacketTypes DEF Order
    <3>2. accepted[n.ch] \in Nat /\ Confirmed(n.ch) \in Int
      BY <3>1, Lengths
    <3> QED  BY <1>2, <2>1, <3>1, <3>2, DataKept
  <2>3. ASSUME NEW c \in Reliable PROVE ReceiverOrder(c)'
    <3>1. c \in Channels /\ accepted[c] \in Nat
      BY CountType, Lengths
    <3> QED  BY <1>2, <2>1, <3>1, ReceiverKept DEF Order
  <2> QED  BY <1>3, <2>1, <2>2, <2>3 DEF Order
<1>5. CASE sq' # sq
  <2> DEFINE ch == m.ch
  <2>1. /\ sq[ch] # << >> /\ m.ack = Head(sq[ch]).seq
        /\ sq' = [sq EXCEPT ![ch] = Tail(@)]
    BY <1>5 DEF ReceiveAck, Acknowledges
  <2> HIDE DEF ch
  <2>2. ch \in Channels /\ ch \in Reliable /\ SenderOrder(ch) /\ ReceiverOrder(ch)
    BY <1>1 DEF Order, ch
  <2>3. sq'[ch] = Tail(sq[ch]) /\ \A c \in Channels : c # ch => sq'[c] = sq[c]
    BY <2>1, <2>2 DEF TypeOK
  <2>4. SenderOrder(ch)' /\ Confirmed(ch)' = Confirmed(ch) + 1
    BY <1>2, <2>1, <2>2, <2>3, HeadLeaves
  <2>5. ASSUME NEW c \in Channels, c # ch
        PROVE  SenderOrder(c)' /\ Confirmed(c)' = Confirmed(c)
    BY <1>2, <2>3, <2>5, SenderKept DEF Order
  <2>6. ASSUME NEW c \in Channels
        PROVE  /\ SenderOrder(c)'
               /\ Confirmed(c)' \in Int /\ Confirmed(c)' >= Confirmed(c)
    <3>1. CASE c = ch
      BY <2>4, <3>1, Lengths
    <3>2. CASE c # ch
      BY <2>5, <3>2, Lengths
    <3> QED  BY <3>1, <3>2
  <2>7. ASSUME NEW n \in datas' PROVE DataOrder(n)'
    <3>1. n \in datas /\ n.ch \in Channels /\ DataOrder(n)
      BY <1>2, PacketTypes DEF Order
    <3>2. accepted[n.ch] \in Nat /\ accepted'[n.ch] = accepted[n.ch]
      BY <1>2, <3>1, Lengths
    <3> QED  BY <2>6, <3>1, <3>2, DataKept
  <2>8. ReceiverOrder(ch)'
    <3>1. Confirmed(ch) < Count(ch)
      <4>1. m.ack = Isn + Confirmed(ch)
        BY <2>1, <2>2, HeadIsNext
      <4>2. m.ack < Isn + Count(ch)
        BY <1>1, <2>2 DEF ReceiverOrder, ch
      <4>3. Isn \in Nat /\ Confirmed(ch) \in Int /\ Count(ch) \in Nat
        BY <2>2, Lengths, CountType, Constants
      <4> QED  BY <4>1, <4>2, <4>3
    <3>2. Count(ch) = Confirmed(ch) + 1
      BY <2>2, <3>1, Lengths, CountType DEF ReceiverOrder
    <3>3. Count(ch)' = Count(ch)
      BY <1>2 DEF Count
    <3>4. Count(ch)' \in Confirmed(ch)' .. Confirmed(ch)' + 1
      BY <2>2, <2>4, <3>2, <3>3, Lengths
    <3> QED  BY <1>2, <2>2, <3>3, <3>4 DEF ReceiverOrder
  <2>9. ASSUME NEW c \in Reliable PROVE ReceiverOrder(c)'
    <3>1. CASE c = ch
      BY <2>8, <3>1
    <3>2. CASE c # ch
      <4>1. c \in Channels /\ accepted[c] \in Nat
        BY CountType, Lengths
      <4> QED  BY <1>2, <2>5, <3>2, <4>1, ReceiverKept DEF Order
    <3> QED  BY <3>1, <3>2
  <2> QED  BY <1>3, <2>6, <2>7, <2>9 DEF Order
<1> QED  BY <1>4, <1>5

-----------------------------------------------------------------------------
(***************************************************************************)
(* The receiver's steps.                                                   *)
(***************************************************************************)

\* Steps that leave the sender, r_queue and ack alone, and put no new DATA
\* packet on the path.
LEMMA QuietOrder ==
  ASSUME TypeOK, Order, UNCHANGED <<seq, sq, accepted, ack, rq, got>>,
         datas' \subseteq datas, \A m \in acks' : AckOrder(m)
  PROVE  Order'
<1>1. ASSUME NEW c \in Channels
      PROVE  SenderOrder(c)' /\ Confirmed(c)' = Confirmed(c)
  BY <1>1, SenderKept DEF Order
<1>2. ASSUME NEW m \in datas' PROVE DataOrder(m)'
  <2>1. m \in datas /\ m.ch \in Channels /\ DataOrder(m)
    BY PacketTypes DEF Order
  <2>2. accepted[m.ch] \in Nat /\ Confirmed(m.ch) \in Int
    BY <2>1, Lengths
  <2> QED  BY <1>1, <2>1, <2>2, DataKept
<1>3. ASSUME NEW m \in acks' PROVE AckOrder(m)'
  BY <1>3 DEF AckOrder
<1>4. ASSUME NEW c \in Reliable PROVE ReceiverOrder(c)'
  <2>1. c \in Channels /\ accepted[c] \in Nat
    BY CountType, Lengths
  <2> QED  BY <1>1, <2>1, ReceiverKept DEF Order
<1> QED  BY <1>1, <1>2, <1>3, <1>4 DEF Order

\* A repetition is answered only when its message was received.
LEMMA RepeatOrder ==
  ASSUME TypeOK, Order, NEW m \in datas, NEW keep, NEW lost \in BOOLEAN,
         ReceiveData(m, keep, lost), Drop(m) \/ Repeat(m, lost)
  PROVE  Order'
<1>1. UNCHANGED <<seq, sq, accepted, ack, rq, got>> /\ datas' \subseteq datas
  BY DEF ReceiveData, Drop, Repeat, Consume
<1>2. CASE Drop(m)
  BY <1>1, <1>2, QuietOrder DEF Drop, Order
<1>3. CASE Repeat(m, lost)
  <2>1. m.ch \in Reliable /\ m.seq < ack[m.ch]
    BY <1>3 DEF Repeat, Old
  <2>2. PICK out : out = [ch |-> m.ch, ack |-> m.seq, to |-> peer]
    OBVIOUS
  <2>3. acks' \subseteq acks \cup {out}
    BY <1>3, <2>2 DEF Repeat, ReAck, Answered, Sent
  <2>4. AckOrder(out)
    BY <2>1, <2>2 DEF AckOrder
  <2>5. \A n \in acks' : AckOrder(n)
    BY <2>3, <2>4 DEF Order
  <2> QED  BY <1>1, <2>5, QuietOrder
<1> QED  BY <1>2, <1>3

\* The packet a reliable channel accepts carries the next message.
LEMMA ArriveNext ==
  ASSUME TypeOK, NoWrap, Order, NEW m \in datas, m.ch \in Reliable,
         ~Old(m), ~Future(m)
  PROVE  /\ m.seq = ack[m.ch] /\ NextSeq(ack[m.ch]) = ack[m.ch] + 1
         /\ m.data = Count(m.ch) + 1
         /\ m.data <= accepted[m.ch] /\ m.data <= Confirmed(m.ch) + 1
<1>1. /\ m.ch \in Channels /\ m.seq \in Nat /\ m.data \in Nat
      /\ ack[m.ch] \in Nat /\ accepted[m.ch] \in Nat /\ accepted[m.ch] <= MaxSend
      /\ Count(m.ch) \in Nat
  BY PacketTypes, Lengths, CountType
<1>2. m.seq = ack[m.ch]
  BY <1>1 DEF Old, Future
<1>3. /\ m.seq = Isn + m.data - 1 /\ m.data <= accepted[m.ch]
      /\ m.data <= Confirmed(m.ch) + 1
  BY DEF Order, DataOrder
<1>4. ack[m.ch] = Isn + Count(m.ch)
  BY DEF Order, ReceiverOrder
<1>5. m.data = Count(m.ch) + 1
  <2>1. \A i, d, k \in Nat : i + d - 1 = i + k => d = k + 1
    OBVIOUS
  <2>2. Isn + m.data - 1 = Isn + Count(m.ch)
    BY <1>2, <1>3, <1>4
  <2>3. Isn \in Nat /\ m.data \in Nat /\ Count(m.ch) \in Nat
    BY <1>1, Constants
  <2> QED  BY <2>1, <2>2, <2>3, Zenon
<1>6. ack[m.ch] + 1 < SeqMod
  BY <1>1, <1>3, <1>4, <1>5, Constants DEF NoWrap
<1> QED  BY <1>1, <1>2, <1>3, <1>5, <1>6, NextSeqNoWrap

LEMMA ArriveOrder ==
  ASSUME TypeOK, TypeOK', Attentive, NoWrap, Room, Order,
         NEW m \in datas, NEW keep, NEW lost \in BOOLEAN,
         ReceiveData(m, keep, lost), Arrive(m, lost)
  PROVE  Order'
<1>0. PICK out : out = [ch |-> m.ch, ack |-> m.seq, to |-> m.from]
  OBVIOUS
<1>1. /\ UNCHANGED <<seq, sq, accepted, got>> /\ datas' \subseteq datas
      /\ budget > 0 /\ m \in DataPkt /\ m.ch \in Channels
      /\ acks' \subseteq IF m.ch \in Reliable THEN acks \cup {out} ELSE acks
      /\ ack'[m.ch] = NextSeq(ack[m.ch])
  BY <1>0, PacketTypes
     DEF ReceiveData, Arrive, Consume, Answered, Sent, TypeOK
<1>2. rq' = [rq EXCEPT ![m.ch] = Append(@, m.data)]
  BY <1>1, ArriveAdds
<1>3. ASSUME NEW c \in Channels, c # m.ch PROVE ack'[c] = ack[c] /\ rq'[c] = rq[c]
  BY <1>2, <1>3 DEF Arrive, TypeOK
<1>4. ASSUME NEW c \in Channels
      PROVE  SenderOrder(c)' /\ Confirmed(c)' = Confirmed(c)
  BY <1>1, SenderKept DEF Order
<1>5. ASSUME NEW n \in datas' PROVE DataOrder(n)'
  <2>1. n \in datas /\ n.ch \in Channels /\ DataOrder(n)
    BY <1>1, PacketTypes DEF Order
  <2>2. accepted[n.ch] \in Nat /\ Confirmed(n.ch) \in Int
    BY <2>1, Lengths
  <2> QED  BY <1>1, <1>4, <2>1, <2>2, DataKept
<1>6. ASSUME NEW n \in acks' PROVE AckOrder(n)'
  <2>1. CASE n \in acks
    <3>1. n.ch \in Reliable /\ n.ch \in Channels /\ n.ack \in Nat
          /\ n.ack < ack[n.ch]
      BY <2>1, PacketTypes DEF Order, AckOrder
    <3>2. ack'[n.ch] >= ack[n.ch] /\ ack'[n.ch] \in Nat /\ ack[n.ch] \in Nat
      <4>1. CASE n.ch = m.ch
        <5>1. ack'[n.ch] = ack[n.ch] + 1
          BY <1>1, <3>1, <4>1, ArriveNext DEF Arrive
        <5> QED  BY <3>1, <5>1, Lengths
      <4>2. CASE n.ch # m.ch
        BY <1>3, <3>1, <4>2, Lengths
      <4> QED  BY <4>1, <4>2
    <3> QED  BY <3>1, <3>2 DEF AckOrder
  <2>2. CASE n = out /\ m.ch \in Reliable
    <3>1. n.ch = m.ch /\ n.ack = ack[m.ch] /\ ack'[m.ch] = ack[m.ch] + 1
      BY <1>0, <1>1, <2>2, ArriveNext DEF Arrive
    <3> QED  BY <1>1, <2>2, <3>1, Lengths DEF AckOrder
  <2> QED  BY <1>1, <2>1, <2>2
<1>7. ASSUME m.ch \in Reliable PROVE ReceiverOrder(m.ch)'
  <2>0. PICK ch : ch = m.ch
    OBVIOUS
  <2>1. /\ ack[ch] \in Nat /\ NextSeq(ack[ch]) = ack[ch] + 1
        /\ m.data = Count(ch) + 1 /\ m.data <= accepted[ch]
        /\ m.data <= Confirmed(ch) + 1
    BY <1>1, <1>7, <2>0, ArriveNext, Lengths DEF Arrive
  <2>2. /\ rq'[ch] = Append(rq[ch], m.data) /\ rq[ch] \in Seq(1 .. MaxSend)
        /\ m.data \in 1 .. MaxSend
    BY <1>1, <1>2, <2>0, PacketTypes DEF TypeOK
  <2>3. /\ Len(rq'[ch]) = Len(rq[ch]) + 1 /\ rq'[ch][Len(rq[ch]) + 1] = m.data
        /\ \A i \in 1 .. Len(rq[ch]) : rq'[ch][i] = rq[ch][i]
    BY <2>2, AppendProperties
  <2>4. ch \in Reliable /\ ch \in Channels /\ ReceiverOrder(ch)
    BY <1>1, <1>7, <2>0 DEF Order
  <2>5. /\ Len(got[ch]) \in Nat /\ Len(rq[ch]) \in Nat /\ Count(ch) \in Nat
        /\ Confirmed(ch) \in Int /\ accepted[ch] \in Nat
    BY <2>4, CountType, Lengths
  <2>6. Count(ch)' = Count(ch) + 1
    <3>1. Count(ch)' = Len(got[ch]) + (Len(rq[ch]) + 1)
      BY <1>1, <2>3 DEF Count
    <3>2. Count(ch) = Len(got[ch]) + Len(rq[ch])
      BY DEF Count
    <3>3. \A a, b \in Nat : a + (b + 1) = (a + b) + 1
      OBVIOUS
    <3> QED  BY <2>5, <3>1, <3>2, <3>3, Zenon
  <2>7. ack'[ch] = Isn + Count(ch)'
    <3>1. ack'[ch] = ack[ch] + 1 /\ ack[ch] = Isn + Count(ch)
      BY <1>1, <2>0, <2>1, <2>4 DEF ReceiverOrder
    <3> QED  BY <2>5, <2>6, <3>1, Constants
  <2>8. Count(ch)' \in Confirmed(ch)' .. Confirmed(ch)' + 1
    <3>1. Confirmed(ch)' = Confirmed(ch)
      BY <1>4, <2>4
    <3>2. Confirmed(ch) <= Count(ch)
      BY <2>4, <2>5 DEF ReceiverOrder
    <3> QED  BY <2>1, <2>5, <2>6, <3>1, <3>2
  <2>9. Count(ch)' <= accepted'[ch]
    BY <1>1, <2>1, <2>6
  <2>10. ASSUME NEW i \in 1 .. Len(rq'[ch]) PROVE rq'[ch][i] = Len(got[ch]) + i
    <3>1. CASE i = Len(rq[ch]) + 1
      <4>1. rq'[ch][i] = (Len(got[ch]) + Len(rq[ch])) + 1
        BY <2>1, <2>3, <3>1 DEF Count
      <4>2. \A a, b \in Nat : (a + b) + 1 = a + (b + 1)
        OBVIOUS
      <4> QED  BY <2>5, <3>1, <4>1, <4>2, Zenon
    <3>2. CASE i # Len(rq[ch]) + 1
      <4>1. i \in 1 .. Len(rq[ch])
        BY <2>3, <2>5, <3>2
      <4> QED  BY <2>3, <2>4, <4>1 DEF ReceiverOrder
    <3> QED  BY <3>1, <3>2
  <2>11. \A i \in 1 .. Len(got[ch]) : got'[ch][i] = i
    BY <1>1, <2>4 DEF ReceiverOrder
  <2>12. ReceiverOrder(ch)'
    BY <1>1, <2>7, <2>8, <2>9, <2>10, <2>11 DEF ReceiverOrder
  <2> QED  BY <2>0, <2>12
<1>8. ASSUME NEW c \in Reliable PROVE ReceiverOrder(c)'
  <2>1. CASE c = m.ch
    BY <1>7, <2>1
  <2>2. CASE c # m.ch
    <3>1. c \in Channels /\ accepted[c] \in Nat
      BY CountType, Lengths
    <3> QED  BY <1>1, <1>3, <1>4, <2>2, <3>1, ReceiverKept DEF Order
  <2> QED  BY <2>1, <2>2
<1> QED  BY <1>4, <1>5, <1>6, <1>8 DEF Order

\* glb_popdata moves the head of r_queue to the application.
LEMMA PollOrder ==
  ASSUME TypeOK, TypeOK', Order, Poll
  PROVE  Order'
<1>1. UNCHANGED <<seq, sq, accepted, ack, datas, acks>>
  BY DEF Poll
<1>2. CASE UNCHANGED <<got, rq>>
  BY <1>1, <1>2, QuietOrder DEF Order
<1>3. ASSUME NEW ch \in Channels, rq[ch] # << >>,
             got' = IF ch \in Reliable
                    THEN [got EXCEPT ![ch] = Append(@, Head(rq[ch]))] ELSE got,
             rq' = [rq EXCEPT ![ch] = Tail(@)]
      PROVE  Order'
  <2>1. ASSUME NEW c \in Channels
        PROVE  SenderOrder(c)' /\ Confirmed(c)' = Confirmed(c)
    BY <1>1, SenderKept DEF Order
  <2>2. ASSUME NEW m \in datas' PROVE DataOrder(m)'
    <3>1. m \in datas /\ m.ch \in Channels /\ DataOrder(m)
      BY <1>1, PacketTypes DEF Order
    <3>2. accepted[m.ch] \in Nat /\ Confirmed(m.ch) \in Int
      BY <3>1, Lengths
    <3> QED  BY <1>1, <2>1, <3>1, <3>2, DataKept
  <2>3. ASSUME NEW m \in acks' PROVE AckOrder(m)'
    BY <1>1 DEF Order, AckOrder
  <2>4. ASSUME NEW c \in Reliable, c # ch PROVE ReceiverOrder(c)'
    <3>1. c \in Channels /\ accepted[c] \in Nat
      BY CountType, Lengths
    <3>2. rq'[c] = rq[c] /\ got'[c] = got[c]
      BY <1>3, <2>4, <3>1 DEF TypeOK
    <3> QED  BY <1>1, <2>1, <3>1, <3>2, ReceiverKept DEF Order
  <2>5. ASSUME ch \in Reliable PROVE ReceiverOrder(ch)'
    <3>1. /\ rq'[ch] = Tail(rq[ch]) /\ got'[ch] = Append(got[ch], Head(rq[ch]))
          /\ rq[ch] \in Seq(1 .. MaxSend) /\ got[ch] \in Seq(1 .. MaxSend)
      BY <1>3, <2>5 DEF TypeOK
    <3>2. /\ Head(rq[ch]) = rq[ch][1] /\ Head(rq[ch]) \in 1 .. MaxSend
          /\ Len(rq'[ch]) = Len(rq[ch]) - 1
          /\ \A i \in 1 .. Len(rq'[ch]) : rq'[ch][i] = rq[ch][i + 1]
      <4>1. rq[ch] \in Seq(1 .. MaxSend) /\ rq[ch] # << >>
        BY <1>3, <3>1
      <4>2. /\ Head(rq[ch]) = rq[ch][1] /\ Head(rq[ch]) \in 1 .. MaxSend
            /\ Len(Tail(rq[ch])) = Len(rq[ch]) - 1
            /\ \A i \in 1 .. Len(Tail(rq[ch])) : Tail(rq[ch])[i] = rq[ch][i + 1]
        BY <4>1, HeadAndTail, Zenon
      <4>3. rq'[ch] = Tail(rq[ch])
        BY <3>1
      <4> QED  BY <4>2, <4>3, Zenon
    <3>0. Len(rq[ch]) >= 1
      BY <1>3, <3>1, EmptySeq, LenProperties
    <3>3. /\ Len(got'[ch]) = Len(got[ch]) + 1
          /\ got'[ch][Len(got[ch]) + 1] = rq[ch][1]
          /\ \A i \in 1 .. Len(got[ch]) : got'[ch][i] = got[ch][i]
      BY <3>1, <3>2, AppendProperties
    <3>4. /\ Len(got[ch]) \in Nat /\ Len(rq[ch]) \in Nat /\ Count(ch) \in Nat
          /\ Count(ch) = Len(got[ch]) + Len(rq[ch])
      BY <2>5, CountType
    <3>5. ReceiverOrder(ch)
      BY <2>5 DEF Order
    <3>6. Count(ch)' = Count(ch)
      <4>1. Count(ch)' = Len(got'[ch]) + Len(rq'[ch])
        BY DEF Count
      <4>2. Count(ch)' = (Len(got[ch]) + 1) + (Len(rq[ch]) - 1)
        BY <3>2, <3>3, <4>1
      <4>3. \A a, b \in Nat : (a + 1) + (b - 1) = a + b
        OBVIOUS
      <4> QED  BY <3>4, <4>2, <4>3
    <3>7. ASSUME NEW i \in 1 .. Len(got'[ch]) PROVE got'[ch][i] = i
      <4>1. CASE i = Len(got[ch]) + 1
        <5>1. rq[ch][1] = Len(got[ch]) + 1
          BY <3>0, <3>4, <3>5 DEF ReceiverOrder
        <5> QED  BY <3>3, <4>1, <5>1
      <4>2. CASE i # Len(got[ch]) + 1
        <5>1. i \in 1 .. Len(got[ch])
          BY <3>3, <3>4, <4>2
        <5> QED  BY <3>3, <3>5, <5>1 DEF ReceiverOrder
      <4> QED  BY <4>1, <4>2
    <3>8. ASSUME NEW i \in 1 .. Len(rq'[ch]) PROVE rq'[ch][i] = Len(got'[ch]) + i
      <4>1. i \in Nat /\ i + 1 \in 1 .. Len(rq[ch])
        BY <3>2, <3>4
      <4>2. rq[ch][i + 1] = Len(got[ch]) + (i + 1)
        BY <3>5, <4>1 DEF ReceiverOrder
      <4>3. Len(got[ch]) + (i + 1) = Len(got'[ch]) + i
        <5>1. \A a, b \in Nat : a + (b + 1) = (a + 1) + b
          OBVIOUS
        <5> QED  BY <3>3, <3>4, <4>1, <5>1
      <4> QED  BY <3>2, <4>2, <4>3
    <3> QED  BY <1>1, <2>1, <3>5, <3>6, <3>7, <3>8 DEF ReceiverOrder
  <2> QED  BY <2>1, <2>2, <2>3, <2>4, <2>5 DEF Order
<1> QED  BY <1>2, <1>3 DEF Poll

LEMMA OrderNext ==
  ASSUME TypeOK, Attentive, NoWrap, Room, Order, [Next]_vars
  PROVE  Order'
<1>0. TypeOK'
  BY NextType
<1>1. ASSUME NEW ch \in Channels, Send(ch) PROVE Order'
  BY <1>0, <1>1, SendOrder
<1>2. ASSUME NEW ch \in Channels, NEW lost \in BOOLEAN, Transmit(ch, lost)
      PROVE  Order'
  BY <1>0, <1>2, TransmitOrder
<1>3. ASSUME NEW m \in datas, NEW keep \in BOOLEAN, NEW lost \in BOOLEAN,
             ReceiveData(m, keep, lost)
      PROVE  Order'
  <2>1. CASE Drop(m) \/ Repeat(m, lost)
    BY <1>3, <2>1, RepeatOrder
  <2>2. CASE Arrive(m, lost)
    BY <1>0, <1>3, <2>2, ArriveOrder
  <2> QED  BY <1>3, <2>1, <2>2 DEF ReceiveData
<1>4. ASSUME NEW m \in acks, NEW keep \in BOOLEAN, ReceiveAck(m, keep)
      PROVE  Order'
  BY <1>0, <1>4, ReceiveAckOrder
<1>5. CASE Poll
  BY <1>0, <1>5, PollOrder
<1>6. CASE SenderPoll \/ StartTick \/ EndReceive \/ Rebind \/ UNCHANGED vars
  <2>1. UNCHANGED <<seq, sq, accepted, ack, rq, got, datas, acks>>
    BY <1>6 DEF SenderPoll, StartTick, EndReceive, Rebind, vars
  <2> QED  BY <2>1, QuietOrder DEF Order
<1> QED  BY <1>1, <1>2, <1>3, <1>4, <1>5, <1>6 DEF Next

(***************************************************************************)
(* While no sequence number is reused and the application keeps up with    *)
(* the ticks, s_queue holds exactly the accepted messages that are not     *)
(* confirmed, and what the receiver has is an unbroken prefix of what was  *)
(* accepted, at most one message ahead of what the sender knows.           *)
(***************************************************************************)
THEOREM InOrder ==
  ASSUME Attentive, NoWrap
  PROVE  Spec => []Order
<1>1. TypeOK /\ Room /\ Order /\ [Next]_vars => Order'
  BY OrderNext
<1>2. Spec => []Room
  BY NothingDropped
<1> QED  BY <1>1, <1>2, OrderInit, TypeCorrect, PTL DEF Spec

-----------------------------------------------------------------------------
(***************************************************************************)
(* What the receiver has is one sequence, from the application to r_queue. *)
(***************************************************************************)
LEMMA DeliveredType ==
  ASSUME TypeOK, NEW ch \in Reliable
  PROVE  /\ got[ch] \in Seq(1 .. MaxSend) /\ rq[ch] \in Seq(1 .. MaxSend)
         /\ Delivered(ch) \in Seq(1 .. MaxSend) /\ Len(Delivered(ch)) = Count(ch)
<1>1. got[ch] \in Seq(1 .. MaxSend) /\ rq[ch] \in Seq(1 .. MaxSend)
  BY CountType DEF TypeOK
<1> QED  BY <1>1, ConcatProperties DEF Delivered, Count

LEMMA OneAhead ==
  ASSUME TypeOK, Order
  PROVE  OneInFlight
<1> SUFFICES ASSUME NEW ch \in Reliable
             PROVE  /\ Len(Delivered(ch)) \in Confirmed(ch) .. Confirmed(ch) + 1
                    /\ \A i \in 1 .. Len(Delivered(ch)) : Delivered(ch)[i] = i
  BY DEF OneInFlight
<1>1. ReceiverOrder(ch)
  BY DEF Order
<1>2. Len(Delivered(ch)) = Count(ch)
  BY DeliveredType
<1>3. ASSUME NEW i \in 1 .. Len(got[ch]) + Len(rq[ch]) PROVE Delivered(ch)[i] = i
  <2>1. Delivered(ch)[i] = IF i <= Len(got[ch]) THEN got[ch][i]
                           ELSE rq[ch][i - Len(got[ch])]
    BY DeliveredType, ConcatProperties DEF Delivered
  <2>2. Len(got[ch]) \in Nat /\ Len(rq[ch]) \in Nat
    BY CountType
  <2>3. CASE i <= Len(got[ch])
    <3>1. i \in 1 .. Len(got[ch])
      BY <2>2, <2>3
    <3> QED  BY <1>1, <2>1, <2>3, <3>1 DEF ReceiverOrder
  <2>4. CASE ~(i <= Len(got[ch]))
    <3>0. \A a, b \in Nat : \A k \in 1 .. a + b : ~(k <= a) => k - a \in 1 .. b
      OBVIOUS
    <3>1. i - Len(got[ch]) \in 1 .. Len(rq[ch])
      BY <2>2, <2>4, <3>0, Zenon
    <3>2. rq[ch][i - Len(got[ch])] = Len(got[ch]) + (i - Len(got[ch]))
      BY <1>1, <3>1 DEF ReceiverOrder
    <3>3. Len(got[ch]) + (i - Len(got[ch])) = i
      BY <2>2
    <3> QED  BY <2>1, <2>4, <3>2, <3>3
  <2> QED  BY <2>3, <2>4
<1> QED  BY <1>1, <1>2, <1>3 DEF ReceiverOrder, Count

\* Polling moves the boundary inside it, an arrival extends it.
LEMMA MoveHead ==
  ASSUME NEW S, NEW s \in Seq(S), NEW t \in Seq(S), t # << >>
  PROVE  Append(s, Head(t)) \o Tail(t) = s \o t
<1>1. Head(t) \in S /\ Tail(t) \in Seq(S) /\ <<Head(t)>> \in Seq(S)
  BY HeadTailProperties
<1>2. Append(s, Head(t)) = s \o <<Head(t)>>
  BY <1>1, AppendIsConcat
<1>3. (s \o <<Head(t)>>) \o Tail(t) = s \o (<<Head(t)>> \o Tail(t))
  BY <1>1, ConcatAssociative
<1>4. <<Head(t)>> \o Tail(t) = t
  <2> DEFINE u == <<Head(t)>> \o Tail(t)
  <2>1. Len(<<Head(t)>>) = 1 /\ <<Head(t)>>[1] = t[1]
    BY HeadAndTail
  <2>2. /\ Len(t) \in Nat /\ Len(t) >= 1 /\ Len(Tail(t)) = Len(t) - 1
        /\ \A i \in 1 .. Len(Tail(t)) : Tail(t)[i] = t[i + 1]
    BY HeadAndTail, LenProperties, EmptySeq
  <2>3. /\ u \in Seq(S) /\ Len(u) = 1 + Len(Tail(t))
        /\ \A i \in 1 .. 1 + Len(Tail(t)) :
             u[i] = IF i <= 1 THEN t[1] ELSE Tail(t)[i - 1]
    BY <1>1, <2>1, ConcatProperties
  <2> HIDE DEF u
  <2>4. Len(u) = Len(t)
    BY <2>2, <2>3
  <2>5. ASSUME NEW i \in 1 .. Len(t) PROVE u[i] = t[i]
    <3>1. CASE i = 1
      BY <2>2, <2>3, <3>1
    <3>2. CASE i # 1
      <4>1. i - 1 \in 1 .. Len(Tail(t)) /\ i \in 1 .. 1 + Len(Tail(t))
        BY <2>2, <3>2
      <4>2. u[i] = Tail(t)[i - 1]
        BY <2>3, <3>2, <4>1
      <4>3. Tail(t)[i - 1] = t[(i - 1) + 1]
        BY <2>2, <4>1
      <4>4. (i - 1) + 1 = i
        BY <2>2
      <4> QED  BY <4>2, <4>3, <4>4, Zenon
    <3> QED  BY <3>1, <3>2
  <2>6. u = t
    BY <2>3, <2>4, <2>5, SeqEqual
  <2> QED  BY <2>6 DEF u
<1> QED  BY <1>2, <1>3, <1>4

LEMMA ExtendTail ==
  ASSUME NEW S, NEW s \in Seq(S), NEW t \in Seq(S), NEW e \in S
  PROVE  s \o Append(t, e) = Append(s \o t, e)
<1>1. <<e>> \in Seq(S) /\ s \o t \in Seq(S)
  BY ConcatProperties
<1>2. Append(t, e) = t \o <<e>> /\ Append(s \o t, e) = (s \o t) \o <<e>>
  BY <1>1, AppendIsConcat
<1> QED  BY <1>1, <1>2, ConcatAssociative

(***************************************************************************)
(* At most one message is delivered and not confirmed, and the messages    *)
(* are delivered in the order of their acceptance, without a gap.          *)
(***************************************************************************)
THEOREM StopAndWait ==
  ASSUME Attentive, NoWrap
  PROVE  Spec => []OneInFlight
BY InOrder, OneAhead, TypeCorrect, PTL

-----------------------------------------------------------------------------
(***************************************************************************)
(* The data path implements OrderedDelivery.                               *)
(***************************************************************************)
LEMMA InitDelivery == Init => Abstract!Init
<1> SUFFICES ASSUME Init PROVE Abstract!Init
  OBVIOUS
<1>1. ASSUME NEW ch \in Reliable
      PROVE  accepted[ch] = 0 /\ Confirmed(ch) = 0 /\ Delivered(ch) = << >>
  <2>1. ch \in Channels
    BY Constants
  <2>2. accepted[ch] = 0 /\ Len(sq[ch]) = 0
    BY <2>1, EmptySeq DEF Init
  <2>3. got[ch] = << >> /\ rq[ch] = << >>
    BY <2>1 DEF Init
  <2>4. << >> \o << >> = << >>
    BY ConcatEmptySeq, EmptySeq
  <2> QED  BY <2>2, <2>3, <2>4 DEF Confirmed, Delivered
<1> QED  BY <1>1 DEF Abstract!Init

LEMMA Stutters ==
  ASSUME \A c \in Reliable : /\ accepted'[c] = accepted[c]
                              /\ Delivered(c)' = Delivered(c)
                              /\ Confirmed(c)' = Confirmed(c)
  PROVE  UNCHANGED Abstract!vars
BY DEF Abstract!vars

LEMMA SendDelivery ==
  ASSUME TypeOK, NEW ch \in Channels, Send(ch)
  PROVE  Abstract!Next \/ UNCHANGED Abstract!vars
<1>1. /\ sq'[ch] = Append(sq[ch], [seq |-> seq[ch], data |-> accepted[ch] + 1,
                                  rtx |-> 0])
      /\ Len(sq[ch]) < QueueCap /\ accepted'[ch] = accepted[ch] + 1
      /\ accepted[ch] < MaxSend
      /\ UNCHANGED <<got, rq>>
  BY SendBound DEF Send, TypeOK, HasRoom
<1>2. ASSUME NEW c \in Channels, c # ch
      PROVE  accepted'[c] = accepted[c] /\ Confirmed(c)' = Confirmed(c)
  BY <1>2 DEF Send, TypeOK, Confirmed
<1>3. Len(sq'[ch]) = Len(sq[ch]) + 1
  <2>1. [seq |-> seq[ch], data |-> accepted[ch] + 1, rtx |-> 0] \in Queued
    BY <1>1, Constants DEF TypeOK, Queued
  <2> QED  BY <1>1, <2>1, AppendProperties DEF TypeOK
<1>4. Confirmed(ch)' = Confirmed(ch)
  BY <1>1, <1>3, Lengths DEF Confirmed
<1>5. \A c \in Reliable : Delivered(c)' = Delivered(c)
  BY <1>1 DEF Delivered
<1>6. CASE ch \in Reliable
  <2>1. Abstract!Accept(ch)
    <3>1. accepted[ch] - Confirmed(ch) < QueueCap
      BY <1>1, Lengths
    <3>2. [c \in Reliable |-> accepted'[c]]
            = [[c \in Reliable |-> accepted[c]] EXCEPT ![ch] = @ + 1]
      BY <1>1, <1>2, <1>6, Constants
    <3>3. /\ [c \in Reliable |-> Confirmed(c)'] = [c \in Reliable |-> Confirmed(c)]
          /\ [c \in Reliable |-> Delivered(c)'] = [c \in Reliable |-> Delivered(c)]
      BY <1>2, <1>4, <1>5, Constants
    <3> QED  BY <1>6, <3>1, <3>2, <3>3 DEF Abstract!Accept
  <2> QED  BY <1>6, <2>1 DEF Abstract!Next
<1>7. CASE ch \notin Reliable
  BY <1>2, <1>5, <1>7, Stutters, Constants
<1> QED  BY <1>6, <1>7

LEMMA TransmitDelivery ==
  ASSUME TypeOK, Order, NEW ch \in Channels, NEW lost \in BOOLEAN,
         Transmit(ch, lost)
  PROVE  UNCHANGED Abstract!vars
<1>1. UNCHANGED <<seq, accepted, got, rq>> /\ sq[ch] # << >>
  BY DEF Transmit, Ready
<1>2. ASSUME NEW c \in Reliable PROVE Confirmed(c)' = Confirmed(c)
  <2>1. c \in Channels
    BY Constants
  <2>2. CASE c = ch
    <3>1. sq'[ch] = [sq[ch] EXCEPT ![1] = Retried(Head(sq[ch]))]
      BY <2>2 DEF Transmit, Ready, TypeOK
    <3> QED  BY <1>1, <2>2, <3>1, HeadResent DEF Order
  <2>3. CASE c # ch
    BY <1>1, <2>1, <2>3 DEF Transmit, Ready, TypeOK, Confirmed
  <2> QED  BY <2>2, <2>3
<1> QED  BY <1>1, <1>2, Stutters DEF Delivered

LEMMA ReceiveAckDelivery ==
  ASSUME TypeOK, Order, NEW m \in acks, NEW keep \in BOOLEAN, ReceiveAck(m, keep)
  PROVE  Abstract!Next \/ UNCHANGED Abstract!vars
<1>1. UNCHANGED <<seq, accepted, ack, got, rq>>
  BY DEF ReceiveAck
<1>2. CASE sq' = sq
  BY <1>1, <1>2, Stutters DEF Delivered, Confirmed
<1>3. CASE sq' # sq
  <2>0. PICK ch : ch = m.ch
    OBVIOUS
  <2>1. /\ sq[ch] # << >> /\ m.ack = Head(sq[ch]).seq
        /\ sq' = [sq EXCEPT ![ch] = Tail(@)]
    BY <1>3, <2>0 DEF ReceiveAck, Acknowledges
  <2>2. /\ ch \in Channels /\ ch \in Reliable /\ SenderOrder(ch)
        /\ ReceiverOrder(ch) /\ m.ack < ack[ch]
    BY <2>0, PacketTypes DEF Order, AckOrder
  <2>3. sq'[ch] = Tail(sq[ch]) /\ \A c \in Channels : c # ch => sq'[c] = sq[c]
    BY <2>1, <2>2 DEF TypeOK
  <2>4. Confirmed(ch)' = Confirmed(ch) + 1
    BY <1>1, <2>1, <2>2, <2>3, HeadLeaves
  <2>5. ASSUME NEW c \in Reliable, c # ch PROVE Confirmed(c)' = Confirmed(c)
    BY <1>1, <2>3, <2>5, Constants DEF Confirmed
  <2>6. Confirmed(ch) < Len(Delivered(ch))
    <3>1. m.ack = Isn + Confirmed(ch)
      BY <2>1, <2>2, HeadIsNext
    <3>2. m.ack < Isn + Count(ch)
      BY <2>2 DEF ReceiverOrder
    <3>3. Isn \in Nat /\ Confirmed(ch) \in Int /\ Count(ch) \in Nat
      BY <2>2, Lengths, CountType, Constants
    <3>4. Confirmed(ch) < Count(ch)
      BY <3>1, <3>2, <3>3
    <3> QED  BY <2>2, <3>4, DeliveredType
  <2>7. [c \in Reliable |-> Confirmed(c)']
          = [[c \in Reliable |-> Confirmed(c)] EXCEPT ![ch] = @ + 1]
    BY <2>2, <2>4, <2>5
  <2>8. /\ [c \in Reliable |-> accepted'[c]] = [c \in Reliable |-> accepted[c]]
        /\ [c \in Reliable |-> Delivered(c)'] = [c \in Reliable |-> Delivered(c)]
    BY <1>1 DEF Delivered
  <2>9. Abstract!Confirm(ch)
    BY <2>2, <2>6, <2>7, <2>8 DEF Abstract!Confirm
  <2> QED  BY <2>2, <2>9 DEF Abstract!Next
<1> QED  BY <1>2, <1>3

LEMMA ReceiveDataDelivery ==
  ASSUME TypeOK, Attentive, NoWrap, Room, Order,
         NEW m \in datas, NEW keep \in BOOLEAN, NEW lost \in BOOLEAN,
         ReceiveData(m, keep, lost)
  PROVE  Abstract!Next \/ UNCHANGED Abstract!vars
<1>1. UNCHANGED <<sq, accepted, got>> /\ budget > 0 /\ m \in DataPkt
  BY PacketTypes DEF ReceiveData
<1>2. \A c \in Reliable : Confirmed(c)' = Confirmed(c)
  BY <1>1 DEF Confirmed
<1>3. CASE Drop(m) \/ Repeat(m, lost)
  <2>1. rq' = rq
    BY <1>3 DEF Drop, Repeat
  <2> QED  BY <1>1, <1>2, <2>1, Stutters DEF Delivered
<1>4. CASE Arrive(m, lost)
  <2>0. PICK ch : ch = m.ch
    OBVIOUS
  <2>1. rq' = [rq EXCEPT ![ch] = Append(@, m.data)] /\ ch \in Channels
        /\ m.data \in 1 .. MaxSend
    BY <1>1, <1>4, <2>0, ArriveAdds, PacketTypes
  <2>2. \A c \in Reliable : c # ch => Delivered(c)' = Delivered(c)
    BY <1>1, <2>1, Constants DEF Delivered, TypeOK
  <2>3. CASE ch \notin Reliable
    BY <1>1, <1>2, <2>2, <2>3, Stutters
  <2>4. CASE ch \in Reliable
    <3>1. m.data = Count(ch) + 1 /\ m.data <= accepted[ch]
      BY <1>4, <2>0, <2>4, ArriveNext DEF Arrive
    <3>2. Len(Delivered(ch)) = Count(ch) /\ Count(ch) \in Nat /\ accepted[ch] \in Nat
      BY <2>1, <2>4, DeliveredType, CountType, Lengths
    <3>3. Delivered(ch)' = Append(Delivered(ch), Len(Delivered(ch)) + 1)
      <4>1. rq'[ch] = Append(rq[ch], m.data) /\ got'[ch] = got[ch]
        BY <1>1, <2>1 DEF TypeOK
      <4>2. got[ch] \o Append(rq[ch], m.data) = Append(got[ch] \o rq[ch], m.data)
        <5>1. got[ch] \in Seq(1 .. MaxSend) /\ rq[ch] \in Seq(1 .. MaxSend)
          BY <2>4, DeliveredType
        <5>2. PICK s, t, e : s = got[ch] /\ t = rq[ch] /\ e = m.data
          OBVIOUS
        <5>3. PICK S : S = 1 .. MaxSend
          OBVIOUS
        <5>4. s \in Seq(S) /\ t \in Seq(S) /\ e \in S
          BY <2>1, <5>1, <5>2, <5>3
        <5>5. s \o Append(t, e) = Append(s \o t, e)
          BY <5>4, ExtendTail
        <5> QED  BY <5>2, <5>5, Zenon
      <4> QED  BY <3>1, <3>2, <4>1, <4>2, Zenon DEF Delivered
    <3>4. [c \in Reliable |-> Delivered(c)']
            = [[c \in Reliable |-> Delivered(c)] EXCEPT ![ch] = Append(@, Len(@) + 1)]
      BY <2>2, <2>4, <3>3
    <3>5. Len(Delivered(ch)) < accepted[ch]
      BY <3>1, <3>2
    <3>6. /\ [c \in Reliable |-> accepted'[c]] = [c \in Reliable |-> accepted[c]]
          /\ [c \in Reliable |-> Confirmed(c)'] = [c \in Reliable |-> Confirmed(c)]
      BY <1>1, <1>2
    <3>7. Abstract!Deliver(ch)
      BY <2>4, <3>4, <3>5, <3>6 DEF Abstract!Deliver
    <3> QED  BY <2>4, <3>7 DEF Abstract!Next
  <2> QED  BY <2>3, <2>4
<1> QED  BY <1>3, <1>4 DEF ReceiveData

LEMMA PollDelivery ==
  ASSUME TypeOK, Poll
  PROVE  UNCHANGED Abstract!vars
<1>1. UNCHANGED <<sq, accepted>>
  BY DEF Poll
<1>2. CASE UNCHANGED <<got, rq>>
  BY <1>1, <1>2, Stutters DEF Delivered, Confirmed
<1>3. ASSUME NEW ch \in Channels, rq[ch] # << >>,
             got' = IF ch \in Reliable
                    THEN [got EXCEPT ![ch] = Append(@, Head(rq[ch]))] ELSE got,
             rq' = [rq EXCEPT ![ch] = Tail(@)]
      PROVE  UNCHANGED Abstract!vars
  <2>1. ASSUME NEW c \in Reliable PROVE Delivered(c)' = Delivered(c)
    <3>1. c \in Channels
      BY Constants
    <3>2. CASE c = ch
      <4>1. rq'[c] = Tail(rq[c]) /\ got'[c] = Append(got[c], Head(rq[c]))
        BY <1>3, <3>2 DEF TypeOK
      <4>2. Append(got[c], Head(rq[c])) \o Tail(rq[c]) = got[c] \o rq[c]
        BY <1>3, <3>2, DeliveredType, MoveHead, Zenon
      <4> QED  BY <4>1, <4>2, Zenon DEF Delivered
    <3>3. CASE c # ch
      BY <1>3, <3>1, <3>3 DEF Delivered, TypeOK
    <3> QED  BY <3>2, <3>3
  <2> QED  BY <1>1, <2>1, Stutters DEF Confirmed
<1> QED  BY <1>2, <1>3 DEF Poll

LEMMA NextDelivery ==
  ASSUME TypeOK, Attentive, NoWrap, Room, Order, [Next]_vars
  PROVE  [Abstract!Next]_(Abstract!vars)
<1>1. ASSUME NEW ch \in Channels, Send(ch)
      PROVE  Abstract!Next \/ UNCHANGED Abstract!vars
  BY <1>1, SendDelivery
<1>2. ASSUME NEW ch \in Channels, NEW lost \in BOOLEAN, Transmit(ch, lost)
      PROVE  UNCHANGED Abstract!vars
  BY <1>2, TransmitDelivery
<1>3. ASSUME NEW m \in datas, NEW keep \in BOOLEAN, NEW lost \in BOOLEAN,
             ReceiveData(m, keep, lost)
      PROVE  Abstract!Next \/ UNCHANGED Abstract!vars
  BY <1>3, ReceiveDataDelivery
<1>4. ASSUME NEW m \in acks, NEW keep \in BOOLEAN, ReceiveAck(m, keep)
      PROVE  Abstract!Next \/ UNCHANGED Abstract!vars
  BY <1>4, ReceiveAckDelivery
<1>5. CASE Poll
  BY <1>5, PollDelivery
<1>6. CASE SenderPoll \/ StartTick \/ EndReceive \/ Rebind \/ UNCHANGED vars
  <2>1. UNCHANGED <<sq, accepted, rq, got>>
    BY <1>6 DEF SenderPoll, StartTick, EndReceive, Rebind, vars
  <2> QED  BY <2>1, Stutters DEF Delivered, Confirmed
<1>7. Abstract!Next \/ UNCHANGED Abstract!vars
  BY <1>1, <1>2, <1>3, <1>4, <1>5, <1>6 DEF Next
<1> QED  BY <1>7

(***************************************************************************)
(* Reliable channels deliver every message once and in order, whatever the *)
(* path loses, repeats or reorders and however often the sender's address  *)
(* changes, as long as no sequence number is reused and the receiving      *)
(* application keeps up.                                                   *)
(***************************************************************************)
THEOREM Delivery ==
  ASSUME Attentive, NoWrap
  PROVE  Spec => ImplementsDelivery
<1>1. TypeOK /\ Room /\ Order /\ [Next]_vars => [Abstract!Next]_(Abstract!vars)
  BY NextDelivery
<1>2. Spec => []Room /\ []Order
  BY NothingDropped, InOrder
<1> QED
  BY <1>1, <1>2, InitDelivery, TypeCorrect, PTL
     DEF Spec, ImplementsDelivery, Abstract!Spec

-----------------------------------------------------------------------------
(***************************************************************************)
(* With one reliable channel the receiver follows the sender's address.    *)
(* What a reliable channel still waits for was sent from where the         *)
(* receiver believes the sender is, or from a later address.               *)
(***************************************************************************)
Addressed ==
  /\ peer <= saddr
  /\ \A m \in datas :
       /\ m.from <= saddr
       /\ m.ch \in Reliable /\ m.seq >= ack[m.ch] => m.from >= peer

\* No reliable packet is ahead of what the receiver waits for.
LEMMA NoneAhead ==
  ASSUME TypeOK, Order, NEW m \in datas, m.ch \in Reliable
  PROVE  m.seq <= ack[m.ch]
<1>1. /\ m.ch \in Channels /\ m.data \in Nat /\ Count(m.ch) \in Nat
      /\ Confirmed(m.ch) \in Int /\ Isn \in Nat
  BY PacketTypes, Lengths, CountType, Constants
<1>2. m.seq = Isn + m.data - 1 /\ m.data <= Confirmed(m.ch) + 1
  BY DEF Order, DataOrder
<1>3. ack[m.ch] = Isn + Count(m.ch) /\ Confirmed(m.ch) <= Count(m.ch)
  BY <1>1 DEF Order, ReceiverOrder
<1> QED  BY <1>1, <1>2, <1>3

LEMMA AddressTypes ==
  ASSUME TypeOK
  PROVE  /\ saddr \in Nat /\ peer \in Nat
         /\ \A m \in datas : m.from \in Nat
BY PacketTypes, Constants DEF TypeOK, Addr

LEMMA AddressedInit == Init => Addressed
BY DEF Init, Addressed

\* A packet that arrives comes from the peer, or is the one a reliable
\* channel waits for; after it, none that is on the way is waited for.
LEMMA ArriveAddressed ==
  ASSUME TypeOK, NoWrap, OneReliable, Order, Addressed,
         NEW m \in datas, NEW keep, NEW lost \in BOOLEAN,
         ReceiveData(m, keep, lost), Arrive(m, lost)
  PROVE  peer' >= peer /\ Addressed'
<1>1. /\ peer' = m.from /\ saddr' = saddr /\ datas' \subseteq datas
      /\ ack' = [ack EXCEPT ![m.ch] = NextSeq(@)]
  BY DEF ReceiveData, Arrive, Consume
<1>2. m.ch \in Channels /\ Trusted(m) /\ ~Old(m) /\ ~Future(m)
  BY PacketTypes DEF Arrive
<1>3. CASE m.ch \in Reliable
  <2>1. m.seq = ack[m.ch] /\ ack'[m.ch] = ack[m.ch] + 1 /\ ack[m.ch] \in Nat
    BY <1>1, <1>2, <1>3, ArriveNext, Lengths DEF TypeOK
  <2>2. m.from >= peer
    BY <1>3, <2>1 DEF Addressed
  <2>3. ASSUME NEW n \in datas', n.ch \in Reliable PROVE ~(n.seq >= ack'[n.ch])
    <3>1. n \in datas /\ n.ch = m.ch /\ n.seq \in Nat
      BY <1>1, <1>3, <2>3, PacketTypes DEF OneReliable
    <3> QED  BY <2>1, <2>3, <3>1, NoneAhead
  <2> QED  BY <1>1, <2>2, <2>3 DEF Addressed
<1>4. CASE m.ch \notin Reliable
  <2>1. peer' = peer
    BY <1>1, <1>2, <1>4 DEF Trusted
  <2>2. \A c \in Reliable : ack'[c] = ack[c]
    BY <1>1, <1>4, Constants DEF TypeOK
  <2> QED  BY <1>1, <2>1, <2>2, AddressTypes DEF Addressed
<1> QED  BY <1>3, <1>4

LEMMA AddressedNext ==
  ASSUME TypeOK, NoWrap, OneReliable, Order, Addressed, [Next]_vars
  PROVE  Addressed' /\ peer' >= peer
<1>0. saddr \in Nat /\ peer \in Nat /\ \A m \in datas : m.from \in Nat
  BY AddressTypes
<1>1. ASSUME NEW ch \in Channels, NEW lost \in BOOLEAN, Transmit(ch, lost)
      PROVE  Addressed' /\ peer' >= peer
  <2>1. PICK out : out = [ch |-> ch, seq |-> Head(sq[ch]).seq,
                          data |-> Head(sq[ch]).data, from |-> saddr]
    OBVIOUS
  <2>2. /\ datas' \subseteq datas \cup {out} /\ out.from = saddr
        /\ UNCHANGED <<saddr, ack, peer>>
    BY <1>1, <2>1 DEF Transmit, Ready, Sent
  <2> QED  BY <1>0, <2>2 DEF Addressed
<1>2. ASSUME NEW m \in datas, NEW keep \in BOOLEAN, NEW lost \in BOOLEAN,
             ReceiveData(m, keep, lost)
      PROVE  Addressed' /\ peer' >= peer
  <2>1. CASE Drop(m) \/ Repeat(m, lost)
    <3>1. UNCHANGED <<saddr, ack, peer>> /\ datas' \subseteq datas
      BY <1>2, <2>1 DEF ReceiveData, Drop, Repeat, Consume
    <3> QED  BY <1>0, <3>1 DEF Addressed
  <2>2. CASE Arrive(m, lost)
    BY <1>2, <2>2, ArriveAddressed
  <2> QED  BY <1>2, <2>1, <2>2 DEF ReceiveData
<1>3. CASE Rebind
  <2>1. saddr' = saddr + 1 /\ UNCHANGED <<ack, peer, datas>>
    BY <1>3 DEF Rebind
  <2> QED  BY <1>0, <2>1 DEF Addressed
<1>4. CASE \/ \E ch \in Channels : Send(ch)
           \/ \E m \in acks, keep \in BOOLEAN : ReceiveAck(m, keep)
           \/ SenderPoll \/ StartTick \/ EndReceive \/ Poll \/ UNCHANGED vars
  <2>1. UNCHANGED <<saddr, ack, peer, datas>>
    BY <1>4 DEF Send, ReceiveAck, SenderPoll, StartTick, EndReceive, Poll, vars
  <2> QED  BY <1>0, <2>1 DEF Addressed
<1> QED  BY <1>1, <1>2, <1>3, <1>4 DEF Next

(***************************************************************************)
(* A receiver with one reliable channel never moves the connection back to *)
(* an address the sender has left, whatever the path reorders and repeats: *)
(* MigratesForward, which says nothing of receivers with more.             *)
(***************************************************************************)
THEOREM FollowsTheSender ==
  ASSUME Attentive, NoWrap
  PROVE  Spec => MigratesForward
<1>1. Init => Addressed
  BY AddressedInit
<1>2. ASSUME OneReliable, TypeOK, Order, Addressed, [Next]_vars
      PROVE  Addressed' /\ [OneReliable => peer' >= peer]_vars
  BY <1>2, AddressedNext
<1>3. CASE OneReliable
  <2>1. TypeOK /\ Order /\ Addressed /\ [Next]_vars
          => Addressed' /\ [OneReliable => peer' >= peer]_vars
    BY <1>2, <1>3
  <2> QED  BY <1>1, <2>1, TypeCorrect, InOrder, PTL DEF Spec, MigratesForward
<1>4. CASE ~OneReliable
  <2>1. [Next]_vars => [OneReliable => peer' >= peer]_vars
    BY <1>4
  <2> QED  BY <2>1, PTL DEF Spec, MigratesForward
<1> QED  BY <1>3, <1>4

=============================================================================
