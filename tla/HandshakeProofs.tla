-------------------------- MODULE HandshakeProofs --------------------------
(***************************************************************************)
(* Proofs about the handshake of Handshake.tla with a client that waits    *)
(* for the server's first message, for every set of channels, every queue  *)
(* size and every number of messages.                                      *)
(***************************************************************************)
EXTENDS Handshake, SequenceTheorems, TLAPS

-----------------------------------------------------------------------------
(***************************************************************************)
(* Type correctness: every number stays in its range, every queue within   *)
(* its capacity, and only packets are on the network.                      *)
(***************************************************************************)
LEMMA InitType == Init => TypeOK
<1> SUFFICES ASSUME Init PROVE TypeOK
  OBVIOUS
<1>1. 0 \in Number
  BY HandshakeAssumption DEF Number
<1>2. /\ sq \in [Channels -> Seq(Number)]
      /\ \A ch \in Channels : Len(sq[ch]) <= QueueCap
      /\ delivered \in [Channels -> Seq(Nat)]
  BY HandshakeAssumption DEF Init
<1> QED  BY <1>1, <1>2 DEF Init, TypeOK

LEMMA NextType == TypeOK /\ [Next]_vars => TypeOK'
<1> SUFFICES ASSUME TypeOK, [Next]_vars PROVE TypeOK'
  OBVIOUS
<1>1. CASE SendSyn
  BY <1>1 DEF SendSyn, TypeOK, Packet
<1>2. CASE OnSyn
  BY <1>2 DEF OnSyn, TypeOK
<1>3. CASE SendSynAck
  BY <1>3 DEF SendSynAck, TypeOK, Packet
<1>4. CASE OnSynAck
  <2>1. seq[Zero] \in Number
    BY HandshakeAssumption DEF TypeOK
  <2>2. Control("ACK", seq[Zero]) \in Packet
    BY <2>1 DEF Packet
  <2> QED  BY <1>4, <2>2 DEF OnSynAck, TypeOK
<1>5. CASE OnAck
  BY <1>5 DEF OnAck, WriteAck, TypeOK, Number
<1>6. CASE Greet
  BY <1>6 DEF Greet, TypeOK, Packet
<1>7. CASE OnGreeting
  BY <1>7 DEF OnGreeting, TypeOK
<1>8. ASSUME NEW ch \in Channels, Send(ch) PROVE TypeOK'
  <2>1. seq' \in [Channels -> Number]
    BY <1>8, HandshakeAssumption DEF Send, TypeOK, Number
  <2>2. Append(sq[ch], seq[ch]) \in Seq(Number)
        /\ Len(Append(sq[ch], seq[ch])) <= QueueCap
    BY <1>8, AppendProperties, HandshakeAssumption DEF Send, HasRoom, TypeOK
  <2>3. sq' \in [Channels -> Seq(Number)]
        /\ \A c \in Channels : Len(sq'[c]) <= QueueCap
    BY <1>8, <2>2 DEF Send, TypeOK
  <2> QED  BY <1>8, <2>1, <2>3 DEF Send, TypeOK
<1>9. ASSUME NEW ch \in Channels, Transmit(ch) PROVE TypeOK'
  <2>1. Head(sq[ch]) \in Number
    BY <1>9, HeadTailProperties DEF Transmit, Oldest, TypeOK
  <2>2. OnChannel("DATA", ch, Head(sq[ch])) \in Packet
    BY <2>1 DEF Packet
  <2> QED  BY <1>9, <2>2 DEF Transmit, Oldest, TypeOK
<1>10. ASSUME NEW ch \in Channels, OnDataAck(ch) PROVE TypeOK'
  <2>1. Tail(sq[ch]) \in Seq(Number) /\ Len(Tail(sq[ch])) <= QueueCap
    BY <1>10, HeadTailProperties, LenProperties, HandshakeAssumption
       DEF OnDataAck, TypeOK
  <2> QED  BY <1>10, <2>1 DEF OnDataAck, TypeOK
<1>11. ASSUME NEW ch \in Channels, NEW n \in Number, OnData(ch, n) PROVE TypeOK'
  <2>1. net' \subseteq Packet
    <3>1. OnChannel("DATA_ACK", ch, n) \in Packet
      BY DEF Packet
    <3> QED  BY <1>11, <3>1 DEF OnData, TypeOK
  <2>2. ack' \in [Channels -> Nat]
    BY <1>11 DEF OnData, TypeOK
  <2>3. Append(delivered[ch], n + 1) \in Seq(Nat)
    BY AppendProperties DEF TypeOK, Number
  <2>4. delivered' \in [Channels -> Seq(Nat)]
    BY <1>11, <2>3 DEF OnData, TypeOK
  <2> QED  BY <1>11, <2>1, <2>2, <2>4 DEF OnData, TypeOK
<1>12. CASE UNCHANGED vars
  BY <1>12 DEF vars, TypeOK
<1> QED
  BY <1>1, <1>2, <1>3, <1>4, <1>5, <1>6, <1>7, <1>8, <1>9, <1>10, <1>11, <1>12
     DEF Next

THEOREM TypeCorrect == Spec => []TypeOK
BY InitType, NextType, PTL DEF Spec

-----------------------------------------------------------------------------
(***************************************************************************)
(* A packet on a channel is no control packet, and packets differ by their *)
(* kind, channel or number.                                                *)
(***************************************************************************)
LEMMA PacketsDiffer ==
  /\ \A s, t, m, n : Control(s, m) = Control(t, n) <=> s = t /\ m = n
  /\ \A s, t, c, d, m, n :
       OnChannel(s, c, m) = OnChannel(t, d, n) <=> s = t /\ c = d /\ m = n
  /\ \A s, t, c, m, n : s # t => Control(s, m) # OnChannel(t, c, n)
<1>1. ASSUME NEW s, NEW t, NEW m, NEW n, Control(s, m) = Control(t, n)
      PROVE  s = t /\ m = n
  <2>1. /\ Control(s, m).type = s /\ Control(s, m).n = m
        /\ Control(t, n).type = t /\ Control(t, n).n = n
    BY DEF Control
  <2> QED  BY <1>1, <2>1
<1>2. ASSUME NEW s, NEW t, NEW c, NEW d, NEW m, NEW n,
             OnChannel(s, c, m) = OnChannel(t, d, n)
      PROVE  s = t /\ c = d /\ m = n
  <2>1. /\ OnChannel(s, c, m).type = s /\ OnChannel(t, d, n).type = t
        /\ OnChannel(s, c, m).ch = c /\ OnChannel(t, d, n).ch = d
        /\ OnChannel(s, c, m).n = m /\ OnChannel(t, d, n).n = n
    BY DEF OnChannel
  <2> QED  BY <1>2, <2>1
<1>3. ASSUME NEW s, NEW t, NEW c, NEW m, NEW n, s # t
      PROVE  Control(s, m) # OnChannel(t, c, n)
  <2>1. Control(s, m).type = s /\ OnChannel(t, c, n).type = t
    BY DEF Control, OnChannel
  <2> QED  BY <1>3, <2>1
<1> QED  BY <1>1, <1>2, <1>3

(***************************************************************************)
(* A client that waits uses no number before the server is ESTABLISHED.    *)
(***************************************************************************)
LEMMA InitWaiting == Init => Synchronised /\ Waiting
BY DEF Init, Synchronised, Waiting

LEMMA NextWaiting ==
  ASSUME ~Eager
  PROVE  TypeOK /\ Synchronised /\ Waiting /\ [Next]_vars
           => (Synchronised /\ Waiting)'
<1> SUFFICES ASSUME TypeOK, Synchronised, Waiting, [Next]_vars
             PROVE  (Synchronised /\ Waiting)'
  OBVIOUS
<1> USE DEF Synchronised, Waiting
<1>1. CASE SendSyn
  BY <1>1, PacketsDiffer DEF SendSyn
<1>2. CASE OnSyn
  BY <1>2 DEF OnSyn
<1>3. CASE SendSynAck
  BY <1>3, PacketsDiffer DEF SendSynAck
<1>4. CASE OnSynAck
  <2>1. sst # "ESTABLISHED" => seq[Zero] = 0
    BY HandshakeAssumption
  <2> QED  BY <1>4, <2>1, PacketsDiffer DEF OnSynAck
<1>5. CASE OnAck
  <2>1. \A ch \in Channels : ack'[ch] = 0 /\ delivered'[ch] = << >>
    BY <1>5 DEF OnAck, WriteAck
  <2>2. sst' = "ESTABLISHED" /\ UNCHANGED <<seq, heard, net>>
    BY <1>5 DEF OnAck
  <2>3. \A ch \in Channels : Len(delivered'[ch]) = 0
    BY <2>1
  <2> QED  BY <2>1, <2>2, <2>3
<1>6. CASE Greet
  BY <1>6, PacketsDiffer DEF Greet
<1>7. CASE OnGreeting
  BY <1>7 DEF OnGreeting
<1>8. ASSUME NEW ch \in Channels, Send(ch) PROVE (Synchronised /\ Waiting)'
  BY <1>8 DEF Send, MaySend
<1>9. ASSUME NEW ch \in Channels, Transmit(ch) PROVE (Synchronised /\ Waiting)'
  BY <1>9, PacketsDiffer DEF Transmit, Oldest
<1>10. ASSUME NEW ch \in Channels, OnDataAck(ch) PROVE (Synchronised /\ Waiting)'
  BY <1>10 DEF OnDataAck
<1>11. ASSUME NEW ch \in Channels, NEW n \in Number, OnData(ch, n)
       PROVE  (Synchronised /\ Waiting)'
  <2>1. sst = "ESTABLISHED" /\ sst' = sst /\ UNCHANGED <<seq, heard>>
    BY <1>11 DEF OnData
  <2>2. \A c \in Channels : ack'[c] = Len(delivered'[c])
    <3>1. CASE UNCHANGED <<ack, delivered>>
      BY <2>1, <3>1
    <3>2. CASE /\ delivered' = [delivered EXCEPT ![ch] = Append(@, n + 1)]
               /\ ack' = [ack EXCEPT ![ch] = @ + 1]
      <4>1. Len(Append(delivered[ch], n + 1)) = Len(delivered[ch]) + 1
        BY AppendProperties DEF TypeOK, Number
      <4> QED  BY <2>1, <3>2, <4>1 DEF TypeOK
    <3> QED  BY <1>11, <3>1, <3>2 DEF OnData
  <2> QED  BY <2>1, <2>2
<1>12. CASE UNCHANGED vars
  BY <1>12 DEF vars
<1> QED
  BY <1>1, <1>2, <1>3, <1>4, <1>5, <1>6, <1>7, <1>8, <1>9, <1>10, <1>11, <1>12
     DEF Next

(***************************************************************************)
(* When the client waits for the server's first message, the ACK of the    *)
(* handshake tells the server the right number for every channel, however  *)
(* the packets of the handshake are lost, repeated or delayed.             *)
(***************************************************************************)
THEOREM Synchronisation ==
  ASSUME ~Eager
  PROVE  Spec => [](Synchronised /\ Waiting)
<1>1. TypeOK /\ Synchronised /\ Waiting /\ [Next]_vars => (Synchronised /\ Waiting)'
  BY NextWaiting
<1> QED  BY <1>1, InitWaiting, TypeCorrect, PTL DEF Spec

(***************************************************************************)
(* Such a client sends nothing before the server is ESTABLISHED, and no    *)
(* ACK under way carries a number that has advanced before.                *)
(***************************************************************************)
THEOREM FirstWaits ==
  ASSUME ~Eager
  PROVE  Spec => []Waiting
<1>1. Synchronised /\ Waiting => Waiting  OBVIOUS
<1> QED  BY <1>1, Synchronisation, PTL

-----------------------------------------------------------------------------
(***************************************************************************)
(* From there on a channel is a stop-and-wait protocol.                    *)
(***************************************************************************)
LEMMA InitOutstanding == Init => OneOutstanding
<1> SUFFICES ASSUME Init, NEW ch \in Channels PROVE Outstanding(ch)
  BY DEF OneOutstanding
<1>1. /\ seq[ch] = 0 /\ Len(sq[ch]) = 0 /\ Len(delivered[ch]) = 0
      /\ net = {} /\ Known(ch) = 0
  BY DEF Init, Known
<1> QED  BY <1>1 DEF Outstanding

LEMMA Lengths ==
  ASSUME TypeOK, NEW ch \in Channels
  PROVE  /\ seq[ch] \in Nat /\ Len(sq[ch]) \in Nat /\ Len(delivered[ch]) \in Nat
         /\ ack[ch] \in Nat /\ Known(ch) \in Int
         /\ Known(ch) = seq[ch] - Len(sq[ch])
BY LenProperties DEF TypeOK, Number, Known

\* A step that leaves a channel's queues alone, and its packets.
LEMMA OtherOutstanding ==
  ASSUME NEW ch \in Channels, Outstanding(ch),
         seq'[ch] = seq[ch], sq'[ch] = sq[ch], delivered'[ch] = delivered[ch],
         \A t \in {"DATA", "DATA_ACK"}, n \in Number :
           OnChannel(t, ch, n) \in net' => OnChannel(t, ch, n) \in net
  PROVE  Outstanding(ch)'
BY DEF Outstanding, Known

LEMMA SendOutstanding ==
  ASSUME TypeOK, NEW ch \in Channels, Outstanding(ch), Send(ch)
  PROVE  Outstanding(ch)'
<1>1. /\ sq'[ch] = Append(sq[ch], seq[ch]) /\ seq'[ch] = seq[ch] + 1
      /\ delivered' = delivered /\ net' = net
  BY DEF Send, TypeOK
<1>2. /\ Len(sq'[ch]) = Len(sq[ch]) + 1
      /\ sq'[ch][Len(sq[ch]) + 1] = seq[ch]
      /\ \A i \in 1 .. Len(sq[ch]) : sq'[ch][i] = sq[ch][i]
  BY <1>1, AppendProperties DEF TypeOK
<1>3. Known(ch)' = Known(ch)
  BY <1>1, <1>2, Lengths DEF Known
<1>4. \A i \in 1 .. Len(sq'[ch]) : sq'[ch][i] = Known(ch) + i - 1
  <2> TAKE i \in 1 .. Len(sq'[ch])
  <2>1. CASE i = Len(sq[ch]) + 1
    BY <1>2, <2>1, Lengths
  <2>2. CASE i # Len(sq[ch]) + 1
    <3>1. i \in 1 .. Len(sq[ch])
      BY <1>2, <2>2, Lengths
    <3> QED  BY <1>2, <3>1 DEF Outstanding
  <2> QED  BY <2>1, <2>2
<1>5. Len(sq'[ch]) <= seq'[ch] /\ Len(delivered[ch]) <= seq'[ch]
  BY <1>1, <1>2, Lengths DEF Outstanding
<1>6. \A n \in Number : OnChannel("DATA", ch, n) \in net => n < seq'[ch]
  BY <1>1, Lengths DEF Outstanding, Number
<1> QED  BY <1>1, <1>3, <1>4, <1>5, <1>6 DEF Outstanding

\* The message at the head of s_queue is the first that is not known delivered.
LEMMA HeadIsNext ==
  ASSUME TypeOK, NEW ch \in Channels, Outstanding(ch), sq[ch] # << >>
  PROVE  /\ Head(sq[ch]) = Known(ch) /\ Head(sq[ch]) < seq[ch]
         /\ Head(sq[ch]) \in Number
<1>1. Len(sq[ch]) >= 1 /\ Head(sq[ch]) = sq[ch][1] /\ Head(sq[ch]) \in Number
  BY EmptySeq, HeadTailProperties, LenProperties DEF TypeOK
<1>2. sq[ch][1] = Known(ch)
  BY <1>1, Lengths DEF Outstanding
<1> QED  BY <1>1, <1>2, Lengths

LEMMA TransmitOutstanding ==
  ASSUME TypeOK, NEW ch \in Channels, Outstanding(ch), Transmit(ch)
  PROVE  Outstanding(ch)'
<1>1. /\ net' = net \cup {OnChannel("DATA", ch, Head(sq[ch]))}
      /\ UNCHANGED <<seq, sq, delivered>> /\ sq[ch] # << >>
  BY DEF Transmit, Oldest
<1>2. Head(sq[ch]) = Known(ch) /\ Head(sq[ch]) < seq[ch]
  BY <1>1, HeadIsNext
<1>3. Known(ch)' = Known(ch)
  BY <1>1 DEF Known
<1>4. ASSUME NEW n \in Number
      PROVE  /\ OnChannel("DATA", ch, n) \in net' => n <= Known(ch) /\ n < seq[ch]
             /\ OnChannel("DATA_ACK", ch, n) \in net' => n < Len(delivered[ch])
  <2>1. OnChannel("DATA", ch, n) \in net' =>
          OnChannel("DATA", ch, n) \in net \/ n = Head(sq[ch])
    BY <1>1, PacketsDiffer
  <2>2. OnChannel("DATA_ACK", ch, n) \in net' => OnChannel("DATA_ACK", ch, n) \in net
    BY <1>1, PacketsDiffer
  <2>3. Head(sq[ch]) <= Known(ch)
    BY <1>2, Lengths
  <2> QED  BY <1>2, <2>1, <2>2, <2>3 DEF Outstanding
<1> QED  BY <1>1, <1>3, <1>4 DEF Outstanding

LEMMA AckOutstanding ==
  ASSUME TypeOK, NEW ch \in Channels, Outstanding(ch), OnDataAck(ch)
  PROVE  /\ Outstanding(ch)'
         /\ Known(ch)' = Known(ch) + 1 /\ Known(ch) < Len(delivered[ch])
<1>1. /\ sq'[ch] = Tail(sq[ch]) /\ sq[ch] # << >>
      /\ UNCHANGED <<seq, delivered, net>>
      /\ OnChannel("DATA_ACK", ch, Head(sq[ch])) \in net
  BY DEF OnDataAck, TypeOK
<1>2. /\ Len(sq'[ch]) = Len(sq[ch]) - 1
      /\ \A i \in 1 .. Len(sq'[ch]) : sq'[ch][i] = sq[ch][i + 1]
  BY <1>1, HeadTailProperties DEF TypeOK
<1>3. Known(ch)' = Known(ch) + 1
  BY <1>1, <1>2, Lengths DEF Known
<1>4. Known(ch) < Len(delivered[ch])
  BY <1>1, HeadIsNext DEF Outstanding
<1>5. Len(delivered[ch]) = Known(ch) + 1
  BY <1>4, Lengths DEF Outstanding
<1>6. ASSUME NEW i \in 1 .. Len(sq'[ch])
      PROVE  sq'[ch][i] = Known(ch) + 1 + i - 1
  <2>1. i + 1 \in 1 .. Len(sq[ch])
    BY <1>2, Lengths
  <2>2. sq[ch][i + 1] = Known(ch) + (i + 1) - 1
    BY <2>1 DEF Outstanding
  <2> QED  BY <1>2, <2>2, Lengths
<1>7. Len(sq'[ch]) <= seq[ch]
  BY <1>2, Lengths DEF Outstanding
<1>8. /\ Known(ch) + 1 <= Len(delivered[ch]) /\ Len(delivered[ch]) <= Known(ch) + 1 + 1
  BY <1>5, Lengths
<1>9. \A n \in Number : OnChannel("DATA", ch, n) \in net => n <= Known(ch) + 1
  BY Lengths DEF Outstanding, Number
<1> QED  BY <1>1, <1>3, <1>4, <1>6, <1>7, <1>8, <1>9 DEF Outstanding

LEMMA DataOutstanding ==
  ASSUME TypeOK, Synchronised, NEW ch \in Channels, NEW n \in Number,
         Outstanding(ch), OnData(ch, n)
  PROVE  /\ Outstanding(ch)'
         /\ \/ delivered' = delivered
            \/ /\ delivered' = [delivered EXCEPT ![ch] = Append(@, Len(@) + 1)]
               /\ Len(delivered[ch]) < seq[ch]
<1>1. /\ UNCHANGED <<seq, sq>> /\ OnChannel("DATA", ch, n) \in net
      /\ net' = net \cup {OnChannel("DATA_ACK", ch, n)}
      /\ ack[ch] = Len(delivered[ch])
  BY DEF OnData, Synchronised
<1>2. Known(ch)' = Known(ch)
  BY <1>1 DEF Known
<1>3. n <= Known(ch) /\ n < seq[ch]
  BY <1>1 DEF Outstanding
<1>4. ASSUME NEW k \in Number
      PROVE  /\ OnChannel("DATA", ch, k) \in net' => OnChannel("DATA", ch, k) \in net
             /\ OnChannel("DATA_ACK", ch, k) \in net' =>
                  OnChannel("DATA_ACK", ch, k) \in net \/ k = n
  BY <1>1, PacketsDiffer
<1>5. CASE n < ack[ch] /\ delivered' = delivered
  BY <1>1, <1>2, <1>4, <1>5 DEF Outstanding
<1>6. CASE /\ n = ack[ch]
           /\ delivered' = [delivered EXCEPT ![ch] = Append(@, n + 1)]
  <2>1. /\ n = Len(delivered[ch])
        /\ delivered'[ch] = Append(delivered[ch], n + 1)
    BY <1>1, <1>6 DEF TypeOK
  <2>2. Len(delivered'[ch]) = Len(delivered[ch]) + 1
    BY <2>1, AppendProperties DEF TypeOK, Number
  <2>3. Len(delivered[ch]) = Known(ch)
    BY <1>3, <2>1, Lengths DEF Outstanding
  <2>4. /\ Known(ch) <= Len(delivered'[ch]) /\ Len(delivered'[ch]) <= Known(ch) + 1
        /\ Len(delivered'[ch]) <= seq[ch]
    BY <1>3, <2>1, <2>2, <2>3, Lengths
  <2>5. \A k \in Number :
          OnChannel("DATA_ACK", ch, k) \in net' => k < Len(delivered'[ch])
    BY <1>4, <2>1, <2>2, Lengths DEF Outstanding, Number
  <2>6. Outstanding(ch)'
    BY <1>1, <1>2, <1>4, <2>4, <2>5 DEF Outstanding
  <2> QED  BY <1>3, <1>6, <2>1, <2>6
<1> QED  BY <1>5, <1>6 DEF OnData

LEMMA NextOutstanding ==
  TypeOK /\ Synchronised /\ OneOutstanding /\ [Next]_vars => OneOutstanding'
<1> SUFFICES ASSUME TypeOK, Synchronised, OneOutstanding, [Next]_vars,
                    NEW ch \in Channels
             PROVE  Outstanding(ch)'
  BY DEF OneOutstanding
<1>0. Outstanding(ch)
  BY DEF OneOutstanding
<1>1. CASE \/ SendSyn \/ OnSyn \/ SendSynAck \/ OnSynAck \/ OnAck
           \/ Greet \/ OnGreeting \/ UNCHANGED vars
  <2>1. UNCHANGED <<seq, sq, delivered>>
    BY <1>1 DEF SendSyn, OnSyn, SendSynAck, OnSynAck, OnAck, Greet, OnGreeting, vars
  <2>2. \/ net' = net
        \/ \E t \in {"SYN", "SYN_ACK", "ACK", "GREETING"}, k \in Number :
             net' = net \cup {Control(t, k)}
    <3>1. 0 \in Number /\ seq[Zero] \in Number
      BY HandshakeAssumption DEF TypeOK, Number
    <3> QED
      BY <1>1, <3>1
         DEF SendSyn, OnSyn, SendSynAck, OnSynAck, OnAck, Greet, OnGreeting, vars
  <2>3. \A t \in {"DATA", "DATA_ACK"}, n \in Number :
          OnChannel(t, ch, n) \in net' => OnChannel(t, ch, n) \in net
    BY <2>2, PacketsDiffer
  <2> QED  BY <1>0, <2>1, <2>3, OtherOutstanding
<1>2. ASSUME NEW c \in Channels, Send(c) PROVE Outstanding(ch)'
  <2>1. CASE c = ch
    BY <1>0, <1>2, <2>1, SendOutstanding
  <2>2. CASE c # ch
    BY <1>0, <1>2, <2>2, OtherOutstanding DEF Send, TypeOK
  <2> QED  BY <2>1, <2>2
<1>3. ASSUME NEW c \in Channels, Transmit(c) PROVE Outstanding(ch)'
  <2>1. CASE c = ch
    BY <1>0, <1>3, <2>1, TransmitOutstanding
  <2>2. CASE c # ch
    <3>1. \A t, n : OnChannel(t, ch, n) \in net' => OnChannel(t, ch, n) \in net
      BY <1>3, <2>2, PacketsDiffer DEF Transmit, Oldest
    <3> QED  BY <1>0, <1>3, <3>1, OtherOutstanding DEF Transmit, Oldest
  <2> QED  BY <2>1, <2>2
<1>4. ASSUME NEW c \in Channels, OnDataAck(c) PROVE Outstanding(ch)'
  <2>1. CASE c = ch
    BY <1>0, <1>4, <2>1, AckOutstanding
  <2>2. CASE c # ch
    BY <1>0, <1>4, <2>2, OtherOutstanding DEF OnDataAck, TypeOK
  <2> QED  BY <2>1, <2>2
<1>5. ASSUME NEW c \in Channels, NEW n \in Number, OnData(c, n)
      PROVE  Outstanding(ch)'
  <2>1. CASE c = ch
    BY <1>0, <1>5, <2>1, DataOutstanding
  <2>2. CASE c # ch
    <3>1. \A t, k : OnChannel(t, ch, k) \in net' => OnChannel(t, ch, k) \in net
      BY <1>5, <2>2, PacketsDiffer DEF OnData
    <3>2. delivered'[ch] = delivered[ch] /\ UNCHANGED <<seq, sq>>
      BY <1>5, <2>2 DEF OnData, TypeOK
    <3> QED  BY <1>0, <3>1, <3>2, OtherOutstanding
  <2> QED  BY <2>1, <2>2
<1> QED  BY <1>1, <1>2, <1>3, <1>4, <1>5 DEF Next

(***************************************************************************)
(* With a client that waits, the server is never more than the message at  *)
(* the head of s_queue ahead of what the client knows.                     *)
(***************************************************************************)
THEOREM StopAndWait ==
  ASSUME ~Eager
  PROVE  Spec => []OneOutstanding
<1>1. Spec => [](Synchronised /\ Waiting)
  BY Synchronisation
<1> QED  BY <1>1, InitOutstanding, NextOutstanding, TypeCorrect, PTL DEF Spec

-----------------------------------------------------------------------------
(***************************************************************************)
(* Every step of the handshake and of the data path is a step of the       *)
(* abstract delivery, or none.                                             *)
(***************************************************************************)
LEMMA InitDelivery == Init => Abstract!Init
<1> SUFFICES ASSUME Init PROVE Abstract!Init
  OBVIOUS
<1>1. ASSUME NEW ch \in Channels PROVE Known(ch) = 0
  <2>1. seq[ch] = 0 /\ Len(sq[ch]) = 0
    BY DEF Init
  <2> QED  BY <2>1 DEF Known
<1> QED  BY <1>1 DEF Init, Abstract!Init

LEMMA NextDelivery ==
  TypeOK /\ Synchronised /\ OneOutstanding /\ [Next]_vars
    => [Abstract!Next]_(Abstract!vars)
<1> SUFFICES ASSUME TypeOK, Synchronised, OneOutstanding, [Next]_vars
             PROVE  Abstract!Next \/ UNCHANGED Abstract!vars
  OBVIOUS
<1> DEFINE known == [ch \in Channels |-> Known(ch)]
<1>1. CASE UNCHANGED <<seq, sq, delivered>>
  <2>1. known' = known
    BY <1>1 DEF Known
  <2> QED  BY <1>1, <2>1 DEF Abstract!vars
<1>2. ASSUME NEW c \in Channels, Send(c) PROVE Abstract!Accept(c)
  <2>1. known' = known
    <3>1. ASSUME NEW ch \in Channels PROVE Known(ch)' = Known(ch)
      <4>1. CASE ch = c
        <5>1. /\ sq'[c] = Append(sq[c], seq[c]) /\ seq'[c] = seq[c] + 1
          BY <1>2 DEF Send, TypeOK
        <5>2. Len(Append(sq[c], seq[c])) = Len(sq[c]) + 1
          BY AppendProperties DEF TypeOK
        <5> QED  BY <4>1, <5>1, <5>2, Lengths DEF Known
      <4>2. CASE ch # c
        BY <1>2, <4>2 DEF Send, TypeOK, Known
      <4> QED  BY <4>1, <4>2
    <3> QED  BY <3>1
  <2>2. seq[c] - known[c] < QueueCap
    <3>1. Len(sq[c]) < QueueCap
      BY <1>2 DEF Send, HasRoom
    <3> QED  BY <3>1, Lengths
  <2>3. seq' = [seq EXCEPT ![c] = @ + 1] /\ delivered' = delivered
    BY <1>2 DEF Send
  <2> QED  BY <2>1, <2>2, <2>3 DEF Abstract!Accept
<1>3. ASSUME NEW c \in Channels, OnDataAck(c) PROVE Abstract!Confirm(c)
  <2>1. Outstanding(c)
    BY DEF OneOutstanding
  <2>2. Known(c)' = Known(c) + 1 /\ Known(c) < Len(delivered[c])
    BY <1>3, <2>1, AckOutstanding
  <2>3. \A ch \in Channels : ch # c => Known(ch)' = Known(ch)
    BY <1>3 DEF OnDataAck, TypeOK, Known
  <2>4. known' = [known EXCEPT ![c] = @ + 1]
    BY <2>2, <2>3
  <2>5. seq' = seq /\ delivered' = delivered
    BY <1>3 DEF OnDataAck
  <2> QED  BY <2>2, <2>4, <2>5 DEF Abstract!Confirm
<1>4. ASSUME NEW c \in Channels, NEW n \in Number, OnData(c, n),
             delivered' # delivered
      PROVE  Abstract!Deliver(c)
  <2>1. Outstanding(c)
    BY DEF OneOutstanding
  <2>2. /\ delivered' = [delivered EXCEPT ![c] = Append(@, Len(@) + 1)]
        /\ Len(delivered[c]) < seq[c]
    BY <1>4, <2>1, DataOutstanding
  <2>3. seq' = seq /\ sq' = sq
    BY <1>4 DEF OnData
  <2>4. known' = known
    BY <2>3 DEF Known
  <2> QED  BY <2>2, <2>3, <2>4 DEF Abstract!Deliver
<1>5. ASSUME NEW c \in Channels, NEW n \in Number, OnData(c, n)
      PROVE  UNCHANGED <<seq, sq>>
  BY <1>5 DEF OnData
<1>6. ASSUME NEW c \in Channels, Transmit(c) PROVE UNCHANGED <<seq, sq, delivered>>
  BY <1>6 DEF Transmit, Oldest
<1>7. CASE \/ SendSyn \/ OnSyn \/ SendSynAck \/ OnSynAck \/ OnAck
           \/ Greet \/ OnGreeting \/ UNCHANGED vars
  BY <1>1, <1>7 DEF SendSyn, OnSyn, SendSynAck, OnSynAck, OnAck, Greet, OnGreeting, vars
<1> QED
  BY <1>1, <1>2, <1>3, <1>4, <1>5, <1>6, <1>7 DEF Next, Abstract!Next

(***************************************************************************)
(* With a client that waits, reliable channels deliver every message once  *)
(* and in order from the very first one on.                                *)
(***************************************************************************)
THEOREM Refinement ==
  ASSUME ~Eager
  PROVE  Spec => ImplementsDelivery
<1>1. Spec => [](Synchronised /\ Waiting) /\ []OneOutstanding
  BY Synchronisation, StopAndWait
<1> QED
  BY <1>1, InitDelivery, NextDelivery, TypeCorrect, PTL
     DEF Spec, ImplementsDelivery, Abstract!Spec

=============================================================================
