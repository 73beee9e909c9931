----------------------------- MODULE Handshake -----------------------------
(***************************************************************************)
(* How the handshake hands the sequence numbers of the client's reliable   *)
(* channels to the server, and what becomes of the first messages.  The    *)
(* ACK, the third packet, carries the current number of the client's       *)
(* channel 0; the server takes it as the number to expect on EVERY         *)
(* channel.  A repeated SYN-ACK is answered with a new ACK, which carries  *)
(* the number channel 0 has reached by then.                               *)
(*                                                                         *)
(* Numbers are counted from the initial one, without wrapping.  The        *)
(* network never forgets a packet: any packet may be delivered late, more  *)
(* than once, out of order, or never.  Teardown is in Session.tla, full    *)
(* queues, addresses and the application's polling are in Channel.tla.     *)
(***************************************************************************)
EXTENDS Naturals, Sequences

CONSTANTS
  Channels,   \* reliable channels
  Zero,       \* channel 0
  QueueCap,   \* slots of s_queue
  MaxSend,    \* bound: messages sent on a channel
  Eager       \* the client sends as soon as it is told of the connection

ASSUME HandshakeAssumption ==
  /\ Zero \in Channels
  /\ QueueCap \in Nat \ {0} /\ MaxSend \in Nat
  /\ Eager \in BOOLEAN

VARIABLES
  cst,        \* the client's con->state
  sst,        \* the server's
  seq,        \* client: channel -> number of the next packet
  sq,         \* client: channel -> s_queue, the numbers of its packets
  heard,      \* client: it has received data from the server
  ack,        \* server: channel -> number of the next packet expected
  delivered,  \* server: channel -> messages handed over
  net         \* packets sent

vars == <<cst, sst, seq, sq, heard, ack, delivered, net>>

Number == 0 .. MaxSend

Control(type, n) == [type |-> type, n |-> n]
OnChannel(type, ch, n) == [type |-> type, ch |-> ch, n |-> n]

Packet ==
  {Control(type, 0) : type \in {"SYN", "SYN_ACK", "GREETING"}}
  \cup {Control("ACK", n) : n \in Number}
  \cup {OnChannel(type, ch, n) :
          type \in {"DATA", "DATA_ACK"}, ch \in Channels, n \in Number}

-----------------------------------------------------------------------------
\* Mutations of the helpers below, used to show what the checks can see.
BugWriteAck(n) == [ch \in Channels |-> n + 1]
BugMaySend == TRUE
BugHasRoom(ch) == Len(sq[ch]) <= QueueCap
BugOldest(ch) == sq[ch][Len(sq[ch])]

\* glbctx_writeack: the number in the header, for every channel.
WriteAck(n) == [ch \in Channels |-> n]

\* The client's application sends at once, as the README's client does, or
\* after the server's first message.
MaySend == Eager \/ heard

\* glb_send refuses a message when s_queue is full.
HasRoom(ch) == Len(sq[ch]) < QueueCap

\* glbqueue_peek: what glb_tick sends of s_queue.
Oldest(ch) == Head(sq[ch])

-----------------------------------------------------------------------------
Init ==
  /\ cst = "SYN_SENT" /\ sst = "CLOSED"
  /\ seq = [ch \in Channels |-> 0] /\ ack = [ch \in Channels |-> 0]
  /\ sq = [ch \in Channels |-> << >>] /\ delivered = [ch \in Channels |-> << >>]
  /\ heard = FALSE
  /\ net = {}

\* The timer of SYN_SENT.
SendSyn ==
  /\ cst = "SYN_SENT"
  /\ net' = net \cup {Control("SYN", 0)}
  /\ UNCHANGED <<cst, sst, seq, sq, heard, ack, delivered>>

OnSyn ==
  /\ Control("SYN", 0) \in net
  /\ sst # "ESTABLISHED"
  /\ sst' = "SYN_RCVD"
  /\ UNCHANGED <<cst, seq, sq, heard, ack, delivered, net>>

\* The timer of SYN_RCVD.
SendSynAck ==
  /\ sst = "SYN_RCVD"
  /\ net' = net \cup {Control("SYN_ACK", 0)}
  /\ UNCHANGED <<cst, sst, seq, sq, heard, ack, delivered>>

\* The first SYN-ACK creates the channels; each one is answered.
OnSynAck ==
  /\ Control("SYN_ACK", 0) \in net
  /\ cst' = "ESTABLISHED"
  /\ net' = net \cup {Control("ACK", seq[Zero])}
  /\ UNCHANGED <<sst, seq, sq, heard, ack, delivered>>

OnAck ==
  /\ sst = "SYN_RCVD"
  /\ \E n \in Number :
       /\ Control("ACK", n) \in net
       /\ ack' = WriteAck(n)
  /\ sst' = "ESTABLISHED"
  /\ UNCHANGED <<cst, seq, sq, heard, delivered, net>>

\* The server's application greets a new connection; the greeting arrives.
Greet ==
  /\ sst = "ESTABLISHED"
  /\ net' = net \cup {Control("GREETING", 0)}
  /\ UNCHANGED <<cst, sst, seq, sq, heard, ack, delivered>>

OnGreeting ==
  /\ Control("GREETING", 0) \in net
  /\ cst = "ESTABLISHED"
  /\ heard' = TRUE
  /\ UNCHANGED <<cst, sst, seq, sq, ack, delivered, net>>

\* glb_send, and the transmission of the head of s_queue.
Send(ch) ==
  /\ cst = "ESTABLISHED"
  /\ MaySend
  /\ seq[ch] < MaxSend
  /\ HasRoom(ch)
  /\ sq' = [sq EXCEPT ![ch] = Append(@, seq[ch])]
  /\ seq' = [seq EXCEPT ![ch] = @ + 1]
  /\ UNCHANGED <<cst, sst, heard, ack, delivered, net>>

Transmit(ch) ==
  /\ sq[ch] # << >>
  /\ net' = net \cup {OnChannel("DATA", ch, Oldest(ch))}
  /\ UNCHANGED <<cst, sst, seq, sq, heard, ack, delivered>>

\* The DATA handler: an old packet is acknowledged again, one from the
\* future is dropped.
OnData(ch, n) ==
  /\ OnChannel("DATA", ch, n) \in net
  /\ sst = "ESTABLISHED"
  /\ n <= ack[ch]
  /\ net' = net \cup {OnChannel("DATA_ACK", ch, n)}
  /\ \/ /\ n = ack[ch]
        /\ delivered' = [delivered EXCEPT ![ch] = Append(@, n + 1)]
        /\ ack' = [ack EXCEPT ![ch] = @ + 1]
     \/ /\ n < ack[ch]
        /\ UNCHANGED <<delivered, ack>>
  /\ UNCHANGED <<cst, sst, seq, sq, heard>>

OnDataAck(ch) ==
  /\ sq[ch] # << >>
  /\ OnChannel("DATA_ACK", ch, Head(sq[ch])) \in net
  /\ sq' = [sq EXCEPT ![ch] = Tail(@)]
  /\ UNCHANGED <<cst, sst, seq, heard, ack, delivered, net>>

Next ==
  \/ SendSyn \/ OnSyn \/ SendSynAck \/ OnSynAck \/ OnAck
  \/ Greet \/ OnGreeting
  \/ \E ch \in Channels :
       \/ Send(ch) \/ Transmit(ch) \/ OnDataAck(ch)
       \/ \E n \in Number : OnData(ch, n)

Spec == Init /\ [][Next]_vars

-----------------------------------------------------------------------------
TypeOK ==
  /\ cst \in {"SYN_SENT", "ESTABLISHED"}
  /\ sst \in {"CLOSED", "SYN_RCVD", "ESTABLISHED"}
  /\ seq \in [Channels -> Number] /\ ack \in [Channels -> Nat]
  /\ sq \in [Channels -> Seq(Number)]
  /\ \A ch \in Channels : Len(sq[ch]) <= QueueCap
  /\ delivered \in [Channels -> Seq(Nat)]
  /\ heard \in BOOLEAN
  /\ net \subseteq Packet

\* The messages of a channel that the client knows delivered.
Known(ch) == seq[ch] - Len(sq[ch])

(***************************************************************************)
(* Reliable channels deliver every message once and in order from the      *)
(* very first one on, however the packets of the handshake are lost,       *)
(* repeated or delayed.                                                    *)
(***************************************************************************)
Abstract == INSTANCE OrderedDelivery WITH
  Channel   <- Channels,
  Window    <- QueueCap,
  accepted  <- seq,
  confirmed <- [ch \in Channels |-> Known(ch)]

ImplementsDelivery == Abstract!Spec

(***************************************************************************)
(* The server expects on each channel the number of the first message it   *)
(* has not delivered, whenever it accepts data: glbctx_writeack has set    *)
(* the numbers of all channels from one packet.                            *)
(***************************************************************************)
Synchronised ==
  sst = "ESTABLISHED" => \A ch \in Channels : ack[ch] = Len(delivered[ch])

(***************************************************************************)
(* Why a client that waits is safe: until it has heard from the server no  *)
(* number is used, hence every ACK that can still make the server          *)
(* ESTABLISHED carries the initial number.                                 *)
(***************************************************************************)
Waiting ==
  /\ heard \/ Control("GREETING", 0) \in net => sst = "ESTABLISHED"
  /\ ~heard => \A ch \in Channels : seq[ch] = 0
  /\ sst # "ESTABLISHED" =>
       /\ \A n \in Number : Control("ACK", n) \in net => n = 0
       /\ \A ch \in Channels : delivered[ch] = << >>

(***************************************************************************)
(* Once the numbers agree, stop-and-wait does the rest: s_queue holds the  *)
(* messages the client does not know delivered, in order, only the oldest  *)
(* of them is sent, the server is at most this one ahead of the client,    *)
(* and only a delivered message is acknowledged.                           *)
(***************************************************************************)
Outstanding(ch) ==
  /\ Len(sq[ch]) <= seq[ch]
  /\ \A i \in 1 .. Len(sq[ch]) : sq[ch][i] = Known(ch) + i - 1
  /\ Known(ch) <= Len(delivered[ch]) /\ Len(delivered[ch]) <= Known(ch) + 1
  /\ Len(delivered[ch]) <= seq[ch]
  /\ \A n \in Number :
       /\ OnChannel("DATA", ch, n) \in net => n <= Known(ch) /\ n < seq[ch]
       /\ OnChannel("DATA_ACK", ch, n) \in net => n < Len(delivered[ch])

OneOutstanding == \A ch \in Channels : Outstanding(ch)

=============================================================================
