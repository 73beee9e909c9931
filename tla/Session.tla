------------------------------ MODULE Session ------------------------------
(***************************************************************************)
(* The life of connections: the SYN / SYN-ACK / ACK handshake, FIN and RST *)
(* teardown, the handshake and keep-alive timers of glb_tick, glb_connect, *)
(* glb_close and glb_pollevent.  One server context with several slots,    *)
(* client contexts with one; every context runs the same code.             *)
(*                                                                         *)
(* The network delays and reorders packets, and may lose and duplicate     *)
(* them.  Addresses do not change here (Channel.tla has the moving peer).  *)
(* A timer may be expired at every tick, and one packet or one timer is    *)
(* one step: a tick that finds a single packet, or a single expired timer, *)
(* is a possible tick.                                                     *)
(***************************************************************************)
EXTENDS Integers, Sequences, FiniteSets

CONSTANTS
  Server,      \* the context with GLB_FLAG_BIND_PORT
  Clients,     \* the contexts without; a context is also its address
  None,        \* no address
  Sizes,       \* values of max_connections the server may be given
  MaxRetry,    \* handshake transmissions (5 in the code)
  MaxKeep,     \* unanswered PINGs tolerated (8 in the code)
  EventCap,    \* slots of every event queue
  Outcomes,    \* what may become of a packet given to sendto
  Keeps,       \* whether the network delivers a packet again later
  Mortal,      \* clients whose program may die
  Talkers,     \* clients that send data
  Pingers,     \* contexts that run until a keep-alive timer expires
  Pollers,     \* contexts whose application polls its events
  MaxConnect,  \* bound: glb_connect calls of all clients
  MaxRestart,  \* bound: restarts of the server's program
  MaxId        \* bound: client ids the server hands out

ASSUME SessionAssumption ==
  /\ Server \notin Clients /\ None \notin Clients \cup {Server}
  /\ Sizes \subseteq Nat \ {0} /\ Sizes # {}
  /\ {EventCap, MaxId} \subseteq Nat \ {0}
  /\ {MaxRetry, MaxKeep, MaxConnect, MaxRestart} \subseteq Nat
  /\ Mortal \subseteq Clients /\ Talkers \subseteq Clients
  /\ Pingers \cup Pollers \subseteq Clients \cup {Server}
  /\ Keeps \subseteq BOOLEAN
  /\ Outcomes \subseteq {"sent", "lost", "failed"}

VARIABLES
  con,      \* ctx->connections of every context
  size,     \* ctx->connection_count of the server
  nextId,   \* ctx->client_id of the server
  events,   \* ctx->eventqueue of every context
  net,      \* packets under way
  calls,    \* history: glb_connect calls made
  up,       \* contexts whose program still runs
  joined,   \* history: client -> ids under which it became ESTABLISHED
  told,     \* history: the last event queued for a connection was CONNECT
  missed,   \* history: connections whose last such event was refused
  restarts  \* history: restarts of the server

inbox   == <<events, told, missed>>
program == <<calls, up, restarts>>
table   == <<size, nextId>>
vars    == <<con, table, inbox, net, joined, program>>

Ctx == Clients \cup {Server}

\* A connection is <<its context, its index in ctx->connections>>.
ConnsOf(x) == {x} \X (IF x = Server THEN 1 .. size ELSE {1})
Conn       == (Clients \X {1}) \cup ({Server} \X UNION {1 .. n : n \in Sizes})

States == {"CLOSED", "ESTABLISHED", "SYN_SENT", "SYN_RCVD", "FIN_SENT"}

\* Ids: 0 in a slot never used, Initiation for the id 0xFFFF of a SYN.
Initiation == MaxId + 1
Id == 0 .. Initiation

\* glbconn_t; chans: its channels are allocated (con->channels # NULL).
ConRec == [st : States, id : Id, peer : Ctx \cup {None}, chans : BOOLEAN,
           retry : 0 .. MaxRetry, keep : 0 .. MaxKeep + 1]

Packet == [type : {"SYN", "SYN_ACK", "ACK", "FIN", "FIN_ACK", "RST", "PING",
                   "PONG", "DATA"},
           id : Id, from : Ctx, to : Ctx]

Event == [type : {"CONNECT", "DISCONNECT", "RECEIVE"}, con : Conn]

-----------------------------------------------------------------------------
(***************************************************************************)
(* Mutations of the helpers below, used to show what the checks can see.   *)
(***************************************************************************)
BugWithAddr(x, a) == {}
BugEmptyConns(x) == ConnsOf(x)
BugNextClientId(n) == n
BugReleased(c) == [c EXCEPT !.chans = FALSE]
BugTried(c) == c
BugPinged(c) == c
BugAnnounces(k) == con[k].st = "SYN_SENT"
BugPushed(x, type, k) == Append(events[x], [type |-> type, con |-> k])

(***************************************************************************)
(* Looking up a connection: the first slot that fits, as a set that is     *)
(* empty when none does.                                                   *)
(***************************************************************************)
First(K) == {k \in K : \A j \in K : k[2] <= j[2]}

WithId(x, i)   == {k \in ConnsOf(x) : con[k].id = i}
WithAddr(x, a) == {k \in ConnsOf(x) : con[k].peer = a}
EmptyConns(x)  == {k \in ConnsOf(x) : con[k].st = "CLOSED"}

FindConn(x, i)       == First(WithId(x, i))
FindConnByAddr(x, a) == First(WithAddr(x, a))
FindEmptyConn(x)     == First(EmptyConns(x))

\* ctx->client_id after glbctx_generateclientid.
NextClientId(n) == n + 1

(***************************************************************************)
(* A connection after some assignments that several handlers make.         *)
(***************************************************************************)
Released(c)    == [c EXCEPT !.st = "CLOSED", !.chans = FALSE]
Closed(c)      == [c EXCEPT !.st = "CLOSED"]
Opened(c)      == [c EXCEPT !.chans = TRUE, !.keep = 0]
Tried(c)       == [c EXCEPT !.retry = @ + 1]
Pinged(c)      == [c EXCEPT !.keep = @ + 1]
Reset(c)       == IF c.st = "ESTABLISHED" THEN Released(c) ELSE Closed(c)

\* Is the connection one whose third handshake message is due?
AwaitsAck(k)  == con[k].st = "SYN_RCVD"
\* Does a SYN-ACK open the connection, or only repeat the ACK?
Announces(k)  == con[k].st # "ESTABLISHED"
\* Is the retry limit of a handshake reached; are too many PINGs unanswered?
LastTry(k)    == con[k].retry >= MaxRetry
Unanswered(k) == con[k].keep > MaxKeep

(***************************************************************************)
(* glbqueue_push on an event queue: a full queue refuses the event, which  *)
(* is lost, since the result is ignored.  The histories are those of       *)
(* CONNECT and DISCONNECT.                                                 *)
(***************************************************************************)
HasRoom(x) == Len(events[x]) < EventCap
Pushed(x, type, k) ==
  IF HasRoom(x) THEN Append(events[x], [type |-> type, con |-> k]) ELSE events[x]

Record(x, type, k) ==
  \/ type = "RECEIVE" /\ UNCHANGED <<told, missed>>
  \/ /\ type # "RECEIVE" /\ HasRoom(x)
     /\ told' = [told EXCEPT ![k] = type = "CONNECT"]
     /\ missed' = missed \ {k}
  \/ /\ type # "RECEIVE" /\ ~HasRoom(x)
     /\ missed' = missed \cup {k}
     /\ UNCHANGED told

Notify(x, type, k) ==
  /\ events' = [events EXCEPT ![x] = Pushed(x, type, k)]
  /\ Record(x, type, k)

\* glbpkg_init and glbio_send, from x to a.
Pkt(type, i, x, a) == [type |-> type, id |-> i, from |-> x, to |-> a]
After(rest, pkt, out) == IF out = "sent" THEN rest \cup {pkt} ELSE rest

-----------------------------------------------------------------------------
\* A slot as glbctx_create leaves it.
Fresh == [st |-> "CLOSED", id |-> 0, peer |-> None, chans |-> FALSE,
          retry |-> 0, keep |-> 0]

Init ==
  /\ con = [k \in Conn |-> Fresh]
  /\ size \in Sizes
  /\ nextId = 1
  /\ events = [x \in Ctx |-> << >>]
  /\ net = {}
  /\ calls = 0
  /\ up = Ctx
  /\ joined = [c \in Clients |-> {}]
  /\ told = [k \in Conn |-> FALSE]
  /\ missed = {}
  /\ restarts = 0

-----------------------------------------------------------------------------
(***************************************************************************)
(* The application.                                                        *)
(***************************************************************************)

\* glb_connect, whatever the state of the connection: one that is live or
\* closing is dropped without a word to the peer.
Connect(c) ==
  LET k == <<c, 1>>
  IN  /\ calls < MaxConnect
      /\ calls' = calls + 1
      /\ con' = [con EXCEPT ![k] = [@ EXCEPT !.st = "SYN_SENT", !.id = Initiation,
                                             !.peer = Server, !.retry = 0]]
      /\ UNCHANGED <<table, inbox, net, up, joined, restarts>>

\* glb_close.
Close(k) ==
  /\ con[k].st = "ESTABLISHED"
  /\ con' = [con EXCEPT ![k] = [@ EXCEPT !.st = "FIN_SENT", !.retry = 0]]
  /\ UNCHANGED <<table, inbox, net, joined, program>>

\* glb_pollevent.
Poll(x) ==
  /\ x \in Pollers
  /\ events[x] # << >>
  /\ events' = [events EXCEPT ![x] = Tail(@)]
  /\ UNCHANGED <<con, table, told, missed, net, joined, program>>

\* A client's glb_send and the transmission of the packet.
SendData(c) ==
  /\ c \in Talkers
  /\ con[<<c, 1>>].st = "ESTABLISHED"
  /\ net' = net \cup {Pkt("DATA", con[<<c, 1>>].id, c, con[<<c, 1>>].peer)}
  /\ UNCHANGED <<con, table, inbox, joined, program>>

\* The program of a client ends without closing its connection.
Die(c) ==
  /\ c \in Mortal
  /\ up' = up \ {c}
  /\ UNCHANGED <<con, table, inbox, net, calls, joined, restarts>>

\* The server's program ends and is started again: a new context, while the
\* packets of the old one, and the connections of its clients, live on.
Restart ==
  /\ restarts < MaxRestart
  /\ restarts' = restarts + 1
  /\ con' = [k \in Conn |-> IF k[1] = Server THEN Fresh ELSE con[k]]
  /\ size' \in Sizes
  /\ nextId' = 1
  /\ events' = [events EXCEPT ![Server] = << >>]
  /\ told' = [k \in Conn |-> k[1] # Server /\ told[k]]
  /\ missed' = {k \in missed : k[1] # Server}
  /\ UNCHANGED <<net, joined, calls, up>>

-----------------------------------------------------------------------------
(***************************************************************************)
(* The timers of glb_tick.                                                 *)
(***************************************************************************)

\* The common part: send a packet and count the try.
Retry(k, type, out) ==
  /\ con' = [con EXCEPT ![k] = Tried(@)]
  /\ net' = After(net, Pkt(type, con[k].id, k[1], con[k].peer), out)
  /\ UNCHANGED <<table, inbox, joined, program>>

GiveUp(k, c) ==
  /\ con' = [con EXCEPT ![k] = c]
  /\ Notify(k[1], "DISCONNECT", k)
  /\ UNCHANGED <<table, net, joined, program>>

SynTimer(k, out) ==
  /\ con[k].st = "SYN_SENT"
  /\ \/ LastTry(k) /\ GiveUp(k, Closed(con[k]))
     \/ ~LastTry(k) /\ Retry(k, "SYN", out)

\* The server forgets a connection that was never announced in silence.
SynAckTimer(k, out) ==
  /\ con[k].st = "SYN_RCVD"
  /\ \/ /\ LastTry(k)
        /\ con' = [con EXCEPT ![k] = Closed(@)]
        /\ UNCHANGED <<table, inbox, net, joined, program>>
     \/ ~LastTry(k) /\ Retry(k, "SYN_ACK", out)

FinTimer(k, out) ==
  /\ con[k].st = "FIN_SENT"
  /\ \/ LastTry(k) /\ GiveUp(k, Released(con[k]))
     \/ ~LastTry(k) /\ Retry(k, "FIN", out)

KeepAlive(k, out) ==
  /\ k[1] \in Pingers
  /\ con[k].st = "ESTABLISHED"
  /\ \/ Unanswered(k) /\ GiveUp(k, Released(con[k]))
     \/ /\ ~Unanswered(k)
        /\ con' = [con EXCEPT ![k] = Pinged(@)]
        /\ net' = After(net, Pkt("PING", con[k].id, k[1], con[k].peer), out)
        /\ UNCHANGED <<table, inbox, joined, program>>

Timer(k, out) ==
  SynTimer(k, out) \/ SynAckTimer(k, out) \/ FinTimer(k, out) \/ KeepAlive(k, out)

-----------------------------------------------------------------------------
(***************************************************************************)
(* The packet handlers of glb_tick in context x = p.to.  rest is the       *)
(* network without the packet p, out what becomes of the answer.           *)
(***************************************************************************)

\* SYN, from a known address or into an empty slot; else "server full".
OnSyn(p, rest, out) ==
  LET known == FindConnByAddr(p.to, p.from)
      empty == FindEmptyConn(p.to)
      Open(c, i) == [c EXCEPT !.st = "SYN_RCVD", !.id = i, !.peer = p.from,
                              !.retry = 0]
  IN  /\ p.type = "SYN" /\ p.id = Initiation
      /\ \/ \E k \in known :
              /\ con' = IF con[k].st = "ESTABLISHED" THEN con
                        ELSE [con EXCEPT ![k] = Open(@, @.id)]
              /\ net' = rest
              /\ UNCHANGED table
         \/ \E k \in empty :
              /\ known = {} /\ nextId <= MaxId
              /\ con' = [con EXCEPT ![k] = Open([@ EXCEPT !.chans = FALSE], nextId)]
              /\ nextId' = NextClientId(nextId)
              /\ UNCHANGED size
              /\ net' = rest
         \/ /\ known = {} /\ empty = {}
            /\ net' = After(rest, Pkt("RST", Initiation, p.to, p.from), out)
            /\ UNCHANGED <<con, table>>
      /\ UNCHANGED <<inbox, joined>>

\* SYN-ACK: the client's only connection is ESTABLISHED once its ACK is sent.
OnSynAck(p, rest, out) ==
  LET k    == <<p.to, 1>>
      me   == IF con[k].st = "SYN_SENT" THEN [con[k] EXCEPT !.id = p.id] ELSE con[k]
      open == IF con[k].st = "ESTABLISHED" THEN me ELSE Opened(me)
  IN  /\ p.type = "SYN_ACK"
      /\ con' = [con EXCEPT ![k] = IF out = "failed" THEN open
                                   ELSE [open EXCEPT !.st = "ESTABLISHED"]]
      /\ joined' = IF out = "failed" THEN joined
                   ELSE [joined EXCEPT ![p.to] = @ \cup {me.id}]
      /\ \/ Announces(k) /\ Notify(p.to, "CONNECT", k)
         \/ ~Announces(k) /\ UNCHANGED inbox
      /\ net' = After(rest, Pkt("ACK", me.id, p.to, con[k].peer), out)
      /\ UNCHANGED table

\* ACK: the server's side of the handshake is complete.
OnAck(p, rest) ==
  /\ p.type = "ACK"
  /\ \/ \E k \in FindConn(p.to, p.id) :
          /\ AwaitsAck(k)
          /\ con' = [con EXCEPT ![k] = [Opened(@) EXCEPT !.st = "ESTABLISHED"]]
          /\ Notify(p.to, "CONNECT", k)
     \/ /\ \A k \in FindConn(p.to, p.id) : ~AwaitsAck(k)
        /\ UNCHANGED <<con, inbox>>
  /\ net' = rest
  /\ UNCHANGED <<table, joined>>

\* FIN: answered also when the connection is closed already.
OnFin(p, rest, out) ==
  /\ p.type = "FIN"
  /\ \/ \E k \in FindConn(p.to, p.id) :
          /\ net' = After(rest, Pkt("FIN_ACK", p.id, p.to, con[k].peer), out)
          /\ \/ /\ out # "failed" /\ con[k].st # "CLOSED"
                /\ con' = [con EXCEPT ![k] = Released(@)]
                /\ Notify(p.to, "DISCONNECT", k)
             \/ /\ out = "failed" \/ con[k].st = "CLOSED"
                /\ UNCHANGED <<con, inbox>>
     \/ /\ FindConn(p.to, p.id) = {}
        /\ net' = rest
        /\ UNCHANGED <<con, inbox>>
  /\ UNCHANGED <<table, joined>>

OnFinAck(p, rest) ==
  /\ p.type = "FIN_ACK"
  /\ \/ \E k \in FindConn(p.to, p.id) :
          /\ con[k].st # "CLOSED"
          /\ con' = [con EXCEPT ![k] = Released(@)]
          /\ Notify(p.to, "DISCONNECT", k)
     \/ /\ \A k \in FindConn(p.to, p.id) : con[k].st = "CLOSED"
        /\ UNCHANGED <<con, inbox>>
  /\ net' = rest
  /\ UNCHANGED <<table, joined>>

\* PING is answered whether or not there is such a connection.
OnPing(p, rest, out) ==
  /\ p.type = "PING"
  /\ net' = After(rest, Pkt("PONG", p.id, p.to, p.from), out)
  /\ UNCHANGED <<con, table, inbox, joined>>

OnPong(p, rest) ==
  /\ p.type = "PONG"
  /\ con' = [k \in Conn |-> IF k \in FindConn(p.to, p.id)
                            THEN [con[k] EXCEPT !.keep = 0] ELSE con[k]]
  /\ net' = rest
  /\ UNCHANGED <<table, inbox, joined>>

OnRst(p, rest) ==
  /\ p.type = "RST"
  /\ \/ \E k \in FindConn(p.to, p.id) :
          /\ con' = [con EXCEPT ![k] = Reset(@)]
          /\ Notify(p.to, "DISCONNECT", k)
     \/ /\ FindConn(p.to, p.id) = {}
        /\ UNCHANGED <<con, inbox>>
  /\ net' = rest
  /\ UNCHANGED <<table, joined>>

\* DATA: its effect on the channels is in Channel.tla; here, the event.
OnData(p, rest) ==
  /\ p.type = "DATA"
  /\ \/ \E k \in FindConn(p.to, p.id) :
          /\ con[k].st = "ESTABLISHED"
          /\ Notify(p.to, "RECEIVE", k)
     \/ /\ \A k \in FindConn(p.to, p.id) : con[k].st # "ESTABLISHED"
        /\ UNCHANGED inbox
  /\ net' = rest
  /\ UNCHANGED <<con, table, joined>>

\* keep: the network delivers p again later.
Receive(p, keep, out) ==
  LET rest == IF keep THEN net ELSE net \ {p}
  IN  /\ \/ OnSyn(p, rest, out)    \/ OnSynAck(p, rest, out)
         \/ OnFin(p, rest, out)    \/ OnPing(p, rest, out)
         \/ OnAck(p, rest)         \/ OnFinAck(p, rest)
         \/ OnPong(p, rest)        \/ OnRst(p, rest)
         \/ OnData(p, rest)
      /\ UNCHANGED program

-----------------------------------------------------------------------------
Next ==
  \/ \E c \in Clients \cap up : Connect(c) \/ SendData(c) \/ Die(c)
  \/ \E k \in Conn : k[1] \in up /\ (Close(k) \/ \E out \in Outcomes : Timer(k, out))
  \/ \E x \in up : Poll(x)
  \/ Restart
  \/ \E p \in net, keep \in Keeps, out \in Outcomes :
       p.to \in up /\ Receive(p, keep, out)

Spec == Init /\ [][Next]_vars

(***************************************************************************)
(* Programs that run call glb_tick again and again, so that an expired     *)
(* timer is served and packets are read.  Nothing is assumed of the        *)
(* network.                                                                *)
(***************************************************************************)
TickTimer(k) == k[1] \in up /\ \E out \in Outcomes : Timer(k, out)
TickReceive(x) ==
  /\ x \in up
  /\ \E p \in net, keep \in Keeps, out \in Outcomes :
       p.to = x /\ Receive(p, keep, out)

Fairness ==
  /\ \A k \in Conn : WF_vars(TickTimer(k))
  /\ \A x \in Ctx : WF_vars(TickReceive(x))

FairSpec == Spec /\ Fairness

-----------------------------------------------------------------------------
TypeOK ==
  /\ con \in [Conn -> ConRec]
  /\ size \in Sizes
  /\ nextId \in 1 .. MaxId + 1
  /\ events \in [Ctx -> Seq(Event)]
  /\ \A x \in Ctx : Len(events[x]) <= EventCap
  /\ net \subseteq Packet
  /\ calls \in 0 .. MaxConnect
  /\ up \subseteq Ctx
  /\ joined \in [Clients -> SUBSET Id]
  /\ told \in [Conn -> BOOLEAN]
  /\ missed \subseteq Conn
  /\ restarts \in 0 .. MaxRestart

(***************************************************************************)
(* The channels of an ESTABLISHED connection are allocated: glb_send, the  *)
(* DATA and DATA-ACK handlers and the transmission in glb_tick use them    *)
(* after a look at the state only.                                         *)
(***************************************************************************)
ChannelsReady == \A k \in Conn : con[k].st = "ESTABLISHED" => con[k].chans

(***************************************************************************)
(* A connection that carries data, or is being closed by its application,  *)
(* was announced to the application, and its end was not: of the CONNECT   *)
(* and DISCONNECT events that its queue took, the last is a CONNECT.  Also *)
(* when a late SYN-ACK revives the connection, sendto failed at the first, *)
(* or the server restarts; unless the queue was full when the connection   *)
(* was to be announced, as no handler looks whether it was.                *)
(***************************************************************************)
Announced ==
  \A k \in Conn : con[k].st \in {"ESTABLISHED", "FIN_SENT"} =>
    told[k] \/ k \in missed

(***************************************************************************)
(* The server's connections are apart: no two slots have the same peer or  *)
(* the same id, whether live or left over, so that a packet found by id,   *)
(* or a SYN found by address, reaches one connection only.                 *)
(***************************************************************************)
Used(k) == con[k].id # 0
SlotsApart ==
  \A j, k \in ConnsOf(Server) :
    Used(j) /\ Used(k) /\ j # k =>
      con[j].id # con[k].id /\ con[j].peer # con[k].peer

(***************************************************************************)
(* The third message of the handshake is real: when the server calls a     *)
(* connection ESTABLISHED, the client at its address has been ESTABLISHED  *)
(* under that very id.                                                     *)
(***************************************************************************)
Agreement ==
  \A k \in ConnsOf(Server) :
    con[k].st = "ESTABLISHED" =>
      con[k].peer \in Clients /\ con[k].id \in joined[con[k].peer]

(***************************************************************************)
(* No two clients ever use the same id, although ids outlive connections   *)
(* and SYN-ACKs arrive late: a FIN, PONG or DATA packet names its sender.  *)
(* 0xFFFF is not an id.                                                    *)
(***************************************************************************)
ClientsApart ==
  \A c, d \in Clients : c # d => joined[c] \cap joined[d] \subseteq {Initiation}

(***************************************************************************)
(* A slot that is not CLOSED keeps its peer and its id: a SYN, however     *)
(* late, never takes over somebody's connection.                           *)
(***************************************************************************)
NoTakeover ==
  [][restarts' = restarts =>
       \A k \in ConnsOf(Server) : con[k].st # "CLOSED" =>
         con'[k].peer = con[k].peer /\ con'[k].id = con[k].id]_vars

(***************************************************************************)
(* Every attempt to open or to close a connection ends: the retries are    *)
(* bounded, and what restarts them is, too.                                *)
(***************************************************************************)
AttemptsEnd ==
  \A k \in Conn : \A s \in {"SYN_SENT", "SYN_RCVD", "FIN_SENT"} :
    k[1] \in up /\ con[k].st = s ~> k[1] \notin up \/ con[k].st # s

(***************************************************************************)
(* The server gives up the connections of a program that died.             *)
(***************************************************************************)
PeerDeathNoticed ==
  \A c \in Clients :
    c \notin up ~> []\A k \in ConnsOf(Server) :
                       con[k].peer = c => con[k].st = "CLOSED"

(***************************************************************************)
(* What documents and comments say, and the code does not do.              *)
(***************************************************************************)
\* The README: on GLB_EVENT_RECEIVE call glb_popdata.  It reads the channels
\* of the event's connection.
PopSafe ==
  \A x \in Ctx :
    events[x] # << >> /\ Head(events[x]).type = "RECEIVE" =>
      con[Head(events[x]).con].chans

\* "keepalive interval (disconnect after GLB_KEEPALIVE_RETRY)": a client whose
\* connection the server no longer has does not stay ESTABLISHED.
Orphan(c) ==
  /\ con[<<c, 1>>].st = "ESTABLISHED"
  /\ \A k \in WithId(Server, con[<<c, 1>>].id) : con[k].st = "CLOSED"
OrphansEnd == \A c \in Clients : Orphan(c) ~> ~Orphan(c) \/ c \notin up

=============================================================================
