--------------------------- MODULE SessionProofs ---------------------------
(***************************************************************************)
(* Proofs about Session, for any clients, slots, retry limits and ids: the *)
(* types, that channels and events are there when a connection carries     *)
(* data, that the server's slots stay apart and are not taken over, and,   *)
(* of a server that is not restarted, that it agrees with its clients.     *)
(*                                                                         *)
(* The handlers and timers are many, and what they do to a connection is   *)
(* little: Move lists it.  The first part of this module shows that every  *)
(* step but a restart is a Move of one connection, and the rest uses only  *)
(* that.                                                                   *)
(***************************************************************************)
EXTENDS Session, WellFoundedInduction, TLAPS

-----------------------------------------------------------------------------
(***************************************************************************)
(* What holds of connections and packets beside their types.  A client is  *)
(* Known once it has called glb_connect: only then does anything carry its *)
(* address.                                                                *)
(***************************************************************************)
Known(c) == c \in Clients /\ con[<<c, 1>>].peer = Server

Role(k) ==
  /\ con[k].peer = None => con[k].st = "CLOSED" /\ con[k].id = 0
  /\ con[k].peer # None => con[k].id # 0
  /\ k[1] \in Clients => con[k].st # "SYN_RCVD" /\ con[k].peer \in {None, Server}
  /\ k[1] = Server =>
       /\ con[k].st # "SYN_SENT"
       /\ con[k].peer # None => Known(con[k].peer)
       /\ con[k].id < nextId

Mailed(p) ==
  /\ p.id # 0
  /\ \/ Known(p.from) /\ p.to = Server
     \/ Known(p.to) /\ p.from = Server
  /\ p.type = "SYN" => p.to = Server
  /\ p.type = "SYN_ACK" => p.from = Server

Typed ==
  /\ TypeOK
  /\ \A k \in Conn : Role(k)
  /\ \A p \in net : Mailed(p)

-----------------------------------------------------------------------------
(***************************************************************************)
(* What a step does to connection k: it becomes c, and heard[k] becomes t. *)
(* Heard of is a connection whose last CONNECT or DISCONNECT event was a   *)
(* CONNECT, or was refused by a full queue.                                *)
(***************************************************************************)
heard == [k \in Conn |-> told[k] \/ k \in missed]

SamePeer(k, c) == c.id = con[k].id /\ c.peer = con[k].peer

Stays(k, c, t)   == /\ SamePeer(k, c) /\ c.st = con[k].st /\ c.chans = con[k].chans
                    /\ t = heard[k]
Starts(k, c, t)  == /\ k[1] \in Clients
                    /\ c.st = "SYN_SENT" /\ c.id = Initiation /\ c.peer = Server
Closes(k, c, t)  == /\ SamePeer(k, c) /\ t = heard[k]
                    /\ con[k].st = "ESTABLISHED" /\ c.st = "FIN_SENT"
Ends(k, c, t)    == SamePeer(k, c) /\ c.st = "CLOSED"
Reopens(k, c, t) == /\ k[1] = Server /\ con[k].peer # None
                    /\ SamePeer(k, c) /\ c.st = "SYN_RCVD"
Takes(k, c, t)   == /\ k \in ConnsOf(Server) /\ con[k].st = "CLOSED" /\ c.st = "SYN_RCVD"
                    /\ c.id = nextId /\ nextId <= MaxId /\ nextId' = nextId + 1
                    /\ Known(c.peer)
                    /\ \A j \in ConnsOf(Server) : con[j].peer # c.peer
Joins(k, c, t)   == /\ k[1] \in Clients /\ Known(k[1]) /\ c.peer = Server
                    /\ c.st \in {"ESTABLISHED", con[k].st} /\ c.chans /\ t
                    /\ \/ c.id = con[k].id
                       \/ \E p \in net : p.type = "SYN_ACK" /\ p.to = k[1] /\ p.id = c.id
Accepts(k, c, t) == /\ k[1] = Server /\ SamePeer(k, c)
                    /\ con[k].st = "SYN_RCVD" /\ c.st = "ESTABLISHED" /\ c.chans /\ t
                    /\ \E p \in net : p.type = "ACK" /\ p.to = Server /\ p.id = c.id

Move(k, c, t) ==
  \/ (Stays(k, c, t) \/ Starts(k, c, t) \/ Closes(k, c, t) \/ Ends(k, c, t)
      \/ Reopens(k, c, t) \/ Joins(k, c, t) \/ Accepts(k, c, t)) /\ nextId' = nextId
  \/ Takes(k, c, t)

Moves ==
  \E k \in Conn, c \in ConRec, t \in BOOLEAN :
    /\ con' = [con EXCEPT ![k] = c]
    /\ heard' = [heard EXCEPT ![k] = t]
    /\ Move(k, c, t)

\* A packet that a step sends.
Sent(p) ==
  /\ p \in Packet /\ Mailed(p)
  /\ p.type = "SYN_ACK" =>
       \E k \in Conn : k[1] = Server /\ con[k].id = p.id /\ con[k].peer = p.to
  /\ p.type = "ACK" => p.from \in Clients /\ p.id \in joined'[p.from]

\* The ids a client is ESTABLISHED under are those it had, or has.
JoinedUnder ==
  \A c \in Clients :
    /\ joined[c] \subseteq joined'[c]
    /\ \A i \in joined'[c] : i \in joined[c] \/ (Known(c) /\ i = con'[<<c, 1>>].id)

Summary ==
  /\ Moves
  /\ \A p \in net' : p \in net \/ Sent(p)
  /\ JoinedUnder
  /\ size' = size /\ restarts' = restarts

-----------------------------------------------------------------------------
(***************************************************************************)
(* Types of connections and packets.                                       *)
(***************************************************************************)
LEMMA Constants ==
  /\ Server \notin Clients /\ None \notin Clients /\ None # Server
  /\ Sizes \subseteq Nat \ {0}
  /\ MaxId \in Nat /\ MaxId > 0 /\ EventCap \in Nat /\ EventCap > 0
  /\ MaxRetry \in Nat /\ MaxKeep \in Nat
  /\ Initiation \in Nat /\ Initiation # 0
  BY SessionAssumption DEF Initiation

LEMMA ConnFacts ==
  /\ \A k \in Conn : /\ k[1] \in Ctx
                     /\ k[1] \in Clients => k = <<k[1], 1>>
                     /\ k[1] # Server => k[1] \in Clients
  /\ \A c \in Clients : <<c, 1>> \in Conn /\ <<c, 1>>[1] = c
  BY Constants DEF Conn, Ctx

LEMMA ConnsOfConn ==
  ASSUME TypeOK, NEW x \in Ctx
  PROVE  /\ ConnsOf(x) \subseteq Conn
         /\ \A k \in ConnsOf(x) : k[1] = x
  BY Constants DEF ConnsOf, Conn, Ctx, TypeOK

LEMMA SomeConn == \E k : k \in Conn
  <1>1. PICK n \in Sizes : TRUE  BY SessionAssumption
  <1>2. 1 \in 1 .. n  BY <1>1, Constants
  <1>3. <<Server, 1>> \in Conn  BY <1>1, <1>2 DEF Conn
  <1> QED  BY <1>3

LEMMA FindFacts ==
  ASSUME TypeOK, NEW x \in Ctx, NEW i
  PROVE  /\ \A k \in FindConn(x, i) : k \in Conn /\ k[1] = x /\ con[k].id = i
         /\ \A k \in FindConnByAddr(x, i) : k \in Conn /\ k[1] = x /\ con[k].peer = i
         /\ \A k \in FindEmptyConn(x) : k \in ConnsOf(x) /\ con[k].st = "CLOSED"
  <1>1. ConnsOf(x) \subseteq Conn /\ \A k \in ConnsOf(x) : k[1] = x  BY ConnsOfConn
  <1> QED  BY <1>1 DEF FindConn, FindConnByAddr, FindEmptyConn, First, WithId, WithAddr,
                      EmptyConns

\* FindConn finds one connection at most.
LEMMA FoundOnce ==
  ASSUME TypeOK, NEW x \in Ctx, NEW i, NEW j \in FindConn(x, i), NEW k \in FindConn(x, i)
  PROVE  j = k
  <1>1. j \in ConnsOf(x) /\ k \in ConnsOf(x) /\ j[2] <= k[2] /\ k[2] <= j[2]
    BY DEF FindConn, First, WithId
  <1>2. j = <<x, j[2]>> /\ k = <<x, k[2]>> /\ j[2] \in Nat /\ k[2] \in Nat
    BY <1>1, Constants DEF ConnsOf, TypeOK
  <1>3. j[2] = k[2]  BY <1>1, <1>2
  <1> QED  BY <1>2, <1>3

\* The assignments to a connection.
LEMMA ConTypes ==
  ASSUME NEW c \in ConRec
  PROVE  /\ Released(c) \in ConRec /\ Released(c).st = "CLOSED"
         /\ Released(c).id = c.id /\ Released(c).peer = c.peer
         /\ Closed(c) \in ConRec /\ Closed(c).st = "CLOSED"
         /\ Closed(c).id = c.id /\ Closed(c).peer = c.peer
         /\ Reset(c) \in ConRec /\ Reset(c).st = "CLOSED"
         /\ Reset(c).id = c.id /\ Reset(c).peer = c.peer
         /\ Opened(c) \in ConRec /\ Opened(c).st = c.st /\ Opened(c).chans = TRUE
         /\ Opened(c).id = c.id /\ Opened(c).peer = c.peer
  <1> USE Constants DEF ConRec, States
  <1>1. /\ Released(c) \in ConRec /\ Released(c).st = "CLOSED"
        /\ Released(c).id = c.id /\ Released(c).peer = c.peer
    BY DEF Released
  <1>2. /\ Closed(c) \in ConRec /\ Closed(c).st = "CLOSED"
        /\ Closed(c).id = c.id /\ Closed(c).peer = c.peer
    BY DEF Closed
  <1>3. Reset(c) \in {Released(c), Closed(c)}  BY DEF Reset
  <1>4. /\ Opened(c) \in ConRec /\ Opened(c).st = c.st /\ Opened(c).chans = TRUE
        /\ Opened(c).id = c.id /\ Opened(c).peer = c.peer
    <2>1. \A b \in BOOLEAN, n \in 0 .. MaxKeep + 1 :
            [c EXCEPT !.chans = b, !.keep = n] \in ConRec
      OBVIOUS
    <2>2. 0 \in 0 .. MaxKeep + 1 /\ TRUE \in BOOLEAN  OBVIOUS
    <2>3. Opened(c) \in ConRec  BY <2>1, <2>2, Zenon DEF Opened
    <2>4. Opened(c).st = c.st /\ Opened(c).id = c.id /\ Opened(c).peer = c.peer
      BY DEF Opened
    <2>5. Opened(c).chans = TRUE  BY DEF Opened
    <2> QED  BY <2>3, <2>4, <2>5
  <1> QED  BY <1>1, <1>2, <1>3, <1>4

LEMMA CountTypes ==
  ASSUME NEW c \in ConRec
  PROVE  /\ c.retry < MaxRetry =>
              /\ Tried(c) \in ConRec /\ Tried(c).st = c.st /\ Tried(c).chans = c.chans
              /\ Tried(c).id = c.id /\ Tried(c).peer = c.peer
         /\ c.keep <= MaxKeep =>
              /\ Pinged(c) \in ConRec /\ Pinged(c).st = c.st /\ Pinged(c).chans = c.chans
              /\ Pinged(c).id = c.id /\ Pinged(c).peer = c.peer
  BY Constants DEF ConRec, Tried, Pinged

LEMMA NotifyFacts ==
  ASSUME TypeOK, NEW k \in Conn, NEW type \in {"CONNECT", "DISCONNECT", "RECEIVE"},
         Notify(k[1], type, k)
  PROVE  /\ events' \in [Ctx -> Seq(Event)]
         /\ \A x \in Ctx : Len(events'[x]) <= EventCap
         /\ told' \in [Conn -> BOOLEAN] /\ missed' \subseteq Conn
         /\ \E t \in BOOLEAN : /\ heard' = [heard EXCEPT ![k] = t]
                               /\ type = "RECEIVE" => t = heard[k]
                               /\ type = "CONNECT" => t
  <1>1. k[1] \in Ctx  BY ConnFacts
  <1>2. events[k[1]] \in Seq(Event) /\ Len(events[k[1]]) <= EventCap  BY <1>1 DEF TypeOK
  <1>3. [type |-> type, con |-> k] \in Event  BY DEF Event
  <1>4. Pushed(k[1], type, k) \in Seq(Event) /\ Len(Pushed(k[1], type, k)) <= EventCap
    <2>1. CASE Len(events[k[1]]) < EventCap
      <3>1. PICK e \in Event : e = [type |-> type, con |-> k]  BY <1>3
      <3>2. Pushed(k[1], type, k) = Append(events[k[1]], e)  BY <2>1, <3>1 DEF Pushed, HasRoom
      <3> QED  BY <1>2, <2>1, <3>2, Constants
    <2>2. CASE ~(Len(events[k[1]]) < EventCap)  BY <1>2, <2>2 DEF Pushed, HasRoom
    <2> QED  BY <2>1, <2>2
  <1>5. events' = [events EXCEPT ![k[1]] = Pushed(k[1], type, k)]  BY DEF Notify
  <1>6. told \in [Conn -> BOOLEAN] /\ missed \subseteq Conn  BY DEF TypeOK
  <1>7. CASE type = "RECEIVE" /\ UNCHANGED <<told, missed>>
    <2>1. heard' = heard /\ heard = [heard EXCEPT ![k] = heard[k]] /\ heard[k] \in BOOLEAN
      BY <1>6, <1>7 DEF heard
    <2> QED  BY <1>1, <1>4, <1>5, <1>6, <1>7, <2>1 DEF TypeOK
  <1>8. CASE /\ type # "RECEIVE"
             /\ told' = [told EXCEPT ![k] = type = "CONNECT"]
             /\ missed' = missed \ {k}
    <2>1. told' \in [Conn -> BOOLEAN] /\ missed' \subseteq Conn  BY <1>6, <1>8
    <2>2. \A j \in Conn : j # k => told'[j] = told[j] /\ (j \in missed' <=> j \in missed)
      BY <1>6, <1>8
    <2>3. told'[k] = (type = "CONNECT") /\ k \notin missed'  BY <1>6, <1>8
    <2>4. heard' = [heard EXCEPT ![k] = (type = "CONNECT")]  BY <2>2, <2>3 DEF heard
    <2>5. (type = "CONNECT") \in BOOLEAN  OBVIOUS
    <2> QED  BY <1>1, <1>4, <1>5, <1>8, <2>1, <2>4, <2>5 DEF TypeOK
  <1>9. CASE type # "RECEIVE" /\ missed' = missed \cup {k} /\ told' = told
    <2>1. told' \in [Conn -> BOOLEAN] /\ missed' \subseteq Conn  BY <1>6, <1>9
    <2>2. \A j \in Conn : j # k => told'[j] = told[j] /\ (j \in missed' <=> j \in missed)
      BY <1>6, <1>9
    <2>3. k \in missed'  BY <1>9
    <2>4. heard' = [heard EXCEPT ![k] = TRUE]  BY <2>2, <2>3 DEF heard
    <2> QED  BY <1>1, <1>4, <1>5, <1>9, <2>1, <2>4 DEF TypeOK
  <1>10. \/ type = "RECEIVE" /\ UNCHANGED <<told, missed>>
         \/ /\ type # "RECEIVE"
            /\ told' = [told EXCEPT ![k] = type = "CONNECT"]
            /\ missed' = missed \ {k}
         \/ type # "RECEIVE" /\ missed' = missed \cup {k} /\ told' = told
    BY DEF Notify, Record
  <1> QED  BY <1>7, <1>8, <1>9, <1>10

\* Heard of or not is a matter of the histories only.
LEMMA HeardFacts ==
  /\ \A k \in Conn : heard[k] \in BOOLEAN => heard = [heard EXCEPT ![k] = heard[k]]
  /\ TypeOK => \A k \in Conn : heard[k] \in BOOLEAN
  /\ UNCHANGED <<told, missed>> => heard' = heard
  <1>1. \A k \in Conn : heard = [heard EXCEPT ![k] = heard[k]]  BY DEF heard
  <1>2. TypeOK => \A k \in Conn : heard[k] \in BOOLEAN  BY DEF heard, TypeOK
  <1>3. UNCHANGED <<told, missed>> => heard' = heard  BY DEF heard
  <1> QED  BY <1>1, <1>2, <1>3

-----------------------------------------------------------------------------
(***************************************************************************)
(* Every step but a restart is summarised, one action after the other.     *)
(***************************************************************************)
LEMMA Idle ==
  ASSUME TypeOK, con' = con, heard' = heard, nextId' = nextId
  PROVE  Moves
  <1>1. PICK k \in Conn : TRUE  BY SomeConn
  <1>2. con[k] \in ConRec /\ heard[k] \in BOOLEAN  BY HeardFacts DEF TypeOK
  <1>3. con' = [con EXCEPT ![k] = con[k]] /\ heard' = [heard EXCEPT ![k] = heard[k]]
    BY <1>2, HeardFacts DEF TypeOK
  <1>4. Stays(k, con[k], heard[k])  BY DEF Stays, SamePeer
  <1> QED  BY <1>2, <1>3, <1>4 DEF Moves, Move

\* A step that changes one connection and announces nothing.
LEMMA Quietly ==
  ASSUME TypeOK, NEW k \in Conn, NEW c \in ConRec,
         con' = [con EXCEPT ![k] = c], heard' = heard, Move(k, c, heard[k])
  PROVE  Moves
  <1>1. heard[k] \in BOOLEAN /\ heard' = [heard EXCEPT ![k] = heard[k]]  BY HeardFacts
  <1> QED  BY <1>1 DEF Moves

\* A step that changes one connection and pushes an event for it.
LEMMA Loudly ==
  ASSUME TypeOK, NEW k \in Conn, NEW c \in ConRec,
         NEW type \in {"CONNECT", "DISCONNECT"},
         con' = [con EXCEPT ![k] = c], Notify(k[1], type, k),
         \A t \in BOOLEAN : (type = "CONNECT" => t) => Move(k, c, t)
  PROVE  Moves
  <1>1. PICK u \in BOOLEAN : /\ heard' = [heard EXCEPT ![k] = u]
                             /\ type = "CONNECT" => u
    BY NotifyFacts
  <1>2. CASE u = TRUE
    <2>1. Move(k, c, TRUE)  OBVIOUS
    <2> QED  BY <1>1, <1>2, <2>1 DEF Moves
  <1>3. CASE u = FALSE
    <2>1. type # "CONNECT"  BY <1>1, <1>3
    <2>2. Move(k, c, FALSE)  BY <2>1
    <2> QED  BY <1>1, <1>3, <2>2 DEF Moves
  <1> QED  BY <1>2, <1>3

\* Packets.
LEMMA PktType ==
  ASSUME NEW type \in {"SYN", "SYN_ACK", "ACK", "FIN", "FIN_ACK", "RST", "PING",
                       "PONG", "DATA"},
         NEW i \in Id, NEW x \in Ctx, NEW a \in Ctx
  PROVE  /\ Pkt(type, i, x, a) \in Packet
         /\ Pkt(type, i, x, a).type = type /\ Pkt(type, i, x, a).id = i
         /\ Pkt(type, i, x, a).from = x /\ Pkt(type, i, x, a).to = a
  BY DEF Pkt, Packet

\* A connection that has a peer can send to it.
LEMMA PeerFacts ==
  ASSUME Typed, NEW k \in Conn, con[k].peer # None
  PROVE  /\ con[k].id \in Id /\ con[k].id # 0
         /\ con[k].peer \in Ctx /\ k[1] \in Ctx
         /\ \/ Known(k[1]) /\ con[k].peer = Server
            \/ k[1] = Server /\ Known(con[k].peer)
  <1>1. con[k] \in ConRec  BY DEF Typed, TypeOK
  <1>2. Role(k)  BY DEF Typed
  <1>3. CASE k[1] = Server  BY <1>1, <1>2, <1>3 DEF Role, ConRec, Ctx, Known
  <1>4. CASE k[1] \in Clients
    <2>1. k = <<k[1], 1>>  BY <1>4, ConnFacts
    <2>2. con[k].peer = Server  BY <1>2, <1>4 DEF Role
    <2> QED  BY <1>1, <1>2, <1>4, <2>1, <2>2 DEF Role, ConRec, Ctx, Known
  <1> QED  BY <1>3, <1>4, ConnFacts

LEMMA AfterFacts ==
  ASSUME NEW rest, rest \subseteq net, NEW pkt, NEW out, net' = After(rest, pkt, out), Sent(pkt)
  PROVE  \A p \in net' : p \in net \/ Sent(p)
  BY DEF After

\* A packet from a connection to its peer.
LEMMA SentToPeer ==
  ASSUME Typed, NEW k \in Conn, con[k].peer # None,
         NEW type \in {"SYN", "SYN_ACK", "FIN", "FIN_ACK", "PING", "DATA"},
         type = "SYN" => k[1] # Server,
         type = "SYN_ACK" => k[1] = Server
  PROVE  Sent(Pkt(type, con[k].id, k[1], con[k].peer))
  <1>1. PICK i \in Id, x \in Ctx, a \in Ctx : i = con[k].id /\ x = k[1] /\ a = con[k].peer
    BY PeerFacts
  <1>2. PICK p : p = Pkt(type, i, x, a)  OBVIOUS
  <1>3. p \in Packet /\ p.type = type /\ p.id = i /\ p.from = x /\ p.to = a
    BY <1>2, PktType
  <1>4. i # 0 /\ ((Known(x) /\ a = Server) \/ (x = Server /\ Known(a)))
    BY <1>1, PeerFacts DEF Known
  <1>5. x = Server => a # Server  BY <1>4, Constants DEF Known
  <1>6. Mailed(p)  BY <1>1, <1>3, <1>4, <1>5, Constants DEF Mailed, Known
  <1>7. p.type = "SYN_ACK" => k[1] = Server /\ con[k].id = p.id /\ con[k].peer = p.to
    BY <1>1, <1>3
  <1> QED  BY <1>1, <1>2, <1>3, <1>6, <1>7 DEF Sent

\* What most steps leave alone.
Others == /\ events' \in [Ctx -> Seq(Event)]
          /\ \A x \in Ctx : Len(events'[x]) <= EventCap
          /\ told' \in [Conn -> BOOLEAN] /\ missed' \subseteq Conn
          /\ calls' \in 0 .. MaxConnect /\ up' \subseteq Ctx
          /\ joined' \in [Clients -> SUBSET Id]

LEMMA SilentOthers ==
  ASSUME TypeOK, UNCHANGED <<inbox, joined, program>>
  PROVE  Others /\ JoinedUnder
  BY DEF TypeOK, Others, JoinedUnder, program, inbox

LEMMA NotifyOthers ==
  ASSUME TypeOK, NEW k \in Conn, NEW type \in {"CONNECT", "DISCONNECT", "RECEIVE"},
         Notify(k[1], type, k), UNCHANGED program
  PROVE  joined' = joined => Others /\ JoinedUnder
  <1>1. /\ events' \in [Ctx -> Seq(Event)]
        /\ \A x \in Ctx : Len(events'[x]) <= EventCap
        /\ told' \in [Conn -> BOOLEAN] /\ missed' \subseteq Conn
    BY NotifyFacts
  <1>2. /\ calls \in 0 .. MaxConnect /\ up \subseteq Ctx
        /\ joined \in [Clients -> SUBSET Id]
    BY DEF TypeOK
  <1> QED  BY <1>1, <1>2 DEF Others, JoinedUnder, program

-----------------------------------------------------------------------------
(***************************************************************************)
(* The application's steps and the timers.                                 *)
(***************************************************************************)
Effect == Summary /\ Others

LEMMA ConnectEffect ==
  ASSUME Typed, NEW c \in Clients, Connect(c)
  PROVE  Effect
  <1> DEFINE k == <<c, 1>>
             r == [con[k] EXCEPT !.st = "SYN_SENT", !.id = Initiation,
                                 !.peer = Server, !.retry = 0]
  <1>1. TypeOK  BY DEF Typed
  <1>2. k \in Conn /\ k[1] = c /\ con[k] \in ConRec  BY <1>1, ConnFacts DEF TypeOK
  <1>3. r \in ConRec
    <2>1. Initiation \in Id /\ Server \in Ctx \cup {None} /\ 0 \in 0 .. MaxRetry
      BY Constants DEF Id, Ctx
    <2> QED  BY <1>2, <2>1 DEF ConRec, States
  <1>4. r.st = "SYN_SENT" /\ r.id = Initiation /\ r.peer = Server  BY <1>2 DEF ConRec
  <1>5. con' = [con EXCEPT ![k] = r] /\ heard' = heard /\ nextId' = nextId
    BY DEF Connect, inbox, table, heard
  <1> HIDE DEF r, k
  <1>6. Starts(k, r, heard[k])  BY <1>2, <1>4, <1>5 DEF Starts
  <1>7. Moves  BY <1>1, <1>2, <1>3, <1>5, <1>6, Quietly DEF Move
  <1>8. /\ net' = net /\ joined' = joined /\ inbox' = inbox /\ size' = size
        /\ restarts' = restarts /\ up' = up
        /\ calls < MaxConnect /\ calls' = calls + 1
    BY DEF Connect, table, inbox
  <1>9. calls' \in 0 .. MaxConnect  BY <1>1, <1>8, SessionAssumption DEF TypeOK
  <1>10. Others  BY <1>1, <1>8, <1>9 DEF Others, TypeOK, inbox
  <1> QED  BY <1>7, <1>8, <1>10 DEF Effect, Summary, JoinedUnder

LEMMA CloseEffect ==
  ASSUME Typed, NEW k \in Conn, Close(k)
  PROVE  Effect
  <1> DEFINE r == [con[k] EXCEPT !.st = "FIN_SENT", !.retry = 0]
  <1>1. TypeOK /\ con[k] \in ConRec  BY DEF Typed, TypeOK
  <1>2. r \in ConRec /\ SamePeer(k, r) /\ r.st = "FIN_SENT"
    <2>1. \A n \in 0 .. MaxRetry : [con[k] EXCEPT !.st = "FIN_SENT", !.retry = n] \in ConRec
      BY <1>1 DEF ConRec, States
    <2>2. 0 \in 0 .. MaxRetry  BY Constants
    <2>3. r \in ConRec  BY <2>1, <2>2, Zenon
    <2> QED  BY <1>1, <2>3 DEF ConRec, SamePeer
  <1>3. con[k].st = "ESTABLISHED" /\ con' = [con EXCEPT ![k] = r] /\ heard' = heard
        /\ nextId' = nextId
    BY DEF Close, inbox, table, heard
  <1> HIDE DEF r
  <1>4. Closes(k, r, heard[k])  BY <1>2, <1>3 DEF Closes
  <1>5. Moves  BY <1>1, <1>2, <1>3, <1>4, Quietly DEF Move
  <1>6. net' = net /\ size' = size /\ restarts' = restarts
        /\ UNCHANGED <<inbox, joined, program>>
    BY DEF Close, table, inbox, program
  <1> QED  BY <1>1, <1>5, <1>6, SilentOthers DEF Effect, Summary

\* Poll, SendData and Die change no connection.
LEMMA PollEffect ==
  ASSUME Typed, NEW x \in Ctx, Poll(x)
  PROVE  Effect
  <1>1. TypeOK  BY DEF Typed
  <1>2. events[x] \in Seq(Event) /\ events[x] # << >> /\ Len(events[x]) <= EventCap
    BY <1>1 DEF Poll, TypeOK
  <1>3. /\ Tail(events[x]) \in Seq(Event) /\ Len(Tail(events[x])) <= EventCap
    BY <1>2, Constants
  <1>4. events' = [events EXCEPT ![x] = Tail(events[x])]  BY DEF Poll
  <1>5. /\ con' = con /\ told' = told /\ missed' = missed /\ nextId' = nextId
        /\ size' = size /\ net' = net /\ joined' = joined
        /\ calls' = calls /\ up' = up /\ restarts' = restarts
    BY DEF Poll, table, program
  <1>6. Others  BY <1>1, <1>3, <1>4, <1>5 DEF Others, TypeOK
  <1>7. heard' = heard  BY <1>5 DEF heard
  <1> QED  BY <1>1, <1>5, <1>6, <1>7, Idle DEF Effect, Summary, JoinedUnder

LEMMA SendDataEffect ==
  ASSUME Typed, NEW c \in Clients, SendData(c)
  PROVE  Effect
  <1> DEFINE k == <<c, 1>>
  <1>1. TypeOK /\ k \in Conn /\ k[1] = c  BY ConnFacts DEF Typed
  <1>2. con[k].peer # None  BY <1>1 DEF SendData, Typed, Role
  <1>3. net' = net \cup {Pkt("DATA", con[k].id, k[1], con[k].peer)}
    BY <1>1 DEF SendData
  <1> HIDE DEF k
  <1>4. Sent(Pkt("DATA", con[k].id, k[1], con[k].peer))  BY <1>1, <1>2, SentToPeer
  <1>5. con' = con /\ heard' = heard /\ nextId' = nextId /\ size' = size
        /\ restarts' = restarts /\ UNCHANGED <<inbox, joined, program>>
    BY DEF SendData, table, inbox, program, heard
  <1> QED  BY <1>1, <1>3, <1>4, <1>5, Idle, SilentOthers DEF Effect, Summary

LEMMA DieEffect ==
  ASSUME Typed, NEW c \in Clients, Die(c)
  PROVE  Effect
  <1>1. TypeOK  BY DEF Typed
  <1>2. /\ con' = con /\ heard' = heard /\ nextId' = nextId /\ size' = size
        /\ net' = net /\ joined' = joined /\ inbox' = inbox
        /\ calls' = calls /\ up' = up \ {c} /\ restarts' = restarts
    BY DEF Die, table, inbox, heard
  <1>3. Others  BY <1>1, <1>2 DEF Others, TypeOK, inbox
  <1> QED  BY <1>1, <1>2, <1>3, Idle DEF Effect, Summary, JoinedUnder

\* A timer that sends another packet, and counts it in r.
LEMMA AgainEffect ==
  ASSUME Typed, NEW k \in Conn, NEW type \in {"SYN", "SYN_ACK", "FIN", "PING"}, NEW out,
         NEW r \in ConRec, SamePeer(k, r), r.st = con[k].st, r.chans = con[k].chans,
         con[k].st # "CLOSED",
         type = "SYN" => k[1] # Server, type = "SYN_ACK" => k[1] = Server,
         con' = [con EXCEPT ![k] = r],
         net' = After(net, Pkt(type, con[k].id, k[1], con[k].peer), out),
         UNCHANGED <<table, inbox, joined, program>>
  PROVE  Effect
  <1>1. TypeOK /\ con[k].peer # None  BY DEF Typed, Role
  <1>2. Sent(Pkt(type, con[k].id, k[1], con[k].peer))  BY <1>1, SentToPeer
  <1>3. \A p \in net' : p \in net \/ Sent(p)  BY <1>2, AfterFacts
  <1>4. heard' = heard /\ nextId' = nextId /\ size' = size /\ restarts' = restarts
        /\ UNCHANGED <<inbox, joined, program>>
    BY DEF table, inbox, program, heard
  <1>5. Stays(k, r, heard[k])  BY DEF Stays
  <1>6. Moves  BY <1>1, <1>4, <1>5, Quietly DEF Move
  <1> QED  BY <1>1, <1>3, <1>4, <1>6, SilentOthers DEF Effect, Summary

\* A timer that gives up.
LEMMA GiveUpEffect ==
  ASSUME Typed, NEW k \in Conn, NEW r \in ConRec, SamePeer(k, r), r.st = "CLOSED",
         GiveUp(k, r)
  PROVE  Effect
  <1>1. TypeOK  BY DEF Typed
  <1>2. /\ con' = [con EXCEPT ![k] = r] /\ Notify(k[1], "DISCONNECT", k)
        /\ nextId' = nextId /\ size' = size /\ net' = net /\ joined' = joined
        /\ UNCHANGED program /\ restarts' = restarts
    BY DEF GiveUp, table, program
  <1>3. \A t \in BOOLEAN : Ends(k, r, t)  BY DEF Ends
  <1>4. Moves  BY <1>1, <1>2, <1>3, Loudly DEF Move
  <1>5. Others /\ JoinedUnder  BY <1>1, <1>2, NotifyOthers
  <1> QED  BY <1>2, <1>4, <1>5 DEF Effect, Summary

LEMMA RetryEffect ==
  ASSUME Typed, NEW k \in Conn, NEW type \in {"SYN", "SYN_ACK", "FIN"}, NEW out,
         ~LastTry(k), con[k].st # "CLOSED",
         type = "SYN" => k[1] # Server, type = "SYN_ACK" => k[1] = Server,
         Retry(k, type, out)
  PROVE  Effect
  <1>1. con[k] \in ConRec  BY DEF Typed, TypeOK
  <1>2. con[k].retry < MaxRetry  BY <1>1, Constants DEF LastTry, ConRec
  <1>3. PICK r \in ConRec : r = Tried(con[k]) /\ SamePeer(k, r) /\ r.st = con[k].st
                            /\ r.chans = con[k].chans
    BY <1>1, <1>2, CountTypes DEF SamePeer
  <1> QED  BY <1>3, AgainEffect DEF Retry

LEMMA TimerEffect ==
  ASSUME Typed, NEW k \in Conn, NEW out, Timer(k, out)
  PROVE  Effect
  <1>1. TypeOK /\ con[k] \in ConRec /\ Role(k)  BY DEF Typed, TypeOK
  <1>2. PICK r \in ConRec : r = Closed(con[k]) /\ SamePeer(k, r) /\ r.st = "CLOSED"
    BY <1>1, ConTypes DEF SamePeer
  <1>3. PICK q \in ConRec : q = Released(con[k]) /\ SamePeer(k, q) /\ q.st = "CLOSED"
    BY <1>1, ConTypes DEF SamePeer
  <1>4. CASE SynTimer(k, out)
    <2>1. k[1] # Server  BY <1>1, <1>4 DEF SynTimer, Role
    <2> QED  BY <1>2, <1>4, <2>1, GiveUpEffect, RetryEffect DEF SynTimer
  <1>5. CASE SynAckTimer(k, out)
    <2>1. k[1] = Server  BY <1>1, <1>5, ConnFacts DEF SynAckTimer, Role
    <2>2. CASE LastTry(k) /\ con' = [con EXCEPT ![k] = Closed(con[k])]
               /\ UNCHANGED <<table, inbox, net, joined, program>>
      <3>1. heard' = heard /\ nextId' = nextId /\ size' = size /\ restarts' = restarts
            /\ net' = net /\ UNCHANGED <<inbox, joined, program>>
        BY <2>2 DEF table, inbox, program, heard
      <3>2. Ends(k, r, heard[k])  BY <1>2 DEF Ends
      <3>3. Moves  BY <1>1, <1>2, <2>2, <3>1, <3>2, Quietly DEF Move
      <3> QED  BY <1>1, <3>1, <3>3, SilentOthers DEF Effect, Summary
    <2> QED  BY <1>5, <2>1, <2>2, RetryEffect DEF SynAckTimer
  <1>6. CASE FinTimer(k, out)
    BY <1>3, <1>6, GiveUpEffect, RetryEffect DEF FinTimer
  <1>7. CASE KeepAlive(k, out)
    <2>1. CASE ~Unanswered(k)
      <3>1. con[k].keep <= MaxKeep  BY <1>1, <2>1, Constants DEF Unanswered, ConRec
      <3>2. PICK s \in ConRec : s = Pinged(con[k]) /\ SamePeer(k, s) /\ s.st = con[k].st
                                /\ s.chans = con[k].chans
        BY <1>1, <3>1, CountTypes DEF SamePeer
      <3> QED  BY <1>7, <2>1, <3>2, AgainEffect DEF KeepAlive
    <2> QED  BY <1>3, <1>7, <2>1, GiveUpEffect DEF KeepAlive
  <1> QED  BY <1>4, <1>5, <1>6, <1>7 DEF Timer

-----------------------------------------------------------------------------
(***************************************************************************)
(* The packet handlers.  rest is what the network holds beside the packet. *)
(***************************************************************************)
LEMMA NatMin ==
  ASSUME NEW T, T \subseteq Nat, T # {}
  PROVE  \E x \in T : \A y \in T : x <= y
  <1>1. IsWellFoundedOn(OpToRel(<, Nat), Nat)  BY NatLessThanWellFounded
  <1>2. PICK R : R = OpToRel(<, Nat)  OBVIOUS
  <1>3. PICK x \in T : \A y \in T : ~(<<y, x>> \in R)  BY <1>1, <1>2, WFMin
  <1>4. \A y \in T : ~(y < x)  BY <1>2, <1>3 DEF OpToRel
  <1> QED  BY <1>4

\* A search that can succeed does.
LEMMA FoundIfAny ==
  ASSUME TypeOK, NEW x \in Ctx, NEW K, K \subseteq ConnsOf(x), K # {}
  PROVE  First(K) # {}
  <1> DEFINE T == {k[2] : k \in K}
  <1>1. \A k \in ConnsOf(x) : k[2] \in Nat  BY Constants DEF ConnsOf, TypeOK
  <1>2. T \subseteq Nat /\ T # {}  BY <1>1
  <1>3. PICK n \in T : \A m \in T : n <= m  BY <1>2, NatMin
  <1>4. PICK k \in K : k[2] = n  BY <1>3
  <1>5. \A j \in K : k[2] <= j[2]  BY <1>3, <1>4
  <1> QED  BY <1>4, <1>5 DEF First

LEMMA PacketFacts ==
  ASSUME Typed, NEW p \in net
  PROVE  /\ p.id \in Id /\ p.id # 0 /\ p.from \in Ctx /\ p.to \in Ctx
         /\ p.type = "SYN" => p.to = Server /\ Known(p.from)
         /\ p.type = "SYN_ACK" => p.from = Server /\ Known(p.to)
         /\ \/ Known(p.from) /\ p.to = Server
            \/ Known(p.to) /\ p.from = Server
  <1>1. p \in Packet /\ Mailed(p)  BY DEF Typed, TypeOK
  <1>2. ~Known(Server)  BY Constants DEF Known
  <1>3. p.id \in Id /\ p.from \in Ctx /\ p.to \in Ctx  BY <1>1 DEF Packet
  <1>4. p.id # 0 /\ ((Known(p.from) /\ p.to = Server) \/ (Known(p.to) /\ p.from = Server))
    BY <1>1 DEF Mailed
  <1>5. p.type = "SYN" => p.to = Server /\ Known(p.from)  BY <1>1, <1>2, <1>4 DEF Mailed
  <1>6. p.type = "SYN_ACK" => p.from = Server /\ Known(p.to)
    BY <1>1, <1>2, <1>4 DEF Mailed
  <1> QED  BY <1>3, <1>4, <1>5, <1>6

\* A handler that leaves joined alone, and pushes one event or none.
LEMMA Handled ==
  ASSUME Typed, Moves, \A p \in net' : p \in net \/ Sent(p), size' = size,
         joined' = joined, UNCHANGED program,
         \/ UNCHANGED inbox
         \/ \E k \in Conn, type \in {"CONNECT", "DISCONNECT", "RECEIVE"} :
              Notify(k[1], type, k)
  PROVE  Effect
  <1>1. TypeOK /\ restarts' = restarts  BY DEF Typed, program
  <1>2. Others /\ JoinedUnder
    <2>1. CASE UNCHANGED inbox  BY <1>1, <2>1, SilentOthers
    <2>2. CASE ~UNCHANGED inbox
      <3>1. PICK k \in Conn, type \in {"CONNECT", "DISCONNECT", "RECEIVE"} :
              Notify(k[1], type, k)
        BY <2>2
      <3> QED  BY <1>1, <3>1, NotifyOthers
    <2> QED  BY <2>1, <2>2
  <1> QED  BY <1>1, <1>2 DEF Effect, Summary

\* The connection that a packet names.
LEMMA NamedFacts ==
  ASSUME Typed, NEW p \in net, NEW k \in FindConn(p.to, p.id)
  PROVE  /\ k \in Conn /\ k[1] = p.to /\ con[k].id = p.id /\ con[k] \in ConRec
         /\ con[k].peer # None
  <1>1. TypeOK /\ p.to \in Ctx /\ p.id # 0  BY PacketFacts DEF Typed
  <1>2. k \in Conn /\ k[1] = p.to /\ con[k].id = p.id  BY <1>1, FindFacts
  <1>3. con[k] \in ConRec /\ Role(k)  BY <1>2 DEF Typed, TypeOK
  <1>4. con[k].peer # None  BY <1>1, <1>2, <1>3 DEF Role
  <1> QED  BY <1>2, <1>3, <1>4

\* What a SYN from a makes of connection c under id i.
OpenedBy(c, i, a) == [c EXCEPT !.st = "SYN_RCVD", !.id = i, !.peer = a, !.retry = 0]

LEMMA OpenTypes ==
  ASSUME NEW c \in ConRec, NEW i \in Id, NEW a \in Ctx
  PROVE  /\ OpenedBy(c, i, a) \in ConRec /\ OpenedBy(c, i, a).st = "SYN_RCVD"
         /\ OpenedBy(c, i, a).id = i /\ OpenedBy(c, i, a).peer = a
  <1> DEFINE Made(n) == [c EXCEPT !.st = "SYN_RCVD", !.id = i, !.peer = a, !.retry = n]
  <1>1. \A n \in 0 .. MaxRetry : Made(n) \in ConRec  BY DEF ConRec, States
  <1>2. 0 \in 0 .. MaxRetry  BY Constants
  <1>3. Made(0).st = "SYN_RCVD" /\ Made(0).id = i /\ Made(0).peer = a  BY DEF ConRec
  <1>4. OpenedBy(c, i, a) = Made(0)  BY DEF OpenedBy
  <1> HIDE DEF Made
  <1>5. Made(0) \in ConRec  BY <1>1, <1>2
  <1> QED  BY <1>3, <1>4, <1>5

LEMMA SynEffect ==
  ASSUME Typed, NEW p \in net, NEW rest, rest \subseteq net, NEW out,
         OnSyn(p, rest, out), UNCHANGED program
  PROVE  Effect
  <1> DEFINE Open(c, i) == OpenedBy(c, i, p.from)
             known == FindConnByAddr(p.to, p.from)
             empty == FindEmptyConn(p.to)
  <1>1. TypeOK /\ p.to = Server /\ Known(p.from) /\ p.from \in Ctx /\ Server \in Ctx
    BY PacketFacts DEF Typed, OnSyn, Ctx
  <1>2. heard' = heard /\ UNCHANGED inbox /\ joined' = joined  BY DEF OnSyn, inbox, heard
  <1>3. p.from # None  BY <1>1, Constants DEF Known
  <1>4. CASE \E k \in known :
               /\ con' = IF con[k].st = "ESTABLISHED" THEN con
                         ELSE [con EXCEPT ![k] = Open(con[k], con[k].id)]
               /\ net' = rest
               /\ UNCHANGED table
    <2>1. PICK k \in known :
               /\ con' = IF con[k].st = "ESTABLISHED" THEN con
                         ELSE [con EXCEPT ![k] = Open(con[k], con[k].id)]
               /\ net' = rest
               /\ UNCHANGED table
      BY <1>4
    <2>2. k \in Conn /\ k[1] = Server /\ con[k].peer = p.from  BY <1>1, FindFacts
    <2>3. con[k] \in ConRec /\ con[k].id \in Id  BY <1>1, <2>2 DEF TypeOK, ConRec
    <2>5. PICK r \in ConRec : /\ r = Open(con[k], con[k].id) /\ r.st = "SYN_RCVD"
                              /\ r.id = con[k].id /\ r.peer = con[k].peer
      BY <1>1, <2>2, <2>3, OpenTypes
    <2> HIDE DEF Open
    <2>6. nextId' = nextId /\ size' = size  BY <2>1 DEF table
    <2>7. Reopens(k, r, heard[k])  BY <1>3, <2>2, <2>5 DEF Reopens, SamePeer
    <2>8. CASE con[k].st = "ESTABLISHED"
      <3>1. Moves  BY <1>1, <1>2, <2>1, <2>6, <2>8, Idle
      <3> QED  BY <1>2, <2>1, <2>6, <3>1, Handled
    <2>9. CASE con[k].st # "ESTABLISHED"
      <3>1. con' = [con EXCEPT ![k] = r]  BY <2>1, <2>5, <2>9
      <3>2. Move(k, r, heard[k])  BY <2>6, <2>7 DEF Move
      <3>3. Moves  BY <1>1, <1>2, <2>2, <3>1, <3>2, Quietly
      <3> QED  BY <1>2, <2>1, <2>6, <3>3, Handled
    <2> QED  BY <2>8, <2>9
  <1>5. CASE \E k \in empty :
               /\ known = {} /\ nextId <= MaxId
               /\ con' = [con EXCEPT ![k] = Open([con[k] EXCEPT !.chans = FALSE], nextId)]
               /\ nextId' = NextClientId(nextId)
               /\ UNCHANGED size
               /\ net' = rest
    <2>1. PICK k \in empty :
               /\ known = {} /\ nextId <= MaxId
               /\ con' = [con EXCEPT ![k] = Open([con[k] EXCEPT !.chans = FALSE], nextId)]
               /\ nextId' = NextClientId(nextId)
               /\ UNCHANGED size
               /\ net' = rest
      BY <1>5
    <2>2. k \in ConnsOf(Server) /\ con[k].st = "CLOSED" /\ k \in Conn
      BY <1>1, FindFacts, ConnsOfConn
    <2>3. nextId \in Id  BY <1>1 DEF TypeOK, Id, Initiation
    <2>4. [con[k] EXCEPT !.chans = FALSE] \in ConRec  BY <1>1, <2>2 DEF TypeOK, ConRec
    <2>5. PICK r \in ConRec : /\ r = Open([con[k] EXCEPT !.chans = FALSE], nextId)
                              /\ r.st = "SYN_RCVD" /\ r.id = nextId /\ r.peer = p.from
      BY <1>1, <2>3, <2>4, OpenTypes
    <2> HIDE DEF Open
    <2>6. \A j \in ConnsOf(Server) : con[j].peer # p.from
      <3>1. WithAddr(Server, p.from) \subseteq ConnsOf(Server)  BY DEF WithAddr
      <3>2. First(WithAddr(Server, p.from)) = {}  BY <1>1, <2>1 DEF FindConnByAddr
      <3>3. WithAddr(Server, p.from) = {}  BY <1>1, <3>1, <3>2, FoundIfAny
      <3> QED  BY <3>3 DEF WithAddr
    <2>7. Takes(k, r, heard[k])  BY <1>1, <2>1, <2>2, <2>5, <2>6 DEF Takes, NextClientId
    <2>8. Moves  BY <1>1, <1>2, <2>1, <2>2, <2>5, <2>7, Quietly DEF Move
    <2> QED  BY <1>2, <2>1, <2>8, Handled
  <1>6. CASE /\ known = {} /\ empty = {}
             /\ net' = After(rest, Pkt("RST", Initiation, p.to, p.from), out)
             /\ UNCHANGED <<con, table>>
    <2>1. Initiation \in Id  BY Constants DEF Id
    <2>2. PICK q : q = Pkt("RST", Initiation, Server, p.from)  OBVIOUS
    <2>3. /\ q \in Packet /\ q.type = "RST" /\ q.id = Initiation
          /\ q.from = Server /\ q.to = p.from
      BY <1>1, <2>1, <2>2, PktType
    <2>4. Sent(q)  BY <1>1, <2>3, Constants DEF Sent, Mailed
    <2>5. \A o \in net' : o \in net \/ Sent(o)  BY <1>1, <1>6, <2>2, <2>4, AfterFacts
    <2>6. con' = con /\ nextId' = nextId /\ size' = size  BY <1>6 DEF table
    <2>7. Moves  BY <1>1, <1>2, <2>6, Idle
    <2> QED  BY <1>2, <2>5, <2>6, <2>7, Handled
  <1> QED  BY <1>4, <1>5, <1>6 DEF OnSyn, OpenedBy

LEMMA SynAckEffect ==
  ASSUME Typed, NEW p \in net, NEW rest, rest \subseteq net, NEW out,
         OnSynAck(p, rest, out), UNCHANGED program
  PROVE  Effect
  <1> DEFINE k    == <<p.to, 1>>
             me   == IF con[k].st = "SYN_SENT" THEN [con[k] EXCEPT !.id = p.id] ELSE con[k]
             open == IF con[k].st = "ESTABLISHED" THEN me ELSE Opened(me)
             r    == IF out = "failed" THEN open ELSE [open EXCEPT !.st = "ESTABLISHED"]
  <1>1. TypeOK /\ p.type = "SYN_ACK" /\ p.from = Server /\ Known(p.to)
        /\ p.id \in Id /\ p.id # 0 /\ p.to \in Clients
    BY PacketFacts DEF Typed, OnSynAck, Known
  <1>2. k \in Conn /\ k[1] = p.to /\ k[1] \in Clients /\ con[k] \in ConRec
        /\ con[k].peer = Server /\ con[k].id # 0
    <2>1. k \in Conn /\ k[1] = p.to  BY <1>1, ConnFacts
    <2>2. con[k].peer = Server  BY <1>1 DEF Known
    <2>3. con[k].id # 0  BY <2>1, <2>2, Constants DEF Typed, Role
    <2> QED  BY <1>1, <2>1, <2>2, <2>3 DEF TypeOK
  <1>3. /\ con' = [con EXCEPT ![k] = r]
        /\ joined' = IF out = "failed" THEN joined
                     ELSE [joined EXCEPT ![p.to] = joined[p.to] \cup {me.id}]
        /\ (Announces(k) /\ Notify(p.to, "CONNECT", k)) \/ (~Announces(k) /\ UNCHANGED inbox)
        /\ net' = After(rest, Pkt("ACK", me.id, p.to, con[k].peer), out)
        /\ UNCHANGED table
    BY DEF OnSynAck
  <1> HIDE DEF k
  <1>4. /\ me \in ConRec /\ me.st = con[k].st /\ me.peer = Server /\ me.id # 0
        /\ me.id = con[k].id \/ me.id = p.id
        /\ con[k].st = "ESTABLISHED" => me = con[k]
    BY <1>1, <1>2 DEF ConRec
  <1> HIDE DEF me
  <1>5. /\ open \in ConRec /\ open.st = con[k].st /\ open.peer = Server /\ open.id = me.id
        /\ con[k].st = "ESTABLISHED" => open = con[k]
        /\ con[k].st # "ESTABLISHED" => open.chans = TRUE
    BY <1>4, ConTypes
  <1> HIDE DEF open
  <1>6. /\ r \in ConRec /\ r.st \in {"ESTABLISHED", con[k].st} /\ r.peer = Server
        /\ r.id = me.id /\ r.chans = open.chans
        /\ con[k].st = "ESTABLISHED" => r.st = "ESTABLISHED"
    BY <1>5 DEF ConRec, States
  <1> HIDE DEF r
  <1>7. nextId' = nextId /\ size' = size /\ restarts' = restarts  BY <1>3 DEF table, program
  <1>8. Moves
    <2>1. CASE con[k].st = "ESTABLISHED"
      <3>1. heard' = heard  BY <1>3, <2>1 DEF Announces, inbox, heard
      <3>2. Stays(k, r, heard[k])  BY <1>2, <1>4, <1>5, <1>6, <2>1 DEF Stays, SamePeer
      <3> QED  BY <1>1, <1>2, <1>3, <1>6, <1>7, <3>1, <3>2, Quietly DEF Move
    <2>2. CASE con[k].st # "ESTABLISHED"
      <3>1. Notify(k[1], "CONNECT", k)  BY <1>2, <1>3, <2>2 DEF Announces
      <3>2. r.chans = TRUE  BY <1>5, <1>6, <2>2
      <3>3. Joins(k, r, TRUE)
        BY <1>1, <1>2, <1>4, <1>6, <3>2 DEF Joins
      <3>4. Move(k, r, TRUE)  BY <1>7, <3>3 DEF Move
      <3> QED  BY <1>1, <1>2, <1>3, <1>6, <3>1, <3>4, Loudly
    <2> QED  BY <2>1, <2>2
  <1>9. joined \in [Clients -> SUBSET Id] /\ me.id \in Id  BY <1>1, <1>4 DEF TypeOK, ConRec
  <1>10. \A o \in net' : o \in net \/ Sent(o)
    <2>1. CASE out # "sent"  BY <1>3, <2>1 DEF After
    <2>2. CASE out = "sent"
      <3>1. me.id \in joined'[p.to]  BY <1>1, <1>3, <1>9, <2>2
      <3>2. PICK i \in Id : i = me.id  BY <1>9
      <3>3. p.to \in Ctx /\ Server \in Ctx  BY <1>1 DEF Ctx
      <3>4. PICK q : q = Pkt("ACK", i, p.to, Server)  OBVIOUS
      <3>5. /\ q \in Packet /\ q.type = "ACK" /\ q.id = i /\ q.from = p.to /\ q.to = Server
        BY <3>3, <3>4, PktType
      <3>6. Mailed(q)  BY <1>1, <1>4, <3>2, <3>5 DEF Mailed
      <3>7. Sent(q)  BY <1>1, <3>1, <3>2, <3>5, <3>6 DEF Sent
      <3>8. net' = After(rest, q, out)  BY <1>2, <1>3, <3>2, <3>4
      <3> QED  BY <3>7, <3>8, AfterFacts
    <2> QED  BY <2>1, <2>2
  <1>11. joined' \in [Clients -> SUBSET Id]  BY <1>1, <1>3, <1>9
  <1>12. JoinedUnder
    <2>1. con'[k] = r  BY <1>1, <1>2, <1>3 DEF TypeOK
    <2>2. k = <<p.to, 1>>  BY DEF k
    <2>3. \A c \in Clients :
            /\ joined[c] \subseteq joined'[c]
            /\ \A i \in joined'[c] : i \in joined[c] \/ (c = p.to /\ i = me.id)
      BY <1>1, <1>3, <1>9
    <2> QED  BY <1>1, <1>6, <2>1, <2>2, <2>3 DEF JoinedUnder
  <1>13. /\ events' \in [Ctx -> Seq(Event)]
         /\ \A x \in Ctx : Len(events'[x]) <= EventCap
         /\ told' \in [Conn -> BOOLEAN] /\ missed' \subseteq Conn
    <2>1. CASE Announces(k)  BY <1>1, <1>2, <1>3, <2>1, NotifyFacts
    <2>2. CASE ~Announces(k)  BY <1>1, <1>3, <2>2 DEF inbox, TypeOK
    <2> QED  BY <2>1, <2>2
  <1>14. Others  BY <1>1, <1>11, <1>13 DEF Others, TypeOK, program
  <1> QED  BY <1>7, <1>8, <1>10, <1>12, <1>14 DEF Effect, Summary

\* A handler that ends the connection it finds, or changes none.
LEMMA EndEffect ==
  ASSUME Typed, NEW k \in Conn, NEW r \in ConRec, SamePeer(k, r), r.st = "CLOSED",
         con' = [con EXCEPT ![k] = r], Notify(k[1], "DISCONNECT", k),
         \A q \in net' : q \in net \/ Sent(q),
         UNCHANGED <<table, joined, program>>
  PROVE  Effect
  <1>1. TypeOK /\ nextId' = nextId /\ size' = size /\ joined' = joined
    BY DEF Typed, table
  <1>2. \A t \in BOOLEAN : Ends(k, r, t)  BY DEF Ends
  <1>3. Moves  BY <1>1, <1>2, Loudly DEF Move
  <1> QED  BY <1>1, <1>3, Handled

LEMMA NoneEffect ==
  ASSUME Typed, UNCHANGED <<con, inbox>>,
         \A q \in net' : q \in net \/ Sent(q),
         UNCHANGED <<table, joined, program>>
  PROVE  Effect
  <1>1. TypeOK /\ con' = con /\ heard' = heard
        /\ nextId' = nextId /\ size' = size /\ joined' = joined
    BY DEF Typed, table, inbox, heard
  <1> QED  BY <1>1, Idle, Handled

LEMMA AckEffect ==
  ASSUME Typed, NEW p \in net, NEW rest, rest \subseteq net,
         OnAck(p, rest), UNCHANGED program
  PROVE  Effect
  <1>1. p.type = "ACK" /\ (\A q \in net' : q \in net) /\ UNCHANGED <<table, joined>>
    BY DEF OnAck
  <1>2. CASE UNCHANGED <<con, inbox>>  BY <1>1, <1>2, NoneEffect
  <1>3. CASE \E k \in FindConn(p.to, p.id) :
               /\ AwaitsAck(k)
               /\ con' = [con EXCEPT ![k] = [Opened(con[k]) EXCEPT !.st = "ESTABLISHED"]]
               /\ Notify(p.to, "CONNECT", k)
    <2>1. PICK k \in FindConn(p.to, p.id) :
               /\ AwaitsAck(k)
               /\ con' = [con EXCEPT ![k] = [Opened(con[k]) EXCEPT !.st = "ESTABLISHED"]]
               /\ Notify(p.to, "CONNECT", k)
      BY <1>3
    <2>2. k \in Conn /\ k[1] = p.to /\ con[k].id = p.id /\ con[k] \in ConRec
      BY NamedFacts
    <2>3. TypeOK /\ con[k].st = "SYN_RCVD" /\ k[1] = Server
      BY <2>1, <2>2, ConnFacts DEF Typed, Role, AwaitsAck
    <2>4. PICK o \in ConRec : o = Opened(con[k]) /\ o.chans = TRUE /\ SamePeer(k, o)
      BY <2>2, ConTypes DEF SamePeer
    <2>5. PICK r \in ConRec : /\ r = [o EXCEPT !.st = "ESTABLISHED"]
                              /\ r.st = "ESTABLISHED" /\ r.chans = TRUE /\ SamePeer(k, r)
      <3>1. PICK r \in ConRec : r = [o EXCEPT !.st = "ESTABLISHED"]
        BY DEF ConRec, States
      <3>2. r.st = "ESTABLISHED" /\ r.chans = o.chans /\ r.id = o.id /\ r.peer = o.peer
        BY <3>1 DEF ConRec
      <3>3. r.chans = TRUE /\ SamePeer(k, r)  BY <2>4, <3>2, Zenon DEF SamePeer
      <3> QED  BY <3>1, <3>2, <3>3, Zenon
    <2>6. con' = [con EXCEPT ![k] = r] /\ Notify(k[1], "CONNECT", k)
      BY <2>1, <2>2, <2>4, <2>5
    <2>7. Accepts(k, r, TRUE)
      BY <1>1, <2>2, <2>3, <2>5 DEF Accepts, SamePeer
    <2>8. nextId' = nextId /\ size' = size /\ joined' = joined  BY <1>1 DEF table
    <2>9. Moves  BY <2>2, <2>3, <2>6, <2>7, <2>8, Loudly DEF Move
    <2> QED  BY <1>1, <2>2, <2>6, <2>8, <2>9, Handled
  <1> QED  BY <1>2, <1>3 DEF OnAck

LEMMA FinEffect ==
  ASSUME Typed, NEW p \in net, NEW rest, rest \subseteq net, NEW out,
         OnFin(p, rest, out), UNCHANGED program
  PROVE  Effect
  <1>1. UNCHANGED <<table, joined>>  BY DEF OnFin
  <1>2. CASE FindConn(p.to, p.id) = {}
    BY <1>1, <1>2, NoneEffect DEF OnFin
  <1>3. CASE \E k \in FindConn(p.to, p.id) :
               /\ net' = After(rest, Pkt("FIN_ACK", p.id, p.to, con[k].peer), out)
               /\ \/ /\ con' = [con EXCEPT ![k] = Released(con[k])]
                     /\ Notify(p.to, "DISCONNECT", k)
                  \/ UNCHANGED <<con, inbox>>
    <2>1. PICK k \in FindConn(p.to, p.id) :
               /\ net' = After(rest, Pkt("FIN_ACK", p.id, p.to, con[k].peer), out)
               /\ \/ /\ con' = [con EXCEPT ![k] = Released(con[k])]
                     /\ Notify(p.to, "DISCONNECT", k)
                  \/ UNCHANGED <<con, inbox>>
      BY <1>3
    <2>2. k \in Conn /\ k[1] = p.to /\ con[k].id = p.id /\ con[k] \in ConRec
          /\ con[k].peer # None
      BY NamedFacts
    <2>3. Sent(Pkt("FIN_ACK", con[k].id, k[1], con[k].peer))  BY <2>2, SentToPeer
    <2>4. \A q \in net' : q \in net \/ Sent(q)  BY <2>1, <2>2, <2>3, AfterFacts
    <2>5. PICK r \in ConRec : r = Released(con[k]) /\ SamePeer(k, r) /\ r.st = "CLOSED"
      BY <2>2, ConTypes DEF SamePeer
    <2>6. CASE con' = [con EXCEPT ![k] = Released(con[k])] /\ Notify(p.to, "DISCONNECT", k)
      BY <1>1, <2>2, <2>4, <2>5, <2>6, EndEffect
    <2>7. CASE UNCHANGED <<con, inbox>>  BY <1>1, <2>4, <2>7, NoneEffect
    <2> QED  BY <2>1, <2>6, <2>7
  <1> QED  BY <1>2, <1>3 DEF OnFin

LEMMA FinAckEffect ==
  ASSUME Typed, NEW p \in net, NEW rest, rest \subseteq net,
         OnFinAck(p, rest), UNCHANGED program
  PROVE  Effect
  <1>1. (\A q \in net' : q \in net) /\ UNCHANGED <<table, joined>>  BY DEF OnFinAck
  <1>2. CASE UNCHANGED <<con, inbox>>  BY <1>1, <1>2, NoneEffect
  <1>3. CASE \E k \in FindConn(p.to, p.id) :
               /\ con' = [con EXCEPT ![k] = Released(con[k])]
               /\ Notify(p.to, "DISCONNECT", k)
    <2>1. PICK k \in FindConn(p.to, p.id) :
               /\ con' = [con EXCEPT ![k] = Released(con[k])]
               /\ Notify(p.to, "DISCONNECT", k)
      BY <1>3
    <2>2. k \in Conn /\ k[1] = p.to /\ con[k] \in ConRec  BY NamedFacts
    <2>3. PICK r \in ConRec : r = Released(con[k]) /\ SamePeer(k, r) /\ r.st = "CLOSED"
      BY <2>2, ConTypes DEF SamePeer
    <2> QED  BY <1>1, <2>1, <2>2, <2>3, EndEffect
  <1> QED  BY <1>2, <1>3 DEF OnFinAck

LEMMA RstEffect ==
  ASSUME Typed, NEW p \in net, NEW rest, rest \subseteq net,
         OnRst(p, rest), UNCHANGED program
  PROVE  Effect
  <1>1. (\A q \in net' : q \in net) /\ UNCHANGED <<table, joined>>  BY DEF OnRst
  <1>2. CASE UNCHANGED <<con, inbox>>  BY <1>1, <1>2, NoneEffect
  <1>3. CASE \E k \in FindConn(p.to, p.id) :
               /\ con' = [con EXCEPT ![k] = Reset(con[k])]
               /\ Notify(p.to, "DISCONNECT", k)
    <2>1. PICK k \in FindConn(p.to, p.id) :
               /\ con' = [con EXCEPT ![k] = Reset(con[k])]
               /\ Notify(p.to, "DISCONNECT", k)
      BY <1>3
    <2>2. k \in Conn /\ k[1] = p.to /\ con[k] \in ConRec  BY NamedFacts
    <2>3. PICK r \in ConRec : r = Reset(con[k]) /\ SamePeer(k, r) /\ r.st = "CLOSED"
      BY <2>2, ConTypes DEF SamePeer
    <2> QED  BY <1>1, <2>1, <2>2, <2>3, EndEffect
  <1> QED  BY <1>2, <1>3 DEF OnRst

LEMMA PingEffect ==
  ASSUME Typed, NEW p \in net, NEW rest, rest \subseteq net, NEW out,
         OnPing(p, rest, out), UNCHANGED program
  PROVE  Effect
  <1>1. UNCHANGED <<con, inbox>> /\ UNCHANGED <<table, joined>>
        /\ net' = After(rest, Pkt("PONG", p.id, p.to, p.from), out)
    BY DEF OnPing
  <1>2. PICK i \in Id, x \in Ctx, a \in Ctx : i = p.id /\ x = p.to /\ a = p.from
    BY PacketFacts
  <1>3. PICK q : q = Pkt("PONG", i, x, a)  OBVIOUS
  <1>4. q \in Packet /\ q.type = "PONG" /\ q.id = i /\ q.from = x /\ q.to = a
    BY <1>3, PktType
  <1>5. i # 0 /\ ((Known(a) /\ x = Server) \/ (Known(x) /\ a = Server))
    BY <1>2, PacketFacts
  <1>6. Sent(q)  BY <1>4, <1>5 DEF Sent, Mailed
  <1>7. \A o \in net' : o \in net \/ Sent(o)  BY <1>1, <1>2, <1>3, <1>6, AfterFacts
  <1> QED  BY <1>1, <1>7, NoneEffect

LEMMA PongEffect ==
  ASSUME Typed, NEW p \in net, NEW rest, rest \subseteq net,
         OnPong(p, rest), UNCHANGED program
  PROVE  Effect
  <1>1. (\A q \in net' : q \in net) /\ UNCHANGED <<table, joined>> /\ UNCHANGED inbox
        /\ con' = [k \in Conn |-> IF k \in FindConn(p.to, p.id)
                                  THEN [con[k] EXCEPT !.keep = 0] ELSE con[k]]
    BY DEF OnPong
  <1>2. TypeOK  BY DEF Typed
  <1>3. CASE FindConn(p.to, p.id) = {}
    <2>1. con' = con  BY <1>1, <1>2, <1>3 DEF TypeOK
    <2> QED  BY <1>1, <2>1, NoneEffect
  <1>4. CASE FindConn(p.to, p.id) # {}
    <2>1. PICK k \in FindConn(p.to, p.id) : TRUE  BY <1>4
    <2>2. k \in Conn /\ con[k] \in ConRec  BY NamedFacts
    <2>3. \A j \in FindConn(p.to, p.id) : j = k  BY <1>2, <2>1, FoundOnce, PacketFacts
    <2> DEFINE r == [con[k] EXCEPT !.keep = 0]
    <2>4. con' = [con EXCEPT ![k] = r]
      <3>1. \A j \in Conn : j # k => con'[j] = con[j]  BY <1>1, <2>3
      <3>2. con'[k] = r  BY <1>1, <2>1, <2>2
      <3> HIDE DEF r
      <3> QED  BY <1>1, <1>2, <3>1, <3>2 DEF TypeOK
    <2>5. r \in ConRec /\ SamePeer(k, r) /\ r.st = con[k].st /\ r.chans = con[k].chans
      <3>1. \A n \in 0 .. MaxKeep + 1 : [con[k] EXCEPT !.keep = n] \in ConRec
        BY <2>2 DEF ConRec
      <3>2. 0 \in 0 .. MaxKeep + 1  BY Constants
      <3>3. r \in ConRec  BY <3>1, <3>2, Zenon
      <3> QED  BY <2>2, <3>3 DEF ConRec, SamePeer
    <2> HIDE DEF r
    <2>6. heard' = heard /\ nextId' = nextId /\ size' = size /\ joined' = joined
      BY <1>1 DEF table, inbox, heard
    <2>7. Stays(k, r, heard[k])  BY <2>5 DEF Stays
    <2>8. Moves  BY <1>2, <2>2, <2>4, <2>5, <2>6, <2>7, Quietly DEF Move
    <2> QED  BY <1>1, <2>6, <2>8, Handled
  <1> QED  BY <1>3, <1>4

LEMMA DataEffect ==
  ASSUME Typed, NEW p \in net, NEW rest, rest \subseteq net,
         OnData(p, rest), UNCHANGED program
  PROVE  Effect
  <1>1. (\A q \in net' : q \in net) /\ UNCHANGED <<con, table, joined>>  BY DEF OnData
  <1>2. CASE UNCHANGED inbox  BY <1>1, <1>2, NoneEffect
  <1>3. CASE \E k \in FindConn(p.to, p.id) : Notify(p.to, "RECEIVE", k)
    <2>1. PICK k \in FindConn(p.to, p.id) : Notify(p.to, "RECEIVE", k)  BY <1>3
    <2>2. TypeOK /\ k \in Conn /\ k[1] = p.to  BY NamedFacts DEF Typed
    <2>3. Notify(k[1], "RECEIVE", k)  BY <2>1, <2>2
    <2>4. heard' = heard
      <3>1. UNCHANGED <<told, missed>>  BY <2>3 DEF Notify, Record
      <3> QED  BY <3>1, HeardFacts
    <2>5. nextId' = nextId /\ size' = size /\ joined' = joined /\ con' = con
      BY <1>1 DEF table
    <2>6. Moves  BY <2>2, <2>4, <2>5, Idle
    <2> QED  BY <1>1, <2>2, <2>3, <2>5, <2>6, Handled
  <1> QED  BY <1>2, <1>3 DEF OnData

LEMMA ReceiveEffect ==
  ASSUME Typed, NEW p \in net, NEW keep, NEW out, Receive(p, keep, out)
  PROVE  Effect
  <1> DEFINE rest == IF keep THEN net ELSE net \ {p}
  <1>1. rest \subseteq net /\ UNCHANGED program  BY DEF Receive
  <1>2. \/ OnSyn(p, rest, out) \/ OnSynAck(p, rest, out)
        \/ OnFin(p, rest, out) \/ OnPing(p, rest, out)
        \/ OnAck(p, rest)      \/ OnFinAck(p, rest)
        \/ OnPong(p, rest)     \/ OnRst(p, rest)
        \/ OnData(p, rest)
    BY DEF Receive
  <1> HIDE DEF rest
  <1>3. (OnSyn(p, rest, out) \/ OnSynAck(p, rest, out) \/ OnAck(p, rest)) => Effect
    BY <1>1, SynEffect, SynAckEffect, AckEffect
  <1>4. (OnFin(p, rest, out) \/ OnFinAck(p, rest) \/ OnRst(p, rest)) => Effect
    BY <1>1, FinEffect, FinAckEffect, RstEffect
  <1>5. (OnPing(p, rest, out) \/ OnPong(p, rest) \/ OnData(p, rest)) => Effect
    BY <1>1, PingEffect, PongEffect, DataEffect
  <1> QED  BY <1>2, <1>3, <1>4, <1>5

\* Every step is a Move with its Summary, or a restart.
LEMMA NextEffect ==
  ASSUME Typed, [Next]_vars
  PROVE  Effect \/ Restart
  <1>1. TypeOK /\ up \subseteq Ctx  BY DEF Typed, TypeOK
  <1>2. CASE UNCHANGED vars  BY <1>2, NoneEffect DEF vars, table, inbox, program
  <1>3. CASE \E c \in Clients \cap up : Connect(c) \/ SendData(c) \/ Die(c)
    BY <1>3, ConnectEffect, SendDataEffect, DieEffect
  <1>4. CASE \E k \in Conn : Close(k) \/ \E out \in Outcomes : Timer(k, out)
    BY <1>4, CloseEffect, TimerEffect
  <1>5. CASE \E x \in up : Poll(x)  BY <1>1, <1>5, PollEffect
  <1>6. CASE \E p \in net, keep \in Keeps, out \in Outcomes : Receive(p, keep, out)
    BY <1>6, ReceiveEffect
  <1> QED  BY <1>2, <1>3, <1>4, <1>5, <1>6 DEF Next

-----------------------------------------------------------------------------
(***************************************************************************)
(* The types.                                                              *)
(***************************************************************************)
LEMMA InitTyped == Init => Typed
  <1> SUFFICES ASSUME Init PROVE Typed  OBVIOUS
  <1>1. Fresh \in ConRec  BY Constants DEF Fresh, ConRec, States, Id
  <1>2. con \in [Conn -> ConRec] /\ \A k \in Conn : con[k] = Fresh  BY <1>1 DEF Init
  <1>3. \A k \in Conn : Role(k)
    BY <1>2, Constants DEF Init, Role, Fresh
  <1>4. events \in [Ctx -> Seq(Event)] /\ \A x \in Ctx : Len(events[x]) <= EventCap
    <2>1. << >> \in Seq(Event) /\ Len(<< >>) <= EventCap  BY Constants
    <2>2. events = [x \in Ctx |-> << >>]  BY DEF Init
    <2> QED  BY <2>1, <2>2
  <1>5. nextId \in 1 .. MaxId + 1  BY Constants DEF Init
  <1>6. calls \in 0 .. MaxConnect /\ restarts \in 0 .. MaxRestart
    BY SessionAssumption DEF Init
  <1>7. TypeOK  BY <1>2, <1>4, <1>5, <1>6 DEF TypeOK, Init
  <1> QED  BY <1>3, <1>7 DEF Typed, Init

\* What happens to the connections that a Move does not touch, and to the one it does.
LEMMA MovedFacts ==
  ASSUME TypeOK, NEW k \in Conn, NEW r \in ConRec, NEW t \in BOOLEAN,
         con' = [con EXCEPT ![k] = r], heard' = [heard EXCEPT ![k] = t]
  PROVE  /\ con' \in [Conn -> ConRec]
         /\ con'[k] = r /\ heard'[k] = t
         /\ \A j \in Conn : j # k => con'[j] = con[j] /\ heard'[j] = heard[j]
  <1>1. con \in [Conn -> ConRec]  BY DEF TypeOK
  <1>2. heard = [j \in Conn |-> heard[j]]  BY DEF heard
  <1> QED  BY <1>1, <1>2

LEMMA KnownStays ==
  ASSUME Typed, Effect, NEW c, Known(c)
  PROVE  Known(c)'
  <1>1. PICK k \in Conn, r \in ConRec, t \in BOOLEAN :
          con' = [con EXCEPT ![k] = r] /\ heard' = [heard EXCEPT ![k] = t] /\ Move(k, r, t)
    BY DEF Effect, Summary, Moves
  <1>2. TypeOK  BY DEF Typed
  <1>3. c \in Clients /\ con[<<c, 1>>].peer = Server /\ <<c, 1>> \in Conn
    BY ConnFacts DEF Known
  <1>4. k = <<c, 1>> => r.peer = Server
    <2>1. SUFFICES ASSUME k = <<c, 1>> PROVE r.peer = Server  OBVIOUS
    <2>2. k \notin ConnsOf(Server)  BY <1>2, <1>3, <2>1, ConnsOfConn, Constants DEF Ctx
    <2> QED  BY <1>1, <1>3, <2>1, <2>2
             DEF Move, Stays, Starts, Closes, Ends, Reopens, Joins, Accepts, Takes, SamePeer
  <1> QED  BY <1>1, <1>2, <1>3, <1>4, MovedFacts DEF Known

LEMMA MoveRole ==
  ASSUME Typed, NEW k \in Conn, NEW r \in ConRec, NEW t, Move(k, r, t)
  PROVE  /\ r.peer = None => r.st = "CLOSED" /\ r.id = 0
         /\ r.peer # None => r.id # 0
         /\ k[1] \in Clients => r.st # "SYN_RCVD" /\ r.peer \in {None, Server}
         /\ k[1] = Server => /\ r.st # "SYN_SENT"
                             /\ r.peer # None => Known(r.peer)
                             /\ r.id < nextId'
  <1> DEFINE Goal ==
               /\ r.peer = None => r.st = "CLOSED" /\ r.id = 0
               /\ r.peer # None => r.id # 0
               /\ k[1] \in Clients => r.st # "SYN_RCVD" /\ r.peer \in {None, Server}
               /\ k[1] = Server => /\ r.st # "SYN_SENT"
                                   /\ r.peer # None => Known(r.peer)
                                   /\ r.id < nextId'
  <1>1. TypeOK /\ con[k] \in ConRec /\ Role(k)  BY DEF Typed, TypeOK
  <1>2. k[1] = Server => k[1] \notin Clients  BY Constants
  <1>3. CASE SamePeer(k, r) /\ r.st = con[k].st /\ nextId' = nextId
    BY <1>1, <1>3 DEF SamePeer, Role
  <1>4. CASE Starts(k, r, t)  BY <1>2, <1>4, Constants DEF Starts
  <1>5. CASE Closes(k, r, t) /\ nextId' = nextId
    BY <1>1, <1>5 DEF Closes, SamePeer, Role
  <1>6. CASE Ends(k, r, t) /\ nextId' = nextId  BY <1>1, <1>6 DEF Ends, SamePeer, Role
  <1>7. CASE Reopens(k, r, t) /\ nextId' = nextId
    BY <1>1, <1>2, <1>7 DEF Reopens, SamePeer, Role
  <1>8. CASE Takes(k, r, t)
    <2>1. k[1] = Server  BY <1>1, <1>8, ConnsOfConn DEF Takes, Ctx
    <2>2. nextId \in Nat /\ nextId # 0  BY <1>1, Constants DEF TypeOK
    <2>3. r.peer # None  BY <1>8, Constants DEF Takes, Known
    <2>4. r.id # 0 /\ r.id < nextId' /\ r.st = "SYN_RCVD" /\ Known(r.peer)
      BY <1>8, <2>2 DEF Takes
    <2> QED  BY <1>2, <2>1, <2>3, <2>4
  <1>9. CASE Joins(k, r, t)
    <2>1. k[1] \in Clients /\ k[1] # Server /\ r.peer = Server /\ r.peer # None
      BY <1>2, <1>9, Constants DEF Joins
    <2>2. con[k].peer = Server  BY <1>9, <2>1, ConnFacts DEF Joins, Known
    <2>3. r.id # 0
      <3>1. CASE r.id = con[k].id  BY <1>1, <2>1, <2>2, <3>1 DEF Role
      <3>2. CASE \E p \in net : p.id = r.id  BY <3>2, PacketFacts
      <3> QED  BY <1>9, <3>1, <3>2 DEF Joins
    <2>4. r.st # "SYN_RCVD"  BY <1>1, <1>9, <2>1 DEF Joins, Role
    <2> QED  BY <2>1, <2>3, <2>4
  <1>10. CASE Accepts(k, r, t) /\ nextId' = nextId
    BY <1>1, <1>2, <1>10 DEF Accepts, SamePeer, Role
  <1>11. Goal
    BY <1>3, <1>4, <1>5, <1>6, <1>7, <1>8, <1>9, <1>10 DEF Move, Stays
  <1> QED  BY <1>11

LEMMA EffectTyped ==
  ASSUME Typed, Effect
  PROVE  Typed'
  <1>1. PICK k \in Conn, r \in ConRec, t \in BOOLEAN :
          con' = [con EXCEPT ![k] = r] /\ heard' = [heard EXCEPT ![k] = t] /\ Move(k, r, t)
    BY DEF Effect, Summary, Moves
  <1>2. TypeOK  BY DEF Typed
  <1>3. /\ con' \in [Conn -> ConRec] /\ con'[k] = r
        /\ \A j \in Conn : j # k => con'[j] = con[j]
    BY <1>1, <1>2, MovedFacts
  <1>4. nextId \in 1 .. MaxId + 1 /\ nextId' \in 1 .. MaxId + 1 /\ nextId <= nextId'
    <2>1. nextId \in 1 .. MaxId + 1  BY <1>2 DEF TypeOK
    <2>2. nextId' = nextId \/ (nextId <= MaxId /\ nextId' = nextId + 1)
      BY <1>1 DEF Move, Takes
    <2> QED  BY <2>1, <2>2, Constants
  <1>5. size' = size /\ restarts' = restarts /\ \A p \in net' : p \in net \/ Sent(p)
    BY DEF Effect, Summary
  <1>6. net' \subseteq Packet  BY <1>2, <1>5 DEF Sent, TypeOK
  <1>7. TypeOK'  BY <1>2, <1>3, <1>4, <1>5, <1>6 DEF TypeOK, Effect, Others
  <1>8. \A c : Known(c) => Known(c)'  BY KnownStays
  <1>9. \A p \in net' : Mailed(p)'
    <2>1. \A p \in net' : Mailed(p)  BY <1>5 DEF Typed, Sent
    <2> QED  BY <1>8, <2>1 DEF Mailed
  <1>10. \A j \in Conn : Role(j)'
    <2> TAKE j \in Conn
    <2>1. Role(j) /\ con[j] \in ConRec /\ con[j].id \in Nat
      BY <1>2 DEF Typed, TypeOK, ConRec, Id
    <2>2. CASE j # k
      <3>1. con'[j] = con[j]  BY <1>3, <2>2
      <3>2. con'[j].id < nextId \/ j[1] # Server  BY <2>1, <3>1 DEF Role
      <3>3. j[1] = Server => con'[j].id < nextId'  BY <1>4, <2>1, <3>1, <3>2
      <3> QED  BY <1>8, <2>1, <3>1, <3>3 DEF Role
    <2>3. CASE j = k
      <3>1. con'[j] = r  BY <1>3, <2>3
      <3> QED  BY <1>1, <1>8, <2>3, <3>1, MoveRole DEF Role
    <2> QED  BY <2>2, <2>3
  <1> QED  BY <1>7, <1>9, <1>10 DEF Typed

LEMMA RestartTyped ==
  ASSUME Typed, Restart
  PROVE  Typed'
  <1>1. TypeOK  BY DEF Typed
  <1>2. Fresh \in ConRec  BY Constants DEF Fresh, ConRec, States, Id
  <1>3. /\ con' \in [Conn -> ConRec]
        /\ \A j \in Conn : con'[j] = IF j[1] = Server THEN Fresh ELSE con[j]
    BY <1>1, <1>2 DEF Restart, TypeOK
  <1>4. events' \in [Ctx -> Seq(Event)] /\ \A x \in Ctx : Len(events'[x]) <= EventCap
    <2>1. << >> \in Seq(Event) /\ Len(<< >>) <= EventCap  BY Constants
    <2> QED  BY <1>1, <2>1 DEF Restart, TypeOK
  <1>5. told' \in [Conn -> BOOLEAN] /\ missed' \subseteq Conn
    <2>1. \A j \in Conn : (j[1] # Server /\ told[j]) \in BOOLEAN  OBVIOUS
    <2> QED  BY <1>1, <2>1 DEF Restart, TypeOK
  <1>6. nextId' \in 1 .. MaxId + 1 /\ nextId' = 1  BY Constants DEF Restart
  <1>7. restarts' \in 0 .. MaxRestart
    BY <1>1, SessionAssumption DEF Restart, TypeOK
  <1>8. size' \in Sizes /\ UNCHANGED <<net, joined, calls, up>>  BY DEF Restart
  <1>9. TypeOK'  BY <1>1, <1>3, <1>4, <1>5, <1>6, <1>7, <1>8 DEF TypeOK
  <1>10. \A c : Known(c) => Known(c)'
    BY <1>3, ConnFacts, Constants DEF Known
  <1>11. \A p \in net' : Mailed(p)'  BY <1>8, <1>10 DEF Typed, Mailed
  <1>12. \A j \in Conn : Role(j)'
    <2> TAKE j \in Conn
    <2>1. Role(j)  BY DEF Typed
    <2>2. CASE j[1] = Server  BY <1>3, <1>6, <2>2, Constants DEF Role, Fresh
    <2>3. CASE j[1] # Server  BY <1>3, <2>1, <2>3 DEF Role
    <2> QED  BY <2>2, <2>3
  <1> QED  BY <1>9, <1>11, <1>12 DEF Typed

LEMMA StepTyped == Typed /\ [Next]_vars => Typed'
  BY NextEffect, EffectTyped, RestartTyped

LEMMA AlwaysTyped == Spec => []Typed
  <1>1. Init => Typed  BY InitTyped
  <1>2. Typed /\ [Next]_vars => Typed'  BY StepTyped
  <1> QED  BY <1>1, <1>2, PTL DEF Spec

(***************************************************************************)
(* Every step of every context keeps the types of connections, queues,     *)
(* packets and histories, whatever the network does.                       *)
(***************************************************************************)
THEOREM TypeCorrect == Spec => []TypeOK
  <1>1. Typed => TypeOK  BY DEF Typed
  <1> QED  BY <1>1, AlwaysTyped, PTL

-----------------------------------------------------------------------------
(***************************************************************************)
(* Channels and events are there when a connection carries data.           *)
(***************************************************************************)
Equipped(k) ==
  /\ con[k].st = "ESTABLISHED" => con[k].chans
  /\ con[k].st \in {"ESTABLISHED", "FIN_SENT"} => heard[k]

AllEquipped == \A k \in Conn : Equipped(k)

LEMMA StepEquipped ==
  ASSUME Typed, AllEquipped, Effect \/ Restart
  PROVE  AllEquipped'
  <1>1. TypeOK  BY DEF Typed
  <1>2. CASE Restart
    <2>1. \A j \in Conn : /\ con'[j] = IF j[1] = Server THEN Fresh ELSE con[j]
                          /\ told'[j] = (j[1] # Server /\ told[j])
                          /\ j \in missed' <=> j[1] # Server /\ j \in missed
      BY <1>1, <1>2 DEF Restart, TypeOK
    <2>2. Fresh.st = "CLOSED"  BY DEF Fresh
    <2>3. \A j \in Conn : j[1] = Server => con'[j].st = "CLOSED"  BY <2>1, <2>2
    <2>4. \A j \in Conn : j[1] # Server => con'[j] = con[j] /\ (heard[j] => heard'[j])
      BY <2>1 DEF heard
    <2>5. ASSUME NEW j \in Conn PROVE Equipped(j)'
      <3>1. Equipped(j)  BY DEF AllEquipped
      <3> QED  BY <2>3, <2>4, <3>1 DEF Equipped
    <2> QED  BY <2>5 DEF AllEquipped
  <1>3. CASE Effect
    <2>1. PICK k \in Conn, r \in ConRec, t \in BOOLEAN :
            con' = [con EXCEPT ![k] = r] /\ heard' = [heard EXCEPT ![k] = t] /\ Move(k, r, t)
      BY <1>3 DEF Effect, Summary, Moves
    <2>2. /\ con'[k] = r /\ heard'[k] = t
          /\ \A j \in Conn : j # k => con'[j] = con[j] /\ heard'[j] = heard[j]
      BY <1>1, <2>1, MovedFacts
    <2>3. Equipped(k) /\ con[k] \in ConRec  BY <1>1 DEF AllEquipped, TypeOK
    <2>4. r.st = "ESTABLISHED" => r.chans
      BY <2>1, <2>3 DEF Equipped, Move, Stays, Starts, Closes, Ends, Reopens, Takes, Joins,
                        Accepts
    <2>5. r.st \in {"ESTABLISHED", "FIN_SENT"} => t
      BY <2>1, <2>3 DEF Equipped, Move, Stays, Starts, Closes, Ends, Reopens, Takes, Joins,
                        Accepts
    <2>6. Equipped(k)'  BY <2>2, <2>4, <2>5 DEF Equipped
    <2>7. ASSUME NEW j \in Conn, j # k PROVE Equipped(j)'
      BY <2>2, <2>7 DEF AllEquipped, Equipped
    <2> QED  BY <2>6, <2>7 DEF AllEquipped
  <1> QED  BY <1>2, <1>3

LEMMA AlwaysEquipped == Spec => []AllEquipped
  <1>1. Init => AllEquipped
    BY DEF Init, AllEquipped, Equipped, Fresh
  <1>2. Typed /\ AllEquipped /\ [Next]_vars => AllEquipped'
    BY NextEffect, StepEquipped
  <1> QED  BY <1>1, <1>2, AlwaysTyped, PTL DEF Spec

(***************************************************************************)
(* An ESTABLISHED connection has its channels: glb_send, DATA and DATA_ACK *)
(* never use a NULL con->channels, whichever handler set the state.        *)
(***************************************************************************)
THEOREM ReadyChannels == Spec => []ChannelsReady
  <1>1. AllEquipped => ChannelsReady  BY DEF AllEquipped, Equipped, ChannelsReady
  <1> QED  BY <1>1, AlwaysEquipped, PTL

(***************************************************************************)
(* A connection that carries data or is being closed was announced: the    *)
(* last event that its queue took for it is a CONNECT, unless the queue    *)
(* was full and refused one.  For any order of late, lost and repeated     *)
(* handshake packets, any capacity, and applications that poll or do not.  *)
(***************************************************************************)
THEOREM AnnouncedFirst == Spec => []Announced
  <1>1. AllEquipped => Announced  BY DEF AllEquipped, Equipped, Announced, heard
  <1> QED  BY <1>1, AlwaysEquipped, PTL

-----------------------------------------------------------------------------
(***************************************************************************)
(* The server's slots.                                                     *)
(***************************************************************************)
LEMMA StepApart ==
  ASSUME Typed, SlotsApart, Effect \/ Restart
  PROVE  SlotsApart'
  <1>1. TypeOK /\ Server \in Ctx  BY DEF Typed, Ctx
  <1>2. CASE Restart
    <2>1. TypeOK'  BY <1>2, RestartTyped DEF Typed
    <2>2. \A j \in ConnsOf(Server)' : j \in Conn /\ j[1] = Server
      BY <2>1, Constants DEF ConnsOf, Conn, TypeOK
    <2>3. \A j \in ConnsOf(Server)' : con'[j].id = 0
      BY <1>2, <2>2 DEF Restart, Fresh
    <2> QED  BY <2>3 DEF SlotsApart, Used
  <1>3. CASE Effect
    <2>1. PICK k \in Conn, r \in ConRec, t \in BOOLEAN :
            con' = [con EXCEPT ![k] = r] /\ heard' = [heard EXCEPT ![k] = t] /\ Move(k, r, t)
      BY <1>3 DEF Effect, Summary, Moves
    <2>2. con'[k] = r /\ \A j \in Conn : j # k => con'[j] = con[j]
      BY <1>1, <2>1, MovedFacts
    <2>3. ConnsOf(Server)' = ConnsOf(Server)
      BY <1>3 DEF Effect, Summary, ConnsOf
    <2>4. \A j \in ConnsOf(Server) :
            /\ j \in Conn /\ j[1] = Server /\ j[1] \notin Clients
            /\ con[j].id \in Nat /\ con[j].id < nextId
      <3>1. \A j \in ConnsOf(Server) : j \in Conn /\ j[1] = Server  BY <1>1, ConnsOfConn
      <3>2. \A j \in Conn : con[j].id \in Nat  BY <1>1 DEF TypeOK, ConRec, Id
      <3> QED  BY <3>1, <3>2, Constants DEF Typed, Role
    <2>5. CASE SamePeer(k, r) \/ k \notin ConnsOf(Server)
      BY <2>2, <2>3, <2>4, <2>5 DEF SlotsApart, Used, SamePeer
    <2>6. CASE Takes(k, r, t)
      <3>1. \A j \in ConnsOf(Server) : con[j].peer # r.peer /\ con[j].id # r.id
        <4>1. nextId \in Nat  BY <1>1, Constants DEF TypeOK
        <4> QED  BY <2>4, <2>6, <4>1 DEF Takes
      <3>2. \A j \in ConnsOf(Server) : j # k => con'[j] = con[j]  BY <2>2, <2>4
      <3> QED  BY <2>2, <2>3, <3>1, <3>2 DEF SlotsApart, Used
    <2>7. SamePeer(k, r) \/ k \notin ConnsOf(Server) \/ Takes(k, r, t)
      BY <2>1, <2>4 DEF Move, Stays, Starts, Closes, Ends, Reopens, Joins, Accepts
    <2> QED  BY <2>5, <2>6, <2>7
  <1> QED  BY <1>2, <1>3

(***************************************************************************)
(* No two slots of the server ever share an id or a peer, closed ones      *)
(* included: FindConn and FindConnByAddr have one answer, for any number   *)
(* of slots, clients and restarts.                                         *)
(***************************************************************************)
THEOREM ApartSlots == Spec => []SlotsApart
  <1>1. Init => SlotsApart
    <2> SUFFICES ASSUME Init PROVE SlotsApart  OBVIOUS
    <2>1. TypeOK /\ Server \in Ctx  BY InitTyped DEF Typed, Ctx
    <2>2. \A j \in ConnsOf(Server) : j \in Conn  BY <2>1, ConnsOfConn
    <2>3. \A j \in ConnsOf(Server) : con[j].id = 0  BY <2>2 DEF Init, Fresh
    <2> QED  BY <2>3 DEF SlotsApart, Used
  <1>2. Typed /\ SlotsApart /\ [Next]_vars => SlotsApart'
    BY NextEffect, StepApart
  <1> QED  BY <1>1, <1>2, AlwaysTyped, PTL DEF Spec

(***************************************************************************)
(* While the server runs, a live slot keeps its peer and its id: no SYN,   *)
(* late or from a stranger, takes over a connection.                       *)
(***************************************************************************)
THEOREM KeptSlots == Spec => NoTakeover
  <1> DEFINE Keep ==
        restarts' = restarts =>
          \A k \in ConnsOf(Server) : con[k].st # "CLOSED" =>
            con'[k].peer = con[k].peer /\ con'[k].id = con[k].id
  <1>1. ASSUME Typed, Next
        PROVE  Keep
    <2>1. TypeOK /\ Server \in Ctx  BY <1>1 DEF Typed, Ctx
    <2>2. CASE Restart
      <3>1. restarts \in Nat  BY <2>1, SessionAssumption DEF TypeOK
      <3> QED  BY <2>2, <3>1 DEF Restart
    <2>3. CASE Effect
      <3>1. PICK k \in Conn, r \in ConRec, t \in BOOLEAN :
              con' = [con EXCEPT ![k] = r] /\ heard' = [heard EXCEPT ![k] = t] /\ Move(k, r, t)
        BY <2>3 DEF Effect, Summary, Moves
      <3>2. con'[k] = r /\ \A j \in Conn : j # k => con'[j] = con[j]
        BY <2>1, <3>1, MovedFacts
      <3>3. \A j \in ConnsOf(Server) : j \in Conn /\ j[1] = Server /\ j[1] \notin Clients
        BY <2>1, ConnsOfConn, Constants
      <3>4. SamePeer(k, r) \/ k \notin ConnsOf(Server) \/ con[k].st = "CLOSED"
        BY <3>1, <3>3 DEF Move, Stays, Starts, Closes, Ends, Reopens, Takes, Joins, Accepts
      <3> QED  BY <3>2, <3>3, <3>4 DEF SamePeer
    <2> QED  BY <1>1, <2>2, <2>3, NextEffect
  <1>2. ASSUME Typed, [Next]_vars
        PROVE  [Keep]_vars
    BY <1>1, <1>2
  <1> QED  BY <1>2, AlwaysTyped, PTL DEF Spec, NoTakeover

-----------------------------------------------------------------------------
(***************************************************************************)
(* A server that is not restarted agrees with its clients.  The ids that   *)
(* name client c: those in a slot of c, in a SYN-ACK on its way to c, in   *)
(* c's own connection and in c's history.  A restart would end this, as    *)
(* ids are counted from 1 again.                                           *)
(***************************************************************************)
SlotNames(c, i)  == \E k \in Conn : k[1] = Server /\ con[k].id = i /\ con[k].peer = c
MailNames(c, i)  == \E p \in net : p.type = "SYN_ACK" /\ p.to = c /\ p.id = i

Names(c, i) ==
  /\ i \notin {0, Initiation}
  /\ SlotNames(c, i) \/ MailNames(c, i) \/ con[<<c, 1>>].id = i \/ i \in joined[c]

Agreed ==
  /\ restarts = 0
  /\ \A c \in Clients : 0 \notin joined[c]
  /\ \A c \in Clients, i \in Id : Names(c, i) => i < nextId
  /\ \A c, d \in Clients, i \in Id : Names(c, i) /\ Names(d, i) => c = d
  /\ \A p \in net : p.type = "ACK" => p.from \in Clients /\ p.id \in joined[p.from]
  /\ \A k \in Conn : k[1] = Server /\ con[k].st = "ESTABLISHED" =>
                       con[k].peer \in Clients /\ con[k].id \in joined[con[k].peer]

\* An id names a client anew only when the server has just taken a slot for it.
LEMMA NamesStep ==
  ASSUME Typed, Effect, NEW k \in Conn, NEW r \in ConRec, NEW t \in BOOLEAN,
         con' = [con EXCEPT ![k] = r], heard' = [heard EXCEPT ![k] = t], Move(k, r, t),
         NEW c \in Clients, NEW i \in Id, Names(c, i)'
  PROVE  Names(c, i) \/ (Takes(k, r, t) /\ c = r.peer /\ i = nextId)
  <1>1. TypeOK /\ i \notin {0, Initiation}  BY DEF Typed, Names
  <1>2. con'[k] = r /\ \A j \in Conn : j # k => con'[j] = con[j]  BY <1>1, MovedFacts
  <1>3. <<c, 1>> \in Conn /\ <<c, 1>>[1] = c /\ c # Server  BY ConnFacts, Constants
  <1>4. CASE con'[<<c, 1>>].id = i
    <2>1. CASE k # <<c, 1>>
      <3>1. con[<<c, 1>>].id = i  BY <1>2, <1>3, <1>4, <2>1
      <3> QED  BY <1>1, <3>1 DEF Names
    <2>2. CASE k = <<c, 1>>
      <3>1. r.id = i /\ k[1] = c  BY <1>2, <1>3, <1>4, <2>2
      <3>2. ~Takes(k, r, t)
        BY <1>1, <1>3, <3>1, ConnsOfConn DEF Takes, Ctx
      <3>3. r.id = con[k].id \/ Starts(k, r, t) \/ Joins(k, r, t)
        BY <3>2 DEF Move, Stays, Closes, Ends, Reopens, Accepts, SamePeer
      <3>4. ~Starts(k, r, t)  BY <1>1, <3>1 DEF Starts
      <3>5. con[<<c, 1>>].id = i \/ MailNames(c, i)
        BY <2>2, <3>1, <3>3, <3>4 DEF Joins, MailNames
      <3> QED  BY <1>1, <3>5 DEF Names
    <2> QED  BY <2>1, <2>2
  <1>5. CASE i \in joined'[c]
    <2>1. i \in joined[c] \/ i = con'[<<c, 1>>].id  BY <1>5 DEF Effect, Summary, JoinedUnder
    <2> QED  BY <1>1, <1>4, <2>1 DEF Names
  <1>6. CASE SlotNames(c, i)'
    <2>1. PICK j \in Conn : j[1] = Server /\ con'[j].id = i /\ con'[j].peer = c
      BY <1>6 DEF SlotNames
    <2>2. CASE j # k
      <3>1. con[j].id = i /\ con[j].peer = c  BY <1>2, <2>1, <2>2
      <3> QED  BY <1>1, <2>1, <3>1 DEF Names, SlotNames
    <2>3. CASE j = k
      <3>1. k[1] = Server /\ k[1] \notin Clients /\ r.id = i /\ r.peer = c
        BY <1>2, <2>1, <2>3, Constants
      <3>2. SamePeer(k, r) \/ Takes(k, r, t)
        BY <3>1 DEF Move, Stays, Starts, Closes, Ends, Reopens, Joins, Accepts
      <3>3. CASE SamePeer(k, r)
        BY <1>1, <3>1, <3>3 DEF Names, SlotNames, SamePeer
      <3>4. CASE Takes(k, r, t)  BY <3>1, <3>4 DEF Takes
      <3> QED  BY <3>2, <3>3, <3>4
    <2> QED  BY <2>2, <2>3
  <1>7. CASE MailNames(c, i)'
    <2>1. PICK p \in net' : p.type = "SYN_ACK" /\ p.to = c /\ p.id = i
      BY <1>7 DEF MailNames
    <2>2. CASE p \in net  BY <1>1, <2>1, <2>2 DEF Names, MailNames
    <2>3. CASE Sent(p)
      <3>1. \E j \in Conn : j[1] = Server /\ con[j].id = i /\ con[j].peer = c
        BY <2>1, <2>3 DEF Sent
      <3> QED  BY <1>1, <3>1 DEF Names, SlotNames
    <2> QED  BY <2>2, <2>3 DEF Effect, Summary
  <1> QED  BY <1>4, <1>5, <1>6, <1>7 DEF Names

LEMMA StepAgreed ==
  ASSUME Typed, Agreed, Effect
  PROVE  Agreed'
  <1>1. PICK k \in Conn, r \in ConRec, t \in BOOLEAN :
          con' = [con EXCEPT ![k] = r] /\ heard' = [heard EXCEPT ![k] = t] /\ Move(k, r, t)
    BY DEF Effect, Summary, Moves
  <1>2. TypeOK /\ Typed'  BY EffectTyped DEF Typed
  <1>3. con'[k] = r /\ \A j \in Conn : j # k => con'[j] = con[j]
    BY <1>1, <1>2, MovedFacts
  <1>4. restarts' = 0  BY DEF Agreed, Effect, Summary
  <1>5. nextId \in Nat /\ nextId <= MaxId + 1 /\ Id \subseteq Nat
    BY <1>2, Constants DEF TypeOK, Id
  <1>6. nextId' = nextId \/ nextId' = nextId + 1  BY <1>1 DEF Move, Takes
  <1>7. \A c \in Clients, i \in Id :
          Names(c, i)' => Names(c, i) \/ (Takes(k, r, t) /\ c = r.peer /\ i = nextId)
    BY <1>1, NamesStep
  <1>8. \A c \in Clients, i \in Id : Names(c, i) => i < nextId  BY DEF Agreed
  <1>9. \A c \in Clients, i \in Id : Names(c, i)' => i < nextId'
    <2>1. Takes(k, r, t) => nextId' = nextId + 1  BY DEF Takes
    <2> QED  BY <1>5, <1>6, <1>7, <1>8, <2>1
  <1>10. \A c, d \in Clients, i \in Id : Names(c, i)' /\ Names(d, i)' => c = d
    <2> TAKE c, d \in Clients, i \in Id
    <2>1. Names(c, i) /\ Names(d, i) => c = d  BY DEF Agreed
    <2>2. ~(Names(c, nextId) \/ Names(d, nextId)) \/ nextId \notin Id  BY <1>5, <1>8
    <2> QED  BY <1>7, <2>1, <2>2
  <1>11. \A c \in Clients : 0 \notin joined'[c]
    <2> SUFFICES ASSUME NEW c \in Clients, 0 \in joined'[c] PROVE FALSE  OBVIOUS
    <2>1. 0 \notin joined[c]  BY DEF Agreed
    <2>2. Known(c) /\ con'[<<c, 1>>].id = 0  BY <2>1 DEF Effect, Summary, JoinedUnder
    <2>3. Known(c)'  BY <2>2, KnownStays
    <2>4. <<c, 1>> \in Conn  BY ConnFacts
    <2> QED  BY <1>2, <2>2, <2>3, <2>4, Constants DEF Typed, Role, Known
  <1>12. \A c \in Clients : joined[c] \subseteq joined'[c]
    BY DEF Effect, Summary, JoinedUnder
  <1>13. \A p \in net' : p.type = "ACK" => p.from \in Clients /\ p.id \in joined'[p.from]
    BY <1>12 DEF Agreed, Effect, Summary, Sent
  <1>14. ASSUME NEW j \in Conn, j[1] = Server, con'[j].st = "ESTABLISHED"
         PROVE  con'[j].peer \in Clients /\ con'[j].id \in joined'[con'[j].peer]
    <2>1. CASE con[j].st = "ESTABLISHED" /\ SamePeer(j, con'[j])
      BY <1>12, <1>14, <2>1 DEF Agreed, SamePeer
    <2>2. CASE j = k /\ Accepts(k, r, t)
      <3>1. r.id = con[k].id /\ r.peer = con[k].peer /\ con[k].st = "SYN_RCVD"
        BY <2>2 DEF Accepts, SamePeer
      <3>2. con[k].peer # None /\ con[k].peer \in Clients /\ con[k].id # 0
            /\ con[k].id < nextId
        BY <1>14, <2>2, <3>1 DEF Typed, Role, Known
      <3>3. con[k].id \in Id /\ con[k].id # Initiation
        BY <1>2, <1>5, <3>2, Constants DEF TypeOK, ConRec, Initiation
      <3>4. PICK p \in net : p.type = "ACK" /\ p.id = r.id  BY <2>2 DEF Accepts
      <3>5. p.from \in Clients /\ r.id \in joined[p.from]  BY <3>4 DEF Agreed
      <3>6. Names(p.from, r.id)  BY <3>1, <3>2, <3>3, <3>5 DEF Names
      <3>7. Names(con[k].peer, r.id)
        BY <1>14, <2>2, <3>1, <3>2, <3>3 DEF Names, SlotNames
      <3>8. p.from = con[k].peer  BY <3>1, <3>2, <3>3, <3>5, <3>6, <3>7 DEF Agreed
      <3> QED  BY <1>3, <1>12, <2>2, <3>1, <3>2, <3>5, <3>8
    <2>3. j # k => con[j].st = "ESTABLISHED" /\ SamePeer(j, con'[j])
      BY <1>3, <1>14 DEF SamePeer
    <2>4. j = k => \/ con[j].st = "ESTABLISHED" /\ SamePeer(j, con'[j])
                   \/ Accepts(k, r, t)
      <3>1. j = k => r.st = "ESTABLISHED" /\ k[1] = Server /\ k[1] \notin Clients
        BY <1>3, <1>14, Constants
      <3> QED
        BY <1>1, <1>3, <3>1 DEF Move, Stays, Starts, Closes, Ends, Reopens, Takes, Joins,
                                Accepts
    <2> QED  BY <2>1, <2>2, <2>3, <2>4
  <1> QED  BY <1>4, <1>9, <1>10, <1>11, <1>13, <1>14 DEF Agreed

LEMMA AlwaysAgreed ==
  ASSUME MaxRestart = 0
  PROVE  Spec => []Agreed
  <1>1. Init => Agreed
    <2> SUFFICES ASSUME Init PROVE Agreed  OBVIOUS
    <2>1. \A k \in Conn : con[k].id = 0 /\ con[k].st = "CLOSED"  BY DEF Init, Fresh
    <2>2. net = {} /\ restarts = 0 /\ \A c \in Clients : joined[c] = {}  BY DEF Init
    <2>3. \A c \in Clients, i \in Id : ~Names(c, i)
      BY <2>1, <2>2, ConnFacts DEF Names, SlotNames, MailNames
    <2> QED  BY <2>1, <2>2, <2>3 DEF Agreed
  <1>2. Typed /\ Agreed /\ [Next]_vars => Agreed'
    <2>1. Agreed => ~Restart  BY DEF Agreed, Restart
    <2> QED  BY <2>1, NextEffect, StepAgreed
  <1> QED  BY <1>1, <1>2, AlwaysTyped, PTL DEF Spec

(***************************************************************************)
(* What the server calls ESTABLISHED, the client at its address has been   *)
(* ESTABLISHED under that id, while the server is not restarted: no late,  *)
(* repeated or foreign ACK completes somebody's handshake.                 *)
(***************************************************************************)
THEOREM Agreeing ==
  ASSUME MaxRestart = 0
  PROVE  Spec => []Agreement
  <1>1. Typed /\ Agreed => Agreement
    <2>1. Typed => \A k \in ConnsOf(Server) : k \in Conn /\ k[1] = Server
      BY ConnsOfConn DEF Typed, Ctx
    <2> QED  BY <2>1 DEF Agreed, Agreement
  <1> QED  BY <1>1, AlwaysTyped, AlwaysAgreed, PTL

(***************************************************************************)
(* No two clients are ever ESTABLISHED under one id, while the server is   *)
(* not restarted: an id names its sender, however late the packet.         *)
(***************************************************************************)
THEOREM ApartClients ==
  ASSUME MaxRestart = 0
  PROVE  Spec => []ClientsApart
  <1>1. Typed /\ Agreed => ClientsApart
    <2> SUFFICES ASSUME Typed, Agreed, NEW c \in Clients, NEW d \in Clients, c # d,
                        NEW i \in joined[c] \cap joined[d], i # Initiation
                 PROVE  FALSE
      BY DEF ClientsApart
    <2>1. i \in Id  BY DEF Typed, TypeOK
    <2>2. i # 0  BY DEF Agreed
    <2>3. Names(c, i) /\ Names(d, i)  BY <2>2 DEF Names
    <2> QED  BY <2>1, <2>3 DEF Agreed
  <1> QED  BY <1>1, AlwaysTyped, AlwaysAgreed, PTL

=============================================================================
