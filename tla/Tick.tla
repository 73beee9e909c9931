-------------------------------- MODULE Tick --------------------------------
(***************************************************************************)
(* A client's connection against the clock and the socket, from the call   *)
(* of glb_connect on: how glbio_read fills the packet buffer of glb_tick   *)
(* and what it rejects, the limit of packets per tick, and how long the    *)
(* retry and keep-alive timers let a connection wait, with a peer that may *)
(* die or change its address.                                              *)
(*                                                                         *)
(* Time is counted in ticks of a clock and kept in timers that count down, *)
(* as glbtime_getremaining reads them.  It passes between calls of         *)
(* glb_tick, at most Late units between two; what a call takes is part of  *)
(* Late.  Lengths are in units too: a header is HeaderLen of them.         *)
(***************************************************************************)
EXTENDS Integers, Sequences, FiniteSets

CONSTANTS
  Interval,    \* GLB_KEEPALIVE_TIME (200 ms in the code)
  RetryTime,   \* GLB_RETRY_TIMEOUT (100 ms)
  MaxKeep,     \* GLB_KEEPALIVE_RETRY (8)
  MaxRetry,    \* GLB_MAX_RETRY (5)
  RecvLimit,   \* GLB_RECV_LIMIT_PER_TICK (16)
  HeaderLen,   \* sizeof(glbpkgheader)
  MTU,         \* GILBERTA_MTU
  Late,        \* the application calls glb_tick at least this often
  Delay,       \* an answer that is not lost arrives within this time
  MaxMiss,     \* requests in a row that the path may lose
  Backlog,     \* datagrams waiting when other traffic stops coming in
  Mortal,      \* the peer's program may die
  MaxMove,     \* bound: changes of the peer's address
  MaxJunk      \* bound: receive errors and unusable datagrams

ASSUME TickAssumption ==
  /\ {Interval, RetryTime, RecvLimit, HeaderLen, Late} \subseteq Nat \ {0}
  /\ {MaxKeep, MaxRetry, MTU, Delay, MaxMiss, Backlog} \subseteq Nat
  /\ {MaxMove, MaxJunk} \subseteq Nat
  /\ Mortal \in BOOLEAN

VARIABLES
  \* the connection
  st,       \* con->state
  tries,    \* con->retry; in ESTABLISHED, con->keepalive_retry
  timer,    \* what remains of con->time; in ESTABLISHED, of con->keepalive
  peer,     \* con->peer_addr
  \* the call of glb_tick
  pc,       \* where it is
  recvd,    \* ctx->recv_limit: packets processed
  pkg,      \* header in the packet buffer
  \* the environment
  inbox,    \* what recvfrom will return, in order
  wire,     \* answers of the peer under way, with their age
  alive,    \* the peer's program runs
  addr,     \* the peer's address
  since,    \* time since the last call of glb_tick
  misses,   \* requests in a row that were lost
  junk,     \* errors and unusable datagrams so far
  \* history
  elapsed,  \* time since the attempt began, or since the last sign of life
  away      \* the peer and the address the connection sends to have parted,
            \* and the peer has not been reached since

connection  == <<st, tries, timer, peer, elapsed>>
tick        == <<pc, recvd, pkg>>
environment == <<inbox, wire, alive, addr, misses, junk>>
vars        == <<connection, tick, environment, since, away>>

Attempt == {"SYN_SENT", "FIN_SENT"}
States  == Attempt \cup {"ESTABLISHED", "CLOSED"}
Addr    == 0 .. MaxMove

(***************************************************************************)
(* A header: what it asks for, whether magic and version are right, and    *)
(* payload_len.  A datagram: a header, how much of it all was received,    *)
(* whether the checksum is that of the payload, and where it came from; an *)
(* error of recvfrom is a length below 0.                                  *)
(***************************************************************************)
Answers  == {"PONG", "SYN_ACK", "FIN_ACK"}
Kinds    == Answers \cup {"PING", "DATA"}
Header   == [kind : Kinds \cup {"NONE"}, magic : BOOLEAN, payload : 0 .. MTU + 1]
Datagram == [head : Header, len : -1 .. HeaderLen + MTU + 1, sum : BOOLEAN,
             from : Addr]

Zero      == [kind |-> "NONE", magic |-> FALSE, payload |-> 0]
Sound(k)  == [kind |-> k, magic |-> TRUE, payload |-> IF k = "DATA" THEN MTU ELSE 0]
Gram(h, n, right, a) == [head |-> h, len |-> n, sum |-> right, from |-> a]
Whole(k, a) == Gram(Sound(k), HeaderLen + Sound(k).payload, TRUE, a)

\* A datagram that is what its sender sent.
Intact(d) == /\ d.head.magic /\ d.sum
             /\ d.head.payload <= MTU
             /\ d.len >= HeaderLen + d.head.payload

\* Unusable ones, each with one flaw; the last three leave (part of) the
\* buffer as it was.  Nobody looks where they came from.
Junk ==
  { Gram([Sound("PONG") EXCEPT !.magic = FALSE], HeaderLen, TRUE, addr),
    Gram([Sound("PONG") EXCEPT !.payload = MTU + 1], HeaderLen + MTU + 1, TRUE, addr),
    Gram(Sound("DATA"), HeaderLen + MTU - 1, TRUE, addr),
    Gram(Sound("DATA"), HeaderLen + MTU, FALSE, addr),
    Gram(Sound("PONG"), HeaderLen - 1, TRUE, addr),
    Gram(Sound("PONG"), 0, TRUE, addr),
    Gram(Sound("PONG"), -1, TRUE, addr) }

-----------------------------------------------------------------------------
(***************************************************************************)
(* Mutations of the helpers below, used to show what the checks can see.   *)
(***************************************************************************)
BugComplete(h, d) == d.len >= h.payload
BugLimitReached == recvd > RecvLimit
BugCounted(n) == n
BugUnanswered(k) == k > MaxKeep + 1
BugImpatient(k) == k >= MaxKeep
BugLastTry(k) == k > MaxRetry

\* The header in the buffer after d was received over h: a datagram shorter
\* than a header overwrites its beginning, an empty one and an error nothing.
Filled(h, d) ==
  IF d.len >= HeaderLen THEN d.head
  ELSE IF d.len > 0 THEN [h EXCEPT !.magic = d.head.magic]
  ELSE h

\* The tests of glbio_read on the buffer.
Complete(h, d) == d.len >= HeaderLen + h.payload
Accepts(h, d)  == h.magic /\ h.payload <= MTU /\ Complete(h, d) /\ d.sum

LimitReached  == recvd >= RecvLimit
Counted(n)    == n + 1
LastTry(k)    == k >= MaxRetry
Unanswered(k) == k > MaxKeep

\* glbtime_isexpired.
Expired == timer <= 0

-----------------------------------------------------------------------------
\* glb_connect was called, with the peer's address.
Init ==
  /\ st = "SYN_SENT" /\ tries = 0 /\ timer = 0 /\ peer = 0 /\ elapsed = 0
  /\ pc = "idle" /\ recvd = 0 /\ pkg = Zero
  /\ inbox = << >> /\ wire = {}
  /\ alive = TRUE /\ addr = 0 /\ misses = 0 /\ junk = 0
  /\ since = 0 /\ away = FALSE

\* A new count starts: n units remain.
Start(n) == tries' = 0 /\ timer' = n /\ elapsed' = 0

-----------------------------------------------------------------------------
(***************************************************************************)
(* The application.                                                        *)
(***************************************************************************)

\* glb_close.
Close ==
  /\ pc = "idle" /\ st = "ESTABLISHED"
  /\ st' = "FIN_SENT" /\ Start(0)
  /\ UNCHANGED <<peer, tick, environment, since, away>>

\* Each call starts with an empty buffer and a count of 0 (see Timers).
StartTick ==
  /\ pc = "idle"
  /\ pc' = "read"
  /\ UNCHANGED <<connection, recvd, pkg, environment, since, away>>

-----------------------------------------------------------------------------
(***************************************************************************)
(* The receive loop of glb_tick.                                           *)
(***************************************************************************)

\* The limit is reached, or recvfrom has nothing.
EndRead ==
  /\ pc = "read"
  /\ LimitReached \/ inbox = << >>
  /\ pc' = "timers"
  /\ UNCHANGED <<connection, recvd, pkg, environment, since, away>>

\* recvfrom fails, or glbio_read rejects the packet: it is not counted.
Reject ==
  /\ ~Accepts(Filled(pkg, Head(inbox)), Head(inbox))
  /\ pkg' = Filled(pkg, Head(inbox))
  /\ UNCHANGED <<connection, recvd, away>>

\* The handlers, as far as they touch the timers or the peer's address; pkg
\* is overwritten by an answer.
OnSynAck ==
  /\ \/ st = "ESTABLISHED" /\ UNCHANGED <<st, tries, timer, elapsed>>
     \/ st # "ESTABLISHED" /\ st' = "ESTABLISHED" /\ Start(Interval)
  /\ pkg' = Sound("SYN_ACK")
  /\ UNCHANGED <<peer, away>>

OnFinAck ==
  /\ st' = "CLOSED" /\ Start(0)
  /\ pkg' = Sound("FIN_ACK")
  /\ UNCHANGED <<peer, away>>

\* In other states the keep-alive timer and counter are not read.
OnPong ==
  /\ \/ st = "ESTABLISHED" /\ Start(Interval)
     \/ st # "ESTABLISHED" /\ UNCHANGED <<tries, timer, elapsed>>
  /\ away' = (away /\ peer # addr)
  /\ pkg' = Sound("PONG")
  /\ UNCHANGED <<st, peer>>

\* Answered, wherever it comes from; the peer's address is not updated.
OnPing ==
  /\ pkg' = Sound("PONG")
  /\ UNCHANGED <<connection, away>>

\* A packet from another address moves the connection if it is the expected
\* one of a reliable channel (Channel.tla has the channels), be the address
\* new or one that the peer has left.
OnData(d) ==
  /\ \/ st = "ESTABLISHED" /\ peer' = d.from
     \/ (st # "ESTABLISHED" \/ d.from # peer) /\ UNCHANGED peer
  /\ away' = (away \/ peer' # addr)
  /\ pkg' = Sound("DATA")
  /\ UNCHANGED <<st, tries, timer, elapsed>>

Dispatch ==
  LET d == Head(inbox)
      h == Filled(pkg, d)
  IN  /\ Accepts(h, d)
      /\ recvd' = Counted(recvd)
      /\ \/ h.kind = "SYN_ACK" /\ OnSynAck
         \/ h.kind = "FIN_ACK" /\ OnFinAck
         \/ h.kind = "PONG"    /\ OnPong
         \/ h.kind = "PING"    /\ OnPing
         \/ h.kind = "DATA"    /\ OnData(d)

Read ==
  /\ pc = "read" /\ ~LimitReached /\ inbox # << >>
  /\ Reject \/ Dispatch
  /\ inbox' = Tail(inbox)
  /\ UNCHANGED <<pc, wire, alive, addr, misses, junk, since>>

-----------------------------------------------------------------------------
(***************************************************************************)
(* The timers of glb_tick.                                                 *)
(***************************************************************************)

\* A packet that asks for an answer.  It reaches the peer if that lives and
\* is where the connection believes it, and is answered unless the path loses
\* it or its answer.
Request(answer) ==
  \/ /\ alive /\ peer = addr
     /\ wire' = wire \cup {[kind |-> answer, age |-> 0]}
     /\ misses' = 0
  \/ /\ alive /\ peer = addr
     /\ misses < MaxMiss
     /\ misses' = misses + 1
     /\ UNCHANGED wire
  \/ /\ ~alive \/ peer # addr
     /\ UNCHANGED <<wire, misses>>

\* The timer is started again, for longer each time.
Again(base) ==
  /\ timer' = base * (tries + 1)
  /\ tries' = tries + 1
  /\ UNCHANGED <<st, elapsed>>

GiveUp ==
  /\ st' = "CLOSED" /\ Start(0)
  /\ UNCHANGED <<wire, misses>>

RetryTimer ==
  /\ st \in Attempt /\ Expired
  /\ \/ LastTry(tries) /\ GiveUp
     \/ /\ ~LastTry(tries)
        /\ Request(IF st = "SYN_SENT" THEN "SYN_ACK" ELSE "FIN_ACK")
        /\ Again(RetryTime)

KeepAlive ==
  /\ st = "ESTABLISHED" /\ Expired
  /\ \/ Unanswered(tries) /\ GiveUp
     \/ ~Unanswered(tries) /\ Request("PONG") /\ Again(Interval)

\* glb_tick returns: of its variables nothing is left.
Timers ==
  /\ pc = "timers"
  /\ \/ RetryTimer \/ KeepAlive
     \/ /\ st = "CLOSED" \/ ~Expired
        /\ UNCHANGED <<st, tries, timer, elapsed, wire, misses>>
  /\ pc' = "idle" /\ recvd' = 0 /\ pkg' = Zero
  /\ since' = 0
  /\ UNCHANGED <<peer, inbox, alive, addr, junk, away>>

TickStep == EndRead \/ Read \/ Timers

-----------------------------------------------------------------------------
(***************************************************************************)
(* The environment.                                                        *)
(***************************************************************************)

\* Time passes while the application does something else.
Pass ==
  /\ pc = "idle" /\ since < Late
  /\ \A p \in wire : p.age < Delay
  /\ since' = since + 1
  /\ wire' = {[p EXCEPT !.age = @ + 1] : p \in wire}
  /\ \/ st # "CLOSED" /\ timer' = timer - 1 /\ elapsed' = elapsed + 1
     \/ st = "CLOSED" /\ UNCHANGED <<timer, elapsed>>
  /\ UNCHANGED <<st, tries, peer, tick, inbox, alive, addr, misses, junk, away>>

Arrive(d) == inbox' = Append(inbox, d)

\* An answer arrives; where from is not looked at.
ArriveAnswer(p) ==
  /\ p \in wire
  /\ wire' = wire \ {p}
  /\ Arrive(Whole(p.kind, addr))
  /\ UNCHANGED <<connection, tick, alive, addr, misses, junk, since, away>>

\* Something else that the peer sent arrives, from any address it has had: a
\* datagram may be late, or a copy, and outlive the address and the peer.
ArriveOther(kind, a) ==
  /\ Len(inbox) < Backlog
  /\ Arrive(Whole(kind, a))
  /\ UNCHANGED <<connection, tick, wire, alive, addr, misses, junk, since, away>>

\* An error for recvfrom to return, or a datagram that is not a packet.
ArriveJunk(d) ==
  /\ junk < MaxJunk /\ Len(inbox) < Backlog
  /\ junk' = junk + 1
  /\ Arrive(d)
  /\ UNCHANGED <<connection, tick, wire, alive, addr, misses, since, away>>

Die ==
  /\ Mortal /\ alive
  /\ alive' = FALSE
  /\ UNCHANGED <<connection, tick, inbox, wire, addr, misses, junk, since, away>>

\* A NAT gives the peer a new address.
Move ==
  /\ addr < MaxMove
  /\ addr' = addr + 1
  /\ away' = TRUE
  /\ UNCHANGED <<connection, tick, inbox, wire, alive, misses, junk, since>>

Next ==
  \/ Close \/ StartTick
  \/ EndRead \/ Read \/ Timers
  \/ Pass \/ Die \/ Move
  \/ \E p \in wire : ArriveAnswer(p)
  \/ \E kind \in {"PING", "DATA"}, a \in 0 .. addr : ArriveOther(kind, a)
  \/ \E d \in Junk : ArriveJunk(d)

Spec == Init /\ [][Next]_vars

\* A call of glb_tick that has begun is executed.
FairSpec == Spec /\ WF_vars(TickStep)

-----------------------------------------------------------------------------
TypeOK ==
  /\ st \in States
  /\ tries \in 0 .. MaxRetry \cup 0 .. MaxKeep + 1
  /\ timer \in Int /\ elapsed \in Nat
  /\ peer \in Addr /\ addr \in Addr
  /\ pc \in {"idle", "read", "timers"}
  /\ recvd \in 0 .. RecvLimit
  /\ pkg \in Header
  /\ inbox \in Seq(Datagram)
  /\ wire \subseteq [kind : Answers, age : 0 .. Delay]
  /\ alive \in BOOLEAN /\ away \in BOOLEAN
  /\ since \in 0 .. Late
  /\ misses \in 0 .. MaxMiss
  /\ junk \in 0 .. MaxJunk

(***************************************************************************)
(* A packet is handled only if it was received whole in this very read:    *)
(* what an earlier packet, or an answer, left in the buffer never completes *)
(* a shorter one.                                                          *)
(***************************************************************************)
OnlyWhole == [][pc = "read" /\ recvd' # recvd => Intact(Head(inbox))]_vars

(***************************************************************************)
(* glb_tick returns, whatever keeps arriving, if errors and unusable       *)
(* datagrams do not go on for ever: those are not counted.                 *)
(***************************************************************************)
TickReturns == pc # "idle" ~> pc = "idle"

(***************************************************************************)
(* How long a connection may wait.  An attempt to connect or to close: the *)
(* sum of its timers, and one lateness for each.  An ESTABLISHED one       *)
(* without a PONG: the first interval, the growing ones after each of the  *)
(* MaxKeep + 1 PINGs, and one lateness for each.                           *)
(***************************************************************************)
AttemptBounded ==
  st \in Attempt =>
    2 * elapsed <= RetryTime * (MaxRetry * (MaxRetry + 1)) + 2 * ((MaxRetry + 1) * Late)

SilenceBounded ==
  st = "ESTABLISHED" =>
    2 * elapsed <= Interval * (2 + (MaxKeep + 1) * (MaxKeep + 2))
                   + 2 * ((MaxKeep + 2) * Late)

\* What they rest on: the time since the start and the time that remains are
\* bounded by the timers so far; no timer is overdue by more than the time
\* since the last tick.
Accounted ==
  /\ st # "CLOSED" => timer + since >= 0
  /\ st \in Attempt =>
       /\ tries <= MaxRetry
       /\ 2 * (elapsed + timer) <= RetryTime * (tries * (tries + 1)) + 2 * (tries * Late)
  /\ st = "ESTABLISHED" =>
       /\ tries <= MaxKeep + 1
       /\ 2 * (elapsed + timer) <= Interval * (2 + tries * (tries + 1)) + 2 * (tries * Late)

(***************************************************************************)
(* The environment for which the keep-alive is patient enough: the path    *)
(* does not lose every PING, and the longest timer leaves an answer the    *)
(* time to arrive and to be read, in k calls of glb_tick, behind the       *)
(* backlog and the SYN-ACKs of all the attempts to connect.                *)
(***************************************************************************)
Patient ==
  /\ MaxMiss <= MaxKeep
  /\ \E k \in 1 .. Backlog + MaxRetry :
       /\ Backlog + MaxRetry <= k * RecvLimit
       /\ Delay + k * Late <= Interval * (MaxKeep + 1)

(***************************************************************************)
(* A peer that lives keeps its connection, although PONGs wait behind      *)
(* other packets and the path may lose MaxMiss requests in a row, unless   *)
(* the peer changed its address, or a late datagram from an address it had *)
(* left moved the connection back there, and no PONG has come since.       *)
(***************************************************************************)
Kept == [][st = "ESTABLISHED" /\ st' = "CLOSED" /\ pc = "timers" =>
             ~alive \/ away]_vars

=============================================================================
