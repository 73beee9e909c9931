# Verification of libgilberta

TLA+ models of libgilberta, a C library for message channels over UDP, with TLC runs
on small instances and TLAPS proofs for every instance. `gilberta.c`, `context.c`,
`queue.c`, `glbio.c`, `glbio.h` and `timer.c` are in `src/libgilberta/`.

## The system

The library has no threads. An application owns a context, calls `glb_tick` again and
again and polls an event queue. A server context has several connection slots, a
client context has one. Everything that is concurrent lies between two programs:
packets under way, timers on both sides, applications that poll late.

| Component | State | Operations | What makes it correct |
|---|---|---|---|
| ring buffer (`queue.c`) | pool, head, length | push, pop, peek | a bounded FIFO through every wrap-around |
| channel (`glb_send`, DATA, DATA-ACK and transmission in `glb_tick`, `glb_popdata`) | per channel: seq, ack, s_queue, r_queue; event queue; peer address | send, transmit, receive, acknowledge, poll, migrate | once, in order, nothing forgotten before it arrived; one event per message; progress on a fair path |
| connection (`glb_connect`, `glb_close`, the control packets and timers of `glb_tick`) | state, id, peer, retry and keep-alive counters, whether channels are allocated | connect, close, nine packet handlers, four timers | slots and ids apart, the handshake agrees, attempts end, dead peers are noticed, channels and events exist when used |
| sequence numbers of the handshake (`glbctx_generateseq`, `glbctx_writeack`) | con->seq, con->ack, the channels' numbers | written by ACK and SYN-ACK | the server expects the first message of every channel |
| connection table and ids (`context.c`) | slots, client_id, client_gen | three look-ups, id allocation with its wrap | an id names one connection |
| packet I/O (`glbio.c`) | socket, the packet buffer of `glb_tick` | send, read | only whole packets are handled, `glb_tick` returns |
| timers (`timer.c`) | time stamps | start, expired | waiting is bounded, a living peer is kept |
| contexts (`context.c`) | heap blocks, sockets | create, destroy, make and free channels | nothing dangles, nothing leaks |
| test programs (`src/test`) | - | - | how an application uses the library |

Interaction: `glb_tick` reads at most 16 packets, dispatches each to a handler that
changes one connection, may push an event and may send an answer; then it serves the
timers of every connection. Every result of `glbqueue_push` in `glb_tick` is ignored,
and nearly every result of `glbio_send`. Hard behaviours: lost, repeated and late
packets at every state, ids and addresses that outlive connections, retries racing
with answers, full queues, a peer that changes its address, failed sends and
allocations, a server that restarts, events polled after the state they speak of has
gone. `PROJECT.json` lists each hazard at its line.

## Modules

| Module | What it is |
|---|---|
| `BoundedFifo` | abstract: a bounded FIFO and the outcomes of its calls |
| `Queue`, `MCQueue`, `QueueProofs` | the ring buffer; implements `BoundedFifo` |
| `OrderedDelivery` | abstract: messages are accepted, delivered in order, then confirmed |
| `Channel`, `MCChannel` | the data path of a connection in one direction; implements `OrderedDelivery` |
| `ChannelProofs`, `DeliveryProofs` | types and `Room`; `Order`, the refinement and `MigratesForward` |
| `Session`, `MCSession`, `SessionProofs` | connections from SYN to FIN, of one server and several clients |
| `Handshake`, `MCHandshake`, `HandshakeProofs` | how the handshake synchronises sequence numbers; implements `OrderedDelivery` |
| `Tick`, `MCTick`, `TickProofs` | one connection against the clock and the socket |
| `KeepAliveProofs` | on top of `TickProofs`: `Kept` |
| `Context`, `MCContext`, `ContextProofs` | what a context owns: memory, sockets, ids |

**Queue.** `pool`, `head`, `length` are the fields of `glbqueue`; `last` is the
outcome of the last call. `Push`, `Pop`, `Peek` and the refusals are the functions;
`Update` is the write of `glb_tick` through the peeked pointer. The pool starts with
arbitrary elements, as `malloc` leaves it.

**Channel.** A message is named by its position among those accepted. `datas` and
`acks` are the packets that may still arrive; a packet that is lost, fails in `sendto`
or will fail its CRC is lost when it is sent. `keep` says that the network delivers a
packet again. A timer may be expired at any step. The receive loop of a tick is
bounded by `budget`; transmission and the other direction run on separate state, so
that they interleave with it freely. `Drains` says that the application empties its
event queue between two ticks. `Ready` is the test of the transmission loop, which
looks at one channel at a time. `MaxSend` and `MaxLoose` bound the messages of a
reliable and of an unreliable channel. `Trusted`, `Old` and `Future` are the tests of
the DATA handler in its order; `Arrive`, `Repeat` and `Drop` its three endings.
Addresses count up: `Rebind` is a NAT that gives the sender a new one.

**Session.** `con` holds the slots of every context; `chans` says that `con->channels`
is allocated. `told` and `missed` are histories of the CONNECT and DISCONNECT events
of a connection: whether the last that the event queue took was a CONNECT, and whether
the last of all was refused, because the queue was full (`Record`). `Connect` may be
called in any state, as `glb_connect` looks at none. `size` is the server's
`max_connections`, chosen by its program. One packet or one expired timer is one step.
A packet's fate (`sent`, `lost`, `failed`) is chosen when it is given to `sendto`;
`lost` and `failed` differ for the caller. `net` is a set: with `Keeps = {TRUE}` the
network never forgets a packet, which covers loss, repetition, delay and reordering
together; with `{FALSE}` a packet arrives at most once. Timers have no clock here.
Data appears only as the RECEIVE event. `Restart` is a server program that ends and
starts again with a new context, while the packets of the old one and its clients live
on.

**Handshake.** Both sides' state, the client's send queues, and the ACK with the
number it carries, on a network that never forgets. Teardown and retry limits are in
`Session`. `Eager` is the choice of the client's application: send when told CONNECT,
or wait for a first message from the server.

**Tick.** A client's connection from `glb_connect` on. `timer` is what remains of
`con->time`, or, in ESTABLISHED, of `con->keepalive`; `tries` the counter that goes
with it; `pkg` the header in the packet buffer, which `recvfrom` overwrites only as
far as it received (`Filled`), and which an answer overwrites. `Accepts` is the
conjunction of the tests of `glbio_read`. `Pass` is time between two calls of
`glb_tick`, at most `Late` of it; a call itself takes no time. `inbox` is the socket:
answers of the peer, other traffic up to `Backlog`, and at most `MaxJunk` errors and
unusable datagrams, one for each test `glbio_read` makes and one for each way it can
leave an old header in place. The peer may die or move. The other traffic comes from
any address the peer has had, also when it is late or a copy, and `OnData` may trust
it and move the connection there. `away` is a history: the connection and its peer
have parted, by a move or by such a datagram, and the peer has not been reached since.

**Context.** Blocks of memory and sockets are numbers; `malloc`, `socket`, `fcntl` and
`bind` may fail at every call. `pc` says where the program is inside `glbctx_create`
or `glbctx_createconchannels`, so that every partial result is a state. A
`createconchannels` that fails ends in `crashed`: `glb_tick` goes on to write through
NULL (`context.c:328`, `gilberta.c:257`). Ids are a generation and a number that wraps
(`NewId`, `Wrapped`). `lapses` is a history of the five things the code does not clean
up after, `clash` of an id handed out twice. Any packet may arrive at any context
here, a SYN at a client and a SYN-ACK at a server too, as `glb_tick` does not look at
its role; `Session` has what really arrives. The application calls `glb_connect` at
any time, in a client only, as its documentation asks (`libgilberta.h:67`).

## Runs

| Run | Checks | Bounds |
|---|---|---|
| `MCQueue` | `TypeOK`, `ImplementsFifo` | 3 slots, 3 elements: every head position with every length |
| `ChannelOrder` | `TypeOK`, `EventPerMessage`, `OneInFlight`, `Room`, `Order`, `ImplementsDelivery`, `MigratesForward` | a reliable and an unreliable channel, 2 messages each, one address change, numbers up to the last before the wrap |
| `ChannelLive` | `ImplementsDelivery`, `AllDelivered`, `QueuesDrain` | a reliable channel with 3 messages, the third behind the wrap of the numbers, and an unreliable one with 1; send queues of 2, path fair to the reliable channel, fixed address |
| `SessionSlots` | `SlotsApart`, `ClientsApart`, `Agreement`, `ChannelsReady`, `NoTakeover` | 2 clients, 1 slot (contention, RST) or 2, 2 connects in any state, 2 ids, network never forgets |
| `SessionEnd` | `TypeOK`, `ChannelsReady`, `Announced`, `AttemptsEnd`, `PeerDeathNoticed` | 1 client that may die, 1 server restart, loss and failing sends, event queues of 1 that both sides poll or let fill up |
| `Tick` | `TypeOK`, `AttemptBounded`, `SilenceBounded`, `Accounted`, `OnlyWhole`, `TickReturns`, `Kept` | 2 tries, 1 tolerated PING, 1 packet a tick, 2 unusable datagrams, 1 loss in a row, 1 move, other traffic from both addresses |
| `Context` | `TypeOK`, `NoDangling`, `NothingLost`, `ChannelsWhole`, `LookUp` | 2 contexts one after the other, 2 slots, 2 channels, 3 peers, ids that wrap after 2, 12 blocks |
| `HandshakeWait` | `TypeOK`, `Synchronised`, `Waiting`, `OneOutstanding`, `ImplementsDelivery` | 2 channels, 3 messages each, send queues of 2, the client waits |
| `HandshakeEager` | `ImplementsDelivery` violated | 2 channels, 2 messages each, send queues of 2, the client does not wait |
| `ChannelRebind` | `AllDelivered` violated | a reliable channel, 2 messages, one address change, no wrap, fair path |
| `SessionPop` | `PopSafe` violated | 1 client that sends data |
| `SessionOrphan` | `OrphansEnd` violated | 1 client, fair scheduling |

Limits of retries are 0 to 2 and of keep-alive 0 or 1 where the code has 5 and 8: a
limit enters the code only in one comparison and one increment, and both sides of it
are reached. In `Context` 12 blocks are what two slots with two channels each and the
context need, so that every allocation both succeeds and fails; three peers and three
ids are enough for a slot to be reused after the wrap. In `Tick` the last interval is
exactly as long as a PONG needs when it waits behind `Backlog` packets at `RecvLimit`
a tick (`Patient`, evaluated by `MCTick`); with a shorter one `Kept` would not hold.
Deadlock is not checked in the `Session` and `Context` runs: with all calls made,
every connection closed and nothing under way, or after a crash, the system really
stops. Clients, and peers, are symmetric; the symmetry is used with safety properties
only. `SessionSlots` has no program that polls, so that nothing depends on the events
and their histories; its `VIEW` leaves them out, and its properties do not speak of
them (`SessionEnd` has those that do). The largest run is
`Tick`, with 1.2 million distinct states.

Fairness. `Channel`: ticks begin, end and are followed by polling (applications call
`glb_tick` and `glb_pollevent` in a loop); a packet at the head of a queue is
transmitted successfully again and again, and a packet or answer of a reliable channel
that is repeatedly able to arrive does arrive. Without the last the path could swallow
everything and no protocol would deliver; of unreliable packets nothing is assumed
once they are sent. `Session`: programs that run serve expired timers and read
packets; of the network nothing is assumed, it may lose everything. `Tick`: a call of
`glb_tick` that has begun is executed; that it is called at least every `Late` is a
guard of `Pass`.

### What the violations show

- `HandshakeEager`: the ACK that answers a repeated SYN-ACK carries the number channel
  0 has reached (`gilberta.c:320-321`), and `glbctx_writeack` sets it on every channel
  (`context.c:327-330`). If the first ACK is lost, messages sent at CONNECT are taken
  for old ones, acknowledged and dropped. `HandshakeWait` and its theorem show what
  repairs it.
- `ChannelRebind`: a packet from a new address is trusted only when it is the expected
  one (`gilberta.c:402`). If it was received at the old address, its DATA-ACK was lost
  and the sender then moved, no repetition from the new address is answered.
- `SessionPop`: FIN after DATA frees the channels before the RECEIVE event is polled;
  `glb_popdata` uses them without a look at the state (`gilberta.c:827`).
- `SessionOrphan`: PING is answered for connections the receiver does not have
  (`gilberta.c:540-556`), so a client that missed the end keeps its connection.

### What the passing properties except

Some properties hold only with an exception, which names something the code does:

- `AllDelivered`, `QueuesDrain`: the first message whose number has wrapped may stall,
  since `Old` and `Future` compare integers: if the DATA-ACK of the last number is
  lost, its repetitions are `Future` to a receiver that expects 0, and are not
  answered. What was delivered stays in order and once (`ImplementsDelivery` in
  `ChannelLive`).
- `MigratesForward`: of a connection with one reliable channel (`OneReliable`, in the
  property). With two, a delayed packet of the other one is trusted too and moves the
  connection back.
- `NothingLost`: five lapses. A SYN opens a slot in FIN_SENT again, or a SYN-ACK
  revives a client in FIN_SENT, and the channels are made anew over the old ones;
  `glb_connect` on a connection that is open or closing leads to the same; a SYN-ACK
  whose ACK could not be sent does the same at its repetition; an RST closes a
  connection in FIN_SENT without freeing; and the socket stays open when `fcntl` fails
  (`context.c:82-86`, `220-222`).
- `LookUp`: once ids have wrapped, one may be handed out that another slot still has.
  The generation does not prevent it: `ctx->client_gen` stays 0 (`context.c:267`).
- `Agreement`, `ClientsApart`, `NoTakeover`: of a server that is not restarted. A
  restarted one counts ids from 1 again, and clients and packets of the old run use
  them.
- `Announced`: unless the event queue was full. No handler looks whether its CONNECT
  or DISCONNECT was taken (`gilberta.c:265`, `297`), so that an application that polls
  too late is not told. It says nothing of the number of DISCONNECT events: an RST for
  a CLOSED connection, and a FIN in SYN_RCVD, push one that has no CONNECT.
- `SilenceBounded`: the bound is the sum of growing intervals, 46 of 200 ms in the
  code, where `gilberta.c:46-47` reads like 8.
- `Kept`: of a peer that the connection has not lost, or that was reached since. When
  the peer moves, PINGs go to the old address until data moves the connection
  (`gilberta.c:794`); and a datagram that was sent from an address the peer has left
  may arrive late, be trusted (`gilberta.c:402-404`) and move the connection back.
- `TickReturns`: if errors and unusable datagrams end; they are not counted
  (`gilberta.c:183-187`).

## Proofs

All proofs are checked by TLAPS for every value of the constants allowed by the
modules' assumptions.

- `QueueProofs`: `TypeCorrect`, and `Refinement`: the ring buffer implements the FIFO.
  `TypeOK` is inductive. The core is arithmetic modulo the capacity: positions `head +
  i` of distinct queued elements are distinct slots, and the slot after the tail is
  none of them.
- `ChannelProofs`: `TypeCorrect`; and `NothingDropped`: with an application that
  empties its queues between ticks, r_queue no smaller than a tick's packets and an
  event queue twice that (`Attentive`), `Room` always holds, hence `OneEventEach`.
  `EventPerMessage` alone is not inductive: a full queue could swallow an event.
  `Room` bounds the queues by what the tick may still read, so that no push is
  refused. The code's constants (32 slots, 16 packets, 1024 events) satisfy
  `Attentive`; the documentation's smallest event queue, 32, just does.
- `DeliveryProofs`, from `Attentive` and `NoWrap` (the number of a packet tells its
  message): `InOrder`, `Order` always holds; `StopAndWait`, hence `OneInFlight`; and
  `Delivery`: `Channel` implements `OrderedDelivery`. `OneInFlight` relates the two
  ends and says nothing of the packets between them; `Order` adds what every DATA and
  DATA-ACK on the path says about both, so that an old packet can name only a message
  the receiver has and an old answer only one it keeps. An arrival needs `Room`: a
  message refused by r_queue would be acknowledged all the same.
- `HandshakeProofs`: `TypeCorrect`; `Synchronisation` and `FirstWaits`: if the client
  waits, `Synchronised` and `Waiting` always hold. `Synchronised` is not inductive: it
  needs that no ACK with an advanced number exists before the server is ESTABLISHED,
  which is `Waiting`. `StopAndWait`: `OneOutstanding` always holds, the server is at
  most one message ahead of what the client knows; that is what the last theorem needs
  of a state. `Refinement`: the handshake followed by stop and wait implements
  `OrderedDelivery`, for any number of channels and messages.
- `SessionProofs`. The handlers and timers are many and what they do to a connection
  is little: `Move` lists it (it stays, starts, closes, ends, reopens, takes a slot,
  joins, is accepted), and the first half of the module shows that every step but a
  restart is a `Move` of one connection with what it sends (`NextEffect`). The rest
  uses only that. `Typed` strengthens `TypeOK` by what makes an answer well-typed: a
  connection without a peer is CLOSED with id 0, the server's peers are clients that
  have called `glb_connect`, its ids are below `nextId`, and packets go between such a
  client and the server. From it `TypeCorrect`, `ReadyChannels`, `AnnouncedFirst`,
  `ApartSlots` and `KeptSlots`, with restarts. `AnnouncedFirst` rests on `heard`,
  which joins the two histories of a connection: its announcement was taken or
  refused, and in neither case does a step to ESTABLISHED go without one. That
  FindConnByAddr finds an address whenever a slot has it is the one place that needs
  well-foundedness (the least index). `Agreeing` and `ApartClients` assume `MaxRestart
  = 0`. Neither property is inductive: `Agreed` follows an id through all places it
  can be (`Names`: a slot, a SYN-ACK under way, the client's connection, its history),
  shows that it names one client and is below `nextId`, and that an ACK carries an id
  its sender was ESTABLISHED under.
- `TickProofs`: `TypeCorrect`; `Timekeeping`: `Accounted` always holds, from which
  `AttemptsEndInTime` and `SilenceEndsInTime` follow by arithmetic, for any intervals,
  limits and lateness. The bounds alone are not inductive: `Accounted` adds what
  remains on the timer, and that no timer is overdue by more than the time since the
  last tick. `WholePackets`: `OnlyWhole`, since the length test uses the payload
  length that is in the buffer, whoever wrote it.
- `KeepAliveProofs`: `KeepsTheLiving`: `Kept`, in every environment that is `Patient`:
  the path loses at most `MaxKeep` PINGs in a row, and the longest keep-alive timer
  covers the delay of an answer and the calls of `glb_tick` that read the backlog and
  all SYN-ACKs ever asked for. The code's constants (200 ms, 8, 5, 16) allow 1800 ms
  for both. `Kept` speaks of one step; what makes it true is the promise `Coming`:
  while the last PING that was not lost is unanswered, a PONG is under way or a packet
  that ends the wait is in the inbox, and once the last PING is sent it is handled in
  `n` calls (`InTime`) for which the timer leaves time. The promise needs that PINGs
  reach the peer, which they do unless it is `away` (`Located`: then `peer` is its
  address), and a bound on what is before a PONG, which follows from counting SYN-ACKs
  (`Pending`) beyond the backlog (`Orderly`).
- `ContextProofs`: `TypeCorrect`, `PointersSound`, `NothingIsLost` and
  `ChannelsAreWhole` from one invariant, `MInv`, and `IdsLookUp`. None of the
  properties is inductive alone: what a failing `malloc` leaves depends on where the
  program is. `Phases` says what of the context exists at every `pc`; `Progress`, that
  what `glbctx_createconchannels` has made is whole below `job.chan` and NULL above;
  `Settled`, that every other connection has all of its channels or none, and has them
  exactly while it can carry data, unless the code has lapsed. Most steps exchange the
  blocks of one connection, and one lemma (`Exchanged`) says when that keeps the heap
  and the pointers in order. For `IdsLookUp` the used slots of a server form a prefix
  (`Filled`), so that a slot never used, which carries the id 0 too, comes after the
  one that was given it; and no slot of a server is in SYN_SENT, so that a stray
  SYN-ACK gives none a new id.

`FollowsTheSender` in `DeliveryProofs` proves `MigratesForward`, which has its
condition, one reliable channel, in its statement. It speaks of steps; its invariant
`Addressed` says that a packet a reliable channel still waits for was sent from the
current peer address or a later one. An arrival keeps it because `Order` leaves no
packet ahead of the one that arrives.

Every invariant and every action property of the runs, and every refinement without
fairness, is proved. Only model-checked is liveness, since fairness and ENABLED are
beyond the prover: `AllDelivered`, `QueuesDrain`, `AttemptsEnd`, `PeerDeathNoticed`
and `TickReturns`. `Delivery` assumes `NoWrap`; that messages stay in order across the
wrap of the numbers is checked in `ChannelLive` only.

## Not modelled

The value of the CRC and the layout of headers in memory: a checksum is right or
wrong. Statistics (`rtt`, counts of losses) and the information getters: nothing in
the protocol reads them. The Winsock counter, in Windows builds only; it is not
decremented when `glbctx_create` fails. The test programs and the input thread of
`msg.c`, which are no part of the library. `event.c` holds no code.

In `Session` addresses are fixed. In `Context` there is no network. `Tick` has the
client's side only; the server's timers are the same code with other packets.

## Plan

All components with state of their own are modelled, and all their safety properties
are proved. What is left is to weaken assumptions of the theorems: `Delivery` across
the wrap of the sequence numbers, where a channel stalls but delivers nothing out of
order; and `Agreeing` with restarts, for connections whose ids were handed out by the
running server.
