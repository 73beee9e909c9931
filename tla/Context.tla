------------------------------- MODULE Context -------------------------------
(***************************************************************************)
(* What a context owns: glbctx_create and glbctx_destroy, the memory of a  *)
(* connection's channels from glbctx_createconchannels to                  *)
(* glbctx_freeconchannels, and the ids of glbctx_generateclientid, in a    *)
(* program that creates and destroys a context again and again, as server  *)
(* or as client.                                                           *)
(*                                                                         *)
(* The program is sequential; pc says where it is inside a function that   *)
(* may fail half way.  Any packet may arrive at any time, also one that    *)
(* the role of the context does not ask for, and any timer may be expired: *)
(* Session.tla has what really arrives.                                    *)
(***************************************************************************)
EXTENDS Integers, FiniteSets

CONSTANTS
  Peers,      \* addresses of other contexts
  None,       \* no address
  Slots,      \* max_connections of a server
  NChan,      \* channel_count
  IdTop,      \* the id that is not handed out (0xFFFF in the code)
  MaxBlocks,  \* bound: blocks of memory; malloc fails when all are in use
  MaxOpen,    \* bound: sockets; socket() fails when all are in use
  MaxCreate   \* bound: calls of glbctx_create

ASSUME ContextAssumption ==
  /\ None \notin Peers
  /\ {Slots, NChan, MaxBlocks, MaxOpen} \subseteq Nat \ {0}
  /\ IdTop \in Nat /\ IdTop > 1
  /\ MaxCreate \in Nat

VARIABLES
  heap,      \* blocks that are allocated
  sockets,   \* sockets that are open
  pc,        \* where the program is; "none": there is no context
  ctx,       \* the context: its blocks, its socket and its role
  con,       \* ctx->connections
  nextId,    \* ctx->client_id
  job,       \* glbctx_createconchannels under way
  creates,   \* calls of glbctx_create
  lapses,    \* history: what the code does not clean up after
  clash      \* history: an id was handed out that a used slot still had

vars == <<heap, sockets, pc, ctx, con, nextId, job, creates, lapses, clash>>

NULL   == 0
Block  == 1 .. MaxBlocks
Socket == 1 .. MaxOpen
Ptr(S) == S \cup {NULL}

\* server: GLB_FLAG_BIND_PORT is set.
CtxRec == [mem : Ptr(Block), evq : Ptr(Block), sock : Ptr(Socket), server : BOOLEAN]
NoCtx  == [mem |-> NULL, evq |-> NULL, sock |-> NULL, server |-> FALSE]

States == {"CLOSED", "ESTABLISHED", "SYN_SENT", "SYN_RCVD", "FIN_SENT"}

\* con->channels: the array and, of every channel, both queues.
Chan   == 1 .. NChan
Queues == [s : Ptr(Block), r : Ptr(Block)]
NoQueues   == [s |-> NULL, r |-> NULL]
Channels   == [arr : Ptr(Block), q : [Chan -> Queues]]
NoChannels == [arr |-> NULL, q |-> [i \in Chan |-> NoQueues]]

ConId  == [gen : 0 .. 1, id : 0 .. IdTop]
NoId   == [gen |-> 0, id |-> 0]
Initiation == [gen |-> 0, id |-> IdTop]

\* used: history: the slot has held a connection.
ConRec == [st : States, id : ConId, peer : Peers \cup {None}, chans : Channels,
           used : BOOLEAN]
Unused == [st |-> "CLOSED", id |-> NoId, peer |-> None, chans |-> NoChannels,
           used |-> FALSE]

Slot == 1 .. Slots
Size == IF ctx.server THEN Slots ELSE 1

\* The connection whose channels are made, the channel the loop is at, and the
\* state the connection takes when it ends.
JobRec == [slot : Slot, chan : Chan, st : States]
NoJob  == [slot |-> 1, chan |-> 1, st |-> "CLOSED"]

-----------------------------------------------------------------------------
(***************************************************************************)
(* Mutations of the helpers below, used to show what the checks can see.   *)
(***************************************************************************)
BugMade(c, i) == 1 .. i - 1
BugBlocksOf(c) == {c.arr} \ {NULL}
BugFreed(c) == [c EXCEPT !.st = "CLOSED"]
BugEnded(c) == [c EXCEPT !.chans = NoChannels]
BugWrapped(n) == n + 1
BugFindEmpty ==
  LET K == {k \in 1 .. (IF ctx.server THEN Slots ELSE 1) : con[k].st = "CLOSED"}
  IN  {k \in K : \A j \in K : j <= k}

First(K) == {k \in K : \A j \in K : k <= j}

\* malloc: any free block would do; it is the first.  It may always fail.
Malloc == First(Block \ heap)

WithId(i)   == {k \in 1 .. Size : con[k].id = i}
WithPeer(a) == {k \in 1 .. Size : con[k].peer = a}
FindConn(i)   == First(WithId(i))
FindByAddr(a) == First(WithPeer(a))
FindEmpty     == First({k \in 1 .. Size : con[k].st = "CLOSED"})

(***************************************************************************)
(* glbctx_generateclientid: the id for the connection, whose generation is *)
(* 1 only if it is the last before the wrap: ctx->client_gen stays 0; and  *)
(* ctx->client_id afterwards.                                              *)
(***************************************************************************)
Wrapped(n) == IF n + 1 = IdTop THEN 0 ELSE n + 1
NewId      == [gen |-> IF nextId + 1 = IdTop THEN 1 ELSE 0, id |-> nextId]

\* The blocks of a connection's channels, and those of the channels up to i
\* that glbctx_createconchannels has tried to make.
QueueBlocks(c, I) == (UNION {{c.q[i].s, c.q[i].r} : i \in I}) \ {NULL}
BlocksOf(c)       == ({c.arr} \ {NULL}) \cup QueueBlocks(c, Chan)
Made(c, i)        == 1 .. i

\* The blocks the context can still free.
Owned == ({ctx.mem, ctx.evq} \ {NULL})
         \cup UNION {BlocksOf(con[k].chans) : k \in Slot}

\* glbctx_freeconchannels and the end of the connection.
Freed(c) == [c EXCEPT !.st = "CLOSED", !.chans = NoChannels]

-----------------------------------------------------------------------------
Init ==
  /\ heap = {} /\ sockets = {}
  /\ pc = "none" /\ ctx = NoCtx
  /\ con = [k \in Slot |-> Unused]
  /\ nextId = 1
  /\ job = NoJob
  /\ creates = 0
  /\ lapses = {}
  /\ clash = FALSE

-----------------------------------------------------------------------------
(***************************************************************************)
(* glbctx_create, up to each call that may fail.                           *)
(***************************************************************************)
table == <<con, nextId, job, clash>>

AllocContext(server) ==
  /\ pc = "none" /\ creates < MaxCreate
  /\ creates' = creates + 1
  /\ \/ \E b \in Malloc :
          /\ heap' = heap \cup {b}
          /\ ctx' = [NoCtx EXCEPT !.mem = b, !.server = server]
          /\ pc' = "socket"
     \/ UNCHANGED <<heap, ctx, pc>>
  /\ UNCHANGED <<sockets, table, lapses>>

\* glbctx_create returns NULL, after ctx->allocator.free(ctx).
Fail(open) ==
  /\ heap' = heap \ {ctx.mem}
  /\ sockets' = open
  /\ ctx' = NoCtx
  /\ pc' = "none"

OpenSocket ==
  /\ pc = "socket"
  /\ \/ \E s \in First(Socket \ sockets) :
          /\ sockets' = sockets \cup {s}
          /\ ctx' = [ctx EXCEPT !.sock = s]
          /\ pc' = "nonblock"
          /\ UNCHANGED heap
     \/ Fail(sockets)
  /\ UNCHANGED <<table, creates, lapses>>

\* When fcntl fails the socket is not closed.
SetNonBlocking ==
  /\ pc = "nonblock"
  /\ \/ /\ pc' = IF ctx.server THEN "bind" ELSE "queue"
        /\ UNCHANGED <<heap, sockets, ctx, lapses>>
     \/ Fail(sockets) /\ lapses' = lapses \cup {"fcntl"}
  /\ UNCHANGED <<table, creates>>

Bind ==
  /\ pc = "bind"
  /\ \/ pc' = "queue" /\ UNCHANGED <<heap, sockets, ctx>>
     \/ Fail(sockets \ {ctx.sock})
  /\ UNCHANGED <<table, creates, lapses>>

AllocEventQueue ==
  /\ pc = "queue"
  /\ \/ \E b \in Malloc :
          /\ heap' = heap \cup {b}
          /\ ctx' = [ctx EXCEPT !.evq = b]
          /\ pc' = "idle"
          /\ UNCHANGED sockets
     \/ Fail(sockets \ {ctx.sock})
  /\ UNCHANGED <<table, creates, lapses>>

\* glbctx_destroy.  The connections are inside the context's block.
Destroy ==
  /\ pc = "idle"
  /\ heap' = heap \ Owned
  /\ sockets' = sockets \ {ctx.sock}
  /\ ctx' = NoCtx /\ pc' = "none"
  /\ con' = [k \in Slot |-> Unused]
  /\ nextId' = 1 /\ clash' = FALSE
  /\ UNCHANGED <<job, creates, lapses>>

-----------------------------------------------------------------------------
(***************************************************************************)
(* glbctx_createconchannels for slot k, which then gets state s.  What     *)
(* con->channels was is overwritten.                                       *)
(***************************************************************************)
resources == <<sockets, ctx, nextId, creates, clash>>

MakeChannels(k, c, s) ==
  /\ con' = [con EXCEPT ![k] = [c EXCEPT !.chans = NoChannels]]
  /\ job' = [slot |-> k, chan |-> 1, st |-> s]
  /\ pc' = "array"
  /\ UNCHANGED <<resources, heap>>

\* Without channels glbctx_writeack, or the printf after it, reads through NULL.
AllocArray ==
  /\ pc = "array"
  /\ \/ \E b \in Malloc :
          /\ heap' = heap \cup {b}
          /\ con' = [con EXCEPT ![job.slot].chans.arr = b]
          /\ pc' = "queues"
     \/ pc' = "crashed" /\ UNCHANGED <<heap, con>>
  /\ UNCHANGED <<resources, job, lapses>>

\* One turn of the loop: both queues of a channel are tried.
AllocQueues ==
  /\ pc = "queues"
  /\ \E s \in Malloc \cup {NULL} :
       \E r \in First(Block \ (heap \cup {s})) \cup {NULL} :
         LET k    == job.slot
             here == [con EXCEPT ![k].chans.q[job.chan] = [s |-> s, r |-> r]]
         IN  /\ heap' = heap \cup ({s, r} \ {NULL})
             /\ \/ /\ NULL \in {s, r}
                   /\ pc' = "cleanup" /\ con' = here /\ UNCHANGED job
                \/ /\ NULL \notin {s, r} /\ job.chan < NChan
                   /\ job' = [job EXCEPT !.chan = @ + 1]
                   /\ con' = here /\ UNCHANGED pc
                \/ /\ NULL \notin {s, r} /\ job.chan = NChan
                   /\ con' = [here EXCEPT ![k].st = job.st]
                   /\ pc' = "idle" /\ job' = NoJob
  /\ UNCHANGED <<resources, lapses>>

CleanUp ==
  LET c == con[job.slot].chans
  IN  /\ pc = "cleanup"
      /\ heap' = heap \ ({c.arr} \cup QueueBlocks(c, Made(c, job.chan)))
      /\ con' = [con EXCEPT ![job.slot].chans = NoChannels]
      /\ pc' = "crashed"
      /\ UNCHANGED <<resources, job, lapses>>

-----------------------------------------------------------------------------
(***************************************************************************)
(* What glb_tick and the application do to connections.                    *)
(***************************************************************************)
Become(k, c) ==
  /\ con' = [con EXCEPT ![k] = c]
  /\ UNCHANGED <<resources, pc, job>>

\* glb_connect, whatever the state of the connection; "client only" is what
\* its documentation asks of the application.  lapses: the connection has
\* channels, which the coming SYN-ACK will not free.
Connect ==
  /\ pc = "idle" /\ ~ctx.server
  /\ \E a \in Peers :
       Become(1, [con[1] EXCEPT !.st = "SYN_SENT", !.id = Initiation, !.peer = a,
                                !.used = TRUE])
  /\ lapses' = IF con[1].st \in {"ESTABLISHED", "FIN_SENT"}
               THEN lapses \cup {"reconnected"} ELSE lapses
  /\ UNCHANGED heap

\* SYN: a connection of that address that is not ESTABLISHED is opened again,
\* with the channels it may have.  lapses: it was closing.
SynKnown(a) ==
  /\ pc = "idle"
  /\ \E k \in FindByAddr(a) :
       /\ con[k].st # "ESTABLISHED"
       /\ Become(k, [con[k] EXCEPT !.st = "SYN_RCVD"])
       /\ lapses' = IF con[k].st = "FIN_SENT" THEN lapses \cup {"reopened"} ELSE lapses
  /\ UNCHANGED heap

\* SYN into an empty slot.
SynNew(a) ==
  /\ pc = "idle"
  /\ FindByAddr(a) = {}
  /\ \E k \in FindEmpty :
       con' = [con EXCEPT ![k] = [Unused EXCEPT !.st = "SYN_RCVD", !.id = NewId,
                                                !.peer = a, !.used = TRUE]]
  /\ nextId' = Wrapped(nextId)
  /\ clash' = (clash \/ \E j \in (1 .. Size) \ FindEmpty :
                           con[j].used /\ con[j].id = NewId)
  /\ UNCHANGED <<heap, sockets, pc, ctx, job, creates, lapses>>

\* ACK: ESTABLISHED before the channels are made.
Ack(i) ==
  /\ pc = "idle"
  /\ \E k \in FindConn(i) :
       /\ con[k].st = "SYN_RCVD"
       /\ MakeChannels(k, [con[k] EXCEPT !.st = "ESTABLISHED"], "ESTABLISHED")
  /\ UNCHANGED lapses

\* SYN-ACK, for the first connection: ESTABLISHED after the channels are made,
\* if the ACK could be sent, which without an address it cannot.  lapses: the
\* connection was closing, or the ACK was not sent.
SynAck(i, sent) ==
  LET c == IF con[1].st = "SYN_SENT" THEN [con[1] EXCEPT !.id = i] ELSE con[1]
  IN  /\ pc = "idle"
      /\ c.st # "ESTABLISHED"
      /\ sent => c.used
      /\ MakeChannels(1, c, IF sent THEN "ESTABLISHED" ELSE c.st)
      /\ lapses' = lapses \cup (IF c.st = "FIN_SENT" THEN {"reopened"} ELSE {})
                          \cup (IF sent THEN {} ELSE {"unsent"})

\* glb_close.
Close(k) ==
  /\ pc = "idle" /\ con[k].st = "ESTABLISHED"
  /\ Become(k, [con[k] EXCEPT !.st = "FIN_SENT"])
  /\ UNCHANGED <<heap, lapses>>

\* FIN, FIN-ACK, the keep-alive and the FIN timer: the end of a connection,
\* and of its channels.
End(k) ==
  /\ pc = "idle" /\ con[k].st # "CLOSED"
  /\ heap' = heap \ BlocksOf(con[k].chans)
  /\ Become(k, Freed(con[k]))
  /\ UNCHANGED lapses

\* The SYN and the SYN-ACK timer: the end of an attempt.
Forget(k) ==
  /\ pc = "idle" /\ con[k].st \in {"SYN_SENT", "SYN_RCVD"}
  /\ Become(k, [con[k] EXCEPT !.st = "CLOSED"])
  /\ UNCHANGED <<heap, lapses>>

\* RST "server full", the only one there is: the channels are freed if the
\* connection is ESTABLISHED.  lapses: it was closing.
Rst ==
  /\ pc = "idle"
  /\ \E k \in FindConn(Initiation) :
       \/ /\ con[k].st = "ESTABLISHED"
          /\ heap' = heap \ BlocksOf(con[k].chans)
          /\ Become(k, Freed(con[k]))
          /\ UNCHANGED lapses
       \/ /\ con[k].st # "ESTABLISHED"
          /\ Become(k, [con[k] EXCEPT !.st = "CLOSED"])
          /\ lapses' = IF con[k].st = "FIN_SENT" THEN lapses \cup {"reset"} ELSE lapses
          /\ UNCHANGED heap

-----------------------------------------------------------------------------
Create  == \/ \E server \in BOOLEAN : AllocContext(server)
           \/ OpenSocket \/ SetNonBlocking \/ Bind \/ AllocEventQueue

Next ==
  \/ Create \/ Destroy
  \/ AllocArray \/ AllocQueues \/ CleanUp
  \/ Connect
  \/ \E a \in Peers : SynKnown(a) \/ SynNew(a)
  \/ \E i \in ConId : Ack(i) \/ \E sent \in BOOLEAN : SynAck(i, sent)
  \/ \E k \in Slot : Close(k) \/ End(k) \/ Forget(k)
  \/ Rst

Spec == Init /\ [][Next]_vars

-----------------------------------------------------------------------------
Lapses == {"fcntl", "reopened", "reconnected", "unsent", "reset"}

TypeOK ==
  /\ heap \subseteq Block /\ sockets \subseteq Socket
  /\ pc \in {"none", "socket", "nonblock", "bind", "queue", "idle", "array",
            "queues", "cleanup", "crashed"}
  /\ ctx \in CtxRec
  /\ con \in [Slot -> ConRec]
  /\ nextId \in 0 .. IdTop - 1
  /\ job \in JobRec
  /\ creates \in 0 .. MaxCreate
  /\ lapses \subseteq Lapses
  /\ clash \in BOOLEAN

(***************************************************************************)
(* Every pointer the context holds is to a block that is allocated, and no *)
(* two are to the same: whatever malloc refuses, nothing is used after it  *)
(* was freed, and nothing is freed twice.                                  *)
(***************************************************************************)
Own(k) == BlocksOf(con[k].chans)

Distinct(c) ==
  \A i, j \in Chan :
    /\ c.q[i].s # NULL => c.q[i].s \notin {c.arr, c.q[j].r}
    /\ c.q[i].r # NULL => c.q[i].r # c.arr
    /\ i # j /\ c.q[i].s # NULL => c.q[i].s # c.q[j].s
    /\ i # j /\ c.q[i].r # NULL => c.q[i].r # c.q[j].r

NoDangling ==
  /\ {ctx.mem, ctx.evq} \ {NULL} \subseteq heap
  /\ ctx.mem # NULL => ctx.mem # ctx.evq
  /\ \A k \in Slot : Own(k) \subseteq heap \ {ctx.mem, ctx.evq}
  /\ \A j, k \in Slot : j # k => Own(j) \cap Own(k) = {}
  /\ \A k \in Slot : Distinct(con[k].chans)

(***************************************************************************)
(* Nothing is lost: what is allocated and what is open can still be freed  *)
(* and closed by the context, so that glb_destroy, a failed glb_create and *)
(* a failed glbctx_createconchannels leave nothing behind.  The code has   *)
(* five lapses: a connection with channels is opened again by a packet     *)
(* while it is closing, by glb_connect while it is open or closing, or     *)
(* after an ACK that could not be sent, or is reset while it is closing;   *)
(* and a socket is kept when fcntl fails.                                  *)
(***************************************************************************)
NothingLost ==
  /\ lapses \subseteq {"fcntl"} => heap = Owned
  /\ "fcntl" \notin lapses => sockets = {ctx.sock} \ {NULL}

(***************************************************************************)
(* Channels are whole or not there, but for those being made; and every    *)
(* ESTABLISHED connection has them, unless the program crashed because     *)
(* glb_tick did not look whether they could be made.                       *)
(***************************************************************************)
Making(k) == pc \in {"array", "queues", "cleanup", "crashed"} /\ job.slot = k

ChannelsWhole ==
  \A k \in Slot : ~Making(k) =>
    /\ con[k].st \in {"ESTABLISHED", "FIN_SENT"} => con[k].chans.arr # NULL
    /\ con[k].chans.arr # NULL =>
         \A i \in Chan : NULL \notin {con[k].chans.q[i].s, con[k].chans.q[i].r}

(***************************************************************************)
(* A packet that carries the id of a connection finds that connection,     *)
(* also when ids have wrapped to 0, which the slots never used carry, too; *)
(* until an id is handed out that another slot still has.  The generation, *)
(* which "increments on id overflow", does not prevent that.               *)
(***************************************************************************)
LookUp ==
  ~clash => \A k \in 1 .. Size : con[k].used => FindConn(con[k].id) = {k}

=============================================================================
