--------------------------- MODULE ContextProofs ---------------------------
(***************************************************************************)
(* Proofs about Context, for any slots, channels, ids and memory: the      *)
(* types, that no pointer dangles and nothing is lost, that channels are   *)
(* whole or not there, and that an id finds the connection that has it.    *)
(*                                                                         *)
(* Most steps change one connection and, with it, the heap.  The lemma     *)
(* Exchanged says when that keeps the heap and the pointers to it in       *)
(* order; the steps of a program that is not making channels are Keeps,    *)
(* Frees and Begins.                                                       *)
(***************************************************************************)
EXTENDS Context, TLAPS

-----------------------------------------------------------------------------
(***************************************************************************)
(* Types.                                                                  *)
(***************************************************************************)
LEMMA Constants ==
  /\ Slots \in Nat /\ Slots > 0 /\ NChan \in Nat /\ NChan > 0
  /\ MaxBlocks \in Nat /\ MaxBlocks > 0 /\ MaxOpen \in Nat /\ MaxOpen > 0
  /\ IdTop \in Nat /\ IdTop > 1 /\ MaxCreate \in Nat
  /\ None \notin Peers
  BY ContextAssumption

LEMMA SmallestMembers ==
  /\ NULL \notin Block /\ NULL \notin Socket
  /\ 1 \in Slot /\ 1 \in Chan
  BY Constants DEF NULL, Block, Socket, Slot, Chan

LEMMA SizeFacts == 1 .. Size \subseteq Slot /\ Size \in Nat
  BY Constants DEF Size, Slot

LEMMA FirstFacts ==
  ASSUME NEW K, K \subseteq Nat
  PROVE  /\ First(K) \subseteq K
         /\ \A j, k \in First(K) : j = k
  BY DEF First

LEMMA FoundSlots ==
  /\ \A i : FindConn(i) \subseteq Slot /\ \A k \in FindConn(i) : con[k].id = i
  /\ \A a : FindByAddr(a) \subseteq Slot /\ \A k \in FindByAddr(a) : con[k].peer = a
  /\ FindEmpty \subseteq Slot /\ \A k \in FindEmpty : con[k].st = "CLOSED"
  BY SizeFacts DEF FindConn, FindByAddr, FindEmpty, First, WithId, WithPeer

LEMMA MallocFacts ==
  /\ \A b \in Malloc : b \in Block /\ b \notin heap /\ b # NULL
  /\ \A s : \A r \in First(Block \ (heap \cup {s})) :
       r \in Block /\ r \notin heap /\ r # s /\ r # NULL
  BY SmallestMembers DEF Malloc, First

\* The values of records and ids.
LEMMA IdTypes ==
  /\ NoId \in ConId /\ Initiation \in ConId
  /\ nextId \in 0 .. IdTop - 1 => NewId \in ConId /\ Wrapped(nextId) \in 0 .. IdTop - 1
  BY Constants DEF NoId, Initiation, ConId, NewId, Wrapped

LEMMA EmptyTypes ==
  /\ NoQueues \in Queues /\ NoChannels \in Channels /\ Unused \in ConRec
  /\ Unused.st = "CLOSED" /\ Unused.chans = NoChannels
  /\ NoCtx \in CtxRec /\ NoJob \in JobRec
  <1>1. NoQueues \in Queues  BY DEF NoQueues, Queues, Ptr
  <1>2. NoChannels \in Channels  BY <1>1 DEF NoChannels, Channels, Ptr
  <1>3. Unused \in ConRec
    BY <1>2, IdTypes DEF Unused, ConRec, States
  <1>4. Unused.st = "CLOSED" /\ Unused.chans = NoChannels  BY DEF Unused
  <1>5. NoCtx \in CtxRec  BY DEF NoCtx, CtxRec, Ptr
  <1>6. NoJob \in JobRec  BY SmallestMembers DEF NoJob, JobRec, States
  <1> QED  BY <1>1, <1>2, <1>3, <1>4, <1>5, <1>6

LEMMA CtxTypes ==
  ASSUME NEW c \in CtxRec
  PROVE  /\ \A b \in Block, v \in BOOLEAN :
              LET d == [NoCtx EXCEPT !.mem = b, !.server = v]
              IN  d \in CtxRec /\ d.mem = b /\ d.evq = NULL /\ d.sock = NULL
         /\ \A b \in Block :
              LET d == [c EXCEPT !.evq = b]
              IN  /\ d \in CtxRec /\ d.evq = b /\ d.mem = c.mem /\ d.sock = c.sock
                  /\ d.server = c.server
         /\ \A s \in Socket :
              LET d == [c EXCEPT !.sock = s]
              IN  /\ d \in CtxRec /\ d.sock = s /\ d.mem = c.mem /\ d.evq = c.evq
                  /\ d.server = c.server
  BY DEF CtxRec, NoCtx, Ptr, NULL

\* What the steps do to a connection.
InState(c, s)    == [c EXCEPT !.st = s]
Emptied(c)       == [c EXCEPT !.chans = NoChannels]
WithArray(c, b)  == [c EXCEPT !.chans.arr = b]
WithQueues(c, i, s, r) == [c EXCEPT !.chans.q[i] = [s |-> s, r |-> r]]

LEMMA ConTypes ==
  ASSUME NEW c \in ConRec
  PROVE  /\ \A s \in States :
              /\ InState(c, s) \in ConRec /\ InState(c, s).st = s
              /\ InState(c, s).chans = c.chans /\ InState(c, s).id = c.id
              /\ InState(c, s).peer = c.peer /\ InState(c, s).used = c.used
         /\ Emptied(c) \in ConRec /\ Emptied(c).st = c.st
         /\ Emptied(c).chans = NoChannels /\ Emptied(c).id = c.id
         /\ Emptied(c).peer = c.peer /\ Emptied(c).used = c.used
         /\ Freed(c) \in ConRec /\ Freed(c).st = "CLOSED"
         /\ Freed(c).chans = NoChannels /\ Freed(c).id = c.id
         /\ Freed(c).peer = c.peer /\ Freed(c).used = c.used
  BY EmptyTypes, Zenon DEF InState, Emptied, Freed, ConRec, States

LEMMA WithTypes ==
  ASSUME NEW c \in ConRec, NEW i \in Chan
  PROVE  /\ \A b \in Block :
              /\ WithArray(c, b) \in ConRec
              /\ WithArray(c, b).chans = [arr |-> b, q |-> c.chans.q]
              /\ WithArray(c, b).st = c.st /\ WithArray(c, b).id = c.id
              /\ WithArray(c, b).peer = c.peer /\ WithArray(c, b).used = c.used
         /\ \A s, r \in Ptr(Block) :
              /\ WithQueues(c, i, s, r) \in ConRec
              /\ WithQueues(c, i, s, r).chans =
                   [arr |-> c.chans.arr, q |-> [c.chans.q EXCEPT ![i] = [s |-> s, r |-> r]]]
              /\ WithQueues(c, i, s, r).st = c.st /\ WithQueues(c, i, s, r).id = c.id
              /\ WithQueues(c, i, s, r).peer = c.peer
              /\ WithQueues(c, i, s, r).used = c.used
  <1>1. ASSUME NEW b \in Block
        PROVE  /\ WithArray(c, b) \in ConRec
               /\ WithArray(c, b).chans = [arr |-> b, q |-> c.chans.q]
               /\ WithArray(c, b).st = c.st /\ WithArray(c, b).id = c.id
               /\ WithArray(c, b).peer = c.peer /\ WithArray(c, b).used = c.used
    <2>1. c.chans \in Channels  BY DEF ConRec
    <2>2. [c.chans EXCEPT !.arr = b] = [arr |-> b, q |-> c.chans.q]
      BY <2>1 DEF Channels
    <2>3. [arr |-> b, q |-> c.chans.q] \in Channels  BY <2>1 DEF Channels, Ptr
    <2> QED  BY <2>2, <2>3, Zenon DEF WithArray, ConRec
  <1>2. ASSUME NEW s \in Ptr(Block), NEW r \in Ptr(Block)
        PROVE  /\ WithQueues(c, i, s, r) \in ConRec
               /\ WithQueues(c, i, s, r).chans =
                   [arr |-> c.chans.arr, q |-> [c.chans.q EXCEPT ![i] = [s |-> s, r |-> r]]]
               /\ WithQueues(c, i, s, r).st = c.st /\ WithQueues(c, i, s, r).id = c.id
               /\ WithQueues(c, i, s, r).peer = c.peer
               /\ WithQueues(c, i, s, r).used = c.used
    <2> DEFINE n == [c.chans.q EXCEPT ![i] = [s |-> s, r |-> r]]
    <2>1. c.chans \in Channels  BY DEF ConRec
    <2>2. [s |-> s, r |-> r] \in Queues  BY DEF Queues
    <2>3. n \in [Chan -> Queues]  BY <2>1, <2>2 DEF Channels
    <2>4. [c.chans EXCEPT !.q[i] = [s |-> s, r |-> r]] = [arr |-> c.chans.arr, q |-> n]
      BY <2>1 DEF Channels
    <2>5. [arr |-> c.chans.arr, q |-> n] \in Channels  BY <2>1, <2>3 DEF Channels
    <2> QED  BY <2>4, <2>5, Zenon DEF WithQueues, ConRec
  <1> QED  BY <1>1, <1>2

LEMMA Updated ==
  ASSUME TypeOK, NEW k \in Slot, NEW c \in ConRec, con' = [con EXCEPT ![k] = c]
  PROVE  /\ con' \in [Slot -> ConRec] /\ con'[k] = c
         /\ \A j \in Slot : j # k => con'[j] = con[j]
  BY DEF TypeOK

LEMMA JobFacts ==
  ASSUME TypeOK
  PROVE  /\ job.slot \in Slot /\ job.chan \in Chan /\ job.st \in States
         /\ con[job.slot] \in ConRec
         /\ job.chan < NChan =>
              /\ [job EXCEPT !.chan = @ + 1] \in JobRec
              /\ [job EXCEPT !.chan = @ + 1].slot = job.slot
              /\ [job EXCEPT !.chan = @ + 1].chan = job.chan + 1
              /\ [job EXCEPT !.chan = @ + 1].st = job.st
  BY Constants DEF TypeOK, JobRec, Chan, Slot

-----------------------------------------------------------------------------
(***************************************************************************)
(* The steps of glb_tick and the application that end a call: connection k *)
(* becomes c, and keeps its channels, gives them back, or has none.        *)
(***************************************************************************)
Clean      == lapses \subseteq {"fcntl"}
Carries(c) == c.st \in {"ESTABLISHED", "FIN_SENT"}

Keeps(k, c) ==
  /\ pc' = "idle" /\ heap' = heap
  /\ c.chans = con[k].chans
  /\ Carries(c) => Carries(con[k])
  /\ Carries(con[k]) /\ Clean' => Carries(c)

Frees(k, c) ==
  /\ pc' = "idle" /\ heap' = heap \ Own(k)
  /\ c.chans = NoChannels /\ ~Carries(c)

Begins(k, c) ==
  /\ heap' = heap
  /\ c.chans = NoChannels
  /\ Clean' => ~Carries(con[k])
  /\ \/ pc' = "idle" /\ ~Carries(c)
     \/ /\ pc' = "array" /\ job'.slot = k /\ job'.chan = 1
        /\ Clean' => job'.st = "ESTABLISHED"

Turn ==
  /\ pc = "idle"
  /\ ctx' = ctx /\ sockets' = sockets
  /\ lapses \subseteq lapses' /\ ("fcntl" \in lapses' => "fcntl" \in lapses)
  /\ \E k \in Slot, c \in ConRec :
       con' = [con EXCEPT ![k] = c] /\ (Keeps(k, c) \/ Frees(k, c) \/ Begins(k, c))

LEMMA ConnectTurn ==
  ASSUME TypeOK, Connect
  PROVE  TypeOK' /\ Turn
  <1>1. PICK a \in Peers :
          Become(1, [con[1] EXCEPT !.st = "SYN_SENT", !.id = Initiation, !.peer = a,
                                   !.used = TRUE])
    BY DEF Connect
  <1>2. PICK c : c = [con[1] EXCEPT !.st = "SYN_SENT", !.id = Initiation, !.peer = a,
                                    !.used = TRUE]
    OBVIOUS
  <1>3. 1 \in Slot /\ con[1] \in ConRec  BY SmallestMembers DEF TypeOK
  <1>4. c \in ConRec /\ c.st = "SYN_SENT" /\ c.chans = con[1].chans
    BY <1>2, <1>3, IdTypes, Zenon DEF ConRec, States
  <1>5. con' = [con EXCEPT ![1] = c]  BY <1>1, <1>2 DEF Become
  <1>6. con' \in [Slot -> ConRec]  BY <1>3, <1>4, <1>5, Updated
  <1>7. /\ pc = "idle" /\ pc' = pc /\ heap' = heap /\ job' = job
        /\ lapses' = IF con[1].st \in {"ESTABLISHED", "FIN_SENT"}
                     THEN lapses \cup {"reconnected"} ELSE lapses
        /\ UNCHANGED resources
    BY <1>1 DEF Connect, Become
  <1>8. lapses \subseteq Lapses  BY DEF TypeOK
  <1>9. TypeOK'  BY <1>6, <1>7, <1>8 DEF TypeOK, resources, Lapses
  <1>10. Carries(con[1]) => "reconnected" \in lapses'  BY <1>7 DEF Carries
  <1>11. ~(Carries(con[1]) /\ Clean')  BY <1>10 DEF Clean
  <1>12. Keeps(1, c)  BY <1>4, <1>7, <1>11 DEF Keeps, Carries
  <1> QED  BY <1>3, <1>4, <1>5, <1>7, <1>9, <1>12 DEF Turn, resources

\* The steps that only change a connection's state.
LEMMA StateTurn ==
  ASSUME TypeOK, NEW k \in Slot, NEW s \in States,
         pc = "idle", Become(k, InState(con[k], s)), heap' = heap,
         lapses' \subseteq Lapses, lapses \subseteq lapses',
         "fcntl" \in lapses' => "fcntl" \in lapses,
         s \in {"ESTABLISHED", "FIN_SENT"} => Carries(con[k]),
         Carries(con[k]) /\ Clean' => s \in {"ESTABLISHED", "FIN_SENT"}
  PROVE  TypeOK' /\ Turn
  <1>1. PICK c : c = InState(con[k], s)  OBVIOUS
  <1>2. con[k] \in ConRec  BY DEF TypeOK
  <1>3. c \in ConRec /\ c.st = s /\ c.chans = con[k].chans  BY <1>1, <1>2, ConTypes
  <1>4. con' = [con EXCEPT ![k] = c]  BY <1>1 DEF Become
  <1>5. con' \in [Slot -> ConRec]  BY <1>3, <1>4, Updated
  <1>6. pc' = pc /\ job' = job /\ UNCHANGED resources  BY DEF Become
  <1>7. TypeOK'  BY <1>5, <1>6 DEF TypeOK, resources
  <1>8. Keeps(k, c)  BY <1>3, <1>6 DEF Keeps, Carries
  <1> QED  BY <1>3, <1>4, <1>6, <1>7, <1>8 DEF Turn, resources

LEMMA SynKnownTurn ==
  ASSUME TypeOK, NEW a \in Peers, SynKnown(a)
  PROVE  TypeOK' /\ Turn
  <1>1. PICK k \in FindByAddr(a) :
          /\ con[k].st # "ESTABLISHED"
          /\ Become(k, InState(con[k], "SYN_RCVD"))
          /\ lapses' = IF con[k].st = "FIN_SENT" THEN lapses \cup {"reopened"} ELSE lapses
    BY DEF SynKnown, InState
  <1>2. k \in Slot /\ pc = "idle" /\ heap' = heap  BY <1>1, FoundSlots DEF SynKnown
  <1>3. lapses \subseteq Lapses  BY DEF TypeOK
  <1>4. Carries(con[k]) => "reopened" \in lapses'  BY <1>1 DEF Carries
  <1>5. ~(Carries(con[k]) /\ Clean')  BY <1>4 DEF Clean
  <1> QED  BY <1>1, <1>2, <1>3, <1>5, StateTurn DEF Lapses, States

LEMMA CloseTurn ==
  ASSUME TypeOK, NEW k \in Slot, Close(k)
  PROVE  TypeOK' /\ Turn
  <1>1. /\ pc = "idle" /\ con[k].st = "ESTABLISHED"
        /\ Become(k, InState(con[k], "FIN_SENT")) /\ heap' = heap /\ lapses' = lapses
    BY DEF Close, InState
  <1>2. lapses \subseteq Lapses  BY DEF TypeOK
  <1> QED  BY <1>1, <1>2, StateTurn DEF States, Carries

LEMMA ForgetTurn ==
  ASSUME TypeOK, NEW k \in Slot, Forget(k)
  PROVE  TypeOK' /\ Turn
  <1>1. /\ pc = "idle" /\ con[k].st \in {"SYN_SENT", "SYN_RCVD"}
        /\ Become(k, InState(con[k], "CLOSED")) /\ heap' = heap /\ lapses' = lapses
    BY DEF Forget, InState
  <1>2. lapses \subseteq Lapses  BY DEF TypeOK
  <1> QED  BY <1>1, <1>2, StateTurn DEF States, Carries

\* The steps that give back a connection's channels.
LEMMA FreeTurn ==
  ASSUME TypeOK, NEW k \in Slot, pc = "idle",
         heap' = heap \ BlocksOf(con[k].chans), Become(k, Freed(con[k])), lapses' = lapses
  PROVE  TypeOK' /\ Turn
  <1>1. PICK c : c = Freed(con[k])  OBVIOUS
  <1>2. con[k] \in ConRec  BY DEF TypeOK
  <1>3. c \in ConRec /\ c.st = "CLOSED" /\ c.chans = NoChannels  BY <1>1, <1>2, ConTypes
  <1>4. con' = [con EXCEPT ![k] = c]  BY <1>1 DEF Become
  <1>5. con' \in [Slot -> ConRec]  BY <1>3, <1>4, Updated
  <1>6. pc' = pc /\ job' = job /\ UNCHANGED resources  BY DEF Become
  <1>7. TypeOK'  BY <1>5, <1>6 DEF TypeOK, resources
  <1>8. Frees(k, c)  BY <1>3, <1>6 DEF Frees, Carries, Own
  <1> QED  BY <1>3, <1>4, <1>6, <1>7, <1>8 DEF Turn, resources

LEMMA EndTurn ==
  ASSUME TypeOK, NEW k \in Slot, End(k)
  PROVE  TypeOK' /\ Turn
  BY FreeTurn DEF End

LEMMA RstTurn ==
  ASSUME TypeOK, Rst
  PROVE  TypeOK' /\ Turn
  <1>1. PICK k \in FindConn(Initiation) :
       \/ /\ con[k].st = "ESTABLISHED"
          /\ heap' = heap \ BlocksOf(con[k].chans)
          /\ Become(k, Freed(con[k]))
          /\ UNCHANGED lapses
       \/ /\ con[k].st # "ESTABLISHED"
          /\ Become(k, InState(con[k], "CLOSED"))
          /\ lapses' = IF con[k].st = "FIN_SENT" THEN lapses \cup {"reset"} ELSE lapses
          /\ UNCHANGED heap
    BY DEF Rst, InState
  <1>2. k \in Slot /\ pc = "idle"  BY <1>1, FoundSlots DEF Rst
  <1>3. CASE con[k].st = "ESTABLISHED"  BY <1>1, <1>2, <1>3, FreeTurn
  <1>4. CASE con[k].st # "ESTABLISHED"
    <2>1. lapses \subseteq Lapses  BY DEF TypeOK
    <2>2. Carries(con[k]) => "reset" \in lapses'  BY <1>1, <1>4 DEF Carries
    <2>3. ~(Carries(con[k]) /\ Clean')  BY <2>2 DEF Clean
    <2> QED  BY <1>1, <1>2, <1>4, <2>1, <2>3, StateTurn DEF Lapses, States
  <1> QED  BY <1>3, <1>4

-----------------------------------------------------------------------------
(***************************************************************************)
(* The steps that begin a connection, or its channels.                     *)
(***************************************************************************)
LEMMA SynNewTurn ==
  ASSUME TypeOK, NEW a \in Peers, SynNew(a)
  PROVE  TypeOK' /\ Turn
  <1> DEFINE r == [Unused EXCEPT !.st = "SYN_RCVD", !.id = NewId, !.peer = a, !.used = TRUE]
  <1>1. PICK k \in FindEmpty : con' = [con EXCEPT ![k] = r]  BY DEF SynNew
  <1>2. k \in Slot /\ con[k].st = "CLOSED"  BY <1>1, FoundSlots
  <1>3. PICK c : c = r  OBVIOUS
  <1> HIDE DEF r
  <1>4. c \in ConRec /\ c.st = "SYN_RCVD" /\ c.chans = NoChannels
    <2>1. nextId \in 0 .. IdTop - 1  BY DEF TypeOK
    <2>2. NewId \in ConId  BY <2>1, IdTypes
    <2> QED  BY <1>3, <2>2, EmptyTypes, Zenon DEF r, ConRec, States
  <1>5. con' = [con EXCEPT ![k] = c]  BY <1>1, <1>3
  <1>6. con' \in [Slot -> ConRec]  BY <1>2, <1>4, <1>5, Updated
  <1>7. /\ pc = "idle" /\ heap' = heap /\ sockets' = sockets /\ pc' = pc /\ ctx' = ctx
        /\ job' = job /\ creates' = creates /\ lapses' = lapses
    BY DEF SynNew
  <1>8. nextId' \in 0 .. IdTop - 1 /\ clash' \in BOOLEAN
    BY IdTypes DEF SynNew, TypeOK
  <1>9. TypeOK'  BY <1>6, <1>7, <1>8 DEF TypeOK
  <1>10. Begins(k, c)  BY <1>2, <1>4, <1>7 DEF Begins, Carries
  <1> QED  BY <1>2, <1>4, <1>5, <1>7, <1>9, <1>10 DEF Turn, Carries

\* glbctx_createconchannels, as its two callers call it.
LEMMA MakeTurn ==
  ASSUME TypeOK, NEW k \in Slot, NEW c \in ConRec, NEW s \in States,
         pc = "idle", MakeChannels(k, c, s),
         lapses' \subseteq Lapses, lapses \subseteq lapses',
         "fcntl" \in lapses' => "fcntl" \in lapses,
         Clean' => s = "ESTABLISHED" /\ ~Carries(con[k])
  PROVE  TypeOK' /\ Turn
  <1>1. PICK d : d = Emptied(c)  OBVIOUS
  <1>2. d \in ConRec /\ d.chans = NoChannels  BY <1>1, ConTypes
  <1>3. con' = [con EXCEPT ![k] = d]  BY <1>1 DEF MakeChannels, Emptied
  <1>4. con' \in [Slot -> ConRec]  BY <1>2, <1>3, Updated
  <1>5. /\ UNCHANGED resources /\ heap' = heap /\ pc' = "array"
        /\ job' = [slot |-> k, chan |-> 1, st |-> s]
    BY DEF MakeChannels
  <1>6. job' \in JobRec /\ job'.slot = k /\ job'.chan = 1 /\ job'.st = s
    BY <1>5, SmallestMembers DEF JobRec
  <1>7. TypeOK'  BY <1>4, <1>5, <1>6 DEF TypeOK, resources
  <1>8. Begins(k, d)  BY <1>2, <1>5, <1>6 DEF Begins
  <1> QED  BY <1>2, <1>3, <1>5, <1>7, <1>8 DEF Turn, resources

LEMMA AckTurn ==
  ASSUME TypeOK, NEW i \in ConId, Ack(i)
  PROVE  TypeOK' /\ Turn
  <1>1. PICK k \in FindConn(i) :
          /\ con[k].st = "SYN_RCVD"
          /\ MakeChannels(k, InState(con[k], "ESTABLISHED"), "ESTABLISHED")
    BY DEF Ack, InState
  <1>2. k \in Slot /\ con[k] \in ConRec  BY <1>1, FoundSlots DEF TypeOK
  <1>3. "ESTABLISHED" \in States  BY DEF States
  <1>4. InState(con[k], "ESTABLISHED") \in ConRec  BY <1>2, <1>3, ConTypes
  <1>5. pc = "idle" /\ lapses' = lapses /\ lapses \subseteq Lapses  BY DEF Ack, TypeOK
  <1> QED  BY <1>1, <1>2, <1>3, <1>4, <1>5, MakeTurn DEF Carries

LEMMA SynAckTurn ==
  ASSUME TypeOK, NEW i \in ConId, NEW sent \in BOOLEAN, SynAck(i, sent)
  PROVE  TypeOK' /\ Turn
  <1>1. PICK c : c = IF con[1].st = "SYN_SENT" THEN [con[1] EXCEPT !.id = i] ELSE con[1]
    OBVIOUS
  <1>2. 1 \in Slot /\ con[1] \in ConRec  BY SmallestMembers DEF TypeOK
  <1>3. [con[1] EXCEPT !.id = i] \in ConRec /\ [con[1] EXCEPT !.id = i].st = con[1].st
    BY <1>2 DEF ConRec
  <1>4. c \in ConRec /\ c.st = con[1].st  BY <1>1, <1>2, <1>3
  <1>5. /\ pc = "idle" /\ c.st # "ESTABLISHED"
        /\ MakeChannels(1, c, IF sent THEN "ESTABLISHED" ELSE c.st)
        /\ lapses' = lapses \cup (IF c.st = "FIN_SENT" THEN {"reopened"} ELSE {})
                            \cup (IF sent THEN {} ELSE {"unsent"})
    BY <1>1 DEF SynAck
  <1>6. PICK s : s = IF sent THEN "ESTABLISHED" ELSE c.st  OBVIOUS
  <1>7. s \in States  BY <1>4, <1>6 DEF ConRec, States
  <1>8. /\ lapses' \subseteq Lapses /\ lapses \subseteq lapses'
        /\ "fcntl" \in lapses' => "fcntl" \in lapses
    BY <1>5 DEF TypeOK, Lapses
  <1>9. ASSUME Clean'
        PROVE  s = "ESTABLISHED" /\ ~Carries(con[1])
    <2>1. "unsent" \notin lapses' /\ "reopened" \notin lapses'  BY <1>9 DEF Clean
    <2>2. sent = TRUE /\ c.st # "FIN_SENT"  BY <1>5, <2>1
    <2> QED  BY <1>4, <1>5, <1>6, <2>2 DEF Carries
  <1> QED  BY <1>2, <1>4, <1>5, <1>6, <1>7, <1>8, <1>9, MakeTurn

-----------------------------------------------------------------------------
(***************************************************************************)
(* Blocks of memory.                                                       *)
(***************************************************************************)
LEMMA QueueMembers ==
  ASSUME NEW c, NEW b
  PROVE  b \in BlocksOf(c) <=>
           b # NULL /\ (b = c.arr \/ \E i \in Chan : b \in {c.q[i].s, c.q[i].r})
  <1>1. PICK U : U = UNION {{c.q[i].s, c.q[i].r} : i \in Chan}  OBVIOUS
  <1>2. b \in U <=> \E i \in Chan : b \in {c.q[i].s, c.q[i].r}  BY <1>1
  <1>3. BlocksOf(c) = ({c.arr} \ {NULL}) \cup (U \ {NULL})
    BY <1>1 DEF BlocksOf, QueueBlocks
  <1> QED  BY <1>2, <1>3

LEMMA NoQueuesHere ==
  \A i \in Chan : NoChannels.q[i] = NoQueues /\ NoQueues.s = NULL /\ NoQueues.r = NULL
  BY DEF NoChannels, NoQueues

\* Channels without queues.
LEMMA ArrayBlocks ==
  ASSUME NEW c, c.q = NoChannels.q
  PROVE  BlocksOf(c) = {c.arr} \ {NULL} /\ Distinct(c)
  <1>1. \A i \in Chan : c.q[i].s = NULL /\ c.q[i].r = NULL  BY NoQueuesHere
  <1>2. \A b : b \in BlocksOf(c) <=> b # NULL /\ b = c.arr  BY <1>1, QueueMembers
  <1>3. BlocksOf(c) = {c.arr} \ {NULL}  BY <1>2
  <1>4. Distinct(c)  BY <1>1 DEF Distinct
  <1> QED  BY <1>3, <1>4

LEMMA NoBlocks == BlocksOf(NoChannels) = {} /\ Distinct(NoChannels)
  BY ArrayBlocks DEF NoChannels

\* Queues are made for channel i of c, which had none.
LEMMA MoreBlocks ==
  ASSUME NEW c \in Channels, NEW i \in Chan, c.q[i] = NoQueues, Distinct(c),
         NEW s, NEW r, s # r \/ s = NULL,
         s \notin BlocksOf(c), r \notin BlocksOf(c)
  PROVE  LET d == [arr |-> c.arr, q |-> [c.q EXCEPT ![i] = [s |-> s, r |-> r]]]
         IN  BlocksOf(d) = BlocksOf(c) \cup ({s, r} \ {NULL}) /\ Distinct(d)
  <1>1. PICK d : d = [arr |-> c.arr, q |-> [c.q EXCEPT ![i] = [s |-> s, r |-> r]]]
    OBVIOUS
  <1>2. /\ d.arr = c.arr /\ d.q[i].s = s /\ d.q[i].r = r
        /\ \A j \in Chan : j # i => d.q[j] = c.q[j]
        /\ c.q[i].s = NULL /\ c.q[i].r = NULL
    BY <1>1 DEF Channels, NoQueues
  <1>3. BlocksOf(d) = BlocksOf(c) \cup ({s, r} \ {NULL})
    <2>1. ASSUME NEW b
          PROVE  b \in BlocksOf(d) <=> b \in BlocksOf(c) \/ b \in {s, r} \ {NULL}
      <3>1. \A j \in Chan : j # i => d.q[j].s = c.q[j].s /\ d.q[j].r = c.q[j].r
        BY <1>2
      <3>2. /\ b \in BlocksOf(d) <=>
                 b # NULL /\ (b = d.arr \/ \E j \in Chan : b \in {d.q[j].s, d.q[j].r})
            /\ b \in BlocksOf(c) <=>
                 b # NULL /\ (b = c.arr \/ \E j \in Chan : b \in {c.q[j].s, c.q[j].r})
        BY QueueMembers
      <3> QED  BY <1>2, <3>1, <3>2
    <2> QED  BY <2>1
  <1>4. \A j \in Chan : /\ c.q[j].s # NULL => c.q[j].s # s /\ c.q[j].s # r
                        /\ c.q[j].r # NULL => c.q[j].r # s /\ c.q[j].r # r
    BY QueueMembers
  <1>5. c.arr # NULL => c.arr # s /\ c.arr # r  BY QueueMembers
  <1>6. Distinct(d)
    <2> SUFFICES ASSUME NEW j \in Chan, NEW m \in Chan
                 PROVE  /\ d.q[j].s # NULL => d.q[j].s \notin {d.arr, d.q[m].r}
                        /\ d.q[j].r # NULL => d.q[j].r # d.arr
                        /\ j # m /\ d.q[j].s # NULL => d.q[j].s # d.q[m].s
                        /\ j # m /\ d.q[j].r # NULL => d.q[j].r # d.q[m].r
      BY DEF Distinct
    <2>1. /\ c.q[j].s # NULL => c.q[j].s \notin {c.arr, c.q[m].r}
          /\ c.q[j].r # NULL => c.q[j].r # c.arr
          /\ j # m /\ c.q[j].s # NULL => c.q[j].s # c.q[m].s
          /\ j # m /\ c.q[j].r # NULL => c.q[j].r # c.q[m].r
      BY DEF Distinct
    <2>2. j # i => d.q[j].s = c.q[j].s /\ d.q[j].r = c.q[j].r  BY <1>2
    <2>3. m # i => d.q[m].s = c.q[m].s /\ d.q[m].r = c.q[m].r  BY <1>2
    <2> QED  BY <1>2, <1>4, <1>5, <2>1, <2>2, <2>3
  <1> QED  BY <1>1, <1>3, <1>6

\* Connection k gives back the blocks Y and gets the blocks X.
LEMMA Exchanged ==
  ASSUME NoDangling, NEW k \in Slot, NEW X, NEW Y,
         X \cap heap = {}, Y \subseteq Own(k), heap' = (heap \ Y) \cup X,
         \A j \in Slot : j # k => con'[j].chans = con[j].chans,
         Own(k)' \subseteq (Own(k) \ Y) \cup X, Distinct(con'[k].chans),
         ctx'.mem = ctx.mem, ctx'.evq = ctx.evq
  PROVE  /\ NoDangling'
         /\ heap = Owned /\ Own(k)' = (Own(k) \ Y) \cup X => heap' = Owned'
  <1>1. \A j \in Slot : j # k => Own(j)' = Own(j)  BY DEF Own
  <1>2. /\ {ctx.mem, ctx.evq} \ {NULL} \subseteq heap
        /\ ctx.mem # NULL => ctx.mem # ctx.evq
        /\ \A j \in Slot : Own(j) \subseteq heap \ {ctx.mem, ctx.evq}
        /\ \A j, m \in Slot : j # m => Own(j) \cap Own(m) = {}
        /\ \A j \in Slot : Distinct(con[j].chans)
    BY DEF NoDangling
  <1>3. NULL \notin Own(k)' /\ \A j \in Slot : NULL \notin Own(j)
    BY QueueMembers DEF Own
  <1>4. ({ctx'.mem, ctx'.evq} \ {NULL}) \subseteq heap'  BY <1>2
  <1>5. \A j \in Slot : Own(j)' \subseteq heap' \ {ctx'.mem, ctx'.evq}
    <2>1. Own(k)' \subseteq heap' \ {ctx'.mem, ctx'.evq}
      <3>1. SUFFICES ASSUME NEW b \in Own(k)' PROVE b \in heap' /\ b \notin {ctx'.mem, ctx'.evq}
        OBVIOUS
      <3>2. CASE b \in X  BY <1>2, <1>3, <3>1, <3>2
      <3>3. CASE b \in Own(k) \ Y  BY <1>2, <3>3
      <3> QED  BY <3>1, <3>2, <3>3
    <2>2. \A j \in Slot : j # k => Own(j)' \subseteq heap' \ {ctx'.mem, ctx'.evq}
      BY <1>1, <1>2
    <2> QED  BY <2>1, <2>2
  <1>6. \A j, m \in Slot : j # m => Own(j)' \cap Own(m)' = {}
    <2>1. \A j \in Slot : j # k => Own(j) \cap Own(k)' = {}
      BY <1>2
    <2> QED  BY <1>1, <1>2, <2>1
  <1>7. \A j \in Slot : Distinct(con'[j].chans)  BY <1>2
  <1>8. NoDangling'  BY <1>2, <1>4, <1>5, <1>6, <1>7 DEF NoDangling
  <1>9. ASSUME heap = Owned, Own(k)' = (Own(k) \ Y) \cup X
        PROVE  heap' = Owned'
    <2>1. /\ Owned = ({ctx.mem, ctx.evq} \ {NULL}) \cup UNION {Own(j) : j \in Slot}
          /\ Owned' = ({ctx'.mem, ctx'.evq} \ {NULL}) \cup UNION {Own(j)' : j \in Slot}
      BY DEF Owned, Own
    <2>2. ASSUME NEW b
          PROVE  b \in heap' <=> b \in Owned'
      <3>1. b \in heap <=> b \in {ctx.mem, ctx.evq} \ {NULL} \/ \E j \in Slot : b \in Own(j)
        BY <1>9, <2>1
      <3>2. b \in Owned' <=>
              b \in {ctx.mem, ctx.evq} \ {NULL} \/ \E j \in Slot : b \in Own(j)'
        BY <2>1
      <3>4. b \in Y => b \notin {ctx.mem, ctx.evq} /\ \A m \in Slot : m # k => b \notin Own(m)
        BY <1>2
      <3>5. (\E j \in Slot : b \in Own(j)') <=>
              (b \in Own(k)' \/ \E m \in Slot : m # k /\ b \in Own(m))
        BY <1>1
      <3>6. (\E j \in Slot : b \in Own(j)) <=>
              (b \in Own(k) \/ \E m \in Slot : m # k /\ b \in Own(m))
        OBVIOUS
      <3> QED  BY <1>9, <3>1, <3>2, <3>4, <3>5, <3>6
    <2> QED  BY <2>2
  <1> QED  BY <1>8, <1>9

-----------------------------------------------------------------------------
(***************************************************************************)
(* The inductive invariant.  Phases: what there is of the context, after   *)
(* each call of glbctx_create that may fail, and that there is no          *)
(* connection before it returns.  Settled: a connection whose channels are *)
(* not being made has whole ones or none, and has them exactly while it    *)
(* can carry data, if the code has not lapsed.  Progress: how far          *)
(* glbctx_createconchannels is.                                            *)
(***************************************************************************)
Creating == {"none", "socket", "nonblock", "bind", "queue"}
Busy     == {"array", "queues", "cleanup"}

Phases ==
  /\ pc = "none" => ctx = NoCtx
  /\ (ctx.mem = NULL) <=> (pc = "none")
  /\ (ctx.sock = NULL) <=> (pc \in {"none", "socket"})
  /\ (ctx.evq = NULL) <=> (pc \in Creating)
  /\ pc \in Creating => con = [k \in Slot |-> Unused] /\ nextId = 1 /\ clash = FALSE
  /\ pc \in Busy /\ Clean => job.st = "ESTABLISHED"

Whole(c, n) == \A i \in Chan : i < n => c.q[i].s # NULL /\ c.q[i].r # NULL
Bare(c, n)  == \A i \in Chan : i > n => c.q[i] = NoQueues

Settled(k) ==
  LET c == con[k].chans
  IN  /\ Carries(con[k]) => c.arr # NULL
      /\ c.arr # NULL => Whole(c, NChan + 1)
      /\ Clean /\ ~Carries(con[k]) => c = NoChannels

Progress ==
  LET c == con[job.slot].chans
  IN  /\ pc \in {"array", "crashed"} => c = NoChannels
      /\ pc = "array" => job.chan = 1
      /\ pc \in {"queues", "cleanup"} =>
           c.arr # NULL /\ Whole(c, job.chan) /\ Bare(c, job.chan)
      /\ pc = "queues" => c.q[job.chan] = NoQueues

Shape ==
  /\ \A k \in Slot : ~Making(k) => Settled(k)
  /\ Progress

MInv == TypeOK /\ Phases /\ Shape /\ NoDangling /\ NothingLost

LEMMA InitMInv == ASSUME Init PROVE MInv
  <1>1. /\ heap = {} /\ sockets = {} /\ pc = "none" /\ ctx = NoCtx
        /\ con = [k \in Slot |-> Unused] /\ nextId = 1 /\ job = NoJob
        /\ creates = 0 /\ lapses = {} /\ clash = FALSE
    BY DEF Init
  <1>2. ctx.mem = NULL /\ ctx.evq = NULL /\ ctx.sock = NULL  BY <1>1 DEF NoCtx
  <1>3. \A k \in Slot : /\ con[k] = Unused /\ con[k].st = "CLOSED"
                        /\ con[k].chans = NoChannels
    BY <1>1, EmptyTypes
  <1>4. NoChannels.arr = NULL  BY DEF NoChannels
  <1>5. TypeOK
    <2>1. con \in [Slot -> ConRec]  BY <1>1, EmptyTypes
    <2>2. ctx \in CtxRec /\ job \in JobRec  BY <1>1, EmptyTypes
    <2>3. nextId \in 0 .. IdTop - 1 /\ creates \in 0 .. MaxCreate  BY <1>1, Constants
    <2> QED  BY <1>1, <2>1, <2>2, <2>3 DEF TypeOK
  <1>6. Phases  BY <1>1, <1>2 DEF Phases, Creating, Busy
  <1>7. Shape  BY <1>1, <1>3, <1>4 DEF Shape, Settled, Progress, Carries
  <1>8. \A k \in Slot : Own(k) = {} /\ Distinct(con[k].chans)  BY <1>3, NoBlocks DEF Own
  <1>9. NoDangling  BY <1>2, <1>8 DEF NoDangling
  <1>10. NothingLost
    <2>1. Owned = {}  BY <1>2, <1>8 DEF Owned, Own
    <2> QED  BY <1>1, <1>2, <2>1 DEF NothingLost
  <1> QED  BY <1>5, <1>6, <1>7, <1>9, <1>10 DEF MInv

\* The steps of a program that is not making channels.
LEMMA TurnMInv ==
  ASSUME MInv, TypeOK', Turn
  PROVE  MInv'
  <1>1. PICK k \in Slot, c \in ConRec :
          /\ con' = [con EXCEPT ![k] = c]
          /\ Keeps(k, c) \/ Frees(k, c) \/ Begins(k, c)
    BY DEF Turn
  <1>2. TypeOK /\ Phases /\ Shape /\ NoDangling /\ NothingLost  BY DEF MInv
  <1>3. /\ con'[k] = c
        /\ \A j \in Slot : j # k => con'[j] = con[j]
    BY <1>1, <1>2, Updated
  <1>4. /\ pc = "idle" /\ ctx' = ctx /\ sockets' = sockets
        /\ lapses \subseteq lapses' /\ ("fcntl" \in lapses' => "fcntl" \in lapses)
    BY DEF Turn
  <1>5. pc' \in {"idle", "array"}  BY <1>1 DEF Keeps, Frees, Begins
  <1>6. Clean' => Clean  BY <1>4 DEF Clean
  <1>7. \A j \in Slot : Settled(j)  BY <1>2, <1>4 DEF Shape, Making
  <1>8. Phases'
    <2>1. pc' \in Busy /\ Clean' => job'.st = "ESTABLISHED"
      BY <1>1 DEF Keeps, Frees, Begins, Busy
    <2> QED  BY <1>2, <1>4, <1>5, <2>1 DEF Phases, Creating, Busy
  <1>9. \A j \in Slot : j # k => Settled(j)'
    BY <1>3, <1>6, <1>7 DEF Settled
  <1>10. NoChannels.arr = NULL  BY DEF NoChannels
  <1>11. Shape'
    <2>1. CASE Keeps(k, c)
      <3>1. Settled(k)  BY <1>7
      <3>2. Settled(k)'  BY <1>3, <1>6, <2>1, <3>1 DEF Settled, Keeps
      <3> QED  BY <1>9, <2>1, <3>2 DEF Shape, Progress, Keeps
    <2>2. CASE Frees(k, c)
      <3>1. Settled(k)'  BY <1>3, <1>10, <2>2 DEF Settled, Frees
      <3> QED  BY <1>9, <2>2, <3>1 DEF Shape, Progress, Frees
    <2>3. CASE Begins(k, c) /\ pc' = "idle"
      <3>1. Settled(k)'  BY <1>3, <1>10, <2>3 DEF Settled, Begins
      <3> QED  BY <1>9, <2>3, <3>1 DEF Shape, Progress
    <2>4. CASE Begins(k, c) /\ pc' # "idle"
      <3>1. pc' = "array" /\ job'.slot = k /\ job'.chan = 1 /\ c.chans = NoChannels
        BY <2>4 DEF Begins
      <3>2. \A j \in Slot : ~Making(j)' => Settled(j)'  BY <1>9, <3>1 DEF Making
      <3>3. Progress'  BY <1>3, <3>1 DEF Progress
      <3> QED  BY <3>2, <3>3 DEF Shape
    <2> QED  BY <1>1, <2>1, <2>2, <2>3, <2>4
  <1>12. \A j \in Slot : j # k => con'[j].chans = con[j].chans  BY <1>3
  <1>13. NoDangling' /\ (Clean' /\ heap = Owned => heap' = Owned')
    <2>1. CASE Keeps(k, c)
      <3>1. /\ Own(k)' = Own(k) /\ Distinct(con'[k].chans) /\ heap' = heap
        BY <1>2, <1>3, <2>1 DEF Keeps, Own, NoDangling
      <3>2. /\ Own(k)' = (Own(k) \ {}) \cup {} /\ heap' = (heap \ {}) \cup {}
            /\ Own(k)' \subseteq (Own(k) \ {}) \cup {}
            /\ {} \cap heap = {} /\ {} \subseteq Own(k)
            /\ Distinct(con'[k].chans)
        BY <3>1
      <3>3. NoDangling'  BY <1>2, <1>4, <1>12, <3>2, Exchanged
      <3>4. heap = Owned => heap' = Owned'
        BY <1>2, <1>4, <1>12, <3>2, Exchanged
      <3> QED  BY <3>3, <3>4
    <2>2. CASE Frees(k, c)
      <3>1. Own(k)' = {} /\ Distinct(con'[k].chans) /\ heap' = heap \ Own(k)
        BY <1>3, <2>2, NoBlocks DEF Frees, Own
      <3>2. NoDangling'  BY <1>2, <1>4, <1>12, <3>1, Exchanged
      <3>3. heap = Owned => heap' = Owned'
        BY <1>2, <1>4, <1>12, <3>1, Exchanged
      <3> QED  BY <3>2, <3>3
    <2>3. CASE Begins(k, c)
      <3>1. Own(k)' = {} /\ Distinct(con'[k].chans) /\ heap' = heap
        BY <1>3, <2>3, NoBlocks DEF Begins, Own
      <3>2. NoDangling'  BY <1>2, <1>4, <1>12, <3>1, Exchanged
      <3>3. ASSUME Clean'
            PROVE  Own(k) = {}
        <4>1. ~Carries(con[k])  BY <2>3, <3>3 DEF Begins
        <4>2. con[k].chans = NoChannels  BY <1>6, <1>7, <3>3, <4>1 DEF Settled
        <4> QED  BY <4>2, NoBlocks DEF Own
      <3>4. Clean' /\ heap = Owned => heap' = Owned'
        BY <1>2, <1>4, <1>12, <3>1, <3>3, Exchanged
      <3> QED  BY <3>2, <3>4
    <2> QED  BY <1>1, <2>1, <2>2, <2>3
  <1>14. NothingLost'
    <2>1. Clean' => heap' = Owned'  BY <1>2, <1>6, <1>13 DEF NothingLost, Clean
    <2>2. "fcntl" \notin lapses' => sockets' = {ctx'.sock} \ {NULL}
      BY <1>2, <1>4 DEF NothingLost
    <2> QED  BY <2>1, <2>2 DEF NothingLost, Clean
  <1> QED  BY <1>8, <1>11, <1>13, <1>14 DEF MInv

-----------------------------------------------------------------------------
(***************************************************************************)
(* glbctx_createconchannels.                                               *)
(***************************************************************************)
LEMMA MakingFacts ==
  ASSUME MInv, pc \in Busy
  PROVE  /\ TypeOK /\ Phases /\ Shape /\ NoDangling /\ NothingLost
         /\ job.slot \in Slot /\ job.chan \in Chan /\ job.st \in States
         /\ con[job.slot] \in ConRec /\ con[job.slot].chans \in Channels
         /\ \A j \in Slot : j # job.slot => Settled(j)
  <1>1. TypeOK /\ Phases /\ Shape /\ NoDangling /\ NothingLost  BY DEF MInv
  <1>2. /\ job.slot \in Slot /\ job.chan \in Chan /\ job.st \in States
        /\ con[job.slot] \in ConRec
    BY <1>1, JobFacts
  <1>3. con[job.slot].chans \in Channels  BY <1>2 DEF ConRec
  <1>4. \A j \in Slot : j # job.slot => Settled(j)  BY <1>1 DEF Shape, Making
  <1> QED  BY <1>1, <1>2, <1>3, <1>4

\* What the three steps have in common: only the connection the channels are
\* made for changes, and with it the heap.
LEMMA MakingMInv ==
  ASSUME MInv, pc \in Busy, pc' \in Busy \cup {"idle", "crashed"},
         NEW c \in ConRec, con' = [con EXCEPT ![job.slot] = c],
         NEW X, NEW Y, X \subseteq Block, X \cap heap = {}, Y \subseteq Own(job.slot),
         heap' = (heap \ Y) \cup X,
         BlocksOf(c.chans) = (Own(job.slot) \ Y) \cup X, Distinct(c.chans),
         UNCHANGED resources, lapses' = lapses, job' \in JobRec,
         pc' \in Busy => job'.st = job.st,
         Shape'
  PROVE  MInv'
  <1>1. /\ TypeOK /\ Phases /\ NoDangling /\ NothingLost
        /\ job.slot \in Slot
    BY MakingFacts
  <1>2. PICK k \in Slot : k = job.slot  BY <1>1
  <1>3. /\ con' \in [Slot -> ConRec] /\ con'[k] = c
        /\ \A j \in Slot : j # k => con'[j] = con[j]
    BY <1>1, <1>2, Updated
  <1>4. /\ sockets' = sockets /\ ctx' = ctx /\ nextId' = nextId /\ creates' = creates
        /\ clash' = clash
    BY DEF resources
  <1>5. TypeOK'
    <2>1. heap' \subseteq Block  BY <1>1 DEF TypeOK
    <2>2. pc' \in {"none", "socket", "nonblock", "bind", "queue", "idle", "array",
                   "queues", "cleanup", "crashed"}
      BY DEF Busy
    <2> QED  BY <1>1, <1>3, <1>4, <2>1, <2>2 DEF TypeOK
  <1>6. Phases'
    <2>1. pc' \notin Creating /\ pc' # "none" /\ pc' # "socket"  BY DEF Busy, Creating
    <2>2. pc \notin Creating /\ pc # "none" /\ pc # "socket"  BY DEF Busy, Creating
    <2>3. pc' \in Busy /\ Clean' => job'.st = "ESTABLISHED"
      BY <1>1 DEF Phases, Clean
    <2> QED  BY <1>1, <1>4, <2>1, <2>2, <2>3 DEF Phases
  <1>7. \A j \in Slot : j # k => con'[j].chans = con[j].chans  BY <1>3
  <1>8. Own(k)' = (Own(k) \ Y) \cup X /\ Distinct(con'[k].chans) /\ Y \subseteq Own(k)
    <2>1. Own(k)' = BlocksOf(c.chans)  BY <1>3 DEF Own
    <2> QED  BY <1>2, <1>3, <2>1
  <1>9. NoDangling'  BY <1>1, <1>4, <1>7, <1>8, Exchanged
  <1>10. heap = Owned => heap' = Owned'  BY <1>1, <1>4, <1>7, <1>8, Exchanged
  <1>11. NothingLost'  BY <1>1, <1>4, <1>10 DEF NothingLost
  <1> QED  BY <1>5, <1>6, <1>9, <1>11 DEF MInv

LEMMA AllocArrayMInv ==
  ASSUME MInv, AllocArray
  PROVE  MInv'
  <1>1. pc = "array" /\ pc \in Busy  BY DEF AllocArray, Busy
  <1>2. /\ TypeOK /\ Shape
        /\ job.slot \in Slot /\ job.chan \in Chan /\ job.st \in States
        /\ con[job.slot] \in ConRec /\ con[job.slot].chans \in Channels
        /\ \A j \in Slot : j # job.slot => Settled(j)
    BY <1>1, MakingFacts
  <1>3. PICK k \in Slot : k = job.slot  BY <1>2
  <1>4. con[k].chans = NoChannels  BY <1>1, <1>2, <1>3 DEF Shape, Progress
  <1>5. UNCHANGED resources /\ lapses' = lapses /\ job' = job /\ job' \in JobRec
    BY <1>2 DEF AllocArray, TypeOK
  <1>6. CASE pc' = "crashed"
    <2>1. con' = con /\ heap' = heap  BY <1>6 DEF AllocArray
    <2>2. con' = [con EXCEPT ![job.slot] = con[k]]  BY <1>2, <1>3, <2>1 DEF TypeOK
    <2>3. Shape'
      <3>1. \A j \in Slot : j # job.slot => Settled(j)'
        BY <1>2, <1>5, <2>1 DEF Settled, Clean
      <3>2. \A j \in Slot : ~Making(j)' => j # job.slot  BY <1>5, <1>6 DEF Making
      <3> QED  BY <1>3, <1>4, <1>5, <1>6, <2>1, <3>1, <3>2 DEF Shape, Progress
    <2>4. BlocksOf(con[k].chans) = (Own(job.slot) \ {}) \cup {} /\ Distinct(con[k].chans)
      BY <1>3, <1>4, NoBlocks DEF Own
    <2>5. /\ heap' = (heap \ {}) \cup {} /\ {} \subseteq Own(job.slot) /\ {} \subseteq Block
          /\ {} \cap heap = {}
      BY <2>1
    <2>6. pc' \in Busy \cup {"idle", "crashed"} /\ con[k] \in ConRec
      BY <1>2, <1>3, <1>6
    <2> QED  BY <1>1, <1>5, <2>2, <2>3, <2>4, <2>5, <2>6, MakingMInv
  <1>7. CASE pc' # "crashed"
    <2>1. PICK b \in Malloc :
            /\ heap' = heap \cup {b} /\ con' = [con EXCEPT ![job.slot].chans.arr = b]
            /\ pc' = "queues"
      BY <1>7 DEF AllocArray
    <2>2. b \in Block /\ b \notin heap /\ b # NULL  BY <2>1, MallocFacts
    <2>3. PICK c : c = WithArray(con[k], b)  OBVIOUS
    <2>4. /\ c \in ConRec /\ c.chans = [arr |-> b, q |-> NoChannels.q]
          /\ con' = [con EXCEPT ![job.slot] = c]
      <3>1. /\ c \in ConRec /\ c.chans = [arr |-> b, q |-> con[k].chans.q]
        BY <1>2, <1>3, <2>2, <2>3, WithTypes
      <3> QED  BY <1>3, <1>4, <2>1, <2>3, <3>1 DEF WithArray
    <2>5. /\ con'[k] = c
          /\ \A j \in Slot : j # k => con'[j] = con[j]
      BY <1>2, <1>3, <2>4, Updated
    <2>6. Shape'
      <3>1. \A j \in Slot : j # job.slot => Settled(j)'
        BY <1>2, <1>3, <1>5, <2>5 DEF Settled, Clean
      <3>2. \A j \in Slot : ~Making(j)' => j # job.slot  BY <1>5, <2>1 DEF Making
      <3>3. c.chans.arr = b /\ \A i \in Chan : c.chans.q[i] = NoQueues
        BY <2>4, NoQueuesHere
      <3>4. job.chan = 1  BY <1>1, <1>2 DEF Shape, Progress
      <3>5. Whole(c.chans, job.chan) /\ Bare(c.chans, job.chan)
        BY <3>3, <3>4 DEF Whole, Bare, Chan
      <3>6. /\ con'[job.slot] = c /\ job' = job /\ pc' = "queues" /\ b # NULL
            /\ c.chans.q[job.chan] = NoQueues
        BY <1>2, <1>3, <1>5, <2>1, <2>2, <2>5, <3>3
      <3>7. Progress'  BY <3>3, <3>5, <3>6 DEF Progress
      <3> QED  BY <1>3, <3>1, <3>2, <3>7 DEF Shape
    <2>7. Own(job.slot) = {}  BY <1>3, <1>4, NoBlocks DEF Own
    <2>8. BlocksOf(c.chans) = (Own(job.slot) \ {}) \cup {b} /\ Distinct(c.chans)
      <3>1. c.chans.arr = b /\ c.chans.q = NoChannels.q  BY <2>4
      <3> QED  BY <2>2, <2>7, <3>1, ArrayBlocks
    <2>9. /\ heap' = (heap \ {}) \cup {b} /\ {} \subseteq Own(job.slot) /\ {b} \subseteq Block
          /\ {b} \cap heap = {}
      BY <2>1, <2>2
    <2>10. pc' \in Busy \cup {"idle", "crashed"}  BY <2>1 DEF Busy
    <2> QED  BY <1>1, <1>5, <2>4, <2>6, <2>8, <2>9, <2>10, MakingMInv
  <1> QED  BY <1>6, <1>7

LEMMA AllocQueuesMInv ==
  ASSUME MInv, AllocQueues
  PROVE  MInv'
  <1>1. pc = "queues" /\ pc \in Busy  BY DEF AllocQueues, Busy
  <1>2. /\ TypeOK /\ Phases /\ Shape /\ NoDangling
        /\ job.slot \in Slot /\ job.chan \in Chan /\ job.st \in States
        /\ con[job.slot] \in ConRec /\ con[job.slot].chans \in Channels
        /\ \A j \in Slot : j # job.slot => Settled(j)
    BY <1>1, MakingFacts
  <1>3. PICK k \in Slot : k = job.slot  BY <1>2
  <1>4. PICK o \in ConRec : o = con[k]  BY <1>2, <1>3
  <1>5. /\ o.chans.arr # NULL /\ Whole(o.chans, job.chan) /\ Bare(o.chans, job.chan)
        /\ o.chans.q[job.chan] = NoQueues
    BY <1>1, <1>2, <1>3, <1>4 DEF Shape, Progress
  <1>6. UNCHANGED resources /\ lapses' = lapses  BY DEF AllocQueues
  <1> DEFINE Step(s, r) ==
          LET here == [con EXCEPT ![job.slot].chans.q[job.chan] = [s |-> s, r |-> r]]
          IN  /\ heap' = heap \cup ({s, r} \ {NULL})
              /\ \/ /\ NULL \in {s, r}
                    /\ pc' = "cleanup" /\ con' = here /\ UNCHANGED job
                 \/ /\ NULL \notin {s, r} /\ job.chan < NChan
                    /\ job' = [job EXCEPT !.chan = @ + 1]
                    /\ con' = here /\ UNCHANGED pc
                 \/ /\ NULL \notin {s, r} /\ job.chan = NChan
                    /\ con' = [here EXCEPT ![job.slot].st = job.st]
                    /\ pc' = "idle" /\ job' = NoJob
  <1>7. PICK s \in Malloc \cup {NULL} :
          \E r \in First(Block \ (heap \cup {s})) \cup {NULL} : Step(s, r)
    BY DEF AllocQueues
  <1>8. PICK r \in First(Block \ (heap \cup {s})) \cup {NULL} : Step(s, r)
    BY <1>7
  <1>9. /\ s \in Ptr(Block) /\ r \in Ptr(Block)
        /\ s \notin heap \/ s = NULL
        /\ r \notin heap \/ r = NULL
        /\ s # r \/ s = NULL
    BY <1>8, MallocFacts DEF Ptr
  <1>10. PICK d : d = WithQueues(o, job.chan, s, r)  OBVIOUS
  <1>11. /\ d \in ConRec
         /\ d.chans = [arr |-> o.chans.arr,
                       q |-> [o.chans.q EXCEPT ![job.chan] = [s |-> s, r |-> r]]]
    BY <1>2, <1>9, <1>10, WithTypes
  <1>12. PICK here : here = [con EXCEPT ![k] = d]  OBVIOUS
  <1>13. here = [con EXCEPT ![job.slot].chans.q[job.chan] = [s |-> s, r |-> r]]
    BY <1>3, <1>4, <1>10, <1>12 DEF WithQueues
  <1>14. /\ d.chans.arr = o.chans.arr /\ d.chans.q[job.chan] = [s |-> s, r |-> r]
         /\ \A i \in Chan : i # job.chan => d.chans.q[i] = o.chans.q[i]
    BY <1>2, <1>3, <1>4, <1>11 DEF Channels
  <1>15. d.chans.arr # NULL /\ Whole(d.chans, job.chan) /\ Bare(d.chans, job.chan)
    BY <1>2, <1>5, <1>14 DEF Whole, Bare, Chan
  <1>16. PICK X : X = {s, r} \ {NULL}  OBVIOUS
  <1>17. BlocksOf(d.chans) = (Own(job.slot) \ {}) \cup X /\ Distinct(d.chans)
    <2>1. o.chans \in Channels /\ Own(job.slot) = BlocksOf(o.chans) /\ Distinct(o.chans)
          /\ BlocksOf(o.chans) \subseteq heap /\ NULL \notin BlocksOf(o.chans)
      BY <1>2, <1>3, <1>4, QueueMembers DEF Own, NoDangling
    <2>2. s \notin BlocksOf(o.chans) /\ r \notin BlocksOf(o.chans)  BY <1>9, <2>1
    <2>3. s # r \/ s = NULL  BY <1>9
    <2>4. /\ BlocksOf(d.chans) = BlocksOf(o.chans) \cup ({s, r} \ {NULL})
          /\ Distinct(d.chans)
      BY <1>2, <1>5, <1>11, <2>1, <2>2, <2>3, MoreBlocks
    <2> QED  BY <1>16, <2>1, <2>4
  <1>18. /\ heap' = (heap \ {}) \cup X /\ {} \subseteq Own(job.slot)
         /\ X \subseteq Block /\ X \cap heap = {}
    BY <1>8, <1>9, <1>16 DEF Ptr
  <1>19. ASSUME NEW c \in ConRec, con' = [con EXCEPT ![k] = c]
         PROVE  /\ con'[k] = c
                /\ \A j \in Slot : j # k => Settled(j)'
    <2>1. con'[k] = c /\ \A j \in Slot : j # k => con'[j] = con[j]
      BY <1>2, <1>19, Updated
    <2> QED  BY <1>2, <1>3, <1>6, <2>1 DEF Settled, Clean
  <1>20. CASE pc' = "cleanup"
    <2>1. con' = [con EXCEPT ![k] = d] /\ job' = job
      BY <1>1, <1>8, <1>12, <1>13, <1>20
    <2>2. con'[k] = d /\ \A j \in Slot : j # k => Settled(j)'  BY <1>11, <1>19, <2>1
    <2>3. \A j \in Slot : ~Making(j)' => j # k  BY <1>3, <1>20, <2>1 DEF Making
    <2>4. Progress'  BY <1>3, <1>15, <1>20, <2>1, <2>2 DEF Progress
    <2>5. Shape'  BY <2>2, <2>3, <2>4 DEF Shape
    <2>6. job' \in JobRec /\ pc' \in Busy /\ con' = [con EXCEPT ![job.slot] = d]
      BY <1>2, <1>3, <1>20, <2>1 DEF TypeOK, Busy
    <2> QED  BY <1>1, <1>6, <1>11, <1>17, <1>18, <2>1, <2>5, <2>6, MakingMInv
  <1>21. CASE pc' = "queues"
    <2>1. /\ con' = [con EXCEPT ![k] = d] /\ job' = [job EXCEPT !.chan = @ + 1]
          /\ s # NULL /\ r # NULL /\ job.chan < NChan
      BY <1>1, <1>8, <1>12, <1>13, <1>21
    <2>2. /\ job' \in JobRec /\ job'.slot = k /\ job'.st = job.st
          /\ job'.chan = job.chan + 1
      BY <1>2, <1>3, <2>1, JobFacts
    <2>3. con'[k] = d /\ \A j \in Slot : j # k => Settled(j)'  BY <1>11, <1>19, <2>1
    <2>4. \A j \in Slot : ~Making(j)' => j # k  BY <1>21, <2>2 DEF Making
    <2>5. Whole(d.chans, job.chan + 1)
      BY <1>2, <1>14, <1>15, <2>1 DEF Whole, Chan
    <2>6. Bare(d.chans, job.chan + 1) /\ d.chans.q[job.chan + 1] = NoQueues
      BY <1>2, <1>15, <2>1, Constants DEF Bare, Chan
    <2>7. Progress'  BY <1>15, <1>21, <2>2, <2>3, <2>5, <2>6 DEF Progress
    <2>8. Shape'  BY <2>3, <2>4, <2>7 DEF Shape
    <2>9. pc' \in Busy /\ con' = [con EXCEPT ![job.slot] = d]
      BY <1>3, <1>21, <2>1 DEF Busy
    <2> QED  BY <1>1, <1>6, <1>11, <1>17, <1>18, <2>2, <2>8, <2>9, MakingMInv
  <1>22. CASE pc' = "idle"
    <2>1. /\ con' = [here EXCEPT ![job.slot].st = job.st] /\ job' = NoJob
          /\ s # NULL /\ r # NULL /\ job.chan = NChan
      BY <1>1, <1>8, <1>13, <1>22
    <2>2. PICK c : c = InState(d, job.st)  OBVIOUS
    <2>3. c \in ConRec /\ c.chans = d.chans /\ c.st = job.st  BY <1>2, <1>11, <2>2, ConTypes
    <2>4. con' = [con EXCEPT ![k] = c]
      <3>1. here \in [Slot -> ConRec] /\ here[k] = d
            /\ \A j \in Slot : j # k => here[j] = con[j]
        BY <1>2, <1>11, <1>12 DEF TypeOK
      <3>2. con' = [here EXCEPT ![k] = c]  BY <1>3, <2>1, <2>2, <3>1 DEF InState
      <3> QED  BY <1>12, <3>2
    <2>5. con'[k] = c /\ \A j \in Slot : j # k => Settled(j)'  BY <1>19, <2>3, <2>4
    <2>6. Settled(k)'
      <3>1. Whole(d.chans, NChan + 1)
        BY <1>2, <1>14, <1>15, <2>1, Constants DEF Whole, Chan
      <3>2. Clean' => Carries(c)
        BY <1>1, <1>2, <1>6, <2>3 DEF Phases, Clean, Carries
      <3> QED  BY <1>15, <2>3, <2>5, <3>1, <3>2 DEF Settled
    <2>7. Progress'  BY <1>22 DEF Progress
    <2>8. Shape'  BY <2>5, <2>6, <2>7 DEF Shape
    <2>9. job' \in JobRec /\ pc' \in Busy \cup {"idle"} /\ pc' \notin Busy
          /\ con' = [con EXCEPT ![job.slot] = c]
      BY <1>3, <1>22, <2>1, <2>4, EmptyTypes DEF Busy
    <2>10. BlocksOf(c.chans) = (Own(job.slot) \ {}) \cup X /\ Distinct(c.chans)
      BY <1>17, <2>3
    <2> QED  BY <1>1, <1>6, <1>18, <2>3, <2>8, <2>9, <2>10, MakingMInv
  <1> QED  BY <1>1, <1>8, <1>20, <1>21, <1>22

LEMMA CleanUpMInv ==
  ASSUME MInv, CleanUp
  PROVE  MInv'
  <1>1. pc = "cleanup" /\ pc \in Busy  BY DEF CleanUp, Busy
  <1>2. /\ TypeOK /\ Shape /\ job.slot \in Slot /\ job.chan \in Chan
        /\ con[job.slot] \in ConRec
        /\ \A j \in Slot : j # job.slot => Settled(j)
    BY <1>1, MakingFacts
  <1>3. PICK k \in Slot : k = job.slot  BY <1>2
  <1>4. PICK c : c = con[k].chans  OBVIOUS
  <1>5. /\ heap' = heap \ ({c.arr} \cup QueueBlocks(c, Made(c, job.chan)))
        /\ con' = [con EXCEPT ![k] = Emptied(con[k])]
        /\ pc' = "crashed" /\ UNCHANGED resources /\ job' = job /\ lapses' = lapses
    BY <1>3, <1>4 DEF CleanUp, Emptied
  <1>6. c.arr # NULL /\ Bare(c, job.chan)
    BY <1>1, <1>2, <1>3, <1>4 DEF Shape, Progress
  \* What is freed is all there is: the channels not tried yet have nothing.
  <1>7. {c.arr} \cup QueueBlocks(c, Made(c, job.chan)) = Own(k)
    <2>1. ASSUME NEW b
          PROVE  b \in {c.arr} \cup QueueBlocks(c, Made(c, job.chan)) <=> b \in Own(k)
      <3>1. PICK U : U = UNION {{c.q[i].s, c.q[i].r} : i \in Made(c, job.chan)}  OBVIOUS
      <3>2. b \in U <=> \E i \in Made(c, job.chan) : b \in {c.q[i].s, c.q[i].r}
        BY <3>1
      <3>3. QueueBlocks(c, Made(c, job.chan)) = U \ {NULL}  BY <3>1 DEF QueueBlocks
      <3>4. b \in Own(k) <=>
              b # NULL /\ (b = c.arr \/ \E i \in Chan : b \in {c.q[i].s, c.q[i].r})
        BY <1>4, QueueMembers DEF Own
      <3>5. Made(c, job.chan) \subseteq Chan  BY <1>2, Constants DEF Made, Chan
      <3>6. ASSUME b # NULL, NEW i \in Chan, b \in {c.q[i].s, c.q[i].r}
            PROVE  i \in Made(c, job.chan)
        <4>1. c.q[i] # NoQueues  BY <3>6 DEF NoQueues
        <4>2. ~(i > job.chan)  BY <1>6, <4>1 DEF Bare
        <4> QED  BY <1>2, <4>2, Constants DEF Made, Chan
      <3> QED  BY <1>6, <3>2, <3>3, <3>4, <3>5, <3>6
    <2> QED  BY <2>1
  <1>8. PICK d : d = Emptied(con[k])  OBVIOUS
  <1>9. d \in ConRec /\ d.chans = NoChannels  BY <1>2, <1>3, <1>8, ConTypes
  <1>10. con'[k] = d /\ \A j \in Slot : j # k => con'[j] = con[j]
    BY <1>2, <1>5, <1>8, <1>9, Updated
  <1>11. Shape'
    <2>1. \A j \in Slot : j # k => Settled(j)'
      BY <1>2, <1>3, <1>5, <1>10 DEF Settled, Clean
    <2>2. \A j \in Slot : ~Making(j)' => j # k  BY <1>3, <1>5 DEF Making
    <2>3. Progress'  BY <1>3, <1>5, <1>9, <1>10 DEF Progress
    <2> QED  BY <2>1, <2>2, <2>3 DEF Shape
  <1>12. BlocksOf(d.chans) = (Own(job.slot) \ Own(job.slot)) \cup {} /\ Distinct(d.chans)
    BY <1>9, NoBlocks
  <1>13. /\ heap' = (heap \ Own(job.slot)) \cup {} /\ {} \subseteq Block
         /\ {} \cap heap = {} /\ Own(job.slot) \subseteq Own(job.slot)
    BY <1>3, <1>5, <1>7
  <1>14. /\ con' = [con EXCEPT ![job.slot] = d] /\ job' \in JobRec
         /\ pc' \in Busy \cup {"idle", "crashed"} /\ pc' \notin Busy
    BY <1>2, <1>3, <1>5, <1>8 DEF Busy, TypeOK
  <1> QED  BY <1>1, <1>5, <1>9, <1>11, <1>12, <1>13, <1>14, MakingMInv

-----------------------------------------------------------------------------
(***************************************************************************)
(* glbctx_create and glbctx_destroy: there are no connections.             *)
(***************************************************************************)
LEMMA CreateMInv ==
  ASSUME TypeOK', Phases', con' = [k \in Slot |-> Unused],
         pc' \in Creating \cup {"idle"},
         {ctx'.mem, ctx'.evq} \ {NULL} \subseteq heap',
         ctx'.mem # NULL => ctx'.mem # ctx'.evq,
         Clean' => heap' = {ctx'.mem, ctx'.evq} \ {NULL},
         "fcntl" \notin lapses' => sockets' = {ctx'.sock} \ {NULL}
  PROVE  MInv'
  <1>1. \A k \in Slot : /\ con'[k] = Unused /\ con'[k].st = "CLOSED"
                        /\ con'[k].chans = NoChannels
    BY EmptyTypes
  <1>2. NoChannels.arr = NULL  BY DEF NoChannels
  <1>3. pc' \notin {"array", "queues", "cleanup", "crashed"}  BY DEF Creating
  <1>4. Shape'  BY <1>1, <1>2, <1>3 DEF Shape, Settled, Progress, Carries
  <1>5. \A k \in Slot : Own(k)' = {} /\ Distinct(con'[k].chans)
    BY <1>1, NoBlocks DEF Own
  <1>6. NoDangling'  BY <1>5 DEF NoDangling
  <1>7. Owned' = {ctx'.mem, ctx'.evq} \ {NULL}
    <2>1. \A k \in Slot : BlocksOf(con'[k].chans) = {}  BY <1>5 DEF Own
    <2> QED  BY <2>1 DEF Owned
  <1>8. NothingLost'  BY <1>7 DEF NothingLost, Clean
  <1> QED  BY <1>4, <1>6, <1>8 DEF MInv

LEMMA CreatingFacts ==
  ASSUME MInv, pc \in Creating
  PROVE  /\ TypeOK /\ ctx \in CtxRec /\ con = [k \in Slot |-> Unused]
         /\ nextId = 1 /\ clash = FALSE
         /\ ctx.mem = NULL <=> pc = "none"
         /\ ctx.sock = NULL <=> pc \in {"none", "socket"}
         /\ ctx.evq = NULL
         /\ {ctx.mem} \ {NULL} \subseteq heap
         /\ Clean => heap = {ctx.mem} \ {NULL}
         /\ "fcntl" \notin lapses => sockets = {ctx.sock} \ {NULL}
  <1>1. TypeOK /\ Phases /\ NoDangling /\ NothingLost  BY DEF MInv
  <1>2. /\ con = [k \in Slot |-> Unused] /\ nextId = 1 /\ clash = FALSE
        /\ ctx.mem = NULL <=> pc = "none"
        /\ ctx.sock = NULL <=> pc \in {"none", "socket"}
        /\ ctx.evq = NULL
    BY <1>1 DEF Phases
  <1>3. Owned = {ctx.mem, ctx.evq} \ {NULL}
    <2>1. \A k \in Slot : con[k].chans = NoChannels  BY <1>2, EmptyTypes
    <2>2. \A k \in Slot : BlocksOf(con[k].chans) = {}  BY <2>1, NoBlocks
    <2> QED  BY <2>2 DEF Owned
  <1>4. /\ {ctx.mem} \ {NULL} \subseteq heap
        /\ Clean => heap = {ctx.mem} \ {NULL}
        /\ "fcntl" \notin lapses => sockets = {ctx.sock} \ {NULL}
    BY <1>1, <1>2, <1>3 DEF NoDangling, NothingLost, Clean
  <1>5. ctx \in CtxRec  BY <1>1 DEF TypeOK
  <1> QED  BY <1>1, <1>2, <1>4, <1>5

\* A glbctx_create that fails.  All it may leave open is the socket of fcntl.
LEMMA FailMInv ==
  ASSUME MInv, pc \in Creating, NEW open, open \subseteq sockets, Fail(open),
         UNCHANGED <<table, creates>>,
         lapses' \subseteq Lapses, lapses \subseteq lapses',
         "fcntl" \notin lapses' => open = {}
  PROVE  MInv'
  <1>1. /\ TypeOK /\ con = [k \in Slot |-> Unused] /\ nextId = 1 /\ clash = FALSE
        /\ {ctx.mem} \ {NULL} \subseteq heap
        /\ Clean => heap = {ctx.mem} \ {NULL}
    BY CreatingFacts
  <1>2. /\ heap' = heap \ {ctx.mem} /\ sockets' = open /\ ctx' = NoCtx /\ pc' = "none"
        /\ con' = con /\ nextId' = nextId /\ job' = job /\ clash' = clash
        /\ creates' = creates
    BY DEF Fail, table
  <1>3. ctx'.mem = NULL /\ ctx'.evq = NULL /\ ctx'.sock = NULL  BY <1>2 DEF NoCtx
  <1>4. TypeOK'  BY <1>1, <1>2, EmptyTypes DEF TypeOK
  <1>5. Phases'  BY <1>1, <1>2, <1>3 DEF Phases, Creating, Busy
  <1>6. Clean' => heap' = {}  BY <1>1, <1>2 DEF Clean
  <1>7. pc' \in Creating \cup {"idle"}  BY <1>2 DEF Creating
  <1>8. "fcntl" \notin lapses' => sockets' = {ctx'.sock} \ {NULL}  BY <1>2, <1>3
  <1> QED  BY <1>1, <1>2, <1>3, <1>4, <1>5, <1>6, <1>7, <1>8, CreateMInv

LEMMA AllocContextMInv ==
  ASSUME MInv, NEW v \in BOOLEAN, AllocContext(v)
  PROVE  MInv'
  <1>1. pc = "none" /\ pc \in Creating  BY DEF AllocContext, Creating
  <1>2. /\ TypeOK /\ ctx \in CtxRec /\ con = [k \in Slot |-> Unused]
        /\ nextId = 1 /\ clash = FALSE
        /\ ctx.mem = NULL /\ ctx.sock = NULL /\ ctx.evq = NULL
        /\ Clean => heap = {}
        /\ "fcntl" \notin lapses => sockets = {}
    BY <1>1, CreatingFacts
  <1>3. /\ sockets' = sockets /\ con' = con /\ nextId' = nextId /\ job' = job
        /\ clash' = clash /\ lapses' = lapses
        /\ creates' = creates + 1 /\ creates < MaxCreate
    BY DEF AllocContext, table
  <1>4. creates' \in 0 .. MaxCreate  BY <1>2, <1>3, Constants DEF TypeOK
  <1>5. CASE heap' = heap /\ ctx' = ctx /\ pc' = pc
    <2>1. TypeOK'  BY <1>2, <1>3, <1>4, <1>5 DEF TypeOK
    <2>2. Phases'
      <3>1. Phases  BY DEF MInv
      <3> QED  BY <1>1, <1>3, <1>5, <3>1 DEF Phases, Busy
    <2> QED  BY <1>1, <1>2, <1>3, <1>5, <2>1, <2>2, CreateMInv DEF Clean
  <1>6. CASE ~(heap' = heap /\ ctx' = ctx /\ pc' = pc)
    <2>1. PICK b \in Malloc :
            /\ heap' = heap \cup {b} /\ pc' = "socket"
            /\ ctx' = [NoCtx EXCEPT !.mem = b, !.server = v]
      BY <1>6 DEF AllocContext
    <2>2. b \in Block /\ b # NULL  BY <2>1, MallocFacts
    <2>3. ctx' \in CtxRec /\ ctx'.mem = b /\ ctx'.evq = NULL /\ ctx'.sock = NULL
      BY <1>2, <2>1, <2>2, CtxTypes
    <2>4. TypeOK'  BY <1>2, <1>3, <1>4, <2>1, <2>2, <2>3 DEF TypeOK
    <2>5. Phases'  BY <1>2, <1>3, <2>1, <2>2, <2>3 DEF Phases, Creating, Busy
    <2>6. pc' \in Creating \cup {"idle"}  BY <2>1 DEF Creating
    <2>7. Clean' => heap' = {ctx'.mem, ctx'.evq} \ {NULL}
      BY <1>2, <1>3, <2>1, <2>2, <2>3 DEF Clean
    <2> QED  BY <1>2, <1>3, <2>1, <2>2, <2>3, <2>4, <2>5, <2>6, <2>7, CreateMInv
  <1> QED  BY <1>5, <1>6

LEMMA OpenSocketMInv ==
  ASSUME MInv, OpenSocket
  PROVE  MInv'
  <1>1. pc = "socket" /\ pc \in Creating  BY DEF OpenSocket, Creating
  <1>2. /\ TypeOK /\ ctx \in CtxRec /\ con = [k \in Slot |-> Unused]
        /\ nextId = 1 /\ clash = FALSE
        /\ ctx.mem # NULL /\ ctx.sock = NULL /\ ctx.evq = NULL
        /\ {ctx.mem} \subseteq heap /\ (Clean => heap = {ctx.mem})
        /\ "fcntl" \notin lapses => sockets = {}
    BY <1>1, CreatingFacts
  <1>3. /\ con' = con /\ nextId' = nextId /\ job' = job /\ clash' = clash
        /\ lapses' = lapses /\ creates' = creates /\ lapses \subseteq Lapses
    BY <1>2 DEF OpenSocket, table, TypeOK
  <1>4. CASE Fail(sockets)
    BY <1>1, <1>2, <1>3, <1>4, FailMInv DEF table
  <1>5. CASE ~Fail(sockets)
    <2>1. PICK s \in First(Socket \ sockets) :
            /\ sockets' = sockets \cup {s} /\ ctx' = [ctx EXCEPT !.sock = s]
            /\ pc' = "nonblock" /\ heap' = heap
      BY <1>5 DEF OpenSocket
    <2>2. s \in Socket /\ s # NULL  BY <2>1, SmallestMembers DEF First
    <2>3. ctx' \in CtxRec /\ ctx'.mem = ctx.mem /\ ctx'.evq = NULL /\ ctx'.sock = s
      BY <1>2, <2>1, <2>2, CtxTypes
    <2>4. TypeOK'  BY <1>2, <1>3, <2>1, <2>2, <2>3 DEF TypeOK
    <2>5. Phases'  BY <1>2, <1>3, <2>1, <2>2, <2>3 DEF Phases, Creating, Busy
    <2>6. pc' \in Creating \cup {"idle"}  BY <2>1 DEF Creating
    <2>7. Clean' => heap' = {ctx'.mem, ctx'.evq} \ {NULL}
      BY <1>2, <1>3, <2>1, <2>3 DEF Clean
    <2> QED  BY <1>2, <1>3, <2>1, <2>2, <2>3, <2>4, <2>5, <2>6, <2>7, CreateMInv
  <1> QED  BY <1>4, <1>5

\* The calls that succeed without allocating anything.
LEMMA AdvanceMInv ==
  ASSUME MInv, pc \in {"nonblock", "bind"}, pc' \in {"bind", "queue"},
         UNCHANGED <<heap, sockets, ctx, lapses, table, creates>>
  PROVE  MInv'
  <1>1. /\ pc \in Creating /\ pc # "none" /\ pc # "socket"
        /\ pc' \in Creating /\ pc' # "none" /\ pc' # "socket"
    BY DEF Creating
  <1>2. /\ TypeOK /\ ctx \in CtxRec /\ con = [k \in Slot |-> Unused]
        /\ nextId = 1 /\ clash = FALSE
        /\ ctx.mem # NULL /\ ctx.sock # NULL /\ ctx.evq = NULL
        /\ {ctx.mem} \subseteq heap /\ (Clean => heap = {ctx.mem})
        /\ "fcntl" \notin lapses => sockets = {ctx.sock} \ {NULL}
    BY <1>1, CreatingFacts
  <1>3. /\ con' = con /\ nextId' = nextId /\ job' = job /\ clash' = clash /\ ctx' = ctx
        /\ lapses' = lapses /\ creates' = creates /\ heap' = heap /\ sockets' = sockets
    BY DEF table
  <1>4. TypeOK'  BY <1>2, <1>3 DEF TypeOK
  <1>5. Phases'  BY <1>1, <1>2, <1>3 DEF Phases, Creating, Busy
  <1> QED  BY <1>1, <1>2, <1>3, <1>4, <1>5, CreateMInv DEF Clean

LEMMA SetNonBlockingMInv ==
  ASSUME MInv, SetNonBlocking
  PROVE  MInv'
  <1>1. pc = "nonblock" /\ pc \in Creating /\ UNCHANGED <<table, creates>>
    BY DEF SetNonBlocking, Creating
  <1>2. lapses \subseteq Lapses  BY DEF MInv, TypeOK
  <1>3. CASE Fail(sockets) /\ lapses' = lapses \cup {"fcntl"}
    BY <1>1, <1>2, <1>3, FailMInv DEF Lapses
  <1>4. CASE ~(Fail(sockets) /\ lapses' = lapses \cup {"fcntl"})
    <2>1. pc' \in {"bind", "queue"} /\ UNCHANGED <<heap, sockets, ctx, lapses>>
      BY <1>4 DEF SetNonBlocking
    <2> QED  BY <1>1, <2>1, AdvanceMInv
  <1> QED  BY <1>3, <1>4

\* From here on a failure closes the socket.
LEMMA FailClosesMInv ==
  ASSUME MInv, pc \in Creating, Fail(sockets \ {ctx.sock}),
         UNCHANGED <<table, creates, lapses>>
  PROVE  MInv'
  <1>1. TypeOK /\ ("fcntl" \notin lapses => sockets = {ctx.sock} \ {NULL})
    BY CreatingFacts
  <1>2. PICK open : open = sockets \ {ctx.sock}  OBVIOUS
  <1>3. open \subseteq sockets /\ ("fcntl" \notin lapses => open = {})  BY <1>1, <1>2
  <1>4. lapses' = lapses /\ lapses \subseteq Lapses /\ UNCHANGED <<table, creates>>
    BY <1>1 DEF TypeOK
  <1> QED  BY <1>2, <1>3, <1>4, FailMInv

LEMMA BindMInv ==
  ASSUME MInv, Bind
  PROVE  MInv'
  <1>1. pc = "bind" /\ pc \in Creating /\ UNCHANGED <<table, creates, lapses>>
    BY DEF Bind, Creating
  <1>2. CASE Fail(sockets \ {ctx.sock})  BY <1>1, <1>2, FailClosesMInv
  <1>3. CASE ~Fail(sockets \ {ctx.sock})
    <2>1. pc' = "queue" /\ UNCHANGED <<heap, sockets, ctx>>  BY <1>3 DEF Bind
    <2> QED  BY <1>1, <2>1, AdvanceMInv
  <1> QED  BY <1>2, <1>3

LEMMA AllocEventQueueMInv ==
  ASSUME MInv, AllocEventQueue
  PROVE  MInv'
  <1>1. pc = "queue" /\ pc \in Creating /\ UNCHANGED <<table, creates, lapses>>
    BY DEF AllocEventQueue, Creating
  <1>2. CASE Fail(sockets \ {ctx.sock})  BY <1>1, <1>2, FailClosesMInv
  <1>3. CASE ~Fail(sockets \ {ctx.sock})
    <2>1. PICK b \in Malloc :
            /\ heap' = heap \cup {b} /\ ctx' = [ctx EXCEPT !.evq = b]
            /\ pc' = "idle" /\ sockets' = sockets
      BY <1>3 DEF AllocEventQueue
    <2>2. /\ TypeOK /\ ctx \in CtxRec /\ con = [k \in Slot |-> Unused]
          /\ nextId = 1 /\ clash = FALSE
          /\ ctx.mem # NULL /\ ctx.sock # NULL
          /\ {ctx.mem} \subseteq heap /\ (Clean => heap = {ctx.mem})
          /\ "fcntl" \notin lapses => sockets = {ctx.sock} \ {NULL}
      BY <1>1, CreatingFacts
    <2>3. b \in Block /\ b # NULL /\ b # ctx.mem  BY <2>1, <2>2, MallocFacts
    <2>4. /\ con' = con /\ nextId' = nextId /\ job' = job /\ clash' = clash
          /\ lapses' = lapses /\ creates' = creates
      BY <1>1 DEF table
    <2>5. ctx' \in CtxRec /\ ctx'.mem = ctx.mem /\ ctx'.evq = b /\ ctx'.sock = ctx.sock
      BY <2>1, <2>2, <2>3, CtxTypes
    <2>6. TypeOK'  BY <2>1, <2>2, <2>3, <2>4, <2>5 DEF TypeOK
    <2>7. Phases'  BY <2>1, <2>2, <2>3, <2>4, <2>5 DEF Phases, Creating, Busy
    <2>8. Clean' => heap' = {ctx'.mem, ctx'.evq} \ {NULL}
      BY <2>1, <2>2, <2>3, <2>4, <2>5 DEF Clean
    <2>9. {ctx'.mem, ctx'.evq} \ {NULL} \subseteq heap'  BY <2>1, <2>2, <2>5
    <2>10. /\ ctx'.mem # ctx'.evq /\ con' = [k \in Slot |-> Unused]
           /\ pc' \in Creating \cup {"idle"}
           /\ "fcntl" \notin lapses' => sockets' = {ctx'.sock} \ {NULL}
      BY <2>1, <2>2, <2>3, <2>4, <2>5
    <2> QED  BY <2>6, <2>7, <2>8, <2>9, <2>10, CreateMInv
  <1> QED  BY <1>2, <1>3

\* glbctx_destroy frees all there is.
LEMMA DestroyMInv ==
  ASSUME MInv, Destroy
  PROVE  MInv'
  <1>1. /\ pc = "idle" /\ heap' = heap \ Owned /\ sockets' = sockets \ {ctx.sock}
        /\ ctx' = NoCtx /\ pc' = "none" /\ con' = [k \in Slot |-> Unused]
        /\ nextId' = 1 /\ clash' = FALSE
        /\ job' = job /\ creates' = creates /\ lapses' = lapses
    BY DEF Destroy
  <1>2. TypeOK /\ NothingLost  BY DEF MInv
  <1>3. ctx'.mem = NULL /\ ctx'.evq = NULL /\ ctx'.sock = NULL  BY <1>1 DEF NoCtx
  <1>4. TypeOK'
    <2>1. con' \in [Slot -> ConRec] /\ ctx' \in CtxRec  BY <1>1, EmptyTypes
    <2>2. nextId' \in 0 .. IdTop - 1  BY <1>1, Constants
    <2> QED  BY <1>1, <1>2, <2>1, <2>2 DEF TypeOK
  <1>5. Phases'  BY <1>1, <1>3 DEF Phases, Creating, Busy
  <1>6. Clean' => heap' = {}  BY <1>1, <1>2 DEF NothingLost, Clean
  <1>7. "fcntl" \notin lapses' => sockets' = {}  BY <1>1, <1>2 DEF NothingLost
  <1>8. pc' \in Creating \cup {"idle"}  BY <1>1 DEF Creating
  <1> QED  BY <1>1, <1>3, <1>4, <1>5, <1>6, <1>7, <1>8, CreateMInv

-----------------------------------------------------------------------------
LEMMA NextMInv ==
  ASSUME MInv, [Next]_vars
  PROVE  MInv'
  <1>1. TypeOK  BY DEF MInv
  <1>2. CASE \E v \in BOOLEAN : AllocContext(v)  BY <1>2, AllocContextMInv
  <1>3. CASE OpenSocket       BY <1>3, OpenSocketMInv
  <1>4. CASE SetNonBlocking   BY <1>4, SetNonBlockingMInv
  <1>5. CASE Bind             BY <1>5, BindMInv
  <1>6. CASE AllocEventQueue  BY <1>6, AllocEventQueueMInv
  <1>7. CASE Destroy          BY <1>7, DestroyMInv
  <1>8. CASE AllocArray       BY <1>8, AllocArrayMInv
  <1>9. CASE AllocQueues      BY <1>9, AllocQueuesMInv
  <1>10. CASE CleanUp         BY <1>10, CleanUpMInv
  <1>11. CASE Connect         BY <1>1, <1>11, ConnectTurn, TurnMInv
  <1>12. CASE \E a \in Peers : SynKnown(a)  BY <1>1, <1>12, SynKnownTurn, TurnMInv
  <1>13. CASE \E a \in Peers : SynNew(a)    BY <1>1, <1>13, SynNewTurn, TurnMInv
  <1>14. CASE \E i \in ConId : Ack(i)       BY <1>1, <1>14, AckTurn, TurnMInv
  <1>15. CASE \E i \in ConId : \E sent \in BOOLEAN : SynAck(i, sent)
    BY <1>1, <1>15, SynAckTurn, TurnMInv
  <1>16. CASE \E k \in Slot : Close(k)   BY <1>1, <1>16, CloseTurn, TurnMInv
  <1>17. CASE \E k \in Slot : End(k)     BY <1>1, <1>17, EndTurn, TurnMInv
  <1>18. CASE \E k \in Slot : Forget(k)  BY <1>1, <1>18, ForgetTurn, TurnMInv
  <1>19. CASE Rst                        BY <1>1, <1>19, RstTurn, TurnMInv
  <1>20. CASE UNCHANGED vars
    <2>1. /\ heap' = heap /\ sockets' = sockets /\ pc' = pc /\ ctx' = ctx /\ con' = con
          /\ nextId' = nextId /\ job' = job /\ creates' = creates /\ lapses' = lapses
          /\ clash' = clash
      BY <1>20 DEF vars
    <2>2. TypeOK' /\ Phases'  BY <2>1 DEF MInv, TypeOK, Phases, Clean
    <2>3. Shape'  BY <2>1 DEF MInv, Shape, Settled, Progress, Making, Clean
    <2>4. NoDangling' /\ NothingLost'
      BY <2>1 DEF MInv, NoDangling, NothingLost, Own, Owned
    <2> QED  BY <2>2, <2>3, <2>4 DEF MInv
  <1> QED  BY <1>2, <1>3, <1>4, <1>5, <1>6, <1>7, <1>8, <1>9, <1>10, <1>11, <1>12, <1>13,
              <1>14, <1>15, <1>16, <1>17, <1>18, <1>19, <1>20 DEF Next, Create

LEMMA AlwaysMInv == Spec => []MInv
  <1>1. Init => MInv  BY InitMInv
  <1>2. MInv /\ [Next]_vars => MInv'  BY NextMInv
  <1> QED  BY <1>1, <1>2, PTL DEF Spec

(***************************************************************************)
(* Whatever glbctx_create, glbctx_createconchannels and the handlers do,   *)
(* connections, ids and pointers keep their types, no more blocks are used *)
(* than there are, and no channel past the last one is made.               *)
(***************************************************************************)
THEOREM TypeCorrect == Spec => []TypeOK
  <1>1. MInv => TypeOK  BY DEF MInv
  <1> QED  BY <1>1, AlwaysMInv, PTL

(***************************************************************************)
(* Whatever malloc refuses, in glbctx_create, in glbctx_createconchannels  *)
(* and in its clean-up, no pointer is to a block that was freed, and no    *)
(* two are to the same.                                                    *)
(***************************************************************************)
THEOREM PointersSound == Spec => []NoDangling
  <1>1. MInv => NoDangling  BY DEF MInv
  <1> QED  BY <1>1, AlwaysMInv, PTL

(***************************************************************************)
(* But for the code's five lapses, everything allocated and every socket   *)
(* open can still be freed and closed by glbctx_destroy.                   *)
(***************************************************************************)
THEOREM NothingIsLost == Spec => []NothingLost
  <1>1. MInv => NothingLost  BY DEF MInv
  <1> QED  BY <1>1, AlwaysMInv, PTL

(***************************************************************************)
(* A connection that can carry data has all its channels, and no           *)
(* connection has a part of them, but one whose channels are being made.   *)
(***************************************************************************)
THEOREM ChannelsAreWhole == Spec => []ChannelsWhole
  <1>1. MInv => ChannelsWhole
    <2> SUFFICES ASSUME MInv, NEW k \in Slot, ~Making(k)
                 PROVE  /\ con[k].st \in {"ESTABLISHED", "FIN_SENT"} =>
                             con[k].chans.arr # NULL
                        /\ con[k].chans.arr # NULL =>
                             \A i \in Chan :
                               NULL \notin {con[k].chans.q[i].s, con[k].chans.q[i].r}
      BY DEF ChannelsWhole
    <2>1. Settled(k)  BY DEF MInv, Shape
    <2>2. \A i \in Chan : i < NChan + 1  BY Constants DEF Chan
    <2> QED  BY <2>1, <2>2 DEF Settled, Carries, Whole
  <1> QED  BY <1>1, AlwaysMInv, PTL

-----------------------------------------------------------------------------
(***************************************************************************)
(* Identifiers.  A server fills its slots from the first on and never      *)
(* takes back the mark of a used one, so that a slot that carries the id   *)
(* of a used one without having been used comes after it.  What a stray    *)
(* SYN-ACK does to a slot leaves its id alone, since no slot of a server   *)
(* is in SYN_SENT.  A client has one slot.                                 *)
(***************************************************************************)
OnServer(c, s) == s = "CLOSED" \/ (c.used /\ s # "SYN_SENT")

Filled ==
  /\ ctx.server => \A k \in 1 .. Size :
       /\ OnServer(con[k], con[k].st)
       /\ ~con[k].used => con[k].id = NoId /\ con[k].peer = None
  /\ ctx.server /\ pc \in Busy => OnServer(con[job.slot], job.st)
  /\ \A j, k \in 1 .. Size : con[k].used /\ j < k => con[j].used
  /\ ~clash => \A j, k \in 1 .. Size :
       con[j].used /\ con[k].used /\ j # k => con[j].id # con[k].id

LEMMA FilledLooksUp ==
  ASSUME TypeOK, Filled
  PROVE  LookUp
  <1> SUFFICES ASSUME ~clash, NEW k \in 1 .. Size, con[k].used
               PROVE  FindConn(con[k].id) = {k}
    BY DEF LookUp
  <1>1. PICK n \in Nat : n = Size  BY SizeFacts
  <1>2. PICK W : W = WithId(con[k].id)  OBVIOUS
  <1>3. \A j : j \in W <=> j \in 1 .. n /\ con[j].id = con[k].id
    BY <1>1, <1>2 DEF WithId
  <1>4. ASSUME NEW j \in W
        PROVE  k <= j
    <2>1. j \in 1 .. n /\ con[j].id = con[k].id  BY <1>3
    <2>2. CASE con[j].used  BY <1>1, <2>1, <2>2 DEF Filled
    <2>3. CASE ~con[j].used
      <3>1. ~(j < k)  BY <1>1, <2>1, <2>3 DEF Filled
      <3> QED  BY <1>1, <2>1, <3>1
    <2> QED  BY <2>2, <2>3
  <1>5. k \in W /\ W \subseteq Nat  BY <1>1, <1>3
  <1>6. First(W) = {k}
    <2>1. \A j \in First(W) : j = k  BY <1>4, <1>5 DEF First
    <2>2. k \in First(W)  BY <1>4, <1>5 DEF First
    <2> QED  BY <2>1, <2>2
  <1> QED  BY <1>2, <1>6 DEF FindConn

LEMMA UnusedFilled ==
  ASSUME con' = [k \in Slot |-> Unused], pc' \notin Busy, ctx' \in CtxRec
  PROVE  Filled'
  <1>1. (1 .. Size)' \subseteq Slot  BY Constants DEF Size, Slot
  <1>2. \A k \in Slot : ~con'[k].used /\ con'[k].st = "CLOSED" /\ con'[k].id = NoId
                        /\ con'[k].peer = None
    BY DEF Unused
  <1> QED  BY <1>1, <1>2 DEF Filled, OnServer

LEMMA ClientFilled ==
  ASSUME ~ctx'.server
  PROVE  Filled'
  <1>1. Size' = 1  BY DEF Size
  <1>2. \A j, k \in (1 .. Size)' : j = 1 /\ k = 1  BY <1>1
  <1> QED  BY <1>2 DEF Filled

\* The slots keep ids and peers, and take only states that a server's may take.
LEMMA SameIdsFilled ==
  ASSUME TypeOK, Filled, ctx' = ctx, clash' = clash,
         \A k \in Slot : /\ con'[k].id = con[k].id /\ con'[k].peer = con[k].peer
                         /\ con'[k].used = con[k].used
                         /\ con'[k].st = con[k].st \/ OnServer(con[k], con'[k].st),
         ctx.server /\ pc' \in Busy =>
           job'.slot \in Slot /\ OnServer(con[job'.slot], job'.st)
  PROVE  Filled'
  <1>1. Size' = Size /\ 1 .. Size \subseteq Slot  BY SizeFacts DEF Size
  <1>2. ASSUME ctx'.server, NEW k \in 1 .. Size
        PROVE  /\ OnServer(con'[k], con'[k].st)
               /\ ~con'[k].used => con'[k].id = NoId /\ con'[k].peer = None
    <2>1. /\ OnServer(con[k], con[k].st)
          /\ ~con[k].used => con[k].id = NoId /\ con[k].peer = None
      BY <1>2 DEF Filled
    <2> QED  BY <1>1, <1>2, <2>1 DEF OnServer
  <1>3. \A j, k \in 1 .. Size : con'[k].used /\ j < k => con'[j].used
    BY <1>1 DEF Filled
  <1>4. ~clash' => \A j, k \in 1 .. Size :
          con'[j].used /\ con'[k].used /\ j # k => con'[j].id # con'[k].id
    BY <1>1 DEF Filled
  <1>5. ctx'.server /\ pc' \in Busy => OnServer(con'[job'.slot], job'.st)
    BY DEF OnServer
  <1> QED  BY <1>1, <1>2, <1>3, <1>4, <1>5 DEF Filled

\* The same for one connection.
LEMMA SameIdFilled ==
  ASSUME TypeOK, Filled, ctx' = ctx, clash' = clash, NEW k \in Slot, NEW c \in ConRec,
         con' = [con EXCEPT ![k] = c],
         c.id = con[k].id, c.peer = con[k].peer, c.used = con[k].used,
         c.st = con[k].st \/ (ctx.server => OnServer(con[k], c.st)),
         ctx.server /\ pc' \in Busy =>
           job'.slot \in Slot /\ OnServer(con[job'.slot], job'.st)
  PROVE  Filled'
  <1>1. con'[k] = c /\ \A j \in Slot : j # k => con'[j] = con[j]  BY Updated
  <1>2. CASE ctx.server
    <2>1. \A j \in Slot : /\ con'[j].id = con[j].id /\ con'[j].peer = con[j].peer
                          /\ con'[j].used = con[j].used
                          /\ con'[j].st = con[j].st \/ OnServer(con[j], con'[j].st)
      BY <1>1, <1>2
    <2> QED  BY <2>1, SameIdsFilled
  <1>3. CASE ~ctx.server  BY <1>3, ClientFilled
  <1> QED  BY <1>2, <1>3

\* A server's new connection: the slots before it are not CLOSED, so they were
\* used.
LEMMA SynNewFilled ==
  ASSUME TypeOK, Filled, NEW a \in Peers, SynNew(a)
  PROVE  Filled'
  <1> SUFFICES ASSUME ctx.server PROVE Filled'
    <2>1. ctx' = ctx  BY DEF SynNew
    <2> QED  BY <2>1, ClientFilled
  <1> DEFINE r == [Unused EXCEPT !.st = "SYN_RCVD", !.id = NewId, !.peer = a, !.used = TRUE]
  <1>1. PICK k \in FindEmpty : con' = [con EXCEPT ![k] = r]  BY DEF SynNew
  <1>2. r.st = "SYN_RCVD" /\ r.id = NewId /\ r.used = TRUE  BY DEF Unused
  <1>3. PICK c : c = r  OBVIOUS
  <1> HIDE DEF r
  <1>4. c.st = "SYN_RCVD" /\ c.id = NewId /\ c.used  BY <1>2, <1>3
  <1>5. con' = [con EXCEPT ![k] = c] /\ con \in [Slot -> ConRec]
    BY <1>1, <1>3 DEF TypeOK
  <1>6. /\ pc = "idle" /\ pc' = "idle" /\ ctx' = ctx
        /\ clash' = (clash \/ \E j \in (1 .. Size) \ FindEmpty :
                                con[j].used /\ con[j].id = NewId)
    BY DEF SynNew
  <1>7. PICK n \in Nat : n = Size /\ n = Size' /\ 1 .. n \subseteq Slot
    BY <1>6, SizeFacts DEF Size
  <1>8. FindEmpty = {k} /\ k \in 1 .. n /\ (\A j \in 1 .. n : j < k => con[j].st # "CLOSED")
    <2>1. PICK K : K = {j \in 1 .. n : con[j].st = "CLOSED"}  OBVIOUS
    <2>2. FindEmpty = First(K) /\ K \subseteq Nat  BY <1>7, <2>1 DEF FindEmpty
    <2>3. \A j \in First(K) : j = k  BY <2>2, FirstFacts
    <2>4. FindEmpty = {k}  BY <2>2, <2>3
    <2>5. k \in K /\ \A j \in K : k <= j  BY <2>2 DEF First
    <2>6. ASSUME NEW j \in 1 .. n, j < k
          PROVE  con[j].st # "CLOSED"
      BY <2>1, <2>5, <2>6
    <2> QED  BY <2>1, <2>4, <2>5, <2>6
  <1>9. con'[k] = c /\ \A j \in 1 .. n : j # k => con'[j] = con[j]
    BY <1>5, <1>7, <1>8
  <1>10. \A j \in 1 .. n : ~con[j].used =>
           con[j].st = "CLOSED" /\ con[j].id = NoId /\ con[j].peer = None
    BY <1>6, <1>7 DEF Filled, OnServer
  <1>11. \A j, m \in 1 .. n : con'[m].used /\ j < m => con'[j].used
    <2> SUFFICES ASSUME NEW j \in 1 .. n, NEW m \in 1 .. n, con'[m].used, j < m
                 PROVE  con'[j].used
      OBVIOUS
    <2>1. CASE j = k  BY <1>4, <1>9, <2>1
    <2>2. CASE j # k /\ m = k  BY <1>8, <1>9, <1>10, <2>2
    <2>3. CASE j # k /\ m # k  BY <1>7, <1>9, <2>3 DEF Filled
    <2> QED  BY <2>1, <2>2, <2>3
  <1>12. ASSUME ~clash', NEW j \in 1 .. n, NEW m \in 1 .. n,
                con'[j].used, con'[m].used, j # m
         PROVE  con'[j].id # con'[m].id
    <2>1. ~clash /\ \A i \in 1 .. n : i # k /\ con[i].used => con[i].id # NewId
      BY <1>6, <1>7, <1>8, <1>12
    <2>2. CASE j = k  BY <1>4, <1>9, <1>12, <2>1, <2>2
    <2>3. CASE m = k  BY <1>4, <1>9, <1>12, <2>1, <2>3
    <2>4. CASE j # k /\ m # k  BY <1>7, <1>9, <1>12, <2>1, <2>4 DEF Filled
    <2> QED  BY <2>2, <2>3, <2>4
  <1>13. ASSUME NEW j \in 1 .. n
         PROVE  /\ OnServer(con'[j], con'[j].st)
                /\ ~con'[j].used => con'[j].id = NoId /\ con'[j].peer = None
    <2>1. OnServer(con[j], con[j].st)  BY <1>7 DEF Filled
    <2> QED  BY <1>4, <1>9, <1>10, <2>1 DEF OnServer
  <1> QED  BY <1>6, <1>7, <1>11, <1>12, <1>13 DEF Filled, Busy

LEMMA CreateFilled ==
  ASSUME MInv, TypeOK', Create \/ Destroy
  PROVE  Filled'
  <1>1. pc' \notin Busy
    BY DEF Create, Destroy, AllocContext, OpenSocket, SetNonBlocking, Bind,
           AllocEventQueue, Fail, Busy
  <1>2. ctx' \in CtxRec  BY DEF TypeOK
  <1>3. CASE Destroy  BY <1>1, <1>2, <1>3, UnusedFilled DEF Destroy
  <1>4. CASE Create
    <2>1. pc \in Creating /\ con' = con
      BY <1>4 DEF Create, AllocContext, OpenSocket, SetNonBlocking, Bind,
                  AllocEventQueue, Creating, table
    <2> QED  BY <1>1, <1>2, <2>1, UnusedFilled DEF MInv, Phases
  <1> QED  BY <1>3, <1>4

\* The steps of glbctx_createconchannels.
LEMMA MakingFilled ==
  ASSUME MInv, Filled, AllocArray \/ AllocQueues \/ CleanUp
  PROVE  Filled'
  <1>1. pc \in Busy /\ ctx' = ctx /\ clash' = clash
    BY DEF AllocArray, AllocQueues, CleanUp, resources, Busy
  <1>2. /\ TypeOK /\ job.slot \in Slot /\ job.chan \in Chan /\ job.st \in States
        /\ con[job.slot] \in ConRec
    BY <1>1, MakingFacts
  <1>3. ctx.server => OnServer(con[job.slot], job.st)  BY <1>1 DEF Filled
  <1>4. PICK k \in Slot : k = job.slot  BY <1>2
  <1>5. pc' \in Busy => job'.slot = k /\ job'.st = job.st
    BY <1>2, <1>4, JobFacts DEF AllocArray, AllocQueues, CleanUp, Busy
  <1>6. CASE con' = con
    BY <1>1, <1>2, <1>3, <1>4, <1>5, <1>6, SameIdsFilled
  <1>7. ASSUME NEW c \in ConRec, con' = [con EXCEPT ![k] = c],
               c.id = con[k].id, c.peer = con[k].peer, c.used = con[k].used,
               c.st \in {con[k].st, job.st}
        PROVE  Filled'
    <2>1. ctx.server /\ pc' \in Busy =>
            job'.slot \in Slot /\ OnServer(con[job'.slot], job'.st)
      BY <1>3, <1>4, <1>5
    <2>2. c.st = con[k].st \/ (ctx.server => OnServer(con[k], c.st))
      BY <1>3, <1>4, <1>7
    <2> QED  BY <1>1, <1>2, <1>7, <2>1, <2>2, SameIdFilled
  <1>8. CASE AllocArray /\ con' # con
    <2>1. PICK b \in Malloc : con' = [con EXCEPT ![job.slot].chans.arr = b]
      BY <1>8 DEF AllocArray
    <2>2. PICK c : c = WithArray(con[k], b)  OBVIOUS
    <2>3. con' = [con EXCEPT ![k] = c]  BY <1>4, <2>1, <2>2 DEF WithArray
    <2>4. b \in Block  BY <2>1, MallocFacts
    <2>5. /\ c \in ConRec /\ c.id = con[k].id /\ c.peer = con[k].peer
          /\ c.used = con[k].used /\ c.st = con[k].st
      BY <1>2, <1>4, <2>2, <2>4, WithTypes
    <2> QED  BY <1>7, <2>3, <2>5
  <1>9. CASE AllocQueues
    <2> DEFINE Here(s, r) == [con EXCEPT ![job.slot].chans.q[job.chan] = [s |-> s, r |-> r]]
    <2>1. PICK s \in Malloc \cup {NULL} :
            \E r \in First(Block \ (heap \cup {s})) \cup {NULL} :
              con' = Here(s, r) \/ con' = [Here(s, r) EXCEPT ![job.slot].st = job.st]
      BY <1>9 DEF AllocQueues
    <2>2. PICK r \in First(Block \ (heap \cup {s})) \cup {NULL} :
            con' = Here(s, r) \/ con' = [Here(s, r) EXCEPT ![job.slot].st = job.st]
      BY <2>1
    <2> HIDE DEF Here
    <2>3. s \in Ptr(Block) /\ r \in Ptr(Block)
      <3>1. s \in Ptr(Block)  BY <2>1, MallocFacts DEF Ptr
      <3>2. r \in Ptr(Block)  BY <2>2, MallocFacts DEF Ptr
      <3> QED  BY <3>1, <3>2
    <2>4. PICK d : d = WithQueues(con[k], job.chan, s, r)  OBVIOUS
    <2>5. /\ d \in ConRec /\ d.id = con[k].id /\ d.peer = con[k].peer
          /\ d.used = con[k].used /\ d.st = con[k].st
      <3>1. PICK o \in ConRec, m \in Chan : o = con[k] /\ m = job.chan  BY <1>2, <1>4
      <3>2. d = WithQueues(o, m, s, r)  BY <2>4, <3>1
      <3>3. /\ d \in ConRec /\ d.id = o.id /\ d.peer = o.peer /\ d.used = o.used
            /\ d.st = o.st
        BY <2>3, <3>2, WithTypes
      <3> QED  BY <3>1, <3>3
    <2>6. PICK here : here = [con EXCEPT ![k] = d]  OBVIOUS
    <2>7. here = Here(s, r)  BY <1>4, <2>4, <2>6 DEF Here, WithQueues
    <2>8. CASE con' = here  BY <1>7, <2>5, <2>6, <2>8
    <2>9. CASE con' = [here EXCEPT ![k].st = job.st]
      <3>1. PICK c : c = InState(d, job.st)  OBVIOUS
      <3>2. /\ c \in ConRec /\ c.id = d.id /\ c.peer = d.peer /\ c.used = d.used
            /\ c.st = job.st
        BY <1>2, <2>5, <3>1, ConTypes
      <3>3. con' = [con EXCEPT ![k] = c]
        <4>1. here \in [Slot -> ConRec] /\ here[k] = d
          BY <1>2, <2>5, <2>6 DEF TypeOK
        <4>2. con' = [here EXCEPT ![k] = c]  BY <2>9, <3>1, <4>1 DEF InState
        <4> QED  BY <2>6, <4>2
      <3> QED  BY <1>7, <2>5, <3>2, <3>3
    <2> QED  BY <1>4, <2>2, <2>7, <2>8, <2>9
  <1>10. CASE CleanUp
    <2>1. PICK c : c = Emptied(con[k])  OBVIOUS
    <2>2. con' = [con EXCEPT ![k] = c]  BY <1>4, <1>10, <2>1 DEF CleanUp, Emptied
    <2>3. /\ c \in ConRec /\ c.id = con[k].id /\ c.peer = con[k].peer
          /\ c.used = con[k].used /\ c.st = con[k].st
      BY <1>2, <1>4, <2>1, ConTypes
    <2> QED  BY <1>7, <2>2, <2>3
  <1> QED  BY <1>6, <1>8, <1>9, <1>10

\* A step of the protocol that leaves ids alone.
LEMMA StateFilled ==
  ASSUME TypeOK, Filled, NEW k \in Slot, NEW c \in ConRec, pc = "idle", Become(k, c),
         c.id = con[k].id, c.peer = con[k].peer, c.used = con[k].used,
         c.st # "SYN_SENT", c.st = "CLOSED" \/ (ctx.server => con[k].used)
  PROVE  Filled'
  <1>1. /\ con' = [con EXCEPT ![k] = c] /\ ctx' = ctx /\ clash' = clash
        /\ pc' \notin Busy
    BY DEF Become, resources, Busy
  <1>2. ctx.server => OnServer(con[k], c.st)  BY DEF OnServer
  <1> QED  BY <1>1, <1>2, SameIdFilled

LEMMA ServerFilled ==
  ASSUME TypeOK, Filled, pc = "idle",
         NEW k \in 1 .. Size, con[k].st # "CLOSED" \/ con[k].peer # None
  PROVE  ctx.server => con[k].used
  BY DEF Filled, OnServer

LEMMA TurnFilled ==
  ASSUME TypeOK, Filled, NEW k \in Slot, Close(k) \/ End(k) \/ Forget(k)
  PROVE  Filled'
  <1>1. con[k] \in ConRec /\ pc = "idle"  BY DEF TypeOK, Close, End, Forget
  <1>2. \A s \in States :
          /\ InState(con[k], s) \in ConRec /\ InState(con[k], s).st = s
          /\ InState(con[k], s).id = con[k].id /\ InState(con[k], s).peer = con[k].peer
          /\ InState(con[k], s).used = con[k].used
    BY <1>1, ConTypes
  <1>3. CASE Forget(k)
    <2>1. "CLOSED" \in States  BY DEF States
    <2> QED  BY <1>1, <1>2, <1>3, <2>1, StateFilled DEF Forget, InState
  <1>4. CASE End(k)
    <2>1. /\ Freed(con[k]) \in ConRec /\ Freed(con[k]).st = "CLOSED"
          /\ Freed(con[k]).id = con[k].id /\ Freed(con[k]).peer = con[k].peer
          /\ Freed(con[k]).used = con[k].used
      BY <1>1, ConTypes
    <2> QED  BY <1>1, <1>4, <2>1, StateFilled DEF End
  <1>5. CASE Close(k)
    <2>1. "FIN_SENT" \in States  BY DEF States
    <2>2. ctx.server => con[k].used
      <3>1. ctx.server => k \in 1 .. Size  BY DEF Size, Slot
      <3> QED  BY <1>1, <1>5, <3>1, ServerFilled DEF Close
    <2> QED  BY <1>1, <1>2, <1>5, <2>1, <2>2, StateFilled DEF Close, InState
  <1> QED  BY <1>3, <1>4, <1>5

LEMMA FoundUsed ==
  ASSUME TypeOK, Filled, pc = "idle"
  PROVE  /\ \A i : \A k \in FindConn(i) :
              k \in Slot /\ (con[k].st # "CLOSED" => (ctx.server => con[k].used))
         /\ \A a \in Peers : \A k \in FindByAddr(a) : k \in Slot /\ (ctx.server => con[k].used)
  <1>1. \A i : \A k \in FindConn(i) : k \in 1 .. Size
    BY DEF FindConn, First, WithId
  <1>2. \A a \in Peers : \A k \in FindByAddr(a) : k \in 1 .. Size /\ con[k].peer # None
    BY Constants DEF FindByAddr, First, WithPeer
  <1> QED  BY <1>1, <1>2, SizeFacts, ServerFilled

LEMMA SynKnownFilled ==
  ASSUME TypeOK, Filled, NEW a \in Peers, SynKnown(a)
  PROVE  Filled'
  <1>1. PICK k \in FindByAddr(a) : Become(k, InState(con[k], "SYN_RCVD"))
    BY DEF SynKnown, InState
  <1>2. pc = "idle"  BY DEF SynKnown
  <1>3. k \in Slot /\ (ctx.server => con[k].used)  BY <1>1, <1>2, FoundUsed
  <1>4. con[k] \in ConRec /\ "SYN_RCVD" \in States  BY <1>3 DEF TypeOK, States
  <1>5. PICK c : c = InState(con[k], "SYN_RCVD")  OBVIOUS
  <1>6. /\ c \in ConRec /\ c.id = con[k].id /\ c.peer = con[k].peer
        /\ c.used = con[k].used /\ c.st = "SYN_RCVD"
    BY <1>4, <1>5, ConTypes
  <1> QED  BY <1>1, <1>2, <1>3, <1>5, <1>6, StateFilled

LEMMA RstFilled ==
  ASSUME TypeOK, Filled, Rst
  PROVE  Filled'
  <1>1. PICK k \in FindConn(Initiation) :
          \/ Become(k, Freed(con[k]))
          \/ Become(k, InState(con[k], "CLOSED"))
    BY DEF Rst, InState
  <1>2. k \in Slot /\ pc = "idle"  BY <1>1, FoundSlots DEF Rst
  <1>3. con[k] \in ConRec /\ "CLOSED" \in States  BY <1>2 DEF TypeOK, States
  <1>4. PICK c : Become(k, c) /\ c \in {Freed(con[k]), InState(con[k], "CLOSED")}
    BY <1>1
  <1>5. /\ c \in ConRec /\ c.id = con[k].id /\ c.peer = con[k].peer
        /\ c.used = con[k].used /\ c.st = "CLOSED"
    BY <1>3, <1>4, ConTypes
  <1> QED  BY <1>2, <1>4, <1>5, StateFilled

LEMMA AckFilled ==
  ASSUME TypeOK, Filled, NEW i \in ConId, Ack(i)
  PROVE  Filled'
  <1>1. PICK k \in FindConn(i) :
          /\ con[k].st = "SYN_RCVD"
          /\ MakeChannels(k, InState(con[k], "ESTABLISHED"), "ESTABLISHED")
    BY DEF Ack, InState
  <1>2. k \in Slot /\ (ctx.server => con[k].used)  BY <1>1, FoundUsed DEF Ack
  <1>3. con[k] \in ConRec /\ "ESTABLISHED" \in States  BY <1>2 DEF TypeOK, States
  <1>4. PICK e : e = InState(con[k], "ESTABLISHED")  OBVIOUS
  <1>5. /\ e \in ConRec /\ e.id = con[k].id /\ e.peer = con[k].peer
        /\ e.used = con[k].used /\ e.st = "ESTABLISHED"
    BY <1>3, <1>4, ConTypes
  <1>6. PICK c : c = Emptied(e)  OBVIOUS
  <1>7. /\ c \in ConRec /\ c.id = con[k].id /\ c.peer = con[k].peer
        /\ c.used = con[k].used /\ c.st = "ESTABLISHED"
    BY <1>5, <1>6, ConTypes
  <1>8. /\ con' = [con EXCEPT ![k] = c] /\ ctx' = ctx /\ clash' = clash
        /\ job' = [slot |-> k, chan |-> 1, st |-> "ESTABLISHED"]
    BY <1>1, <1>4, <1>6 DEF MakeChannels, Emptied, resources
  <1>9. job'.slot = k /\ job'.st = "ESTABLISHED"  BY <1>8
  <1>10. ctx.server => OnServer(con[k], "ESTABLISHED")  BY <1>2 DEF OnServer
  <1> QED  BY <1>2, <1>7, <1>8, <1>9, <1>10, SameIdFilled

\* A SYN-ACK that a server receives.
LEMMA SynAckFilled ==
  ASSUME TypeOK, Filled, NEW i \in ConId, NEW sent \in BOOLEAN, SynAck(i, sent)
  PROVE  Filled'
  <1>1. ctx' = ctx /\ clash' = clash /\ pc' = "array"
    BY DEF SynAck, MakeChannels, resources
  <1> SUFFICES ASSUME ctx.server PROVE Filled'
    BY <1>1, ClientFilled
  <1>2. 1 \in Slot /\ 1 \in 1 .. Size /\ con[1] \in ConRec
    BY SmallestMembers, Constants DEF TypeOK, Size
  <1>3. OnServer(con[1], con[1].st)  BY <1>2 DEF Filled
  <1>4. con[1].st # "SYN_SENT"  BY <1>3 DEF OnServer
  <1>5. PICK s : s = IF sent THEN "ESTABLISHED" ELSE con[1].st  OBVIOUS
  <1>6. (sent => con[1].used) /\ MakeChannels(1, con[1], s)
    BY <1>4, <1>5 DEF SynAck
  <1>7. OnServer(con[1], s)  BY <1>3, <1>5, <1>6 DEF OnServer
  <1>8. PICK c : c = Emptied(con[1])  OBVIOUS
  <1>9. /\ c \in ConRec /\ c.id = con[1].id /\ c.peer = con[1].peer
        /\ c.used = con[1].used /\ c.st = con[1].st
    BY <1>2, <1>8, ConTypes
  <1>10. con' = [con EXCEPT ![1] = c] /\ job' = [slot |-> 1, chan |-> 1, st |-> s]
    BY <1>6, <1>8 DEF MakeChannels, Emptied
  <1>11. job'.slot = 1 /\ job'.st = s  BY <1>10
  <1> QED  BY <1>1, <1>2, <1>7, <1>9, <1>10, <1>11, SameIdFilled

LEMMA NextFilled ==
  ASSUME MInv, MInv', Filled, [Next]_vars
  PROVE  Filled'
  <1>1. TypeOK /\ TypeOK'  BY DEF MInv
  <1>2. CASE Create \/ Destroy  BY <1>1, <1>2, CreateFilled
  <1>3. CASE AllocArray \/ AllocQueues \/ CleanUp  BY <1>3, MakingFilled
  <1>4. CASE Connect
    <2>1. ~ctx.server /\ ctx' = ctx  BY <1>4 DEF Connect, Become, resources
    <2> QED  BY <2>1, ClientFilled
  <1>5. CASE \E i \in ConId : \E sent \in BOOLEAN : SynAck(i, sent)
    BY <1>1, <1>5, SynAckFilled
  <1>6. CASE \E a \in Peers : SynKnown(a)  BY <1>1, <1>6, SynKnownFilled
  <1>7. CASE \E a \in Peers : SynNew(a)    BY <1>1, <1>7, SynNewFilled
  <1>8. CASE \E i \in ConId : Ack(i)       BY <1>1, <1>8, AckFilled
  <1>9. CASE \E k \in Slot : Close(k) \/ End(k) \/ Forget(k)
    BY <1>1, <1>9, TurnFilled
  <1>10. CASE Rst  BY <1>1, <1>10, RstFilled
  <1>11. CASE UNCHANGED vars
    <2>1. ctx' = ctx /\ con' = con /\ pc' = pc /\ job' = job /\ clash' = clash
      BY <1>11 DEF vars
    <2> QED  BY <2>1 DEF Filled, Size
  <1> QED  BY <1>2, <1>3, <1>4, <1>5, <1>6, <1>7, <1>8, <1>9, <1>10, <1>11 DEF Next

LEMMA InitFilled == Init => Filled
  <1> SUFFICES ASSUME Init PROVE Filled
    OBVIOUS
  <1>1. con = [k \in Slot |-> Unused] /\ pc = "none"  BY DEF Init
  <1>2. \A k \in Slot : con[k] = Unused  BY <1>1
  <1>3. \A k \in Slot : ~con[k].used /\ con[k].st = "CLOSED" /\ con[k].id = NoId
                        /\ con[k].peer = None
    BY <1>2 DEF Unused
  <1> QED  BY <1>1, <1>3, SizeFacts DEF Filled, Busy, OnServer

(***************************************************************************)
(* Every id finds the connection that has it, also after the ids have      *)
(* wrapped to that of the slots never used, until one is handed out that   *)
(* another slot still has.                                                 *)
(***************************************************************************)
THEOREM IdsLookUp == Spec => []LookUp
  <1>1. Init => Filled  BY InitFilled
  <1>2. MInv /\ MInv' /\ Filled /\ [Next]_vars => Filled'  BY NextFilled
  <1>3. MInv /\ Filled => LookUp  BY FilledLooksUp DEF MInv
  <1> QED  BY <1>1, <1>2, <1>3, AlwaysMInv, PTL DEF Spec

=============================================================================
