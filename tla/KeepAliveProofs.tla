--------------------------- MODULE KeepAliveProofs ---------------------------
(***************************************************************************)
(* Proof that the keep-alive of Tick keeps a connection whose peer lives   *)
(* and is reached, for every environment that is Patient.                  *)
(*                                                                         *)
(* Kept speaks of one step.  What makes it true is a promise that holds    *)
(* while PINGs are unanswered (Coming): a PONG is under way, or a packet   *)
(* that ends the wait is in the inbox; and once the last PING was sent it  *)
(* is so close that it is handled before the timer fires.  How close       *)
(* follows from what can be before it: the backlog, and the SYN-ACKs that  *)
(* were asked for and not read (Pending).  PINGs reach the peer unless it  *)
(* and the connection's address have parted (Located).                     *)
(***************************************************************************)
EXTENDS TickProofs, SequenceTheorems, FiniteSetTheorems

-----------------------------------------------------------------------------
(***************************************************************************)
(* The invariant.                                                          *)
(***************************************************************************)

\* Calls of glb_tick that read everything that may be before an answer.
Rounds == CHOOSE k \in 1 .. Backlog + MaxRetry :
            /\ Backlog + MaxRetry <= k * RecvLimit
            /\ Delay + k * Late <= Interval * (MaxKeep + 1)

FreshTick == pc = "idle" => recvd = 0

\* PINGs are sent to where the peer is, unless the history says otherwise.
Located == ~away => peer = addr

\* Only answers come in when the backlog is full.
Orderly ==
  \A i \in 1 .. Len(inbox) :
    i > Backlog => Intact(inbox[i]) /\ inbox[i].head.kind \in Answers

\* The SYN-ACKs under way and those to be read, and how many there can be.
SynAges == {n \in 0 .. Delay : [kind |-> "SYN_ACK", age |-> n] \in wire}
SynBox  == {i \in 1 .. Len(inbox) : inbox[i].head.kind = "SYN_ACK"}
Left    == IF st = "SYN_SENT" THEN tries
           ELSE IF st = "ESTABLISHED" THEN MaxRetry - 1
           ELSE MaxRetry
Pending == Cardinality(SynAges) + Cardinality(SynBox) <= Left

\* A packet whose handler ends the wait for a PONG.
Ends(d) == Intact(d) /\ d.head.kind \in {"PONG", "FIN_ACK"}

\* The i-th datagram of the inbox is read in n calls of glb_tick, and these
\* come before the timer fires.
InTime(i, n) ==
  \/ pc = "idle" /\ i <= n * RecvLimit /\ n * Late <= timer + since
  \/ pc = "read" /\ i + recvd <= n * RecvLimit + RecvLimit /\ n * Late <= timer
  \/ pc = "timers" /\ i <= n * RecvLimit /\ n * Late <= timer

LastPing == tries > MaxKeep

UnderWay ==
  \E p \in wire : /\ p.kind = "PONG"
                  /\ LastPing => Delay - p.age + Rounds * Late <= timer

Waiting ==
  \E i \in 1 .. Len(inbox) : /\ Ends(inbox[i])
                             /\ LastPing => \E n \in Nat : InTime(i, n)

Coming ==
  st = "ESTABLISHED" /\ alive /\ ~away /\ tries > misses => UnderWay \/ Waiting

Promise == FreshTick /\ Located /\ Orderly /\ Pending /\ Coming

-----------------------------------------------------------------------------
(***************************************************************************)
(* The inbox, and what comes into it.                                      *)
(***************************************************************************)
LEMMA Appended ==
  ASSUME TypeOK, NEW d \in Datagram, Arrive(d)
  PROVE  /\ Len(inbox) \in Nat /\ Len(inbox') = Len(inbox) + 1
         /\ inbox'[Len(inbox) + 1] = d
         /\ \A i \in 1 .. Len(inbox) : inbox'[i] = inbox[i]
  <1>1. inbox \in Seq(Datagram)  BY DEF TypeOK
  <1> QED  BY <1>1, AppendProperties, LenProperties DEF Arrive

LEMMA Taken ==
  ASSUME TypeOK, Read
  PROVE  /\ Len(inbox) \in Nat /\ Len(inbox) >= 1 /\ Len(inbox') = Len(inbox) - 1
         /\ Head(inbox) = inbox[1] /\ Head(inbox) \in Datagram
         /\ \A i \in 1 .. Len(inbox') : inbox'[i] = inbox[i + 1]
  <1>1. inbox \in Seq(Datagram) /\ inbox # << >> /\ inbox' = Tail(inbox)
    BY DEF TypeOK, Read
  <1> QED  BY <1>1, HeadTailProperties, LenProperties, EmptySeq

LEMMA WholeIsIntact ==
  ASSUME NEW k \in Kinds, NEW a
  PROVE  Intact(Whole(k, a)) /\ Whole(k, a).head.kind = k
  BY ConstantTypes DEF Whole, Gram, Sound, Intact

LEMMA JunkIsNoSynAck ==
  ASSUME NEW d \in Junk
  PROVE  d.head.kind # "SYN_ACK"
  BY DEF Junk, Gram, Sound

\* What is handled is what was received.
LEMMA HandledHead ==
  ASSUME TypeOK, Read, Dispatch
  PROVE  LET d == Head(inbox)
         IN  \/ d.head.kind = "SYN_ACK" /\ OnSynAck
             \/ d.head.kind = "FIN_ACK" /\ OnFinAck
             \/ d.head.kind = "PONG"    /\ OnPong
             \/ d.head.kind = "PING"    /\ OnPing
             \/ d.head.kind = "DATA"    /\ OnData(d)
  <1>1. Head(inbox) \in Datagram /\ pkg \in Header  BY Taken DEF TypeOK
  <1>2. PICK f \in Header : f = Filled(pkg, Head(inbox))  BY <1>1, FilledType
  <1>3. f.payload \in Nat /\ Head(inbox).len \in Int
    BY <1>1, <1>2, ConstantTypes DEF Header, Datagram
  <1>4. Head(inbox).len >= HeaderLen + f.payload
    BY <1>2 DEF Dispatch, Accepts, Complete
  <1>5. f = Head(inbox).head  BY <1>2, <1>3, <1>4, ConstantTypes DEF Filled
  <1> QED  BY <1>2, <1>5 DEF Dispatch

\* And what is intact is handled.
LEMMA IntactIsHandled ==
  ASSUME TypeOK, Read, Intact(Head(inbox))
  PROVE  Dispatch
  <1>1. Head(inbox) \in Datagram  BY Taken
  <1>2. /\ Head(inbox).head.payload \in Nat /\ Head(inbox).len \in Int
    BY <1>1, ConstantTypes DEF Header, Datagram
  <1>3. Filled(pkg, Head(inbox)) = Head(inbox).head
    BY <1>2, ConstantTypes DEF Filled, Intact
  <1>4. Accepts(Filled(pkg, Head(inbox)), Head(inbox))
    BY <1>3 DEF Accepts, Complete, Intact
  <1> QED  BY <1>4 DEF Read, Reject

-----------------------------------------------------------------------------
(***************************************************************************)
(* Calls of glb_tick start with a count of 0.                              *)
(***************************************************************************)
LEMMA FreshTickKept ==
  ASSUME FreshTick, [Next]_vars
  PROVE  FreshTick'
  <1> USE DEF connection, tick, environment
  <1>1. CASE Timers \/ Read \/ EndRead \/ StartTick
    BY <1>1 DEF Timers, Read, EndRead, StartTick, FreshTick
  <1>2. ASSUME pc' = pc, recvd' = recvd  PROVE FreshTick'
    BY <1>2 DEF FreshTick
  <1>3. CASE Close \/ Pass \/ Die \/ Move
    BY <1>2, <1>3 DEF Close, Pass, Die, Move
  <1>4. ASSUME NEW p, ArriveAnswer(p)  PROVE FreshTick'  BY <1>2, <1>4 DEF ArriveAnswer
  <1>5. ASSUME NEW k, NEW a, ArriveOther(k, a)  PROVE FreshTick'
    BY <1>2, <1>5 DEF ArriveOther
  <1>6. ASSUME NEW d, ArriveJunk(d)  PROVE FreshTick'  BY <1>2, <1>6 DEF ArriveJunk
  <1>7. CASE UNCHANGED vars  BY <1>2, <1>7 DEF vars
  <1> QED  BY <1>1, <1>3, <1>4, <1>5, <1>6, <1>7 DEF Next

-----------------------------------------------------------------------------
(***************************************************************************)
(* A connection whose peer has not moved sends to it, until it is moved.   *)
(***************************************************************************)
LEMMA LocatedKept ==
  ASSUME TypeOK, Located, [Next]_vars
  PROVE  Located'
  <1> USE DEF connection, tick, environment
  <1>1. CASE Read
    <2>1. addr' = addr  BY <1>1 DEF Read
    <2>2. CASE Reject  BY <2>1, <2>2 DEF Reject, Located
    <2>3. CASE Dispatch
      BY <1>1, <2>1, <2>3, HandledHead
      DEF OnSynAck, OnFinAck, OnPong, OnPing, OnData, Located
    <2> QED  BY <1>1, <2>2, <2>3 DEF Read
  <1>2. CASE Move  BY <1>2 DEF Move, Located
  <1>3. ASSUME UNCHANGED <<peer, addr, away>>  PROVE Located'  BY <1>3 DEF Located
  <1>4. CASE Close \/ StartTick \/ EndRead \/ Timers \/ Pass \/ Die \/ UNCHANGED vars
    BY <1>3, <1>4 DEF Close, StartTick, EndRead, Timers, Pass, Die, vars
  <1>5. ASSUME NEW p, ArriveAnswer(p)  PROVE Located'  BY <1>3, <1>5 DEF ArriveAnswer
  <1>6. ASSUME NEW k, NEW a, ArriveOther(k, a)  PROVE Located'
    BY <1>3, <1>6 DEF ArriveOther
  <1>7. ASSUME NEW d, ArriveJunk(d)  PROVE Located'  BY <1>3, <1>7 DEF ArriveJunk
  <1> QED  BY <1>1, <1>2, <1>4, <1>5, <1>6, <1>7 DEF Next

-----------------------------------------------------------------------------
(***************************************************************************)
(* Beyond the backlog there are answers only.                              *)
(***************************************************************************)
LEMMA ArriveOrderly ==
  ASSUME TypeOK, Orderly, NEW d \in Datagram, Arrive(d),
         Len(inbox) < Backlog \/ (Intact(d) /\ d.head.kind \in Answers)
  PROVE  Orderly'
  <1>1. /\ Len(inbox) \in Nat /\ Len(inbox') = Len(inbox) + 1
        /\ inbox'[Len(inbox) + 1] = d
        /\ \A i \in 1 .. Len(inbox) : inbox'[i] = inbox[i]
    BY Appended
  <1>2. ASSUME NEW i \in 1 .. Len(inbox'), i > Backlog
        PROVE  Intact(inbox'[i]) /\ inbox'[i].head.kind \in Answers
    <2>1. CASE i \in 1 .. Len(inbox)  BY <1>1, <1>2, <2>1 DEF Orderly
    <2>2. CASE i \notin 1 .. Len(inbox)
      <3>1. i = Len(inbox) + 1  BY <1>1, <2>2
      <3> QED  BY <1>1, <1>2, <3>1, ConstantTypes
    <2> QED  BY <2>1, <2>2
  <1> QED  BY <1>2 DEF Orderly, Intact

LEMMA OrderlyKept ==
  ASSUME TypeOK, Orderly, [Next]_vars
  PROVE  Orderly'
  <1> USE DEF connection, tick, environment
  <1>0. addr \in Addr  BY DEF TypeOK
  <1>1. CASE Read
    <2>1. /\ Len(inbox) \in Nat /\ Len(inbox) >= 1 /\ Len(inbox') = Len(inbox) - 1
          /\ \A i \in 1 .. Len(inbox') : inbox'[i] = inbox[i + 1]
      BY <1>1, Taken
    <2>2. ASSUME NEW i \in 1 .. Len(inbox'), i > Backlog
          PROVE  Intact(inbox'[i]) /\ inbox'[i].head.kind \in Answers
      <3>1. i + 1 \in 1 .. Len(inbox) /\ i + 1 > Backlog  BY <2>1, <2>2, ConstantTypes
      <3> QED  BY <2>1, <3>1 DEF Orderly
    <2> QED  BY <2>2 DEF Orderly, Intact
  <1>2. CASE inbox' = inbox  BY <1>2 DEF Orderly, Intact
  <1>3. CASE Close \/ StartTick \/ EndRead \/ Timers \/ Pass \/ Die \/ Move \/ UNCHANGED vars
    BY <1>2, <1>3 DEF Close, StartTick, EndRead, Timers, Pass, Die, Move, vars
  <1>4. ASSUME NEW p \in wire, ArriveAnswer(p)  PROVE Orderly'
    <2>1. p.kind \in Kinds /\ p.kind \in Answers  BY DEF TypeOK, Kinds
    <2>2. /\ Whole(p.kind, addr) \in Datagram /\ Intact(Whole(p.kind, addr))
          /\ Whole(p.kind, addr).head.kind \in Answers
      BY <1>0, <2>1, WholeType, WholeIsIntact
    <2> QED  BY <1>4, <2>2, ArriveOrderly DEF ArriveAnswer
  <1>5. ASSUME NEW k \in {"PING", "DATA"}, NEW a \in 0 .. addr, ArriveOther(k, a)
        PROVE  Orderly'
    <2>1. a \in Addr  BY <1>0, ConstantTypes DEF Addr
    <2>2. Whole(k, a) \in Datagram  BY <2>1, WholeType DEF Kinds
    <2> QED  BY <1>5, <2>2, ArriveOrderly DEF ArriveOther
  <1>6. ASSUME NEW d \in Junk, ArriveJunk(d)  PROVE Orderly'
    <2>1. d \in Datagram  BY <1>0, JunkType
    <2> QED  BY <1>6, <2>1, ArriveOrderly DEF ArriveJunk
  <1> QED  BY <1>1, <1>3, <1>4, <1>5, <1>6 DEF Next

-----------------------------------------------------------------------------
(***************************************************************************)
(* The SYN-ACKs that are under way or to be read.                          *)
(***************************************************************************)
LEMMA Countable ==
  ASSUME NEW A \in SUBSET (0 .. Delay), NEW q \in Seq(Datagram),
         NEW B \in SUBSET (1 .. Len(q))
  PROVE  /\ IsFiniteSet(A) /\ Cardinality(A) \in Nat
         /\ IsFiniteSet(B) /\ Cardinality(B) \in Nat
  <1>1. Len(q) \in Nat /\ Delay \in Nat  BY LenProperties, ConstantTypes
  <1>2. IsFiniteSet(0 .. Delay) /\ IsFiniteSet(1 .. Len(q))  BY <1>1, FS_Interval
  <1>3. IsFiniteSet(A) /\ IsFiniteSet(B)  BY <1>2, FS_Subset
  <1> QED  BY <1>3, FS_CardinalityType

LEMMA PendingTypes ==
  ASSUME TypeOK
  PROVE  /\ IsFiniteSet(SynAges) /\ Cardinality(SynAges) \in Nat
         /\ IsFiniteSet(SynBox) /\ Cardinality(SynBox) \in Nat
         /\ Left \in Int
  <1>1. SynAges \in SUBSET (0 .. Delay) /\ SynBox \in SUBSET (1 .. Len(inbox))
    BY DEF SynAges, SynBox
  <1>2. inbox \in Seq(Datagram)  BY DEF TypeOK
  <1>3. Left \in Int  BY ConstantTypes DEF TypeOK, Left
  <1> QED  BY <1>1, <1>2, <1>3, Countable

LEMMA PendingTypesNext ==
  ASSUME TypeOK'
  PROVE  /\ Cardinality(SynAges') \in Nat /\ Cardinality(SynBox') \in Nat
         /\ Left' \in Int
  <1>1. SynAges' \in SUBSET (0 .. Delay) /\ SynBox' \in SUBSET (1 .. Len(inbox'))
    BY DEF SynAges, SynBox
  <1>2. inbox' \in Seq(Datagram)  BY DEF TypeOK
  <1>3. Left' \in Int  BY ConstantTypes DEF TypeOK, Left
  <1> QED  BY <1>1, <1>2, <1>3, Countable

LEMMA LeftBounded ==
  ASSUME TypeOK, Accounted
  PROVE  Left <= MaxRetry
  BY ConstantTypes DEF TypeOK, Accounted, Left, Attempt

\* An injection into a finite set.
LEMMA Fewer ==
  ASSUME NEW S, NEW T, IsFiniteSet(T), NEW f \in [S -> T],
         \A a, b \in S : f[a] = f[b] => a = b
  PROVE  Cardinality(S) <= Cardinality(T)
  <1>1. f \in Injection(S, T)  BY DEF Injection, IsInjective
  <1> QED  BY <1>1, FS_Injection

\* The counts do not grow, and as many are left.
LEMMA NoMorePending ==
  ASSUME TypeOK, TypeOK', Pending, Left' >= Left,
         Cardinality(SynAges') <= Cardinality(SynAges),
         Cardinality(SynBox') <= Cardinality(SynBox)
  PROVE  Pending'
  <1>1. /\ Cardinality(SynAges) \in Nat /\ Cardinality(SynBox) \in Nat /\ Left \in Int
        /\ Cardinality(SynAges') \in Nat /\ Cardinality(SynBox') \in Nat /\ Left' \in Int
    BY PendingTypes, PendingTypesNext
  <1> QED  BY <1>1 DEF Pending

LEMMA ArrivePending ==
  ASSUME TypeOK, NEW d \in Datagram, Arrive(d)
  PROVE  SynBox' = IF d.head.kind = "SYN_ACK" THEN SynBox \cup {Len(inbox) + 1}
                                              ELSE SynBox
  <1>1. /\ Len(inbox) \in Nat /\ Len(inbox') = Len(inbox) + 1
        /\ inbox'[Len(inbox) + 1] = d
        /\ \A i \in 1 .. Len(inbox) : inbox'[i] = inbox[i]
    BY Appended
  <1>2. 1 .. Len(inbox') = 1 .. Len(inbox) \cup {Len(inbox) + 1}  BY <1>1
  <1> QED  BY <1>1, <1>2 DEF SynBox

LEMMA ArriveAnswerPending ==
  ASSUME TypeOK, TypeOK', Pending, NEW p \in wire, ArriveAnswer(p)
  PROVE  Pending'
  <1>1. /\ p.kind \in Kinds /\ p = [kind |-> p.kind, age |-> p.age]
        /\ p.age \in 0 .. Delay /\ addr \in Addr
    BY DEF TypeOK, Kinds
  <1>2. PICK d : d = Whole(p.kind, addr)  OBVIOUS
  <1>3. d \in Datagram /\ d.head.kind = p.kind
    BY <1>1, <1>2, WholeType, WholeIsIntact
  <1>4. Arrive(d) /\ wire' = wire \ {p} /\ st' = st /\ tries' = tries
    BY <1>2 DEF ArriveAnswer, connection
  <1>5. Left' = Left /\ Left \in Int  BY <1>4, PendingTypes DEF Left
  <1>6. CASE p.kind = "SYN_ACK"
    <2>1. SynAges' = SynAges \ {p.age} /\ p.age \in SynAges
      BY <1>1, <1>4, <1>6 DEF SynAges
    <2>2. Cardinality(SynAges') = Cardinality(SynAges) - 1
      BY <2>1, PendingTypes, FS_RemoveElement
    <2>3. SynBox' = SynBox \cup {Len(inbox) + 1}
      BY <1>3, <1>4, <1>6, ArrivePending
    <2>4. Cardinality(SynBox') <= Cardinality(SynBox) + 1
      <3>1. IsFiniteSet(SynBox) /\ Cardinality(SynBox) \in Nat  BY PendingTypes
      <3>2. Cardinality(SynBox \cup {Len(inbox) + 1})
              = IF Len(inbox) + 1 \in SynBox THEN Cardinality(SynBox)
                                             ELSE Cardinality(SynBox) + 1
        BY <3>1, FS_AddElement
      <3> QED  BY <2>3, <3>1, <3>2
    <2>5. /\ Cardinality(SynAges) \in Nat /\ Cardinality(SynBox) \in Nat
          /\ Cardinality(SynBox') \in Nat
      BY PendingTypes, PendingTypesNext
    <2> QED  BY <1>5, <2>2, <2>4, <2>5 DEF Pending
  <1>7. CASE p.kind # "SYN_ACK"
    <2>1. SynAges' = SynAges  BY <1>1, <1>4, <1>7 DEF SynAges
    <2>2. SynBox' = SynBox  BY <1>3, <1>4, <1>7, ArrivePending
    <2> QED  BY <1>5, <2>1, <2>2 DEF Pending
  <1> QED  BY <1>6, <1>7

\* What is read leaves the inbox; the others move up.
LEMMA ReadPending ==
  ASSUME TypeOK, TypeOK', Accounted, Pending, Read
  PROVE  Pending'
  <1>1. /\ Len(inbox) \in Nat /\ Len(inbox) >= 1 /\ Len(inbox') = Len(inbox) - 1
        /\ Head(inbox) = inbox[1]
        /\ \A i \in 1 .. Len(inbox') : inbox'[i] = inbox[i + 1]
    BY Taken
  <1>2. SynAges' = SynAges  BY DEF Read, SynAges
  <1>3. IsFiniteSet(SynBox) /\ IsFiniteSet(SynBox \ {1}) /\ Cardinality(SynBox) \in Nat
        /\ Cardinality(SynBox \ {1}) = IF 1 \in SynBox THEN Cardinality(SynBox) - 1
                                                       ELSE Cardinality(SynBox)
    BY PendingTypes, FS_RemoveElement
  <1>4. Cardinality(SynBox') <= Cardinality(SynBox \ {1})
    <2>1. \A i \in SynBox' : i \in Nat /\ i + 1 \in SynBox \ {1}  BY <1>1 DEF SynBox
    <2>2. PICK f : f = [i \in SynBox' |-> i + 1]  OBVIOUS
    <2>3. f \in [SynBox' -> SynBox \ {1}]  BY <2>1, <2>2
    <2>4. \A a, b \in SynBox' : f[a] = f[b] => a = b  BY <2>1, <2>2
    <2> QED  BY <1>3, <2>3, <2>4, Fewer
  <1>5. Cardinality(SynBox') \in Nat /\ Cardinality(SynAges) \in Nat
        /\ Left \in Int /\ Left' \in Int /\ Left <= MaxRetry /\ MaxRetry \in Nat
    BY <1>2, PendingTypes, PendingTypesNext, LeftBounded, ConstantTypes
  <1>6. CASE Left' >= Left
    BY <1>2, <1>3, <1>4, <1>5, <1>6 DEF Pending
  <1>7. CASE OnSynAck /\ Head(inbox).head.kind = "SYN_ACK"
    <2>1. 1 \in SynBox  BY <1>1, <1>7 DEF SynBox
    <2>2. Left' = Left \/ Left' = MaxRetry - 1  BY <1>7 DEF OnSynAck, Left
    <2> QED  BY <1>2, <1>3, <1>4, <1>5, <2>1, <2>2 DEF Pending
  <1>8. CASE OnFinAck
    <2>1. Left' = MaxRetry  BY <1>8 DEF OnFinAck, Left
    <2> QED  BY <1>5, <1>6, <2>1
  <1>9. ASSUME st' = st, st # "ESTABLISHED" => tries' = tries  PROVE Left' = Left
    BY <1>9 DEF Left
  <1>10. CASE OnPong \/ OnPing \/ OnData(Head(inbox)) \/ Reject
    <2>1. Left' = Left  BY <1>9, <1>10 DEF OnPong, OnPing, OnData, Reject, connection
    <2> QED  BY <1>5, <1>6, <2>1
  <1> QED  BY <1>7, <1>8, <1>10, HandledHead DEF Read

LEMMA PassPending ==
  ASSUME TypeOK, TypeOK', Pending, Pass
  PROVE  Pending'
  <1>1. UNCHANGED <<st, tries, inbox>> /\ wire' = {[p EXCEPT !.age = @ + 1] : p \in wire}
    BY DEF Pass
  <1>2. SynBox' = SynBox /\ Left' = Left  BY <1>1 DEF SynBox, Left
  <1>3. Cardinality(SynAges') <= Cardinality(SynAges)
    <2>1. ASSUME NEW n \in SynAges'  PROVE n \in Int /\ n - 1 \in SynAges
      <3>1. PICK p \in wire : [kind |-> "SYN_ACK", age |-> n] = [p EXCEPT !.age = @ + 1]
        BY <1>1 DEF SynAges
      <3>2. p \in [kind : Answers, age : 0 .. Delay]  BY DEF TypeOK
      <3>3. p.kind = "SYN_ACK" /\ p.age + 1 = n /\ p.age \in 0 .. Delay
        BY <3>1, <3>2
      <3>4. p = [kind |-> "SYN_ACK", age |-> n - 1] /\ n - 1 \in 0 .. Delay /\ n \in Int
        BY <3>2, <3>3, ConstantTypes
      <3> QED  BY <3>4 DEF SynAges
    <2>2. PICK f : f = [n \in SynAges' |-> n - 1]  OBVIOUS
    <2>3. f \in [SynAges' -> SynAges]  BY <2>1, <2>2
    <2>4. \A a, b \in SynAges' : f[a] = f[b] => a = b  BY <2>1, <2>2
    <2> QED  BY <2>3, <2>4, PendingTypes, Fewer
  <1>4. Cardinality(SynBox) \in Nat /\ Left \in Int  BY PendingTypes
  <1> QED  BY <1>2, <1>3, <1>4, NoMorePending

LEMMA TimersPending ==
  ASSUME TypeOK, TypeOK', Accounted, Pending, Timers
  PROVE  Pending'
  <1>1. SynBox' = SynBox  BY DEF Timers, SynBox
  <1>2. /\ Cardinality(SynAges) \in Nat /\ IsFiniteSet(SynAges) /\ Cardinality(SynBox) \in Nat
        /\ Left \in Int /\ Left' \in Int /\ Left <= MaxRetry
        /\ Cardinality(SynAges') \in Nat
    BY PendingTypes, PendingTypesNext, LeftBounded
  <1>3. ASSUME NEW kind, Request(kind), kind # "SYN_ACK"  PROVE SynAges' = SynAges
    <2>1. wire' = wire \/ wire' = wire \cup {[kind |-> kind, age |-> 0]}
      BY <1>3 DEF Request
    <2> QED  BY <1>3, <2>1 DEF SynAges
  <1>4. CASE GiveUp
    <2>1. SynAges' = SynAges /\ Left' = MaxRetry  BY <1>4 DEF GiveUp, SynAges, Left
    <2> QED  BY <1>1, <1>2, <2>1 DEF Pending
  <1>5. CASE st = "SYN_SENT" /\ Request("SYN_ACK") /\ Again(RetryTime)
    <2>1. Left' = Left + 1  BY <1>5 DEF Again, Left
    <2>2. SynAges' = SynAges \/ SynAges' = SynAges \cup {0}
      <3>1. wire' = wire \/ wire' = wire \cup {[kind |-> "SYN_ACK", age |-> 0]}
        BY <1>5 DEF Request
      <3>2. 0 \in 0 .. Delay  BY ConstantTypes
      <3> QED  BY <3>1, <3>2 DEF SynAges
    <2>3. Cardinality(SynAges') <= Cardinality(SynAges) + 1
      BY <1>2, <2>2, FS_AddElement
    <2> QED  BY <1>1, <1>2, <2>1, <2>3 DEF Pending
  <1>6. CASE st = "FIN_SENT" /\ Request("FIN_ACK") /\ Again(RetryTime)
    <2>1. Left' = Left /\ SynAges' = SynAges  BY <1>3, <1>6 DEF Again, Left
    <2> QED  BY <1>1, <2>1 DEF Pending
  <1>7. CASE st = "ESTABLISHED" /\ Request("PONG") /\ Again(Interval)
    <2>1. Left' = Left /\ SynAges' = SynAges  BY <1>3, <1>7 DEF Again, Left
    <2> QED  BY <1>1, <2>1 DEF Pending
  <1>8. CASE UNCHANGED <<st, tries, timer, elapsed, wire, misses>>
    <2>1. Left' = Left /\ SynAges' = SynAges  BY <1>8 DEF Left, SynAges
    <2> QED  BY <1>1, <2>1 DEF Pending
  <1> QED  BY <1>4, <1>5, <1>6, <1>7, <1>8 DEF Timers, RetryTimer, KeepAlive, Attempt

LEMMA PendingKept ==
  ASSUME TypeOK, TypeOK', Accounted, Pending, [Next]_vars
  PROVE  Pending'
  <1> USE DEF connection, tick, environment
  <1>0. addr \in Addr  BY DEF TypeOK
  <1>1. CASE Read    BY <1>1, ReadPending
  <1>2. CASE Timers  BY <1>2, TimersPending
  <1>3. CASE Pass    BY <1>3, PassPending
  <1>4. ASSUME NEW p \in wire, ArriveAnswer(p)  PROVE Pending'
    BY <1>4, ArriveAnswerPending
  <1>5. ASSUME UNCHANGED <<st, tries, wire>>, SynBox' = SynBox  PROVE Pending'
    BY <1>5 DEF Pending, SynAges, Left
  <1>6. CASE StartTick \/ EndRead \/ Die \/ Move \/ UNCHANGED vars
    <2>1. UNCHANGED <<st, tries, wire, inbox>>
      BY <1>6 DEF StartTick, EndRead, Die, Move, vars
    <2> QED  BY <1>5, <2>1 DEF SynBox
  <1>7. CASE Close
    <2>1. Left' = MaxRetry /\ SynAges' = SynAges /\ SynBox' = SynBox
      BY <1>7 DEF Close, Left, SynAges, SynBox
    <2>2. Left <= MaxRetry /\ Left \in Int  BY LeftBounded, PendingTypes
    <2>3. Cardinality(SynAges) \in Nat /\ Cardinality(SynBox) \in Nat  BY PendingTypes
    <2> QED  BY <2>1, <2>2, <2>3, NoMorePending, ConstantTypes
  <1>8. ASSUME NEW k \in {"PING", "DATA"}, NEW a \in 0 .. addr, ArriveOther(k, a)
        PROVE  Pending'
    <2>1. k \in Kinds /\ k # "SYN_ACK" /\ a \in Addr
      BY <1>0, ConstantTypes DEF Kinds, Addr
    <2>2. Whole(k, a) \in Datagram /\ Whole(k, a).head.kind = k
      BY <2>1, WholeType, WholeIsIntact
    <2>3. SynBox' = SynBox  BY <1>8, <2>1, <2>2, ArrivePending DEF ArriveOther
    <2> QED  BY <1>5, <1>8, <2>3 DEF ArriveOther
  <1>9. ASSUME NEW d \in Junk, ArriveJunk(d)  PROVE Pending'
    <2>1. d \in Datagram /\ d.head.kind # "SYN_ACK"  BY <1>0, JunkType, JunkIsNoSynAck
    <2>2. SynBox' = SynBox  BY <1>9, <2>1, ArrivePending DEF ArriveJunk
    <2> QED  BY <1>5, <1>9, <2>2 DEF ArriveJunk
  <1> QED  BY <1>1, <1>2, <1>3, <1>4, <1>6, <1>7, <1>8, <1>9 DEF Next

-----------------------------------------------------------------------------
(***************************************************************************)
(* What ends a wait is never far: before it are the backlog and SYN-ACKs.  *)
(***************************************************************************)
LEMMA EndIsNear ==
  ASSUME NEW box \in Seq(Datagram), NEW m \in 1 .. Len(box), Ends(box[m]),
         \A i \in 1 .. Len(box) :
           i > Backlog => Intact(box[i]) /\ box[i].head.kind \in Answers,
         Cardinality({i \in 1 .. Len(box) : box[i].head.kind = "SYN_ACK"}) < MaxRetry
  PROVE  \E i \in 1 .. Len(box) : i <= Backlog + MaxRetry /\ Ends(box[i])
  <1> SUFFICES ASSUME \A i \in 1 .. Len(box) : i <= Backlog + MaxRetry => ~Ends(box[i])
               PROVE  FALSE
    OBVIOUS
  <1>0. PICK B : B = {i \in 1 .. Len(box) : box[i].head.kind = "SYN_ACK"}  OBVIOUS
  <1>1. Len(box) \in Nat /\ Backlog \in Nat /\ MaxRetry \in Nat
    BY LenProperties, ConstantTypes
  <1>2. m > Backlog + MaxRetry  BY <1>1
  <1>3. ASSUME NEW i \in Backlog + 1 .. Backlog + MaxRetry  PROVE i \in B
    <2>1. i \in 1 .. Len(box) /\ i > Backlog /\ i <= Backlog + MaxRetry
      BY <1>1, <1>2
    <2>2. Intact(box[i]) /\ box[i].head.kind \in Answers /\ ~Ends(box[i])
      BY <2>1
    <2>3. box[i].head.kind = "SYN_ACK"  BY <2>2 DEF Ends, Answers
    <2> QED  BY <1>0, <2>1, <2>3
  <1>4. Cardinality(Backlog + 1 .. Backlog + MaxRetry) = MaxRetry  BY <1>1, FS_Interval
  <1>5. B \in SUBSET (1 .. Len(box)) /\ {} \in SUBSET (0 .. Delay)  BY <1>0
  <1>6. IsFiniteSet(B) /\ Cardinality(B) \in Nat  BY <1>5, Countable
  <1>7. Cardinality(Backlog + 1 .. Backlog + MaxRetry) <= Cardinality(B)
    <2>1. (Backlog + 1 .. Backlog + MaxRetry) \in SUBSET B  BY <1>3
    <2> QED  BY <1>6, <2>1, FS_Subset
  <1> QED  BY <1>0, <1>1, <1>4, <1>6, <1>7

\* Rounds is what Patient says exists.
LEMMA RoundsType ==
  ASSUME Patient
  PROVE  /\ Rounds \in Nat /\ Rounds >= 1
         /\ Backlog + MaxRetry <= Rounds * RecvLimit
         /\ Delay + Rounds * Late <= Interval * (MaxKeep + 1)
         /\ Rounds * RecvLimit \in Nat /\ Rounds * Late \in Nat
         /\ Rounds * Late >= Late
  <1>1. /\ Rounds \in 1 .. Backlog + MaxRetry
        /\ Backlog + MaxRetry <= Rounds * RecvLimit
        /\ Delay + Rounds * Late <= Interval * (MaxKeep + 1)
    BY Zenon DEF Patient, Rounds
  <1>2. Rounds \in Nat /\ Rounds >= 1  BY <1>1, ConstantTypes
  <1>3. PICK k \in Nat : Rounds = k + 1  BY <1>2, Rounds - 1 \in Nat
  <1>4. /\ (k + 1) * RecvLimit \in Nat /\ (k + 1) * Late \in Nat
        /\ (k + 1) * Late = k * Late + Late /\ k * Late \in Nat
    BY ConstantTypes
  <1> QED  BY <1>1, <1>2, <1>3, <1>4, ConstantTypes

\* With enough time left for Rounds calls, the end of the wait comes in time.
LEMMA TimeLeft ==
  ASSUME TypeOK, FreshTick, Patient, NEW i \in Nat, i <= Backlog + MaxRetry,
         Rounds * Late <= timer
  PROVE  InTime(i, Rounds)
  <1>1. /\ Rounds * RecvLimit \in Nat /\ Rounds * Late \in Nat /\ RecvLimit \in Nat
        /\ Backlog \in Nat /\ MaxRetry \in Nat /\ Backlog + MaxRetry <= Rounds * RecvLimit
    BY RoundsType, ConstantTypes
  <1>2. timer \in Int /\ since \in Nat /\ recvd \in 0 .. RecvLimit
        /\ pc \in {"idle", "read", "timers"}
    BY ConstantTypes DEF TypeOK
  <1>3. i <= Rounds * RecvLimit  BY <1>1
  <1>4. i + recvd <= Rounds * RecvLimit + RecvLimit  BY <1>1, <1>2, <1>3
  <1>5. Rounds * Late <= timer + since  BY <1>1, <1>2
  <1> QED  BY <1>2, <1>3, <1>4, <1>5 DEF InTime

\* One call less to come.
LEMMA OneCallLess ==
  ASSUME NEW i \in Nat, i >= 1, NEW n \in Nat, NEW s \in 0 .. Late, NEW t \in Int,
         i <= n * RecvLimit, n * Late <= t + s
  PROVE  \E m \in Nat : i <= m * RecvLimit + RecvLimit /\ m * Late <= t
  <1>1. n # 0  BY ConstantTypes
  <1>2. PICK m \in Nat : n = m + 1  BY <1>1, n - 1 \in Nat
  <1>3. /\ n * RecvLimit = m * RecvLimit + RecvLimit /\ m * RecvLimit \in Nat
        /\ n * Late = m * Late + Late /\ m * Late \in Nat
    BY <1>2, ConstantTypes
  <1>4. m * Late <= t  BY <1>3, ConstantTypes
  <1> QED  BY <1>3, <1>4

\* No time is left for a call.
LEMMA NoTimeLeft ==
  ASSUME NEW i \in Nat, i >= 1, NEW n \in Nat, NEW t \in Int, t <= 0,
         i <= n * RecvLimit, n * Late <= t
  PROVE  FALSE
  <1>1. n # 0  BY ConstantTypes
  <1>2. PICK m \in Nat : n = m + 1  BY <1>1, n - 1 \in Nat
  <1>3. n * Late = m * Late + Late /\ m * Late \in Nat  BY <1>2, ConstantTypes
  <1> QED  BY <1>3, ConstantTypes

-----------------------------------------------------------------------------
(***************************************************************************)
(* The promise that an answer comes in time.                               *)
(***************************************************************************)
LEMMA ComingTypes ==
  ASSUME TypeOK
  PROVE  /\ timer \in Int /\ tries \in Nat /\ since \in 0 .. Late /\ misses \in Nat
         /\ recvd \in 0 .. RecvLimit /\ Len(inbox) \in Nat
         /\ \A p \in wire : p.kind \in Answers /\ p.age \in 0 .. Delay
  <1>1. inbox \in Seq(Datagram)  BY DEF TypeOK
  <1>2. Len(inbox) \in Nat  BY <1>1, LenProperties
  <1> QED  BY <1>2, ConstantTypes DEF TypeOK

\* What arrives changes nothing for what waits already.
LEMMA StillWaiting ==
  ASSUME TypeOK, Waiting, NEW d \in Datagram, Arrive(d),
         UNCHANGED <<tries, timer, pc, recvd, since>>
  PROVE  Waiting'
  <1>1. PICK i \in 1 .. Len(inbox) : /\ Ends(inbox[i])
                                     /\ LastPing => \E n \in Nat : InTime(i, n)
    BY DEF Waiting
  <1>2. i \in 1 .. Len(inbox') /\ inbox'[i] = inbox[i]  BY Appended
  <1>3. Ends(inbox'[i])  BY <1>1, <1>2
  <1>4. LastPing' => \E n \in Nat : InTime(i, n)'  BY <1>1 DEF LastPing, InTime
  <1> QED  BY <1>2, <1>3, <1>4 DEF Waiting, Ends, Intact

LEMMA ArriveOtherComing ==
  ASSUME TypeOK, Coming, NEW d \in Datagram, Arrive(d),
         UNCHANGED <<connection, tick, wire, alive, misses, since, away>>
  PROVE  Coming'
  <1>1. UNCHANGED <<st, tries, timer, pc, recvd, wire, alive, misses, since, away>>
    BY DEF connection, tick
  <1>2. UnderWay => UnderWay'  BY <1>1 DEF UnderWay, LastPing
  <1>3. Waiting => Waiting'  BY <1>1, StillWaiting
  <1> QED  BY <1>1, <1>2, <1>3 DEF Coming

LEMMA ArriveAnswerComing ==
  ASSUME TypeOK, TypeOK', Patient, FreshTick, Orderly', Pending', Coming,
         NEW p \in wire, ArriveAnswer(p)
  PROVE  Coming'
  <1>1. /\ UNCHANGED <<st, tries, timer, pc, recvd, alive, misses, since, away>>
        /\ wire' = wire \ {p} /\ Arrive(Whole(p.kind, addr))
    BY DEF ArriveAnswer, connection, tick
  <1>2. p.kind \in Kinds /\ p.age \in 0 .. Delay /\ addr \in Addr  BY DEF TypeOK, Kinds
  <1>3. PICK d \in Datagram : d = Whole(p.kind, addr)  BY <1>2, WholeType
  <1>4. Intact(d) /\ d.head.kind = p.kind  BY <1>2, <1>3, WholeIsIntact
  <1> SUFFICES ASSUME st = "ESTABLISHED", UnderWay \/ Waiting
               PROVE  UnderWay' \/ Waiting'
    BY <1>1 DEF Coming
  <1>5. CASE Waiting  BY <1>1, <1>3, <1>5, StillWaiting
  <1>6. CASE UnderWay
    <2>1. PICK q \in wire : /\ q.kind = "PONG"
                            /\ LastPing => Delay - q.age + Rounds * Late <= timer
      BY <1>6 DEF UnderWay
    <2>2. CASE q # p
      <3>1. q \in wire'  BY <1>1, <2>2
      <3>2. LastPing' => Delay - q.age + Rounds * Late <= timer'
        BY <1>1, <2>1 DEF LastPing
      <3> QED  BY <2>1, <3>1, <3>2 DEF UnderWay
    <2>3. CASE q = p
      <3>1. /\ inbox' \in Seq(Datagram) /\ Len(inbox) + 1 \in 1 .. Len(inbox')
            /\ inbox'[Len(inbox) + 1] = d
        BY <1>1, <1>3, Appended DEF TypeOK
      <3>2. Ends(inbox'[Len(inbox) + 1])  BY <1>4, <2>1, <2>3, <3>1 DEF Ends
      <3>3. CASE ~LastPing
        <4>1. ~LastPing'  BY <1>1, <3>3 DEF LastPing
        <4> QED  BY <3>1, <3>2, <4>1 DEF Waiting, Ends, Intact
      <3>4. CASE LastPing
        <4>1. Rounds * Late <= timer
          <5>1. Delay - p.age + Rounds * Late <= timer  BY <2>1, <2>3, <3>4
          <5>2. Rounds * Late \in Nat /\ timer \in Int /\ Delay \in Nat
            BY RoundsType, ComingTypes, ConstantTypes
          <5> QED  BY <1>2, <5>1, <5>2
        <4>2. Cardinality({i \in 1 .. Len(inbox') : inbox'[i].head.kind = "SYN_ACK"})
                < MaxRetry
          <5>1. /\ Cardinality(SynAges') \in Nat /\ Cardinality(SynBox') \in Nat
                /\ MaxRetry \in Nat
            BY PendingTypesNext, ConstantTypes
          <5>2. Cardinality(SynAges') + Cardinality(SynBox') <= MaxRetry - 1
            BY <1>1 DEF Pending, Left
          <5>3. Cardinality(SynBox') < MaxRetry  BY <5>1, <5>2
          <5> QED  BY <5>3 DEF SynBox
        <4>3. \A i \in 1 .. Len(inbox') :
                i > Backlog => Intact(inbox'[i]) /\ inbox'[i].head.kind \in Answers
          BY DEF Orderly, Intact
        <4>4. PICK i \in 1 .. Len(inbox') : i <= Backlog + MaxRetry /\ Ends(inbox'[i])
          BY <3>1, <3>2, <4>2, <4>3, EndIsNear
        <4>5. i \in Nat  OBVIOUS
        <4>6. InTime(i, Rounds)  BY <4>1, <4>4, <4>5, TimeLeft
        <4>7. InTime(i, Rounds)' /\ Rounds \in Nat  BY <1>1, <4>6, RoundsType DEF InTime
        <4> QED  BY <4>4, <4>7 DEF Waiting, Ends, Intact
      <3> QED  BY <3>3, <3>4
    <2> QED  BY <2>2, <2>3
  <1> QED  BY <1>5, <1>6

LEMMA ReadComing ==
  ASSUME TypeOK, Coming, Read
  PROVE  Coming'
  <1>1. /\ Len(inbox) \in Nat /\ Len(inbox) >= 1 /\ Len(inbox') = Len(inbox) - 1
        /\ Head(inbox) = inbox[1]
        /\ \A i \in 1 .. Len(inbox') : inbox'[i] = inbox[i + 1]
    BY Taken
  <1>2. UNCHANGED <<pc, wire, alive, misses, since>> /\ pc = "read"  BY DEF Read
  <1>3. recvd \in Nat /\ recvd' \in {recvd, recvd + 1}
    <2>1. recvd' \in {recvd, recvd + 1}
      BY DEF Read, Reject, Dispatch, Counted
    <2> QED  BY <2>1, ConstantTypes, ComingTypes
  <1>4. misses \in Nat  BY ComingTypes
  <1> SUFFICES ASSUME st' = "ESTABLISHED", alive, ~away', tries' > misses
               PROVE  UnderWay' \/ Waiting'
    BY <1>2 DEF Coming
  <1>5. /\ st = "ESTABLISHED" /\ tries' = tries /\ timer' = timer /\ ~away
        /\ ~Ends(Head(inbox))
    <2>1. CASE Reject
      <3>1. ~Intact(Head(inbox))  BY <2>1, IntactIsHandled DEF Reject, Dispatch
      <3> QED  BY <2>1, <3>1 DEF Reject, connection, Ends
    <2>2. CASE Dispatch
      <3>1. CASE Head(inbox).head.kind = "SYN_ACK" /\ OnSynAck
        BY <1>4, <3>1 DEF OnSynAck, Start, Ends
      <3>2. CASE OnFinAck  BY <3>2 DEF OnFinAck
      <3>3. CASE OnPong  BY <1>4, <3>3 DEF OnPong, Start
      <3>4. CASE Head(inbox).head.kind = "PING" /\ OnPing
        BY <3>4 DEF OnPing, connection, Ends
      <3>5. CASE Head(inbox).head.kind = "DATA" /\ OnData(Head(inbox))
        BY <3>5 DEF OnData, Ends
      <3> QED  BY <2>2, <3>1, <3>2, <3>3, <3>4, <3>5, HandledHead
    <2> QED  BY <2>1, <2>2 DEF Read
  <1>6. UnderWay \/ Waiting  BY <1>5 DEF Coming
  <1>7. CASE UnderWay  BY <1>2, <1>5, <1>7 DEF UnderWay, LastPing
  <1>8. CASE Waiting
    <2>1. PICK i \in 1 .. Len(inbox) : /\ Ends(inbox[i])
                                       /\ LastPing => \E n \in Nat : InTime(i, n)
      BY <1>8 DEF Waiting
    <2>2. i # 1  BY <1>1, <1>5, <2>1
    <2>3. i - 1 \in 1 .. Len(inbox') /\ (i - 1) + 1 = i  BY <1>1, <2>2
    <2>4. inbox'[i - 1] = inbox[i]  BY <1>1, <2>3
    <2>5. ASSUME LastPing'  PROVE \E n \in Nat : InTime(i - 1, n)'
      <3>1. PICK n \in Nat : InTime(i, n)  BY <1>5, <2>1, <2>5 DEF LastPing
      <3>2. i + recvd <= n * RecvLimit + RecvLimit /\ n * Late <= timer
        BY <1>2, <3>1 DEF InTime
      <3>3. PICK a \in Nat : a = n * RecvLimit + RecvLimit  BY ConstantTypes
      <3>4. i + recvd <= a  BY <3>2, <3>3
      <3>5. (i - 1) + recvd' <= a  BY <1>3, <3>3, <3>4
      <3> QED  BY <1>2, <1>5, <3>2, <3>3, <3>5 DEF InTime
    <2> QED  BY <2>1, <2>3, <2>4, <2>5 DEF Waiting, Ends, Intact
  <1> QED  BY <1>6, <1>7, <1>8

LEMMA StartTickComing ==
  ASSUME TypeOK, FreshTick, Coming, StartTick
  PROVE  Coming'
  <1>1. /\ UNCHANGED <<st, tries, timer, recvd, inbox, wire, alive, misses, since, away>>
        /\ pc = "idle" /\ pc' = "read" /\ recvd = 0
    BY DEF StartTick, connection, environment, FreshTick
  <1>2. UnderWay => UnderWay'  BY <1>1 DEF UnderWay, LastPing
  <1>3. ASSUME Waiting  PROVE Waiting'
    <2>1. PICK i \in 1 .. Len(inbox) : /\ Ends(inbox[i])
                                       /\ LastPing => \E n \in Nat : InTime(i, n)
      BY <1>3 DEF Waiting
    <2>2. ASSUME LastPing'  PROVE \E n \in Nat : InTime(i, n)'
      <3>1. PICK n \in Nat : InTime(i, n)  BY <1>1, <2>1, <2>2 DEF LastPing
      <3>2. i <= n * RecvLimit /\ n * Late <= timer + since  BY <1>1, <3>1 DEF InTime
      <3>3. i \in Nat /\ i >= 1 /\ since \in 0 .. Late /\ timer \in Int  BY ComingTypes
      <3>4. PICK m \in Nat : i <= m * RecvLimit + RecvLimit /\ m * Late <= timer
        BY <3>2, <3>3, OneCallLess
      <3>5. i + recvd' <= m * RecvLimit + RecvLimit  BY <1>1, <3>3, <3>4
      <3> QED  BY <1>1, <3>4, <3>5 DEF InTime
    <2> QED  BY <1>1, <2>1, <2>2 DEF Waiting, Ends, Intact
  <1> QED  BY <1>1, <1>2, <1>3 DEF Coming

LEMMA EndReadComing ==
  ASSUME TypeOK, Coming, EndRead
  PROVE  Coming'
  <1>1. /\ UNCHANGED <<st, tries, timer, recvd, inbox, wire, alive, misses, since, away>>
        /\ pc = "read" /\ pc' = "timers" /\ (LimitReached \/ inbox = << >>)
    BY DEF EndRead, connection, environment
  <1>2. UnderWay => UnderWay'  BY <1>1 DEF UnderWay, LastPing
  <1>3. ASSUME Waiting  PROVE Waiting'
    <2>1. PICK i \in 1 .. Len(inbox) : /\ Ends(inbox[i])
                                       /\ LastPing => \E n \in Nat : InTime(i, n)
      BY <1>3 DEF Waiting
    <2>2. recvd \in Nat /\ recvd >= RecvLimit
      <3>1. inbox # << >>  BY <2>1
      <3> QED  BY <1>1, <3>1, ComingTypes, ConstantTypes DEF LimitReached
    <2>3. ASSUME LastPing'  PROVE \E n \in Nat : InTime(i, n)'
      <3>1. PICK n \in Nat : InTime(i, n)  BY <1>1, <2>1, <2>3 DEF LastPing
      <3>2. i + recvd <= n * RecvLimit + RecvLimit /\ n * Late <= timer
        BY <1>1, <3>1 DEF InTime
      <3>3. PICK a \in Nat : a = n * RecvLimit  BY ConstantTypes
      <3>4. i <= a  BY <2>2, <3>2, <3>3, ConstantTypes
      <3> QED  BY <1>1, <3>2, <3>3, <3>4 DEF InTime
    <2> QED  BY <1>1, <2>1, <2>3 DEF Waiting, Ends, Intact
  <1> QED  BY <1>1, <1>2, <1>3 DEF Coming

\* Answers come closer as the timer runs down.
LEMMA PassComing ==
  ASSUME TypeOK, Patient, Coming, Pass
  PROVE  Coming'
  <1>1. /\ UNCHANGED <<st, tries, pc, inbox, alive, misses, away>>
        /\ pc = "idle" /\ since' = since + 1
        /\ wire' = {[p EXCEPT !.age = @ + 1] : p \in wire}
        /\ st # "CLOSED" => timer' = timer - 1
    BY DEF Pass, tick
  <1>2. timer \in Int /\ since \in Nat /\ Delay \in Nat  BY ComingTypes, ConstantTypes
  <1> SUFFICES ASSUME st = "ESTABLISHED", UnderWay \/ Waiting
               PROVE  UnderWay' \/ Waiting'
    BY <1>1 DEF Coming
  <1>3. timer' = timer - 1  BY <1>1
  <1>4. CASE UnderWay
    <2>1. PICK p \in wire : /\ p.kind = "PONG"
                            /\ LastPing => Delay - p.age + Rounds * Late <= timer
      BY <1>4 DEF UnderWay
    <2>2. PICK q : q = [p EXCEPT !.age = @ + 1]  OBVIOUS
    <2>3. p \in [kind : Answers, age : 0 .. Delay]  BY DEF TypeOK
    <2>4. q \in wire' /\ q.kind = "PONG" /\ q.age = p.age + 1 /\ p.age \in Int
      BY <1>1, <2>1, <2>2, <2>3
    <2>5. ASSUME LastPing  PROVE Delay - q.age + Rounds * Late <= timer'
      <3>1. Delay - p.age + Rounds * Late <= timer  BY <2>1, <2>5
      <3>2. PICK a \in Nat : a = Rounds * Late  BY RoundsType
      <3>3. Delay - q.age + a <= timer'  BY <1>2, <1>3, <2>4, <3>1, <3>2
      <3> QED  BY <3>2, <3>3
    <2> QED  BY <1>1, <2>4, <2>5 DEF UnderWay, LastPing
  <1>5. CASE Waiting
    <2>1. PICK i \in 1 .. Len(inbox) : /\ Ends(inbox[i])
                                       /\ LastPing => \E n \in Nat : InTime(i, n)
      BY <1>5 DEF Waiting
    <2>2. ASSUME LastPing'  PROVE \E n \in Nat : InTime(i, n)'
      <3>1. PICK n \in Nat : InTime(i, n)  BY <1>1, <2>1, <2>2 DEF LastPing
      <3>2. i <= n * RecvLimit /\ n * Late <= timer + since  BY <1>1, <3>1 DEF InTime
      <3>3. timer' + since' = timer + since  BY <1>1, <1>2, <1>3
      <3> QED  BY <1>1, <3>2, <3>3 DEF InTime
    <2> QED  BY <1>1, <2>1, <2>2 DEF Waiting, Ends, Intact
  <1> QED  BY <1>4, <1>5

\* While the connection waits no timer fires too early: a PING that is not
\* answered yet is followed by another one, and the last is the most patient.
LEMMA TimersComing ==
  ASSUME TypeOK, Patient, Located, Orderly, Pending, Coming, Timers
  PROVE  Coming'
  <1>1. /\ UNCHANGED <<inbox, alive, away>> /\ pc = "timers" /\ pc' = "idle" /\ since' = 0
    BY DEF Timers
  <1>2. timer \in Int /\ tries \in Nat /\ misses \in Nat  BY ComingTypes
  <1> SUFFICES ASSUME st' = "ESTABLISHED", alive, ~away, tries' > misses'
               PROVE  UnderWay' \/ Waiting'
    BY <1>1 DEF Coming
  <1>3. /\ st = "ESTABLISHED"
        /\ \/ tries <= MaxKeep /\ Request("PONG") /\ Again(Interval)
           \/ UNCHANGED <<st, tries, timer, wire, misses>>
    <2>1. CASE RetryTimer
      <3>1. st \in Attempt /\ st' # "CLOSED" /\ st' = st
        BY <2>1 DEF RetryTimer, GiveUp, Again
      <3> QED  BY <3>1 DEF Attempt
    <2>2. CASE KeepAlive
      <3>1. ~GiveUp  BY DEF GiveUp
      <3>2. /\ st = "ESTABLISHED" /\ ~(tries > MaxKeep)
            /\ Request("PONG") /\ Again(Interval)
        BY <2>2, <3>1 DEF KeepAlive, Unanswered
      <3> QED  BY <1>2, <3>2, ConstantTypes
    <2>3. CASE UNCHANGED <<st, tries, timer, elapsed, wire, misses>>  BY <2>3
    <2> QED  BY <2>1, <2>2, <2>3 DEF Timers
  <1>4. CASE UNCHANGED <<st, tries, timer, wire, misses>>
    <2>1. UnderWay => UnderWay'  BY <1>4 DEF UnderWay, LastPing
    <2>2. ASSUME Waiting  PROVE Waiting'
      <3>1. PICK i \in 1 .. Len(inbox) : /\ Ends(inbox[i])
                                         /\ LastPing => \E n \in Nat : InTime(i, n)
        BY <2>2 DEF Waiting
      <3>2. ASSUME LastPing'  PROVE \E n \in Nat : InTime(i, n)'
        <4>1. PICK n \in Nat : InTime(i, n)  BY <1>4, <3>1, <3>2 DEF LastPing
        <4>2. i <= n * RecvLimit /\ n * Late <= timer  BY <1>1, <4>1 DEF InTime
        <4>3. timer' + since' = timer  BY <1>1, <1>2, <1>4
        <4> QED  BY <1>1, <4>2, <4>3 DEF InTime
      <3> QED  BY <1>1, <3>1, <3>2 DEF Waiting, Ends, Intact
    <2> QED  BY <1>3, <1>4, <2>1, <2>2 DEF Coming
  <1>5. CASE tries <= MaxKeep /\ Request("PONG") /\ Again(Interval)
    <2>1. tries' = tries + 1 /\ timer' = Interval * (tries + 1)  BY <1>5 DEF Again
    <2>2. LastPing' => timer' = Interval * (MaxKeep + 1)
      <3> SUFFICES ASSUME LastPing'  PROVE tries = MaxKeep
        BY <2>1
      <3> QED  BY <1>2, <1>5, <2>1, ConstantTypes DEF LastPing
    <2>3. ASSUME NEW a \in 0 .. Delay, LastPing'
          PROVE  Delay - a + Rounds * Late <= timer' /\ Rounds * Late <= timer'
      <3>1. Rounds * Late \in Nat /\ Delay + Rounds * Late <= timer' /\ Delay \in Nat
        BY <2>2, <2>3, RoundsType, ConstantTypes
      <3>2. timer' \in Int  BY <1>2, <2>1, ConstantTypes, NextSum
      <3> QED  BY <3>1, <3>2
    <2>4. ASSUME NEW p \in wire', p.kind = "PONG", p.age \in 0 .. Delay
          PROVE  UnderWay'
      BY <2>3, <2>4 DEF UnderWay
    <2>5. peer = addr  BY DEF Located
    <2>6. CASE wire' = wire \cup {[kind |-> "PONG", age |-> 0]}
      <3>1. PICK p : p = [kind |-> "PONG", age |-> 0]  OBVIOUS
      <3>2. p \in wire' /\ p.kind = "PONG" /\ p.age \in 0 .. Delay
        BY <2>6, <3>1, ConstantTypes
      <3> QED  BY <2>4, <3>2
    <2>7. CASE misses' = misses + 1 /\ wire' = wire
      <3>1. UnderWay \/ Waiting  BY <1>2, <1>3, <2>1, <2>7 DEF Coming
      <3>2. CASE UnderWay
        <4>1. PICK p \in wire : p.kind = "PONG"  BY <3>2 DEF UnderWay
        <4> QED  BY <2>4, <2>7, <4>1, ComingTypes
      <3>3. CASE Waiting
        <4>1. PICK m \in 1 .. Len(inbox) : Ends(inbox[m])  BY <3>3 DEF Waiting
        <4>2. Cardinality(SynBox) < MaxRetry
          <5>1. /\ Cardinality(SynAges) \in Nat /\ Cardinality(SynBox) \in Nat
                /\ MaxRetry \in Nat
            BY PendingTypes, ConstantTypes
          <5>2. Cardinality(SynAges) + Cardinality(SynBox) <= MaxRetry - 1
            BY <1>3 DEF Pending, Left
          <5> QED  BY <5>1, <5>2
        <4>3. inbox \in Seq(Datagram)  BY DEF TypeOK
        <4>4. PICK i \in 1 .. Len(inbox) : i <= Backlog + MaxRetry /\ Ends(inbox[i])
          BY <4>1, <4>2, <4>3, EndIsNear DEF Orderly, SynBox
        <4>5. ASSUME LastPing'  PROVE InTime(i, Rounds)'
          <5>1. Rounds * Late <= timer'
            <6>1. 0 \in 0 .. Delay  BY ConstantTypes
            <6> QED  BY <2>3, <4>5, <6>1
          <5>2. /\ Backlog + MaxRetry <= Rounds * RecvLimit /\ Rounds * RecvLimit \in Nat
                /\ Backlog \in Nat /\ MaxRetry \in Nat
            BY RoundsType, ConstantTypes
          <5>3. i <= Rounds * RecvLimit  BY <4>4, <5>2
          <5>4. timer' \in Int  BY <1>2, <2>1, ConstantTypes, NextSum
          <5>5. timer' + since' = timer'
            <6>1. \A t \in Int : t + 0 = t  OBVIOUS
            <6> QED  BY <1>1, <5>4, <6>1
          <5> QED  BY <1>1, <5>1, <5>3, <5>5 DEF InTime
        <4>6. Rounds \in Nat  BY RoundsType
        <4> QED  BY <1>1, <4>4, <4>5, <4>6 DEF Waiting, Ends, Intact
      <3> QED  BY <3>1, <3>2, <3>3
    <2> QED  BY <1>5, <2>5, <2>6, <2>7 DEF Request
  <1> QED  BY <1>3, <1>4, <1>5

LEMMA ComingKept ==
  ASSUME TypeOK, TypeOK', Patient, FreshTick, Located, Orderly, Orderly',
         Pending, Pending', Coming, [Next]_vars
  PROVE  Coming'
  <1>0. addr \in Addr  BY DEF TypeOK
  <1>1. CASE StartTick  BY <1>1, StartTickComing
  <1>2. CASE EndRead    BY <1>2, EndReadComing
  <1>3. CASE Read       BY <1>3, ReadComing
  <1>4. CASE Timers     BY <1>4, TimersComing
  <1>5. CASE Pass       BY <1>5, PassComing
  <1>6. CASE Close \/ Die \/ Move  BY <1>6 DEF Close, Die, Move, Coming
  <1>7. CASE UNCHANGED vars
    <2>1. UNCHANGED <<st, tries, timer, pc, recvd, inbox, wire, alive, misses, since, away>>
      BY <1>7 DEF vars, connection, tick, environment
    <2>2. (UnderWay => UnderWay') /\ (Waiting => Waiting')
      BY <2>1 DEF UnderWay, Waiting, LastPing, InTime, Ends, Intact
    <2> QED  BY <2>1, <2>2 DEF Coming
  <1>8. ASSUME NEW p \in wire, ArriveAnswer(p)  PROVE Coming'
    BY <1>8, ArriveAnswerComing
  <1>9. ASSUME NEW k \in {"PING", "DATA"}, NEW a \in 0 .. addr, ArriveOther(k, a)
        PROVE  Coming'
    <2>1. a \in Addr  BY <1>0, ConstantTypes DEF Addr
    <2>2. Whole(k, a) \in Datagram  BY <2>1, WholeType DEF Kinds
    <2> QED  BY <1>9, <2>2, ArriveOtherComing DEF ArriveOther
  <1>10. ASSUME NEW d \in Junk, ArriveJunk(d)  PROVE Coming'
    <2>1. d \in Datagram  BY <1>0, JunkType
    <2> QED  BY <1>10, <2>1, ArriveOtherComing DEF ArriveJunk
  <1> QED  BY <1>1, <1>2, <1>3, <1>4, <1>5, <1>6, <1>7, <1>8, <1>9, <1>10 DEF Next

-----------------------------------------------------------------------------
(***************************************************************************)
(* The theorem.                                                            *)
(***************************************************************************)
LEMMA PromiseInit == Init => Promise
  <1> SUFFICES ASSUME Init  PROVE Promise  OBVIOUS
  <1>1. /\ st = "SYN_SENT" /\ tries = 0 /\ peer = 0 /\ addr = 0 /\ recvd = 0
        /\ inbox = << >> /\ wire = {}
    BY DEF Init
  <1>2. Len(inbox) = 0  BY <1>1, EmptySeq
  <1>3. SynAges = {} /\ SynBox = {}  BY <1>1, <1>2 DEF SynAges, SynBox
  <1>4. Pending
    <2>1. Cardinality(SynAges) = 0 /\ Cardinality(SynBox) = 0 /\ Left = 0
      BY <1>1, <1>3, FS_EmptySet DEF Left
    <2> QED  BY <2>1 DEF Pending
  <1>5. FreshTick /\ Located /\ Orderly /\ Coming
    BY <1>1, <1>2 DEF FreshTick, Located, Orderly, Coming
  <1> QED  BY <1>4, <1>5 DEF Promise

LEMMA PromiseKept ==
  ASSUME Patient, TypeOK, TypeOK', Accounted, Promise, [Next]_vars
  PROVE  Promise'
  <1>1. FreshTick' /\ Located' /\ Orderly'
    BY FreshTickKept, LocatedKept, OrderlyKept DEF Promise
  <1>2. Pending'  BY PendingKept DEF Promise
  <1>3. Coming'  BY <1>1, <1>2, ComingKept DEF Promise
  <1> QED  BY <1>1, <1>2, <1>3 DEF Promise

\* The keep-alive gives up only when nothing is coming.
LEMMA GivesUpTheLost ==
  ASSUME Patient, TypeOK, Accounted, Promise, [Next]_vars,
         st = "ESTABLISHED", st' = "CLOSED", pc = "timers", alive, ~away
  PROVE  FALSE
  <1> USE DEF connection, tick, environment
  <1>0. Timers
    <2>1. ~(Close \/ StartTick \/ EndRead \/ Read \/ Pass \/ Die \/ Move)
      BY DEF Close, StartTick, EndRead, Read, Pass, Die, Move
    <2>2. ASSUME NEW p, ArriveAnswer(p)  PROVE FALSE  BY <2>2 DEF ArriveAnswer
    <2>3. ASSUME NEW k, NEW a, ArriveOther(k, a)  PROVE FALSE  BY <2>3 DEF ArriveOther
    <2>4. ASSUME NEW d, ArriveJunk(d)  PROVE FALSE  BY <2>4 DEF ArriveJunk
    <2>5. ~UNCHANGED vars  BY DEF vars
    <2> QED  BY <2>1, <2>2, <2>3, <2>4, <2>5 DEF Next
  <1>1. timer <= 0 /\ tries > MaxKeep
    <2>1. ~RetryTimer  BY DEF RetryTimer, Attempt
    <2>2. KeepAlive  BY <1>0, <2>1 DEF Timers
    <2> QED  BY <2>2 DEF KeepAlive, Expired, Unanswered, Again
  <1>2. /\ timer \in Int /\ tries \in Nat /\ misses \in Nat /\ misses <= MaxMiss
        /\ MaxMiss \in Nat /\ MaxKeep \in Nat /\ Late \in Nat /\ Late > 0
    BY ComingTypes, ConstantTypes DEF TypeOK
  <1>3. tries > misses  BY <1>1, <1>2 DEF Patient
  <1>4. UnderWay \/ Waiting  BY <1>3 DEF Promise, Coming
  <1>5. CASE UnderWay
    <2>1. PICK p \in wire : Delay - p.age + Rounds * Late <= timer
      BY <1>1, <1>5 DEF UnderWay, LastPing
    <2>2. p.age \in 0 .. Delay  BY ComingTypes
    <2>3. PICK a \in Nat : a = Rounds * Late /\ a >= Late  BY RoundsType
    <2> QED  BY <1>1, <1>2, <2>1, <2>2, <2>3, ConstantTypes
  <1>6. CASE Waiting
    <2>1. PICK i \in 1 .. Len(inbox) : \E n \in Nat : InTime(i, n)
      BY <1>1, <1>6 DEF Waiting, LastPing
    <2>2. PICK n \in Nat : i <= n * RecvLimit /\ n * Late <= timer
      BY <2>1 DEF InTime
    <2>3. i \in Nat /\ i >= 1  OBVIOUS
    <2> QED  BY <1>1, <1>2, <2>2, <2>3, NoTimeLeft
  <1> QED  BY <1>4, <1>5, <1>6

(***************************************************************************)
(* glb_tick closes a connection for silence only if the peer died, or if   *)
(* it changed its address, or a late datagram moved the connection to one  *)
(* it had left, and no PONG has come since: provided the path does not     *)
(* lose as many PINGs in a row as are sent, and the longest keep-alive     *)
(* timer covers the delay of an answer and the calls that read what is     *)
(* before it.  Datagrams from every address the peer ever had may arrive   *)
(* at any time.                                                            *)
(***************************************************************************)
THEOREM KeepsTheLiving ==
  ASSUME Patient
  PROVE  Spec => Kept
<1>1. Init => Promise
  BY PromiseInit
<1>2. TypeOK /\ TypeOK' /\ Accounted /\ Promise /\ [Next]_vars => Promise'
  BY PromiseKept
<1>3. TypeOK /\ Accounted /\ Promise /\ [Next]_vars
        => [st = "ESTABLISHED" /\ st' = "CLOSED" /\ pc = "timers" => ~alive \/ away]_vars
  BY GivesUpTheLost
<1> QED  BY <1>1, <1>2, <1>3, TypeCorrect, Timekeeping, PTL DEF Spec, Kept

=============================================================================
