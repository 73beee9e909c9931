----------------------------- MODULE TickProofs -----------------------------
(***************************************************************************)
(* Proofs about Tick: type correctness, the time a connection may wait,    *)
(* and that only whole packets are handled, for every interval, limit and  *)
(* length of packets.                                                      *)
(*                                                                         *)
(* How long a connection waits is not inductive: it follows from the       *)
(* account of Accounted, in which the time since the start and the time    *)
(* that remains are at most the timers started so far, and no timer is     *)
(* overdue by more than the time since the last call of glb_tick.          *)
(***************************************************************************)
EXTENDS Tick, TLAPS

-----------------------------------------------------------------------------
(***************************************************************************)
(* Arithmetic.                                                             *)
(***************************************************************************)

\* The timers up to the k-th, and the next one.
LEMMA NextSum ==
  ASSUME NEW R \in Nat, NEW k \in Nat
  PROVE  /\ R * (k * (k + 1)) \in Nat
         /\ R * (k + 1) \in Nat
         /\ R * (k * (k + 1)) + 2 * (R * (k + 1)) = R * ((k + 1) * ((k + 1) + 1))
  OBVIOUS

LEMMA SumGrows ==
  ASSUME NEW R \in Nat, NEW k \in Nat, NEW m \in Nat, k <= m
  PROVE  /\ R * (k * (k + 1)) \in Nat /\ R * (m * (m + 1)) \in Nat
         /\ R * (k * (k + 1)) <= R * (m * (m + 1))
  <1>1. PICK d \in Nat : m = k + d  BY m - k \in Nat
  <1>2. R * (m * (m + 1)) = R * (k * (k + 1)) + R * (d * (2 * k + d + 1))  BY <1>1
  <1>3. R * (d * (2 * k + d + 1)) \in Nat  BY <1>1
  <1> QED  BY <1>2, <1>3

LEMMA LateGrows ==
  ASSUME NEW L \in Nat, NEW k \in Nat, NEW m \in Nat, k <= m
  PROVE  /\ k * L \in Nat /\ m * L \in Nat
         /\ k * L <= m * L
         /\ (k + 1) * L = k * L + L
  OBVIOUS

-----------------------------------------------------------------------------
(***************************************************************************)
(* Types.                                                                  *)
(***************************************************************************)

LEMMA ConstantTypes ==
  /\ Interval \in Nat /\ RetryTime \in Nat /\ RecvLimit \in Nat /\ HeaderLen \in Nat
  /\ Interval > 0 /\ RetryTime > 0 /\ RecvLimit > 0 /\ HeaderLen > 0
  /\ Late \in Nat /\ Late > 0
  /\ MaxKeep \in Nat /\ MaxRetry \in Nat /\ MTU \in Nat /\ Delay \in Nat
  /\ MaxMiss \in Nat /\ Backlog \in Nat /\ MaxMove \in Nat /\ MaxJunk \in Nat
  BY TickAssumption

\* What arrives is a datagram.
LEMMA SoundType ==
  ASSUME NEW k \in Kinds
  PROVE  Sound(k) \in Header
  BY ConstantTypes DEF Sound, Header, Kinds

LEMMA GramType ==
  ASSUME NEW h \in Header, NEW n \in -1 .. HeaderLen + MTU + 1,
         NEW right \in BOOLEAN, NEW a \in Addr
  PROVE  Gram(h, n, right, a) \in Datagram
  BY DEF Gram, Datagram

LEMMA WholeType ==
  ASSUME NEW k \in Kinds, NEW a \in Addr
  PROVE  Whole(k, a) \in Datagram
  <1>1. Sound(k) \in Header  BY SoundType
  <1>2. HeaderLen + Sound(k).payload \in -1 .. HeaderLen + MTU + 1
    BY ConstantTypes DEF Sound
  <1> QED  BY <1>1, <1>2, GramType DEF Whole

LEMMA JunkType ==
  ASSUME addr \in Addr
  PROVE  Junk \subseteq Datagram
  <1>1. Sound("PONG") \in Header /\ Sound("DATA") \in Header
    BY SoundType DEF Kinds, Answers
  <1>4. [Sound("PONG") EXCEPT !.magic = FALSE] \in Header  BY <1>1 DEF Header
  <1>5. MTU + 1 \in 0 .. MTU + 1  BY ConstantTypes
  <1>6. [Sound("PONG") EXCEPT !.payload = MTU + 1] \in Header  BY <1>1, <1>5 DEF Header
  <1>2. {HeaderLen, HeaderLen + MTU, HeaderLen + MTU + 1, HeaderLen + MTU - 1,
         HeaderLen - 1, 0, -1} \subseteq -1 .. HeaderLen + MTU + 1
    BY ConstantTypes
  <1>3. {TRUE, FALSE} \subseteq BOOLEAN  OBVIOUS
  <1> QED  BY <1>1, <1>2, <1>3, <1>4, <1>6, GramType DEF Junk

LEMMA FilledType ==
  ASSUME NEW h \in Header, NEW d \in Datagram
  PROVE  Filled(h, d) \in Header
  BY ConstantTypes DEF Filled, Header, Datagram

\* The handlers of packets.
Handlers(d) == OnSynAck \/ OnFinAck \/ OnPong \/ OnPing \/ OnData(d)

LEMMA DispatchHandles ==
  ASSUME Dispatch
  PROVE  Handlers(Head(inbox)) /\ recvd' = Counted(recvd)
  BY DEF Dispatch, Handlers

LEMMA HandlerTypes ==
  ASSUME NEW d \in Datagram, TypeOK, Handlers(d)
  PROVE  /\ st' \in States
         /\ tries' \in 0 .. MaxRetry \cup 0 .. MaxKeep + 1
         /\ timer' \in Int /\ elapsed' \in Nat
         /\ peer' \in Addr
         /\ pkg' \in Header
         /\ away' \in BOOLEAN
  <1> USE ConstantTypes DEF TypeOK, States, Attempt
  <1>1. \A k \in Kinds : Sound(k) \in Header  BY SoundType
  <1>2. {"SYN_ACK", "FIN_ACK", "PONG", "DATA"} \subseteq Kinds  BY DEF Kinds, Answers
  <1>3. d.from \in Addr  BY DEF Datagram
  <1>4. CASE OnSynAck  BY <1>1, <1>2, <1>4 DEF OnSynAck, Start
  <1>5. CASE OnFinAck  BY <1>1, <1>2, <1>5 DEF OnFinAck, Start
  <1>6. CASE OnPong    BY <1>1, <1>2, <1>6 DEF OnPong, Start
  <1>7. CASE OnPing    BY <1>1, <1>2, <1>7 DEF OnPing, connection
  <1>8. CASE OnData(d) BY <1>1, <1>2, <1>3, <1>8 DEF OnData
  <1> QED  BY <1>4, <1>5, <1>6, <1>7, <1>8 DEF Handlers

LEMMA ReadTypes ==
  ASSUME TypeOK, Read
  PROVE  TypeOK'
  <1> USE ConstantTypes DEF TypeOK, Read
  <1>1. Head(inbox) \in Datagram /\ Tail(inbox) \in Seq(Datagram)  OBVIOUS
  <1>2. CASE Reject
    <2>1. Filled(pkg, Head(inbox)) \in Header  BY <1>1, FilledType
    <2> QED  BY <1>1, <1>2, <2>1 DEF Reject, connection
  <1>3. CASE Dispatch
    <2>1. Handlers(Head(inbox)) /\ recvd' = recvd + 1
      BY <1>3, DispatchHandles DEF Counted
    <2>2. recvd' \in 0 .. RecvLimit  BY <2>1 DEF LimitReached
    <2> QED  BY <1>1, <2>1, <2>2, HandlerTypes
  <1> QED  BY <1>2, <1>3

LEMMA RequestTypes ==
  ASSUME TypeOK, NEW answer \in Answers, Request(answer)
  PROVE  /\ wire' \subseteq [kind : Answers, age : 0 .. Delay]
         /\ misses' \in 0 .. MaxMiss
  <1>1. [kind |-> answer, age |-> 0] \in [kind : Answers, age : 0 .. Delay]
    BY ConstantTypes
  <1> QED  BY <1>1, ConstantTypes DEF TypeOK, Request

\* A timer fires: what it leaves.
LEMMA TimerTypes ==
  ASSUME TypeOK, RetryTimer \/ KeepAlive
  PROVE  /\ st' \in States
         /\ tries' \in 0 .. MaxRetry \cup 0 .. MaxKeep + 1
         /\ timer' \in Int /\ elapsed' \in Nat
         /\ wire' \subseteq [kind : Answers, age : 0 .. Delay]
         /\ misses' \in 0 .. MaxMiss
  <1> USE ConstantTypes DEF TypeOK
  <1>1. CASE GiveUp
    BY <1>1 DEF GiveUp, Start, States
  <1>2. CASE /\ st \in Attempt /\ ~LastTry(tries)
             /\ Request(IF st = "SYN_SENT" THEN "SYN_ACK" ELSE "FIN_ACK")
             /\ Again(RetryTime)
    <2>1. PICK answer \in Answers : Request(answer)  BY <1>2 DEF Answers
    <2>2. /\ wire' \subseteq [kind : Answers, age : 0 .. Delay]
          /\ misses' \in 0 .. MaxMiss
      BY <2>1, RequestTypes
    <2>3. tries \in Nat /\ tries < MaxRetry  BY <1>2 DEF LastTry
    <2>4. RetryTime * (tries + 1) \in Nat  BY <2>3, NextSum
    <2> QED  BY <1>2, <2>2, <2>3, <2>4 DEF Again
  <1>3. CASE ~Unanswered(tries) /\ Request("PONG") /\ Again(Interval)
    <2>1. /\ wire' \subseteq [kind : Answers, age : 0 .. Delay]
          /\ misses' \in 0 .. MaxMiss
      BY <1>3, RequestTypes DEF Answers
    <2>2. tries \in Nat /\ tries <= MaxKeep  BY <1>3 DEF Unanswered
    <2>3. Interval * (tries + 1) \in Nat  BY <2>2, NextSum
    <2> QED  BY <1>3, <2>1, <2>2, <2>3 DEF Again
  <1> QED  BY <1>1, <1>2, <1>3 DEF RetryTimer, KeepAlive

LEMMA ZeroType == Zero \in Header
  BY ConstantTypes DEF Zero, Header

LEMMA TimersTypes ==
  ASSUME TypeOK, Timers
  PROVE  TypeOK'
  <1> USE ConstantTypes DEF TypeOK, Timers
  <1>1. Zero \in Header  BY ZeroType
  <1>2. CASE RetryTimer \/ KeepAlive  BY <1>1, <1>2, TimerTypes
  <1>3. CASE UNCHANGED <<st, tries, timer, elapsed, wire, misses>>  BY <1>1, <1>3
  <1> QED  BY <1>2, <1>3

LEMMA PassTypes ==
  ASSUME TypeOK, Pass
  PROVE  TypeOK'
  <1> DEFINE Answer == [kind : Answers, age : 0 .. Delay]
  <1>1. wire' \subseteq Answer
    <2>1. ASSUME NEW p \in wire  PROVE [p EXCEPT !.age = @ + 1] \in Answer
      <3>1. p \in Answer /\ p.age < Delay  BY DEF TypeOK, Pass
      <3>2. p.kind \in Answers /\ p.age + 1 \in 0 .. Delay  BY <3>1, ConstantTypes
      <3>3. [p EXCEPT !.age = @ + 1] = [kind |-> p.kind, age |-> p.age + 1]  BY <3>1
      <3> QED  BY <3>2, <3>3
    <2>2. wire' = {[p EXCEPT !.age = @ + 1] : p \in wire}  BY DEF Pass
    <2> HIDE DEF Answer
    <2> QED  BY <2>1, <2>2
  <1>2. since' \in 0 .. Late
    <2>1. since \in 0 .. Late /\ since < Late /\ since' = since + 1
      BY DEF TypeOK, Pass
    <2> QED  BY <2>1, ConstantTypes
  <1>3. timer' \in Int /\ elapsed' \in Nat
    <2>1. timer \in Int /\ elapsed \in Nat  BY DEF TypeOK
    <2>2. \/ timer' = timer - 1 /\ elapsed' = elapsed + 1
          \/ timer' = timer /\ elapsed' = elapsed
      BY DEF Pass
    <2> QED  BY <2>1, <2>2
  <1> HIDE DEF Answer
  <1>4. /\ st' = st /\ tries' = tries /\ peer' = peer /\ pc' = pc /\ recvd' = recvd
        /\ pkg' = pkg /\ inbox' = inbox /\ alive' = alive /\ addr' = addr
        /\ misses' = misses /\ junk' = junk /\ away' = away
    BY DEF Pass, tick
  <1> QED  BY <1>1, <1>2, <1>3, <1>4 DEF TypeOK, Answer

LEMMA ArriveTypes ==
  ASSUME TypeOK, NEW d \in Datagram, Arrive(d)
  PROVE  inbox' \in Seq(Datagram)
  <1>1. inbox \in Seq(Datagram)  BY DEF TypeOK
  <1> QED  BY <1>1 DEF Arrive

\* Every count, timer, header and datagram of Tick has its type, and no call
\* of glb_tick handles more than GLB_RECV_LIMIT_PER_TICK packets.
THEOREM TypeCorrect == Spec => []TypeOK
  <1>1. Init => TypeOK
    <2> SUFFICES ASSUME Init  PROVE TypeOK  OBVIOUS
    <2>1. pkg \in Header /\ inbox \in Seq(Datagram)  BY ZeroType DEF Init
    <2>2. wire \subseteq [kind : Answers, age : 0 .. Delay]  BY DEF Init
    <2>3. st \in States /\ pc \in {"idle", "read", "timers"} /\ alive \in BOOLEAN
          /\ away \in BOOLEAN
      BY DEF Init, States, Attempt
    <2>4. timer \in Int /\ elapsed \in Nat  BY DEF Init
    <2>5. /\ tries \in 0 .. MaxRetry \cup 0 .. MaxKeep + 1
          /\ peer \in Addr /\ addr \in Addr /\ recvd \in 0 .. RecvLimit
          /\ since \in 0 .. Late /\ misses \in 0 .. MaxMiss /\ junk \in 0 .. MaxJunk
      BY ConstantTypes DEF Init, Addr
    <2> QED  BY <2>1, <2>2, <2>3, <2>4, <2>5 DEF TypeOK
  <1>2. TypeOK /\ [Next]_vars => TypeOK'
    <2> SUFFICES ASSUME TypeOK, [Next]_vars  PROVE TypeOK'  OBVIOUS
    <2> USE ConstantTypes DEF connection, tick, environment
    <2>1. CASE Close
      BY <2>1 DEF Close, Start, TypeOK, States, Attempt
    <2>2. CASE StartTick  BY <2>2 DEF StartTick, TypeOK
    <2>3. CASE EndRead    BY <2>3 DEF EndRead, TypeOK
    <2>4. CASE Read       BY <2>4, ReadTypes
    <2>5. CASE Timers     BY <2>5, TimersTypes
    <2>6. CASE Pass       BY <2>6, PassTypes
    <2>7. CASE Die        BY <2>7 DEF Die, TypeOK
    <2>8. CASE Move       BY <2>8 DEF Move, TypeOK, Addr
    <2>9. ASSUME NEW p \in wire, ArriveAnswer(p)  PROVE TypeOK'
      <3>1. p.kind \in Kinds  BY DEF TypeOK, Kinds
      <3>2. Whole(p.kind, addr) \in Datagram  BY <3>1, WholeType DEF TypeOK
      <3>3. inbox' \in Seq(Datagram)  BY <2>9, <3>2, ArriveTypes DEF ArriveAnswer
      <3> QED  BY <2>9, <3>3 DEF ArriveAnswer, TypeOK
    <2>10. ASSUME NEW k \in {"PING", "DATA"}, NEW a \in 0 .. addr, ArriveOther(k, a)
           PROVE  TypeOK'
      <3>1. a \in Addr  BY ConstantTypes DEF TypeOK, Addr
      <3>2. Whole(k, a) \in Datagram  BY <3>1, WholeType DEF Kinds
      <3>3. inbox' \in Seq(Datagram)  BY <2>10, <3>2, ArriveTypes DEF ArriveOther
      <3> QED  BY <2>10, <3>3 DEF ArriveOther, TypeOK
    <2>11. ASSUME NEW d \in Junk, ArriveJunk(d)  PROVE TypeOK'
      <3>1. d \in Datagram  BY JunkType DEF TypeOK
      <3>2. inbox' \in Seq(Datagram)  BY <2>11, <3>1, ArriveTypes DEF ArriveJunk
      <3> QED  BY <2>11, <3>2 DEF ArriveJunk, TypeOK
    <2>12. CASE UNCHANGED vars  BY <2>12 DEF vars, TypeOK
    <2> QED
      BY <2>1, <2>2, <2>3, <2>4, <2>5, <2>6, <2>7, <2>8, <2>9, <2>10, <2>11, <2>12
      DEF Next
  <1> QED  BY <1>1, <1>2, PTL DEF Spec

-----------------------------------------------------------------------------
(***************************************************************************)
(* The account of the time.                                                *)
(***************************************************************************)

\* A timer that has just been started, or that nobody reads.
LEMMA Restarted ==
  ASSUME TypeOK, NEW n \in {0, Interval}, Start(n), since' \in Nat,
         st' \in Attempt => n = 0
  PROVE  Accounted'
  <1>1. tries' = 0 /\ timer' = n /\ elapsed' = 0  BY DEF Start
  <1>2. n \in Nat  BY ConstantTypes
  <1>3. 2 * (0 + n) <= Interval * (2 + 0 * (0 + 1)) + 2 * (0 * Late)
    BY ConstantTypes, <1>2
  <1>4. 0 <= RetryTime * (0 * (0 + 1)) + 2 * (0 * Late)  BY ConstantTypes
  <1>5. PICK m \in Nat : m = since'  OBVIOUS
  <1>8. n + m >= 0 /\ 0 <= MaxRetry /\ 0 <= MaxKeep + 1  BY <1>2, ConstantTypes
  <1>6. 2 * (elapsed' + timer') <= Interval * (2 + tries' * (tries' + 1)) + 2 * (tries' * Late)
    BY <1>1, <1>3
  <1>7. ASSUME st' \in Attempt
        PROVE  2 * (elapsed' + timer') <= RetryTime * (tries' * (tries' + 1))
                                           + 2 * (tries' * Late)
    BY <1>1, <1>4, <1>7
  <1> QED  BY <1>1, <1>5, <1>6, <1>7, <1>8 DEF Accounted

LEMMA Untouched ==
  ASSUME Accounted, UNCHANGED <<st, tries, timer, elapsed, since>>
  PROVE  Accounted'
  BY DEF Accounted

LEMMA ReadAccounted ==
  ASSUME TypeOK, Accounted, Read
  PROVE  Accounted'
  <1>1. since' = since /\ since \in Nat  BY ConstantTypes DEF Read, TypeOK
  <1>2. CASE Reject  BY <1>1, <1>2, Untouched DEF Reject, connection
  <1>3. CASE Dispatch
    <2>1. Handlers(Head(inbox))  BY <1>3, DispatchHandles
    <2>2. CASE OnSynAck
      BY <1>1, <2>2, Restarted, Untouched DEF OnSynAck, Attempt
    <2>3. CASE OnFinAck
      BY <1>1, <2>3, Restarted DEF OnFinAck, Attempt
    <2>4. CASE OnPong
      BY <1>1, <2>4, Restarted, Untouched DEF OnPong, Attempt
    <2>5. CASE OnPing
      BY <1>1, <2>5, Untouched DEF OnPing, connection
    <2>6. CASE OnData(Head(inbox))
      BY <1>1, <2>6, Untouched DEF OnData
    <2> QED  BY <2>1, <2>2, <2>3, <2>4, <2>5, <2>6 DEF Handlers
  <1> QED  BY <1>2, <1>3 DEF Read

\* A timer that fires late, by at most Late, and is started again for k + 1
\* bases: the account has one base after the other.
LEMMA StartedAgain ==
  ASSUME NEW base \in Nat, NEW first \in Nat, NEW k \in Nat, NEW L \in Nat,
         NEW t \in Int, NEW e \in Nat,
         t + L >= 0,
         2 * (e + t) <= first + base * (k * (k + 1)) + 2 * (k * L)
  PROVE  2 * (e + base * (k + 1))
           <= first + base * ((k + 1) * ((k + 1) + 1)) + 2 * ((k + 1) * L)
  <1>1. PICK sum \in Nat : sum = base * (k * (k + 1))  BY NextSum
  <1>2. PICK next \in Nat : next = base * (k + 1)  BY NextSum
  <1>3. base * ((k + 1) * ((k + 1) + 1)) = sum + 2 * next  BY <1>1, <1>2, NextSum
  <1>4. PICK late \in Nat : late = k * L  BY LateGrows
  <1>5. (k + 1) * L = late + L  BY <1>4, LateGrows
  <1>6. 2 * (e + t) <= first + sum + 2 * late  BY <1>1, <1>4
  <1>7. 2 * (e + next) <= first + (sum + 2 * next) + 2 * (late + L)  BY <1>6
  <1> QED  BY <1>2, <1>3, <1>5, <1>7

\* The first interval of the keep-alive is not one of those counted.
LEMMA FirstInterval ==
  ASSUME NEW I \in Nat, NEW k \in Nat
  PROVE  I * (2 + k * (k + 1)) = 2 * I + I * (k * (k + 1))
  OBVIOUS

LEMMA TimersAccounted ==
  ASSUME TypeOK, Accounted, Timers
  PROVE  Accounted'
  <1>1. since' = 0 /\ since \in 0 .. Late  BY DEF Timers, TypeOK
  <1>2. timer \in Int /\ elapsed \in Nat  BY DEF TypeOK
  <1>3. CASE GiveUp
    BY <1>1, <1>3, Restarted DEF GiveUp, Attempt
  <1>4. CASE /\ st \in Attempt /\ ~LastTry(tries) /\ Again(RetryTime)
    <2>1. tries \in Nat /\ tries < MaxRetry  BY <1>4, ConstantTypes DEF TypeOK, LastTry
    <2>2. timer + Late >= 0  BY <1>1, <1>2, <1>4, ConstantTypes DEF Accounted, Attempt
    <2>3. 2 * (elapsed + timer) <= 0 + RetryTime * (tries * (tries + 1)) + 2 * (tries * Late)
      <3>1. RetryTime * (tries * (tries + 1)) \in Nat  BY <2>1, ConstantTypes, NextSum
      <3> QED  BY <1>4, <3>1 DEF Accounted
    <2>4. 2 * (elapsed + RetryTime * (tries + 1))
            <= 0 + RetryTime * ((tries + 1) * ((tries + 1) + 1)) + 2 * ((tries + 1) * Late)
      BY <1>2, <2>1, <2>2, <2>3, ConstantTypes, StartedAgain
    <2>5. /\ RetryTime * (tries + 1) \in Nat
          /\ RetryTime * ((tries + 1) * ((tries + 1) + 1)) \in Nat
      BY <2>1, ConstantTypes, NextSum
    <2>6. /\ st' = st /\ elapsed' = elapsed /\ tries' = tries + 1
          /\ timer' = RetryTime * (tries + 1)
      BY <1>4 DEF Again
    <2>7. st' # "CLOSED" /\ st' # "ESTABLISHED"  BY <1>4, <2>6 DEF Attempt
    <2>8. timer' + since' >= 0 /\ tries' <= MaxRetry  BY <1>1, <2>1, <2>5, <2>6, ConstantTypes
    <2>9. 2 * (elapsed' + timer') <= RetryTime * (tries' * (tries' + 1)) + 2 * (tries' * Late)
      BY <2>4, <2>5, <2>6
    <2> QED  BY <2>7, <2>8, <2>9 DEF Accounted
  <1>5. CASE /\ st = "ESTABLISHED" /\ ~Unanswered(tries) /\ Again(Interval)
    <2>1. tries \in Nat /\ tries <= MaxKeep  BY <1>5, ConstantTypes DEF TypeOK, Unanswered
    <2>2. timer + Late >= 0  BY <1>1, <1>2, <1>5, ConstantTypes DEF Accounted
    <2>3. 2 * (elapsed + timer)
            <= 2 * Interval + Interval * (tries * (tries + 1)) + 2 * (tries * Late)
      BY <1>5, <2>1, ConstantTypes, FirstInterval DEF Accounted
    <2>4. 2 * (elapsed + Interval * (tries + 1))
            <= 2 * Interval + Interval * ((tries + 1) * ((tries + 1) + 1))
               + 2 * ((tries + 1) * Late)
      <3>1. 2 * Interval \in Nat  BY ConstantTypes
      <3> QED  BY <1>2, <2>1, <2>2, <2>3, <3>1, ConstantTypes, StartedAgain
    <2>5. Interval * (tries + 1) \in Nat  BY <2>1, ConstantTypes, NextSum
    <2>6. Interval * (2 + (tries + 1) * ((tries + 1) + 1))
            = 2 * Interval + Interval * ((tries + 1) * ((tries + 1) + 1))
      BY <2>1, ConstantTypes, FirstInterval
    <2>7. /\ st' = st /\ elapsed' = elapsed /\ tries' = tries + 1
          /\ timer' = Interval * (tries + 1)
      BY <1>5 DEF Again
    <2>8. timer' + since' >= 0 /\ tries' <= MaxKeep + 1
      BY <1>1, <2>1, <2>5, <2>7, ConstantTypes
    <2>9. 2 * (elapsed' + timer')
            <= Interval * (2 + tries' * (tries' + 1)) + 2 * (tries' * Late)
      BY <2>4, <2>6, <2>7
    <2>10. st' \notin Attempt  BY <1>5, <2>7 DEF Attempt
    <2> QED  BY <2>8, <2>9, <2>10 DEF Accounted
  <1>6. CASE /\ st = "CLOSED" \/ ~Expired
             /\ UNCHANGED <<st, tries, timer, elapsed>>
    <2>1. st' # "CLOSED" => timer' + since' >= 0  BY <1>1, <1>2, <1>6 DEF Expired
    <2> QED  BY <1>6, <2>1 DEF Accounted
  <1> QED  BY <1>3, <1>4, <1>5, <1>6 DEF Timers, RetryTimer, KeepAlive

LEMMA PassAccounted ==
  ASSUME TypeOK, Accounted, Pass
  PROVE  Accounted'
  <1>1. timer \in Int /\ elapsed \in Nat /\ since \in Nat
    BY ConstantTypes DEF TypeOK
  <1>2. st' = st /\ tries' = tries /\ since' = since + 1  BY DEF Pass
  <1>3. CASE st # "CLOSED" /\ timer' = timer - 1 /\ elapsed' = elapsed + 1
    <2>1. elapsed' + timer' = elapsed + timer /\ timer' + since' = timer + since
      BY <1>1, <1>2, <1>3
    <2> QED  BY <1>2, <2>1 DEF Accounted
  <1>4. CASE st = "CLOSED"  BY <1>2, <1>4 DEF Accounted, Attempt
  <1> QED  BY <1>3, <1>4 DEF Pass

\* The account is right: what a connection has waited and still waits is
\* covered by the timers it started, and timers are served when they are due.
THEOREM Timekeeping == Spec => []Accounted
  <1>1. Init => Accounted
    BY ConstantTypes DEF Init, Accounted, Attempt
  <1>2. TypeOK /\ Accounted /\ [Next]_vars => Accounted'
    <2> SUFFICES ASSUME TypeOK, Accounted, [Next]_vars  PROVE Accounted'  OBVIOUS
    <2>1. since \in Nat  BY ConstantTypes DEF TypeOK
    <2>2. CASE Close   BY <2>1, <2>2, Restarted DEF Close
    <2>3. CASE Read    BY <2>3, ReadAccounted
    <2>4. CASE Timers  BY <2>4, TimersAccounted
    <2>5. CASE Pass    BY <2>5, PassAccounted
    <2>6. CASE UNCHANGED <<st, tries, timer, elapsed, since>>  BY <2>6, Untouched
    <2>7. ASSUME StartTick \/ EndRead \/ Die \/ Move
          PROVE  UNCHANGED <<st, tries, timer, elapsed, since>>
      BY <2>7 DEF StartTick, EndRead, Die, Move, connection
    <2>8. ASSUME NEW p, ArriveAnswer(p)
          PROVE  UNCHANGED <<st, tries, timer, elapsed, since>>
      BY <2>8 DEF ArriveAnswer, connection
    <2>9. ASSUME NEW k, NEW a, ArriveOther(k, a)
          PROVE  UNCHANGED <<st, tries, timer, elapsed, since>>
      BY <2>9 DEF ArriveOther, connection
    <2>10. ASSUME NEW d, ArriveJunk(d)
           PROVE  UNCHANGED <<st, tries, timer, elapsed, since>>
      BY <2>10 DEF ArriveJunk, connection
    <2>11. CASE UNCHANGED vars  BY <2>6, <2>11 DEF vars, connection
    <2> QED
      BY <2>2, <2>3, <2>4, <2>5, <2>6, <2>7, <2>8, <2>9, <2>10, <2>11 DEF Next
  <1> QED  BY <1>1, <1>2, TypeCorrect, PTL DEF Spec

\* From the account to the time waited: nothing is overdue by more than Late.
LEMMA Waited ==
  ASSUME NEW base \in Nat, NEW first \in Nat, NEW k \in Nat, NEW m \in Nat,
         NEW L \in Nat, NEW t \in Int, NEW e \in Nat,
         k <= m, t + L >= 0,
         2 * (e + t) <= first + base * (k * (k + 1)) + 2 * (k * L)
  PROVE  2 * e <= first + base * (m * (m + 1)) + 2 * ((m + 1) * L)
  <1>1. PICK a \in Nat : a = base * (k * (k + 1))  BY SumGrows
  <1>2. PICK b \in Nat : b = base * (m * (m + 1))  BY SumGrows
  <1>3. a <= b  BY <1>1, <1>2, SumGrows
  <1>4. PICK c \in Nat : c = k * L  BY LateGrows
  <1>5. PICK d \in Nat : d = m * L  BY LateGrows
  <1>6. c <= d /\ (m + 1) * L = d + L  BY <1>4, <1>5, LateGrows
  <1>7. 2 * (e + t) <= first + a + 2 * c  BY <1>1, <1>4
  <1>8. 2 * e <= first + b + 2 * (d + L)  BY <1>3, <1>6, <1>7
  <1> QED  BY <1>2, <1>6, <1>8

\* An attempt to connect or to close ends within the sum of its timers and
\* one lateness for each: GLB_MAX_RETRY of them, each GLB_RETRY_TIMEOUT longer.
THEOREM AttemptsEndInTime == Spec => []AttemptBounded
  <1>1. TypeOK /\ Accounted => AttemptBounded
    <2> SUFFICES ASSUME TypeOK, Accounted, st \in Attempt
                 PROVE  2 * elapsed <= RetryTime * (MaxRetry * (MaxRetry + 1))
                                       + 2 * ((MaxRetry + 1) * Late)
      BY DEF AttemptBounded
    <2>1. tries \in Nat /\ timer \in Int /\ elapsed \in Nat /\ since \in 0 .. Late
      BY ConstantTypes DEF TypeOK
    <2>2. tries <= MaxRetry /\ timer + Late >= 0
      BY <2>1, ConstantTypes DEF Accounted, Attempt
    <2>3. /\ RetryTime * (tries * (tries + 1)) \in Nat
          /\ RetryTime * (MaxRetry * (MaxRetry + 1)) \in Nat
      BY <2>1, ConstantTypes, NextSum
    <2>4. 2 * (elapsed + timer) <= 0 + RetryTime * (tries * (tries + 1)) + 2 * (tries * Late)
      BY <2>3 DEF Accounted
    <2>5. 2 * elapsed <= 0 + RetryTime * (MaxRetry * (MaxRetry + 1))
                         + 2 * ((MaxRetry + 1) * Late)
      BY <2>1, <2>2, <2>4, ConstantTypes, Waited
    <2> QED  BY <2>3, <2>5
  <1> QED  BY <1>1, TypeCorrect, Timekeeping, PTL

\* An ESTABLISHED connection without a sign of life is given up within the
\* first interval, the growing ones after its PINGs, and one lateness for each.
THEOREM SilenceEndsInTime == Spec => []SilenceBounded
  <1>1. TypeOK /\ Accounted => SilenceBounded
    <2> SUFFICES ASSUME TypeOK, Accounted, st = "ESTABLISHED"
                 PROVE  2 * elapsed <= Interval * (2 + (MaxKeep + 1) * (MaxKeep + 2))
                                       + 2 * ((MaxKeep + 2) * Late)
      BY DEF SilenceBounded
    <2>1. tries \in Nat /\ timer \in Int /\ elapsed \in Nat /\ since \in 0 .. Late
      BY ConstantTypes DEF TypeOK
    <2>2. tries <= MaxKeep + 1 /\ timer + Late >= 0
      BY <2>1, ConstantTypes DEF Accounted
    <2>3. 2 * (elapsed + timer)
            <= 2 * Interval + Interval * (tries * (tries + 1)) + 2 * (tries * Late)
      BY <2>1, ConstantTypes, FirstInterval DEF Accounted
    <2>4. PICK m \in Nat : m = MaxKeep + 1  BY ConstantTypes
    <2>5. 2 * elapsed <= 2 * Interval + Interval * (m * (m + 1)) + 2 * ((m + 1) * Late)
      <3>1. 2 * Interval \in Nat  BY ConstantTypes
      <3> QED  BY <2>1, <2>2, <2>3, <2>4, <3>1, ConstantTypes, Waited
    <2>6. Interval * (2 + m * (m + 1)) = 2 * Interval + Interval * (m * (m + 1))
      BY <2>4, ConstantTypes, FirstInterval
    <2>7. m + 1 = MaxKeep + 2  BY <2>4, ConstantTypes
    <2> QED  BY <2>4, <2>5, <2>6, <2>7
  <1> QED  BY <1>1, TypeCorrect, Timekeeping, PTL

-----------------------------------------------------------------------------
\* A datagram that passes the tests of glbio_read is long enough to have
\* brought its own header, so the tests were about what it brought.
LEMMA AcceptedIsIntact ==
  ASSUME NEW h \in Header, NEW d \in Datagram, Accepts(Filled(h, d), d)
  PROVE  Intact(d)
  <1>1. PICK f \in Header : f = Filled(h, d)  BY FilledType
  <1>2. f.payload \in Nat /\ d.len \in Int  BY ConstantTypes DEF Header, Datagram
  <1>3. f.magic /\ f.payload <= MTU /\ d.len >= HeaderLen + f.payload /\ d.sum
    BY <1>1 DEF Accepts, Complete
  <1>4. d.len >= HeaderLen  BY <1>2, <1>3, ConstantTypes
  <1>5. f = d.head  BY <1>1, <1>4 DEF Filled
  <1> QED  BY <1>3, <1>5 DEF Intact

\* No packet is handled that was not received whole, whatever an earlier one
\* or an answer left in the buffer.
THEOREM WholePackets == Spec => OnlyWhole
  <1>1. TypeOK /\ [Next]_vars => [pc = "read" /\ recvd' # recvd => Intact(Head(inbox))]_vars
    <2> SUFFICES ASSUME TypeOK, [Next]_vars, pc = "read", recvd' # recvd
                 PROVE  Intact(Head(inbox))
      OBVIOUS
    <2>1. CASE Read
      <3>1. inbox \in Seq(Datagram) /\ inbox # << >>  BY <2>1 DEF TypeOK, Read
      <3>2. Head(inbox) \in Datagram  BY <3>1
      <3>3. ~Reject  BY DEF Reject
      <3>4. Dispatch  BY <2>1, <3>3 DEF Read
      <3>5. Accepts(Filled(pkg, Head(inbox)), Head(inbox))  BY <3>4 DEF Dispatch
      <3>6. pkg \in Header  BY DEF TypeOK
      <3> QED  BY <3>2, <3>5, <3>6, AcceptedIsIntact
    <2>2. ASSUME NEW p, ArriveAnswer(p)  PROVE FALSE
      BY <2>2 DEF ArriveAnswer, tick
    <2>3. ASSUME NEW k, NEW a, ArriveOther(k, a)  PROVE FALSE
      BY <2>3 DEF ArriveOther, tick
    <2>4. ASSUME NEW d, ArriveJunk(d)  PROVE FALSE
      BY <2>4 DEF ArriveJunk, tick
    <2>5. ~(Close \/ StartTick \/ EndRead \/ Timers \/ Pass \/ Die \/ Move)
      BY DEF Close, StartTick, EndRead, Timers, Pass, Die, Move, tick
    <2>6. ~UNCHANGED vars  BY DEF vars, tick
    <2> QED  BY <2>1, <2>2, <2>3, <2>4, <2>5, <2>6 DEF Next
  <1> QED  BY <1>1, TypeCorrect, PTL DEF Spec, OnlyWhole

=============================================================================
