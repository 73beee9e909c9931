---------------------------- MODULE QueueProofs ----------------------------
(***************************************************************************)
(* The ring buffer of queue.c implements a bounded FIFO, for every element *)
(* type and every capacity.                                                *)
(***************************************************************************)
EXTENDS Queue, SequenceTheorems, TLAPS

(***************************************************************************)
(* Counting around the ring: glbqueue_push and glbqueue_pop reduce their   *)
(* positions modulo the capacity; a position below twice the capacity      *)
(* wraps at most once.                                                     *)
(***************************************************************************)
LEMMA WrapOnce ==
  ASSUME NEW k \in Nat, k < Capacity + Capacity
  PROVE  Wrap(k) = IF k < Capacity THEN k ELSE k - Capacity
BY CapacityAssumption DEF Wrap

(***************************************************************************)
(* Two offsets below the capacity, counted from the same slot, name the    *)
(* same slot only when they are equal: a push cannot hit a queued element. *)
(***************************************************************************)
LEMMA WrapInjective ==
  ASSUME NEW h \in Slot, NEW i \in 0 .. Capacity - 1, NEW j \in 0 .. Capacity - 1,
         Wrap(h + i) = Wrap(h + j)
  PROVE  i = j
<1>1. /\ h \in Nat /\ i \in Nat /\ j \in Nat /\ Capacity \in Nat
      /\ h < Capacity /\ i < Capacity /\ j < Capacity
  BY CapacityAssumption DEF Slot
<1>2. Wrap(h + i) = IF h + i < Capacity THEN h + i ELSE h + i - Capacity
  BY <1>1, WrapOnce
<1>3. Wrap(h + j) = IF h + j < Capacity THEN h + j ELSE h + j - Capacity
  BY <1>1, WrapOnce
<1> QED  BY <1>1, <1>2, <1>3

(***************************************************************************)
(* Type correctness: head stays inside the pool and length within the      *)
(* capacity, so the addresses glbqueue_push and glbqueue_pop compute are   *)
(* inside the allocated memory.                                            *)
(***************************************************************************)
THEOREM TypeCorrect == Spec => []TypeOK
<1> USE CapacityAssumption, ElemAssumption DEF Slot, Outcomes, Outcome
<1>1. Init => TypeOK
  BY DEF Init, TypeOK
<1>2. TypeOK /\ [Next]_vars => TypeOK'
  <2> SUFFICES ASSUME TypeOK, [Next]_vars PROVE TypeOK'
    OBVIOUS
  <2> USE DEF TypeOK
  <2>1. ASSUME NEW e \in Elem, Push(e) PROVE TypeOK'
    <3>1. TailSlot \in Slot
      BY DEF TailSlot, Wrap
    <3> QED  BY <2>1, <3>1 DEF Push, Full
  <2>2. ASSUME NEW e \in Elem, Update(e) PROVE TypeOK'
    BY <2>2 DEF Update, Empty
  <2>3. CASE PushNull
    BY <2>1, <2>3 DEF PushNull
  <2>4. ASSUME NEW copy \in BOOLEAN, Pop(copy) PROVE TypeOK'
    <3>1. Wrap(head + 1) \in Slot
      BY DEF Wrap
    <3> QED  BY <2>4, <3>1 DEF Pop, Empty
  <2>5. CASE Peek
    BY <2>5 DEF Peek, Empty
  <2>6. CASE RefusePush
    BY <2>6 DEF RefusePush
  <2>7. CASE RefuseRead
    BY <2>7 DEF RefuseRead
  <2>8. CASE UNCHANGED vars
    BY <2>8 DEF vars
  <2> QED  BY <2>1, <2>2, <2>3, <2>4, <2>5, <2>6, <2>7, <2>8 DEF Next
<1> QED  BY <1>1, <1>2, PTL DEF Spec

-----------------------------------------------------------------------------
(***************************************************************************)
(* Reading n elements off a ring of elements from slot h gives a sequence  *)
(* of n elements.                                                          *)
(***************************************************************************)
LEMMA RingSeq ==
  ASSUME NEW p \in [Slot -> Elem], NEW h \in Slot, NEW n \in 0 .. Capacity
  PROVE  /\ [i \in 1 .. n |-> p[Wrap(h + i - 1)]] \in Seq(Elem)
         /\ Len([i \in 1 .. n |-> p[Wrap(h + i - 1)]]) = n
<1> DEFINE c == [i \in 1 .. n |-> p[Wrap(h + i - 1)]]
<1>1. n \in Nat
  BY CapacityAssumption
<1>2. \A i \in 1 .. n : Wrap(h + i - 1) \in Slot
  BY CapacityAssumption DEF Slot, Wrap
<1>3. c \in [1 .. n -> Elem]
  BY <1>2
<1> QED  BY <1>1, <1>3, SeqDef

\* The same of the abstract queue, before and after a step.
LEMMA ContentsSeq ==
  ASSUME TypeOK
  PROVE  /\ Contents \in Seq(Elem)
         /\ Len(Contents) = length
         /\ \A i \in 1 .. length : Contents[i] = pool[Wrap(head + i - 1)]
BY RingSeq DEF TypeOK, Contents

LEMMA ContentsSeqPrime ==
  ASSUME TypeOK'
  PROVE  /\ Contents' \in Seq(Elem)
         /\ Len(Contents') = length'
         /\ \A i \in 1 .. length' : Contents'[i] = pool'[Wrap(head' + i - 1)]
<1>1. pool' \in [Slot -> Elem] /\ head' \in Slot /\ length' \in 0 .. Capacity
  BY DEF TypeOK, Slot
<1> QED  BY <1>1, RingSeq DEF Contents

(***************************************************************************)
(* glbqueue_push appends to the abstract queue.                            *)
(***************************************************************************)
LEMMA PushAppends ==
  ASSUME TypeOK, TypeOK', NEW e \in Elem, Push(e)
  PROVE  Contents' = Append(Contents, e)
<1>1. /\ length \in Nat /\ length < Capacity /\ length' = length + 1
      /\ head \in Slot /\ head' = head
      /\ pool' = [pool EXCEPT ![TailSlot] = e]
  BY CapacityAssumption DEF TypeOK, Push, Full
<1>2. \A i \in 1 .. length : Contents'[i] = Contents[i]
  <2> SUFFICES ASSUME NEW i \in 1 .. length PROVE Contents'[i] = Contents[i]
    OBVIOUS
  <2>1. Wrap(head + (i - 1)) # Wrap(head + length)
    BY <1>1, WrapInjective, CapacityAssumption
  <2>2. Wrap(head + i - 1) = Wrap(head + (i - 1)) /\ Wrap(head + i - 1) \in Slot
    BY <1>1, CapacityAssumption DEF Slot, Wrap
  <2>3. pool'[Wrap(head + i - 1)] = pool[Wrap(head + i - 1)]
    BY <1>1, <2>1, <2>2 DEF TypeOK, TailSlot
  <2> QED  BY <1>1, <2>3, ContentsSeq, ContentsSeqPrime
<1>3. Contents'[length + 1] = e
  <2>1. Wrap(head + (length + 1) - 1) = TailSlot /\ TailSlot \in Slot
    BY <1>1, CapacityAssumption DEF TailSlot, Slot, Wrap
  <2>2. pool'[TailSlot] = e
    BY <1>1, <2>1 DEF TypeOK
  <2> QED  BY <1>1, <2>1, <2>2, ContentsSeqPrime
<1>4. /\ Append(Contents, e) \in Seq(Elem)
      /\ Len(Append(Contents, e)) = length + 1
      /\ \A i \in 1 .. length : Append(Contents, e)[i] = Contents[i]
      /\ Append(Contents, e)[length + 1] = e
  BY ContentsSeq, AppendProperties
<1>5. \A i \in 1 .. length + 1 : i \in 1 .. length \/ i = length + 1
  BY <1>1
<1> QED
  BY <1>1, <1>2, <1>3, <1>4, <1>5, ContentsSeqPrime, SeqEqual

(***************************************************************************)
(* glbqueue_pop removes the head of the abstract queue.                    *)
(***************************************************************************)
LEMMA PopTakesHead ==
  ASSUME TypeOK, TypeOK', NEW copy \in BOOLEAN, Pop(copy)
  PROVE  /\ Contents # << >>
         /\ Head(Contents) = pool[head]
         /\ Contents' = Tail(Contents)
<1>1. /\ length \in Nat /\ length > 0 /\ length <= Capacity /\ length' = length - 1
      /\ head \in Slot /\ head' = Wrap(head + 1) /\ pool' = pool
  BY CapacityAssumption DEF TypeOK, Pop, Empty
<1>2. Contents # << >>
  BY <1>1, ContentsSeq, EmptySeq
<1>3. Head(Contents) = pool[head]
  <2>1. Wrap(head + 1 - 1) = head
    BY <1>1, CapacityAssumption DEF Wrap, Slot
  <2> QED  BY <1>1, <1>2, <2>1, ContentsSeq
<1>4. /\ Tail(Contents) \in Seq(Elem)
      /\ Len(Tail(Contents)) = length - 1
      /\ \A i \in 1 .. length - 1 : Tail(Contents)[i] = Contents[i + 1]
  BY <1>1, <1>2, ContentsSeq, HeadTailProperties
<1>5. \A i \in 1 .. length - 1 : Contents'[i] = Tail(Contents)[i]
  <2> SUFFICES ASSUME NEW i \in 1 .. length - 1
               PROVE  Contents'[i] = Tail(Contents)[i]
    OBVIOUS
  <2>1. Wrap(head' + i - 1) = Wrap(head + (i + 1) - 1)
    <3>1. head' = IF head + 1 < Capacity THEN head + 1 ELSE head + 1 - Capacity
      BY <1>1, WrapOnce, CapacityAssumption DEF Slot
    <3> DEFINE k == head + i
               m == head' + i - 1
    <3>2. k \in Nat /\ k < Capacity + Capacity
      BY <1>1, CapacityAssumption DEF Slot
    <3>3. m \in Nat /\ m < Capacity + Capacity
      BY <1>1, <3>1, CapacityAssumption DEF Slot
    <3>4. head + (i + 1) - 1 = k
      BY <1>1 DEF Slot
    <3>5. m = IF head + 1 < Capacity THEN k ELSE k - Capacity
      BY <1>1, <3>1, CapacityAssumption DEF Slot
    <3> HIDE DEF k, m
    <3>6. Wrap(k) = IF k < Capacity THEN k ELSE k - Capacity
      BY <3>2, WrapOnce
    <3>7. Wrap(m) = IF m < Capacity THEN m ELSE m - Capacity
      BY <3>3, WrapOnce
    <3>8. k >= head + 1
      BY <1>1 DEF k, Slot
    <3>9. Wrap(m) = Wrap(k)
      BY <1>1, <3>2, <3>3, <3>5, <3>6, <3>7, <3>8, CapacityAssumption DEF Slot
    <3> QED  BY <3>4, <3>9 DEF m
  <2>2. Contents'[i] = pool'[Wrap(head' + i - 1)]
    BY <1>1, ContentsSeqPrime
  <2>3. Contents[i + 1] = pool[Wrap(head + (i + 1) - 1)]
    BY <1>1, ContentsSeq
  <2> QED  BY <1>1, <1>4, <2>1, <2>2, <2>3
<1> QED
  BY <1>1, <1>2, <1>3, <1>4, <1>5, ContentsSeqPrime, SeqEqual

(***************************************************************************)
(* Writing through the pointer of glbqueue_peek replaces the head of the   *)
(* abstract queue and nothing else.                                        *)
(***************************************************************************)
LEMMA UpdateRewritesHead ==
  ASSUME TypeOK, TypeOK', NEW e \in Elem, Update(e)
  PROVE  /\ Contents # << >>
         /\ Contents' = [Contents EXCEPT ![1] = e]
<1>1. /\ length \in Nat /\ length > 0 /\ length <= Capacity /\ length' = length
      /\ head \in Slot /\ head' = head
      /\ pool' = [pool EXCEPT ![head] = e]
  BY CapacityAssumption DEF TypeOK, Update, Empty
<1>2. Contents # << >>
  BY <1>1, ContentsSeq, EmptySeq
<1>3. /\ [Contents EXCEPT ![1] = e] \in Seq(Elem)
      /\ Len([Contents EXCEPT ![1] = e]) = length
      /\ \A j \in 1 .. length :
           [Contents EXCEPT ![1] = e][j] = IF j = 1 THEN e ELSE Contents[j]
  BY <1>1, ContentsSeq, ExceptSeq
<1>4. \A i \in 1 .. length : Contents'[i] = [Contents EXCEPT ![1] = e][i]
  <2> SUFFICES ASSUME NEW i \in 1 .. length
               PROVE  Contents'[i] = [Contents EXCEPT ![1] = e][i]
    OBVIOUS
  <2>1. Wrap(head + i - 1) \in Slot /\ Wrap(head + 0) = head
        /\ Wrap(head + i - 1) = Wrap(head + (i - 1))
    BY <1>1, CapacityAssumption DEF Slot, Wrap
  <2>2. CASE i = 1
    <3>1. Wrap(head + i - 1) = head
      BY <1>1, <2>2, CapacityAssumption DEF Slot, Wrap
    <3> QED  BY <1>1, <1>3, <2>2, <3>1, ContentsSeqPrime DEF TypeOK
  <2>3. CASE i # 1
    <3>1. Wrap(head + (i - 1)) # head
      BY <1>1, <2>1, <2>3, WrapInjective, CapacityAssumption
    <3>2. pool'[Wrap(head + i - 1)] = pool[Wrap(head + i - 1)]
      BY <1>1, <2>1, <3>1 DEF TypeOK
    <3> QED  BY <1>1, <1>3, <2>3, <3>2, ContentsSeq, ContentsSeqPrime
  <2> QED  BY <2>2, <2>3
<1> QED  BY <1>1, <1>2, <1>3, <1>4, ContentsSeqPrime, SeqEqual

(***************************************************************************)
(* The ring buffer implements the bounded FIFO: every call has the outcome *)
(* and the effect it has on a first-in first-out sequence.                 *)
(***************************************************************************)
THEOREM Refinement == Spec => ImplementsFifo
<1>1. Init => Fifo!Init
  BY SeqDef DEF Init, Fifo!Init, Contents, Outcome, Fifo!Outcome
<1>2. TypeOK /\ TypeOK' /\ [Next]_vars => [Fifo!Next]_(Fifo!vars)
  <2> SUFFICES ASSUME TypeOK, TypeOK', [Next]_vars
               PROVE  [Fifo!Next]_(Fifo!vars)
    OBVIOUS
  <2> USE DEF Outcome, Fifo!Outcome
  <2>1. ASSUME NEW e \in Elem, Push(e) PROVE Fifo!Push(e)
    <3>1. Contents' = Append(Contents, e)
      BY <2>1, PushAppends
    <3>2. Len(Contents) < Capacity
      BY <2>1, ContentsSeq, CapacityAssumption DEF Push, Full, TypeOK
    <3> QED  BY <2>1, <3>1, <3>2 DEF Push, Fifo!Push
  <2>2. ASSUME NEW e \in Elem, Update(e) PROVE Fifo!Update(e)
    BY <2>2, UpdateRewritesHead DEF Update, Fifo!Update
  <2>3. CASE PushNull
    BY <2>1, <2>3, ElemAssumption DEF PushNull, Fifo!Next
  <2>4. ASSUME NEW copy \in BOOLEAN, Pop(copy) PROVE Fifo!Pop(copy)
    BY <2>4, PopTakesHead DEF Pop, Fifo!Pop
  <2>5. CASE Peek
    <3>1. Contents # << >> /\ Head(Contents) = pool[head]
      <4>1. length \in Nat /\ length > 0 /\ head \in Slot
        BY <2>5, CapacityAssumption DEF Peek, Empty, TypeOK
      <4>2. Wrap(head + 1 - 1) = head
        BY <4>1, CapacityAssumption DEF Wrap, Slot
      <4> QED  BY <4>1, <4>2, ContentsSeq, EmptySeq
    <3>2. Contents' = Contents
      BY <2>5 DEF Peek, Contents
    <3> QED  BY <2>5, <3>1, <3>2 DEF Peek, Fifo!Peek, Fifo!Next
  <2>6. CASE RefusePush
    <3>1. Contents' = Contents
      BY <2>6 DEF RefusePush, Contents
    <3>2. Len(Contents) = Capacity
      BY <2>6, ContentsSeq, CapacityAssumption DEF RefusePush, Full, TypeOK
    <3> QED  BY <2>6, <3>1, <3>2 DEF RefusePush, Fifo!RefusePush, Fifo!Next
  <2>7. CASE RefuseRead
    <3>1. Contents' = Contents
      BY <2>7 DEF RefuseRead, Contents
    <3>2. Contents = << >>
      BY <2>7, ContentsSeq, SeqEqual, EmptySeq DEF RefuseRead, Empty
    <3> QED  BY <2>7, <3>1, <3>2 DEF RefuseRead, Fifo!RefuseRead, Fifo!Next
  <2>8. CASE UNCHANGED vars
    BY <2>8 DEF vars, Fifo!vars, Contents
  <2> QED
    BY <2>1, <2>2, <2>3, <2>4, <2>5, <2>6, <2>7, <2>8 DEF Next, Fifo!Next
<1>3. Spec => []TypeOK
  BY TypeCorrect
<1> QED  BY <1>1, <1>2, <1>3, PTL DEF Spec, ImplementsFifo, Fifo!Spec
=============================================================================
