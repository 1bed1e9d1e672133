--------------------------- MODULE FrameFifoProofs ---------------------------
(***************************************************************************)
(* With undisturbed critical sections, and for every queue size, pool and  *)
(* number of frames and hosts, FrameQueue implements FrameFifo: read from  *)
(* FrameOut round to FrameIn, the ring is the abstract queue.              *)
(***************************************************************************)
EXTENDS FrameQueueProofs, FiniteSetTheorems, SequenceTheorems

\* The places in use, counted by the indices.
Span ==
  IF In0 = Out0 THEN IF Full0 THEN N ELSE 0
  ELSE IF Out0 < In0 THEN In0 - Out0 ELSE N - Out0 + In0

Occupied == {i \in Slots : slot[i] # NULL}

\* The slot of the k-th waiting frame.
Pos(k) == IF First + k - 1 >= N THEN First + k - 1 - N ELSE First + k - 1

Queue == [k \in 1 .. Count |-> heap[slot[(First + k - 1) % N]]]

LEMMA Modulo == \A x \in Nat : x < 2 * N => x % N = IF x >= N THEN x - N ELSE x
BY FrameQueueAssumption

\* Counting on from the head slot, or from one further back with one more.
LEMMA Advance ==
  \A f \in Slots, n \in Nat : \A k \in 1 .. n : n <= N =>
    (IF Next0(f) + k - 1 >= N THEN Next0(f) + k - 1 - N ELSE Next0(f) + k - 1)
      = (IF f + 1 + k - 1 >= N THEN f + 1 + k - 1 - N ELSE f + 1 + k - 1)
BY FrameQueueAssumption DEF Next0, Slots

LEMMA FunIsSeq ==
  ASSUME NEW S, NEW n \in Nat, NEW f \in [1 .. n -> S]
  PROVE  f \in Seq(S) /\ Len(f) = n
<1>1. f \in Seq(S)
  BY SeqDef
<1>2. Len(f) \in Nat /\ DOMAIN f = 1 .. Len(f)
  BY <1>1, LenProperties
<1>3. DOMAIN f = 1 .. n
  OBVIOUS
<1>4. \A m \in Nat : 1 .. m = 1 .. n => m = n
  OBVIOUS
<1> QED
  BY <1>1, <1>2, <1>3, <1>4

LEMMA Counted ==
  TypeInv /\ IInv /\ tx # "zero" => IsFiniteSet(Occupied) /\ Cardinality(Occupied) = Span
<1> SUFFICES ASSUME TypeInv, IInv, tx # "zero"
             PROVE  IsFiniteSet(Occupied) /\ Cardinality(Occupied) = Span
  OBVIOUS
<1>1. In0 \in Slots /\ Out0 \in Slots /\ N \in Nat /\ N >= 2
  BY FrameQueueAssumption DEF TypeInv, TypeOK, InRange, IInv, Indices, In0, Out0, Next0, Slots
<1>2. Occupied = {i \in Slots : Within(i)}
  BY DEF IInv, Ring, Occupied
<1> USE DEF Slots, Within, Span
<1>3. CASE In0 = Out0 /\ Full0
  <2>1. Occupied = 0 .. N - 1
    BY <1>1, <1>2, <1>3
  <2> QED
    BY <1>1, <1>3, <2>1, FS_Interval
<1>4. CASE In0 = Out0 /\ ~Full0
  <2>1. Occupied = {}
    BY <1>1, <1>2, <1>4
  <2> QED
    BY <1>4, <2>1, FS_EmptySet
<1>5. CASE Out0 < In0
  <2>1. Occupied = Out0 .. In0 - 1
    BY <1>1, <1>2, <1>5
  <2> QED
    BY <1>1, <1>5, <2>1, FS_Interval
<1>6. CASE In0 < Out0
  <2>1. Occupied = (0 .. In0 - 1) \cup (Out0 .. N - 1)
    BY <1>1, <1>2, <1>6
  <2>2. (0 .. In0 - 1) \cap (Out0 .. N - 1) = {}
    BY <1>1, <1>6
  <2>3. /\ IsFiniteSet(0 .. In0 - 1) /\ Cardinality(0 .. In0 - 1) = In0
        /\ IsFiniteSet(Out0 .. N - 1) /\ Cardinality(Out0 .. N - 1) = N - Out0
    BY <1>1, FS_Interval
  <2>4. /\ IsFiniteSet(Occupied)
        /\ Cardinality(Occupied) = In0 + (N - Out0) - Cardinality((0 .. In0 - 1) \cap (Out0 .. N - 1))
    BY <2>1, <2>3, FS_Union
  <2>5. Cardinality((0 .. In0 - 1) \cap (Out0 .. N - 1)) = 0
    BY <2>2, FS_EmptySet, Zenon
  <2> QED
    BY <1>1, <1>6, <2>4, <2>5
<1> QED
  BY <1>1, <1>3, <1>4, <1>5, <1>6

\* Read off by the mapping: its length, and its elements, all occupied slots.
ReadOff ==
  /\ Count \in Nat /\ Count + Taken = Span /\ Span \in 0 .. N
  /\ Queue \in Seq(Nat) /\ Len(Queue) = Count
  /\ \A k \in 1 .. Count :
       /\ Pos(k) \in Slots /\ slot[Pos(k)] # NULL /\ ~Gone(Pos(k))
       /\ Queue[k] = heap[slot[Pos(k)]]

LEMMA ReadsOff == TypeInv /\ IInv /\ tx # "zero" => ReadOff
<1> SUFFICES ASSUME TypeInv, IInv, tx # "zero" PROVE ReadOff
  OBVIOUS
<1>1. In0 \in Slots /\ Out0 \in Slots /\ FrameOut \in Slots /\ N \in Nat /\ N >= 2
  BY FrameQueueAssumption DEF TypeInv, TypeOK, InRange, IInv, Indices, In0, Out0, Next0, Slots
<1>2. Span \in 0 .. N /\ Count = Span - Taken
  BY <1>1, Counted DEF Span, Slots, Count, Occupied
<1>3. tx \in {"free", "wait", "take", "clear"} => Span >= 1
  <2> SUFFICES ASSUME tx \in {"free", "wait", "take", "clear"} PROVE Span >= 1
    OBVIOUS
  <2>1. slot[FrameOut] # NULL
    BY DEF IInv, Head0
  <2>2. Within(FrameOut)
    BY <1>1, <2>1 DEF IInv, Ring
  <2> QED
    BY <1>1, <2>2 DEF Within, Span, Slots
<1>4. Count \in Nat /\ Count + Taken = Span
  BY <1>2, <1>3 DEF Taken
<1>5. ASSUME NEW k \in 1 .. Count
      PROVE  /\ Pos(k) \in Slots /\ Within(Pos(k)) /\ ~Gone(Pos(k))
             /\ (First + k - 1) % N = Pos(k)
  <2>1. First \in Nat /\ First + k - 1 \in Nat /\ First + k - 1 < 2 * N
    BY <1>1, <1>2, <1>4 DEF First, Slots, Taken
  <2>2. (First + k - 1) % N = Pos(k)
    <3> DEFINE x == First + k - 1
    <3>1. x % N = IF x >= N THEN x - N ELSE x
      BY <2>1, Modulo
    <3> QED
      BY <2>1, <3>1, FrameQueueAssumption DEF Pos
  <2>3. Pos(k) \in Slots /\ Within(Pos(k)) /\ ~Gone(Pos(k))
    BY <1>1, <1>2, <1>4 DEF Pos, First, Taken, Span, Within, Slots, Gone, Out0, Next0
  <2> QED
    BY <2>2, <2>3
<1>6. \A k \in 1 .. Count : slot[Pos(k)] # NULL /\ slot[Pos(k)] \in Buf
  BY <1>5 DEF IInv, Ring, TypeInv, TypeOK
<1>7. Queue \in [1 .. Count -> Nat]
  BY <1>5, <1>6 DEF Queue, TypeInv, TypeOK
<1>8. Queue \in Seq(Nat) /\ Len(Queue) = Count
  BY <1>4, <1>7, FunIsSeq
<1> QED
  BY <1>2, <1>4, <1>5, <1>6, <1>8 DEF ReadOff, Queue

LEMMA ReadsOffNext == (TypeInv /\ IInv /\ tx # "zero" => ReadOff)'
BY ReadsOff, PTL

LEMMA QueueSame == UNCHANGED <<slot, heap>> /\ First' = First /\ Taken' = Taken => Queue' = Queue
BY DEF Queue, Count

LEMMA QueueEqual ==
  ASSUME ReadOff, ReadOff', Count' = Count,
         \A k \in 1 .. Count : heap'[slot'[Pos(k)']] = heap[slot[Pos(k)]]
  PROVE  Queue' = Queue
<1>1. \A k \in 1 .. Count : Queue'[k] = Queue[k]
  BY DEF ReadOff
<1> QED
  BY <1>1, SeqEqual DEF ReadOff

LEMMA QueueCleared ==
  ASSUME \A i \in Slots : slot'[i] = NULL, Taken' = 0
  PROVE  Queue' = <<>>
<1>1. Occupied' = {}
  BY DEF Occupied
<1>2. Count' = 0
  BY <1>1, FS_EmptySet DEF Count, Occupied
<1>3. Queue' \in [1 .. 0 -> Nat]
  BY <1>2 DEF Queue
<1>4. Queue' \in Seq(Nat) /\ Len(Queue') = 0
  BY <1>3, FunIsSeq
<1> QED
  BY <1>4, EmptySeq

-----------------------------------------------------------------------------
(* Every step is a step of the abstract queue or leaves it as it is.       *)

Same == Queue' = Queue /\ Taken' = Taken /\ sent' = sent /\ Newest' = Newest

\* One that only takes some other block changes no frame in the queue.
LEMMA OtherBlocks ==
  ASSUME ReadOff, ReadOff', UNCHANGED slot, First' = First, Taken' = Taken,
         \A i \in Slots : slot[i] # NULL /\ ~Gone(i) => heap'[slot[i]] = heap[slot[i]]
  PROVE  Queue' = Queue
<1>1. Count' = Count
  BY DEF Count
<1>2. \A k \in 1 .. Count : Pos(k)' = Pos(k)
  BY DEF Pos
<1>3. \A k \in 1 .. Count : heap'[slot'[Pos(k)']] = heap[slot[Pos(k)]]
  BY <1>2 DEF ReadOff
<1> QED
  BY <1>1, <1>3, QueueEqual

LEMMA PutFifo ==
  ASSUME ~Preempt, TypeInv, TypeInv', IInv, IInv', Order, PutDataFrame
  PROVE  Fifo!Next \/ Same
<1> USE FrameQueueAssumption
    DEF PutStep, PutMayRun, queue, memory, server, putV, txV, tcpV, Pending, Newest, Same
<1>0. tx # "zero" /\ tx' = tx /\ FrameOut' = FrameOut /\ sent' = sent
  BY DEF PutDataFrame, PutRefuse, PutAlloc, PutWaitBusy, PutTakeBusy, PutDiscard, PutInsert,
         PutWrap, PutUnwrap, PutEvalFull, PutSetFull, PutRelease, TxInside, FreeInside
<1>1. ReadOff /\ ReadOff'
  BY <1>0, ReadsOff, ReadsOffNext
<1>2. First' = First /\ Taken' = Taken
  BY <1>0 DEF First, Taken
<1>8. /\ Taken \in {0, 1} /\ Taken \in Nat /\ Count \in Nat /\ Count + Taken = Span /\ Span \in 0 .. N
      /\ Count' \in Nat /\ Count' + Taken = Span'
  <2>1. Taken \in {0, 1} /\ Taken \in Nat
    BY DEF Taken
  <2>2. Count' \in Nat /\ Count' + Taken' = Span'
    BY <1>1 DEF ReadOff
  <2>3. Count \in Nat /\ Count + Taken = Span /\ Span \in 0 .. N
    BY <1>1 DEF ReadOff
  <2> QED
    BY <1>2, <2>1, <2>2, <2>3
<1>3. CASE PutRefuse
  <2>1. Queue' = Queue
    BY <1>2, <1>3, QueueSame DEF PutRefuse
  <2>2. Newest' = Newest + 1
    BY <1>3 DEF PutRefuse, TypeInv, TypeOK
  <2> QED
    BY <1>0, <1>2, <2>1, <2>2 DEF Fifo!Next, Fifo!Refuse, Queue
<1>4. CASE PutAlloc
  <2>1. PICK b \in Buf : heap[b] = 0 /\ heap' = [heap EXCEPT ![b] = made + 1]
    BY <1>4 DEF PutAlloc
  <2>2. \A i \in Slots : slot[i] # NULL /\ ~Gone(i) => heap'[slot[i]] = heap[slot[i]]
    BY <2>1 DEF IInv, Blocks0, Stale, Gone, TypeInv, TypeOK
  <2>3. Queue' = Queue
    BY <1>1, <1>2, <1>4, <2>2, OtherBlocks DEF PutAlloc
  <2>4. Newest' = Newest
    BY <1>4 DEF PutAlloc, TypeInv, TypeOK
  <2> QED
    BY <1>0, <1>2, <2>3, <2>4
<1>5. CASE PutDiscard
  <2>1. CASE ~FrameQFull
    <3>1. Queue' = Queue
      BY <1>2, <1>5, <2>1, QueueSame DEF PutDiscard
    <3> QED
      BY <1>0, <1>2, <1>5, <2>1, <3>1 DEF PutDiscard
  <2>2. CASE FrameQFull
    <3>1. /\ put = "full" /\ put' = "insert" /\ PrevIn \in Slots /\ FrameIn' = PrevIn
          /\ slot' = [slot EXCEPT ![PrevIn] = NULL] /\ heap' = Freed({slot[PrevIn]})
          /\ made' = made /\ FrameQFull' = FrameQFull
      BY <1>5, <2>2 DEF PutDiscard, PrevIn, IInv, Indices, Slots
    <3>2. /\ FrameIn = FrameOut /\ PrevIn # FrameOut /\ Next0(PrevIn) = FrameOut
          /\ ~TxInside
      BY <1>5, <2>2, <3>1 DEF PrevIn, IInv, Indices, FullFlag, In0, Out0, Alone, PutInside,
         TxInside, SendInside, TypeInv, TypeOK, InRange, Slots, Next0
    <3>3. Span = N /\ Span' = N - 1
      BY <1>0, <2>2, <3>1, <3>2 DEF Span, In0, Out0, Full0, TxInside, SendInside, PrevIn, Slots,
         TypeInv, TypeOK
    <3>4. Count' = Count - 1 /\ Count + Taken = N /\ Count \in Nat /\ Count >= 1
      <4>1. Count + Taken = N
        BY <1>8, <3>3
      <4>2. Count >= 1
        BY <1>8, <4>1
      <4>3. Count' + Taken = N - 1
        BY <1>8, <3>3
      <4>4. Count' = Count - 1
        <5>1. \A c \in Nat : c + Taken = N - 1 => c = Count - 1
          BY <1>8, <4>1
        <5> QED
          BY <1>8, <4>3, <5>1, Zenon
      <4> QED
        BY <1>8, <4>1, <4>2, <4>4
    <3>5. ASSUME NEW k \in 1 .. Count - 1 PROVE Queue'[k] = Queue[k]
      <4>1. Pos(k)' = Pos(k) /\ k \in 1 .. Count /\ k \in 1 .. Count'
        BY <1>2, <3>4 DEF Pos
      <4>2. Pos(k) \in Slots /\ slot[Pos(k)] # NULL /\ slot'[Pos(k)] # NULL /\ ~Gone(Pos(k))
        BY <1>1, <4>1 DEF ReadOff
      <4>3. Pos(k) # PrevIn /\ slot'[Pos(k)] = slot[Pos(k)]
        BY <3>1, <4>2 DEF TypeInv, TypeOK
      <4>4. slot[PrevIn] # slot[Pos(k)]
        BY <3>1, <3>2, <4>2, <4>3 DEF IInv, Blocks0, Stale, Gone
      <4>5. heap'[slot[Pos(k)]] = heap[slot[Pos(k)]]
        BY <3>1, <4>2, <4>4 DEF Freed, TypeInv, TypeOK
      <4> QED
        BY <1>1, <4>1, <4>3, <4>5 DEF ReadOff
    <3>6. /\ SubSeq(Queue, 1, Count - 1) \in Seq(Nat) /\ Len(SubSeq(Queue, 1, Count - 1)) = Count - 1
          /\ \A k \in 1 .. Count - 1 : SubSeq(Queue, 1, Count - 1)[k] = Queue[k]
      BY <1>1, <3>4 DEF ReadOff
    <3>7. Queue' = SubSeq(Queue, 1, Len(Queue) - 1)
      BY <1>1, <3>4, <3>5, <3>6, SeqEqual DEF ReadOff
    <3>8. Len(Queue) + Taken = N /\ Queue # <<>>
      BY <1>1, <3>4, EmptySeq DEF ReadOff
    <3>9. Newest' = Newest
      BY <3>1
    <3> QED
      BY <1>0, <1>2, <3>7, <3>8, <3>9 DEF Fifo!Next, Fifo!Discard, Queue
  <2> QED
    BY <2>1, <2>2
<1>6. CASE PutInsert
  <2>1. /\ put = "insert" /\ put' = "wrap" /\ FrameIn \in Slots /\ putbuf # NULL
        /\ slot' = [i \in Slots |-> IF i = FrameIn THEN putbuf ELSE slot[i]]
        /\ FrameIn' = FrameIn + 1 /\ ~TxInside /\ UNCHANGED <<heap, made>>
    BY <1>6 DEF PutInsert, IInv, Indices, Blocks0, Alone, PutInside
  <2>2. slot[FrameIn] = NULL
    BY <2>1 DEF IInv, Ring, Within, In0, Out0, Full0, TxInside, SendInside, FreeInside, TypeInv,
       TypeOK, Slots
  <2>3. /\ FrameOut \in Slots /\ In0 = FrameIn /\ Out0 = FrameOut /\ Out0' = FrameOut
        /\ ~Full0 /\ Full0' /\ In0' = Next0(FrameIn)
    BY <1>0, <2>1 DEF In0, Out0, Full0, Next0, TxInside, SendInside, Slots, TypeInv, TypeOK
  <2>4. /\ Count' = Count + 1 /\ Count \in Nat /\ Count + Taken < N
        /\ FrameOut + Count + Taken = FrameIn \/ FrameOut + Count + Taken = FrameIn + N
    <3>1. Span' = Span + 1 /\ (FrameOut + Span = FrameIn \/ FrameOut + Span = FrameIn + N)
      BY <2>1, <2>3 DEF Span, Slots, Next0
    <3>2. Span' \in 0 .. N
      BY <1>1 DEF ReadOff
    <3>3. Count + Taken < N
      BY <1>8, <3>1, <3>2
    <3>4. Count' = Count + 1
      <4>1. \A c \in Nat : c + Taken = Span + 1 => c = Count + 1
        BY <1>8
      <4> QED
        BY <1>8, <3>1, <4>1, Zenon
    <3>5. FrameOut + Count + Taken = FrameOut + Span
      BY <1>8, <2>3 DEF Slots
    <3> QED
      BY <1>8, <3>1, <3>3, <3>4, <3>5
  <2>5. ASSUME NEW k \in 1 .. Count PROVE Queue'[k] = Queue[k]
    <3>1. Pos(k)' = Pos(k) /\ k \in 1 .. Count'
      BY <1>2, <2>4 DEF Pos
    <3>2. Pos(k) \in Slots /\ slot[Pos(k)] # NULL
      BY <1>1 DEF ReadOff
    <3>3. slot'[Pos(k)] = slot[Pos(k)]
      BY <2>1, <2>2, <3>2
    <3>4. heap' = heap
      BY <2>1
    <3>5. Queue'[k] = heap'[slot'[Pos(k)']]
      BY <1>1, <3>1 DEF ReadOff
    <3>6. Queue[k] = heap[slot[Pos(k)]]
      BY <1>1 DEF ReadOff
    <3> QED
      BY <3>1, <3>3, <3>4, <3>5, <3>6
  <2>6. ASSUME NEW k \in Nat, k = Count + 1 PROVE Queue'[k] = Newest + 1
    <3>1. First = FrameOut + Taken /\ First \in Nat
      BY <2>1, <2>3 DEF First, Taken, TxInside, SendInside, Slots
    <3>2. First + k - 1 = FrameIn \/ First + k - 1 = FrameIn + N
      BY <1>8, <2>3, <2>4, <2>6, <3>1 DEF Slots
    <3>3. Pos(k) = FrameIn
      <4>1. First + k - 1 = FrameIn => ~(First + k - 1 >= N)
        BY <2>1, <3>1 DEF Slots
      <4>2. First + k - 1 = FrameIn + N => First + k - 1 >= N /\ First + k - 1 - N = FrameIn
        BY <2>1, <3>1 DEF Slots
      <4> QED
        BY <3>2, <4>1, <4>2 DEF Pos
    <3>4. Pos(k)' = FrameIn
      BY <1>2, <3>3 DEF Pos
    <3>5. slot'[FrameIn] = putbuf /\ heap'[putbuf] = made /\ made \in Nat /\ Newest + 1 = made
      BY <2>1 DEF Order, PutsNewest
    <3>6. Queue'[k] = heap'[slot'[Pos(k)']]
      BY <1>1, <2>4, <2>6 DEF ReadOff
    <3> QED
      BY <3>4, <3>5, <3>6
  <2>7. Newest \in Nat /\ Newest' = Newest + 1
    BY <2>1 DEF Order, PutsNewest
  <2>8. /\ Append(Queue, Newest + 1) \in Seq(Nat) /\ Len(Append(Queue, Newest + 1)) = Count + 1
        /\ \A k \in 1 .. Count : Append(Queue, Newest + 1)[k] = Queue[k]
        /\ Append(Queue, Newest + 1)[Count + 1] = Newest + 1
    BY <1>1, <2>7, SMTT(30) DEF ReadOff
  <2>9. \A k \in 1 .. Count + 1 : k \in 1 .. Count \/ k = Count + 1
    BY <2>4
  <2>10. Queue' = Append(Queue, Newest + 1)
    <3>1. \A k \in 1 .. Count + 1 : Queue'[k] = Append(Queue, Newest + 1)[k]
      BY <2>4, <2>5, <2>6, <2>8, <2>9
    <3> QED
      BY <1>1, <2>4, <2>8, <3>1, SeqEqual DEF ReadOff
  <2>11. Len(Queue) + Taken < N
    BY <1>1, <2>4 DEF ReadOff
  <2> QED
    BY <1>0, <1>2, <2>7, <2>10, <2>11 DEF Fifo!Next, Fifo!Append1, Queue
<1>7. CASE PutWaitBusy \/ PutTakeBusy \/ PutWrap \/ PutUnwrap \/ PutEvalFull \/ PutSetFull \/ PutRelease
  <2>1. UNCHANGED <<slot, heap>> /\ Newest' = Newest
    BY <1>7 DEF PutWaitBusy, PutTakeBusy, PutWrap, PutUnwrap, PutEvalFull, PutSetFull, PutRelease
  <2> QED
    BY <1>0, <1>2, <2>1, QueueSame
<1> QED
  BY <1>3, <1>4, <1>5, <1>6, <1>7 DEF PutDataFrame

LEMMA TxFifo ==
  ASSUME ~Preempt, TypeInv, TypeInv', IInv, IInv', Order, Thread_MeasureTx
  PROVE  Fifo!Next \/ Same
<1> USE FrameQueueAssumption
    DEF TxStep, queue, memory, server, putV, txV, tcpV, Pending, Newest, Same
<1>1. tx # "zero" => ReadOff
  BY ReadsOff
<1>2. tx' # "zero" => ReadOff'
  BY ReadsOffNext
<1>3. CASE SendTransmit
  <2>1. /\ tx = "xmit" /\ tx' = "free" /\ UNCHANGED <<slot, heap, FrameOut, put, made>>
        /\ sent' \in {sent, Append(sent, heap[slot[FrameOut]])}
        /\ FrameOut \in Slots /\ slot[FrameOut] # NULL
    BY <1>3 DEF SendTransmit, IInv, Head0, TypeInv, TypeOK
  <2>2. Taken = 0 /\ Taken' = 1 /\ First = FrameOut /\ First' = FrameOut + 1
    BY <2>1 DEF Taken, First
  <2>3. ReadOff /\ ReadOff'
    BY <1>1, <1>2, <2>1
  <2>4. Count \in Nat /\ Count' \in Nat /\ Count' = Count - 1
    <3>1. Cardinality(Occupied) \in Nat /\ Occupied' = Occupied
      BY <2>1, Counted, FS_CardinalityType DEF Occupied
    <3>2. Count = Cardinality(Occupied) - 0 /\ Count' = Cardinality(Occupied) - 1
      BY <2>2, <3>1 DEF Count, Occupied
    <3> QED
      BY <2>3, <3>1, <3>2 DEF ReadOff
  <2>5. ASSUME NEW k \in 1 .. Count - 1 PROVE Queue'[k] = Queue[k + 1]
    <3>1. k \in 1 .. Count' /\ k + 1 \in 1 .. Count
      BY <2>4
    <3>2. Pos(k)' = Pos(k + 1)
      BY <2>1, <2>2, <3>1 DEF Pos, Slots
    <3>3. Queue'[k] = heap'[slot'[Pos(k)']]
      BY <2>3, <3>1 DEF ReadOff
    <3>4. Queue[k + 1] = heap[slot[Pos(k + 1)]]
      BY <2>3, <3>1 DEF ReadOff
    <3> QED
      BY <2>1, <3>2, <3>3, <3>4
  <2>6. Queue # <<>> /\ Count >= 1
    <3>1. Count >= 1
      BY <2>4
    <3> QED
      BY <2>3, <3>1, EmptySeq DEF ReadOff
  <2>7. Head(Queue) = heap[slot[FrameOut]]
    <3>1. Pos(1) = FrameOut /\ 1 \in 1 .. Count
      BY <2>1, <2>2, <2>4, <2>6 DEF Pos, Slots
    <3>2. Queue[1] = heap[slot[FrameOut]]
      BY <2>3, <3>1 DEF ReadOff
    <3> QED
      BY <2>3, <2>6, <3>2 DEF ReadOff
  <2>8. Queue' = Tail(Queue)
    <3>1. /\ Tail(Queue) \in Seq(Nat) /\ Len(Tail(Queue)) = Count - 1
          /\ \A k \in 1 .. Count - 1 : Tail(Queue)[k] = Queue[k + 1]
      BY <2>3, <2>6, HeadTailProperties DEF ReadOff
    <3>2. Queue' \in Seq(Nat) /\ Len(Queue') = Count - 1
      BY <2>3, <2>4 DEF ReadOff
    <3>3. \A k \in 1 .. Count - 1 : Queue'[k] = Tail(Queue)[k]
      BY <2>5, <3>1
    <3> QED
      BY <3>1, <3>2, <3>3, SeqEqual
  <2>9. Newest' = Newest
    BY <2>1
  <2> QED
    BY <2>1, <2>2, <2>6, <2>7, <2>8, <2>9 DEF Fifo!Next, Fifo!Transmit, Queue
<1>4. CASE SendFree
  <2>1. /\ tx = "free" /\ tx' = "wait" /\ FrameOut \in Slots /\ txbuf = slot[FrameOut] /\ txbuf # NULL
        /\ heap' = Freed({txbuf}) /\ UNCHANGED <<slot, FrameOut, made, sent, put>>
    BY <1>4 DEF SendFree, IInv, Head0, TypeInv, TypeOK
  <2>2. First' = First /\ Taken' = Taken
    BY <2>1 DEF First, Taken
  <2>3. \A i \in Slots : slot[i] # NULL /\ ~Gone(i) => heap'[slot[i]] = heap[slot[i]]
    BY <2>1 DEF Freed, IInv, Blocks0, Stale, Gone, TypeInv, TypeOK
  <2>4. Queue' = Queue
    BY <1>1, <1>2, <2>1, <2>2, <2>3, OtherBlocks
  <2> QED
    BY <2>1, <2>2, <2>4
<1>5. CASE SendClear
  <2>1. /\ tx = "clear" /\ tx' = "advance" /\ FrameOut \in Slots /\ put \notin {"wrap", "unwrap"}
        /\ slot' = [slot EXCEPT ![FrameOut] = NULL]
        /\ UNCHANGED <<FrameOut, heap, made, sent, put>>
    BY <1>5 DEF SendClear, TypeInv, TypeOK, IInv, Alone, PutInside, TxInside, SendInside
  <2>2. Taken = 1 /\ Taken' = 0 /\ First' = First
    BY <2>1 DEF First, Taken
  <2>3. ReadOff /\ ReadOff' /\ slot[FrameOut] # NULL
    BY <1>1, <1>2, <2>1 DEF IInv, Head0
  <2>4. Count' = Count
    <3>1. IsFiniteSet(Occupied) /\ Occupied' = Occupied \ {FrameOut} /\ FrameOut \in Occupied
      BY <2>1, <2>3, Counted DEF Occupied, TypeInv, TypeOK
    <3>2. Cardinality(Occupied') = Cardinality(Occupied) - 1
      BY <3>1, FS_RemoveElement
    <3>3. Count = Cardinality(Occupied) - 1 /\ Count' = Cardinality(Occupied') - 0
      BY <2>2 DEF Count, Occupied
    <3>4. Cardinality(Occupied) \in Nat
      BY <3>1, FS_CardinalityType
    <3> QED
      BY <3>2, <3>3, <3>4
  <2>5. ASSUME NEW k \in 1 .. Count PROVE heap'[slot'[Pos(k)']] = heap[slot[Pos(k)]]
    <3>1. Pos(k)' = Pos(k)
      BY <2>2 DEF Pos
    <3>2. Pos(k) \in Slots /\ Pos(k) # FrameOut
      BY <2>1, <2>3 DEF ReadOff, Gone
    <3>3. slot'[Pos(k)] = slot[Pos(k)]
      BY <2>1, <3>2
    <3> QED
      BY <2>1, <3>1, <3>3
  <2>6. Queue' = Queue
    BY <2>3, <2>4, <2>5, QueueEqual
  <2>7. Newest' = Newest
    BY <2>1
  <2> QED
    BY <2>1, <2>2, <2>6, <2>7 DEF Fifo!Next, Fifo!GiveBack, Queue
<1>6. CASE SendAdvance
  <2>1. /\ tx = "advance" /\ tx' = "eval" /\ FrameOut \in Slots /\ FrameOut' = Next0(FrameOut)
        /\ UNCHANGED <<slot, heap, made, sent, put>>
    BY <1>6 DEF SendAdvance, TypeInv, TypeOK, Next0, Slots
  <2>2. Taken = 0 /\ Taken' = 0 /\ First = FrameOut + 1 /\ First' = Next0(FrameOut)
    BY <2>1 DEF First, Taken
  <2>3. ReadOff /\ ReadOff'
    BY <1>1, <1>2, <2>1
  <2>4. Count' = Count
    BY <2>1, <2>2 DEF Count
  <2>5. \A k \in 1 .. Count : Pos(k)' = Pos(k)
    <3>1. Count \in Nat /\ Count <= N
      BY <2>2, <2>3, FrameQueueAssumption DEF ReadOff
    <3> QED
      BY <2>1, <2>2, <3>1, Advance DEF Pos
  <2>6. Queue' = Queue
    BY <2>1, <2>3, <2>4, <2>5, QueueEqual
  <2> QED
    BY <2>1, <2>2, <2>6
<1>7. CASE FreeDrain
  <2>1. /\ tx = "drain" /\ tx' = "zero" /\ Taken = 0 /\ Taken' = 0
        /\ UNCHANGED <<made, sent, put>> /\ ~PutInside
    BY <1>7 DEF FreeDrain, Taken, IInv, Alone, TxInside, FreeInside
  <2>2. CASE Walked = {}
    <3>1. UNCHANGED <<slot, heap, FrameOut>>
      BY <1>7, <2>2 DEF FreeDrain, Freed, TypeInv, TypeOK
    <3>2. First' = First
      BY <2>1, <3>1 DEF First
    <3> QED
      BY <2>1, <3>1, <3>2, QueueSame
  <2>3. CASE Walked # {}
    <3>1. \A i \in Slots : slot[i] # NULL => i \in Walked
      BY <2>1, <2>3 DEF IInv, Ring, Within, In0, Out0, Full0, Walked, Indices, PutInside, TypeInv,
         TypeOK, InRange, Slots
    <3>2. \A i \in Slots : slot'[i] = NULL
      BY <1>7, <3>1 DEF FreeDrain
    <3>3. Queue' = <<>>
      BY <2>1, <3>2, QueueCleared
    <3> QED
      BY <2>1, <3>3 DEF Fifo!Next, Fifo!Flush, Queue
  <2> QED
    BY <2>2, <2>3
<1>8. CASE FreeZero \/ TxReset
  <2>1. /\ \A i \in Slots : slot'[i] = NULL
        /\ Taken = 0 /\ Taken' = 0 /\ UNCHANGED <<made, sent, put>>
    BY <1>8 DEF FreeZero, TxReset, ZeroQueue, Taken
  <2>2. Queue' = <<>>
    BY <2>1, QueueCleared
  <2> QED
    BY <2>1, <2>2 DEF Fifo!Next, Fifo!Flush, Queue
<1>9. CASE \/ SendLook \/ SendWaitBusy \/ SendTakeBusy \/ SendEvalEmpty \/ SendSetEmpty \/ SendRelease
           \/ FreeWaitBusy \/ FreeTakeBusy \/ TxAnnounce \/ TxSleep \/ TxLeave
  <2>1. UNCHANGED <<slot, heap, FrameOut, made, sent, put>> /\ First' = First /\ Taken' = Taken
    BY <1>9 DEF SendLook, SendWaitBusy, SendTakeBusy, SendEvalEmpty, SendSetEmpty, SendRelease,
       FreeWaitBusy, FreeTakeBusy, TxAnnounce, TxSleep, TxLeave, First, Taken
  <2> QED
    BY <2>1, QueueSame
<1> QED
  BY <1>3, <1>4, <1>5, <1>6, <1>7, <1>8, <1>9 DEF Thread_MeasureTx, SendDataFrame, FreeFrameQ

LEMMA OtherFifo ==
  ASSUME TypeInv, Thread_TcpSocket \/ UNCHANGED vars
  PROVE  Same
<1>1. /\ UNCHANGED <<slot, heap, FrameOut, made, sent, put>> /\ First' = First /\ Taken' = Taken
  BY DEF Thread_TcpSocket, Accept, HostGone, Join, TypeInv, Joined, First, Taken,
     vars, queue, memory, server, putV, txV, tcpV
<1> QED
  BY <1>1, QueueSame DEF Same, Newest, Pending

LEMMA InitFifo == Init => Fifo!Init
<1> SUFFICES ASSUME Init PROVE Fifo!Init
  OBVIOUS
<1>1. Occupied = {} /\ Taken = 0
  BY DEF Init, Occupied, Taken
<1>2. Count = 0
  BY <1>1, FS_EmptySet DEF Count, Occupied
<1>3. Queue \in [1 .. 0 -> Nat]
  BY <1>2 DEF Queue
<1>4. Queue = <<>>
  BY <1>3, FunIsSeq, EmptySeq
<1> QED
  BY <1>1, <1>4 DEF Init, Fifo!Init, Queue

\* With undisturbed sections the ring, its flags and its three threads are the
\* bounded FIFO that FrameFifo describes.
THEOREM SerialRefines ==
  ASSUME ~Preempt
  PROVE  Spec => ImplementsFifo
<1>1. TypeInv /\ TypeInv' /\ IInv /\ IInv' /\ Order /\ [Next]_vars => [Fifo!Next]_(Fifo!vars)
  <2> SUFFICES ASSUME TypeInv, TypeInv', IInv, IInv', Order, [Next]_vars
               PROVE  [Fifo!Next]_(Fifo!vars)
    OBVIOUS
  <2>1. Fifo!Next \/ Same
    BY PutFifo, TxFifo, OtherFifo DEF Next
  <2>2. Same => UNCHANGED Fifo!vars
    BY DEF Same, Fifo!vars, Queue, Newest, Pending
  <2> QED
    BY <2>1, <2>2
<1> QED
  BY <1>1, InitFifo, Invariant, TypeInvariant, OrderInvariant, PTL DEF Spec, Fifo!Spec, ImplementsFifo
==============================================================================
