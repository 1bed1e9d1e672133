-------------------------- MODULE FrameQueueProofs --------------------------
(***************************************************************************)
(* Proofs about FrameQueue, for every queue size, pool and number of       *)
(* frames and hosts: type correctness under any interleaving, and, when    *)
(* the critical sections run undisturbed, that the indices and flags       *)
(* always describe the occupied slots, that the block being sent is never  *)
(* freed under the sender, that frames reach the wire in the order they    *)
(* were made and none twice, and that no operation loses a block.          *)
(***************************************************************************)
EXTENDS FrameQueue, TLAPS

-----------------------------------------------------------------------------
(* The inductive invariant of the undisturbed queue.                       *)

Next0(i) == IF i + 1 >= N THEN 0 ELSE i + 1

\* The indices as they will be once the pending wrap or advance is done.
In0  == IF put \in {"wrap", "unwrap"} /\ FrameIn = N THEN 0 ELSE FrameIn
Out0 == IF tx = "advance" THEN Next0(FrameOut) ELSE FrameOut

\* What equal indices mean at this point: a full ring, or an empty one.
Full0 ==
  \/ put \in {"wrap", "unwrap", "eval", "setfull"}
  \/ /\ put # "insert"
     /\ tx \notin {"advance", "eval", "setempty", "release"}
     /\ FrameQFull = TRUE

Within(i) ==
  \/ Out0 < In0 /\ Out0 <= i /\ i < In0
  \/ In0 < Out0 /\ (Out0 <= i \/ i < In0)
  \/ In0 = Out0 /\ Full0

\* One thread at a time, and FrameQBusy is down when none is inside.
Alone ==
  /\ ~(PutInside /\ TxInside)
  /\ ~PutInside /\ ~TxInside => FrameQBusy = FALSE

Indices ==
  /\ put \notin {"wrap", "unwrap"} => FrameIn \in Slots
  /\ put = "wrap" => FrameIn \in 1 .. N
  /\ put = "unwrap" => FrameIn = N
  /\ put = "setfull" => FrameIn = FrameOut
  /\ put = "release" /\ FrameIn = FrameOut => FrameQFull = TRUE
  /\ tx = "setempty" => FrameIn = FrameOut

Ring == tx # "zero" => \A i \in Slots : slot[i] # NULL <=> Within(i)

FullFlag ==
  /\ FrameQFull = TRUE /\ put # "insert" => In0 = Out0
  /\ FrameQFull = TRUE /\ put = "insert" => Next0(FrameIn) = FrameOut
  /\ tx \in {"advance", "eval", "setempty", "release"} => FrameQFull = FALSE

EmptyFlag ==
  /\ tx \notin {"off", "reset", "zero", "advance", "eval", "setempty"} =>
       (FrameQEmpty = TRUE <=> In0 = Out0 /\ ~Full0)
  /\ tx \in {"advance", "eval", "setempty"} => FrameQEmpty = FALSE

\* From its look at the queue until it clears the slot, the sender has a head.
Head0 ==
  /\ tx \in {"xmit", "free", "wait", "take", "clear"} => slot[FrameOut] # NULL
  /\ tx \in {"xmit", "free"} => txbuf = slot[FrameOut]

\* The head slot outlives its block from the free() to the clearing.
Stale(i) == tx \in {"wait", "take", "clear"} /\ i = FrameOut

Blocks0 ==
  /\ put \in {"wait", "take", "full", "insert"} =>
       putbuf # NULL /\ heap[putbuf] # 0
  /\ \A i \in Slots : slot[i] # NULL /\ ~Stale(i) =>
       heap[slot[i]] # 0 /\ slot[i] # putbuf
  /\ \A i, j \in Slots :
       slot[i] # NULL /\ slot[i] = slot[j] /\ ~Stale(i) /\ ~Stale(j) => i = j

IInv ==
  Alone /\ Indices /\ Ring /\ FullFlag /\ EmptyFlag /\ Head0 /\ Blocks0

-----------------------------------------------------------------------------
(* Type correctness, whatever the threads do to each other.                *)

\* The command thread accepts only when no sender thread is left.
Joined == tcp = "listen" => tx = "off"

\* FrameIn strays below 0 only between a wrap decided and a queue zeroed, and
\* never past the end outside those two steps.
InRange ==
  /\ put \notin {"wrap", "unwrap"} => FrameIn \in 0 - N .. N - 1
  /\ put = "wrap" => FrameIn \in 1 - N .. N
  /\ put = "unwrap" => FrameIn \in 0 .. N

TypeInv == TypeOK /\ InRange /\ Joined

LEMMA InitType == Init => TypeInv
  <1> USE FrameQueueAssumption DEF Init, Slots, Joined
  <1> SUFFICES ASSUME Init PROVE TypeInv
    OBVIOUS
  <1>1. slot \in [Slots -> Buf \cup {NULL}] /\ heap \in [Buf -> Nat]
    OBVIOUS
  <1>2. InRange /\ FrameIn \in 0 - N .. N /\ FrameOut \in Slots
    BY DEF InRange
  <1>3. sent \in Seq(Nat) /\ made \in Nat /\ conns \in Nat
    OBVIOUS
  <1>4. {FrameQFull, FrameQEmpty, FrameQBusy, DataFrameQServerOpen,
         Thread_MeasureTx_exit, txok} \subseteq BOOLEAN
    OBVIOUS
  <1> QED
    BY <1>1, <1>2, <1>3, <1>4 DEF TypeInv, TypeOK

LEMMA PutType == TypeInv /\ PutDataFrame => TypeInv'
  <1> USE FrameQueueAssumption
      DEF TypeInv, TypeOK, InRange, Joined, Slots, queue, memory, server, putV, txV, tcpV, PutStep
  <1> SUFFICES ASSUME TypeInv, PutDataFrame PROVE TypeInv'
    OBVIOUS
  <1>1. CASE PutRefuse
    BY <1>1 DEF PutRefuse
  <1>2. CASE PutAlloc
    BY <1>2 DEF PutAlloc
  <1>3. CASE PutWaitBusy
    BY <1>3 DEF PutWaitBusy
  <1>4. CASE PutTakeBusy
    BY <1>4 DEF PutTakeBusy
  <1>5. CASE PutDiscard
    <2>1. FrameIn' \in 0 - N .. N - 1
      BY <1>5 DEF PutDiscard, PrevIn
    <2>2. slot' \in [Slots -> Buf \cup {NULL}]
      BY <1>5 DEF PutDiscard
    <2>3. heap' \in [Buf -> Nat]
      BY <1>5 DEF PutDiscard, Freed
    <2> QED
      BY <1>5, <2>1, <2>2, <2>3 DEF PutDiscard
  <1>6. CASE PutInsert
    <2>1. FrameIn' \in 1 - N .. N
      BY <1>6 DEF PutInsert
    <2>2. slot' \in [Slots -> Buf \cup {NULL}]
      BY <1>6 DEF PutInsert
    <2>3. InRange' /\ FrameIn' \in 0 - N .. N
      BY <1>6, <2>1 DEF PutInsert
    <2> QED
      BY <1>6, <2>2, <2>3 DEF PutInsert
  <1>7. CASE PutWrap
    BY <1>7 DEF PutWrap
  <1>8. CASE PutUnwrap
    BY <1>8 DEF PutUnwrap
  <1>9. CASE PutEvalFull
    BY <1>9 DEF PutEvalFull
  <1>10. CASE PutSetFull
    BY <1>10 DEF PutSetFull
  <1>11. CASE PutRelease
    BY <1>11 DEF PutRelease
  <1> QED
    BY <1>1, <1>2, <1>3, <1>4, <1>5, <1>6, <1>7, <1>8, <1>9, <1>10, <1>11
    DEF PutDataFrame

LEMMA SendType == TypeInv /\ SendDataFrame => TypeInv'
  <1> USE FrameQueueAssumption
      DEF TypeInv, TypeOK, InRange, Joined, Slots, queue, memory, server, putV, txV, tcpV, TxStep
  <1> SUFFICES ASSUME TypeInv, SendDataFrame PROVE TypeInv'
    OBVIOUS
  <1>1. CASE SendLook
    BY <1>1 DEF SendLook
  <1>2. CASE SendTransmit
    <2>1. CASE txbuf # NULL /\ sent' = Append(sent, heap[txbuf]) /\ txok' = TRUE
      <3>1. heap[txbuf] \in Nat
        BY <2>1
      <3>2. sent' \in Seq(Nat)
        BY <2>1, <3>1
      <3> QED
        BY <1>2, <2>1, <3>2 DEF SendTransmit
    <2>2. CASE txok' = FALSE /\ UNCHANGED sent
      BY <1>2, <2>2 DEF SendTransmit
    <2> QED
      BY <1>2, <2>1, <2>2 DEF SendTransmit
  <1>3. CASE SendFree
    BY <1>3 DEF SendFree, Freed
  <1>4. CASE SendWaitBusy
    BY <1>4 DEF SendWaitBusy
  <1>18. CASE SendTakeBusy
    BY <1>18 DEF SendTakeBusy
  <1>5. CASE SendClear
    BY <1>5 DEF SendClear
  <1>6. CASE SendAdvance
    BY <1>6 DEF SendAdvance
  <1>7. CASE SendEvalEmpty
    BY <1>7 DEF SendEvalEmpty
  <1>8. CASE SendSetEmpty
    BY <1>8 DEF SendSetEmpty
  <1>9. CASE SendRelease
    BY <1>9 DEF SendRelease
  <1> QED
    BY <1>1, <1>2, <1>3, <1>4, <1>5, <1>6, <1>7, <1>8, <1>9, <1>18 DEF SendDataFrame

LEMMA FreeType == TypeInv /\ FreeFrameQ => TypeInv'
  <1> USE FrameQueueAssumption
      DEF TypeInv, TypeOK, InRange, Joined, Slots, queue, memory, server, putV, txV, tcpV, TxStep
  <1> SUFFICES ASSUME TypeInv, FreeFrameQ PROVE TypeInv'
    OBVIOUS
  <1>1. CASE FreeWaitBusy
    BY <1>1 DEF FreeWaitBusy
  <1>2. CASE FreeTakeBusy
    BY <1>2 DEF FreeTakeBusy
  <1>3. CASE FreeDrain
    BY <1>3 DEF FreeDrain, Freed
  <1>4. CASE FreeZero
    <2>1. slot' \in [Slots -> Buf \cup {NULL}]
      BY <1>4 DEF FreeZero, ZeroQueue
    <2>2. InRange' /\ FrameIn' \in 0 - N .. N /\ FrameOut' \in Slots /\ FrameOut' \in 0 .. N
      BY <1>4 DEF FreeZero, ZeroQueue
    <2> QED
      BY <1>4, <2>1, <2>2 DEF FreeZero, ZeroQueue
  <1> QED
    BY <1>1, <1>2, <1>3, <1>4 DEF FreeFrameQ

LEMMA ThreadType ==
  TypeInv /\ (TxReset \/ TxAnnounce \/ TxSleep \/ TxLeave \/ Thread_TcpSocket) => TypeInv'
  <1> USE FrameQueueAssumption
      DEF TypeInv, TypeOK, InRange, Joined, Slots, queue, memory, server, putV, txV, tcpV, TxStep
  <1> SUFFICES ASSUME TypeInv,
                      TxReset \/ TxAnnounce \/ TxSleep \/ TxLeave \/ Thread_TcpSocket
               PROVE TypeInv'
    OBVIOUS
  <1>1. CASE TxReset
    <2>1. slot' \in [Slots -> Buf \cup {NULL}]
      BY <1>1 DEF TxReset, ZeroQueue
    <2>2. InRange' /\ FrameIn' \in 0 - N .. N /\ FrameOut' \in Slots /\ FrameOut' \in 0 .. N
      BY <1>1 DEF TxReset, ZeroQueue
    <2> QED
      BY <1>1, <2>1, <2>2 DEF TxReset, ZeroQueue
  <1>2. CASE TxAnnounce
    BY <1>2 DEF TxAnnounce
  <1>3. CASE TxSleep
    BY <1>3 DEF TxSleep
  <1>4. CASE TxLeave
    BY <1>4 DEF TxLeave
  <1>5. CASE Accept
    BY <1>5 DEF Accept
  <1>6. CASE HostGone
    BY <1>6 DEF HostGone
  <1>7. CASE Join
    BY <1>7 DEF Join
  <1> QED
    BY <1>1, <1>2, <1>3, <1>4, <1>5, <1>6, <1>7 DEF Thread_TcpSocket

LEMMA TypeInvariant == Spec => []TypeInv
  <1>1. TypeInv /\ [Next]_vars => TypeInv'
    <2> SUFFICES ASSUME TypeInv, [Next]_vars PROVE TypeInv'
      OBVIOUS
    <2>1. CASE UNCHANGED vars
      BY <2>1 DEF vars, queue, memory, server, putV, txV, tcpV, TypeInv, TypeOK, InRange, Joined
    <2> QED
      BY <2>1, PutType, SendType, FreeType, ThreadType DEF Next, Thread_MeasureTx
  <1> QED
    BY <1>1, InitType, PTL DEF Spec

\* Every word keeps its shape under any interleaving: in particular FrameOut
\* names a slot whenever the sender reads DataFrameQ through it.
THEOREM TypeCorrect == Spec => []TypeOK
  BY TypeInvariant, PTL DEF TypeInv

-----------------------------------------------------------------------------
(* The inductive invariant is preserved, one action at a time.             *)

LEMMA PutKeeps ==
  ASSUME ~Preempt, TypeInv, TypeInv', IInv, PutDataFrame
  PROVE  IInv'
  <1> USE FrameQueueAssumption
      DEF TypeInv, TypeOK, InRange, Joined, Slots, PutStep, TxStep, PutMayRun, TxMayRun, PutInside, TxInside,
          SendInside, FreeInside, WaitBusyOver, queue, memory, server, putV, txV, tcpV,
          IInv, Alone, Indices, Ring, FullFlag, EmptyFlag, Head0, Blocks0,
          In0, Out0, Full0, Next0, Within, Stale
  <1>1. CASE PutRefuse
    BY <1>1 DEF PutRefuse
  <1>2. CASE PutAlloc
    BY <1>2 DEF PutAlloc
  <1>3. CASE PutWaitBusy
    BY <1>3 DEF PutWaitBusy
  <1>4. CASE PutTakeBusy
    BY <1>4 DEF PutTakeBusy
  <1>5. CASE PutDiscard
    <2>1. CASE ~FrameQFull
      BY <1>5, <2>1 DEF PutDiscard
    <2>2. CASE FrameQFull
      <3>1. /\ FrameIn = FrameOut /\ PrevIn \in Slots /\ PrevIn # FrameOut
            /\ Next0(PrevIn) = FrameOut
        BY <1>5, <2>2 DEF PutDiscard, PrevIn
      <3>2. /\ put = "full" /\ put' = "insert" /\ ~TxInside
            /\ slot' = [slot EXCEPT ![PrevIn] = NULL] /\ heap' = Freed({slot[PrevIn]})
            /\ FrameIn' = PrevIn
            /\ UNCHANGED <<FrameOut, FrameQFull, FrameQEmpty, FrameQBusy, tx, txbuf, putbuf, tcp>>
        BY <1>5, <2>2 DEF PutDiscard
      <3>3. \A i \in Slots : slot[i] # NULL
        BY <2>2, <3>1, <3>2
      <3>4. \A i \in Slots : slot'[i] # NULL <=> i # PrevIn
        BY <3>1, <3>2, <3>3
      <3>5. tx \notin {"off", "reset"} => FrameQEmpty = FALSE
        BY <2>2, <3>1, <3>2
      <3>6. Alone' /\ Indices'
        BY <3>1, <3>2
      <3>10. FullFlag'
        BY <3>1, <3>2
      <3>11. EmptyFlag'
        BY <3>1, <3>2, <3>5
      <3>7. Ring'
        <4>1. \A i \in Slots : Within(i)' <=> i # PrevIn
          BY <3>1, <3>2
        <4> QED
          BY <3>4, <4>1
      <3>8. Head0'
        BY <3>1, <3>2
      <3>9. Blocks0'
        BY <3>1, <3>2, <3>3, <3>4 DEF Freed
      <3> QED
        BY <3>6, <3>7, <3>8, <3>9, <3>10, <3>11
    <2> QED
      BY <2>1, <2>2
  <1>6. CASE PutInsert
    BY <1>6, SMTT(30) DEF PutInsert
  <1>7. CASE PutWrap
    BY <1>7 DEF PutWrap
  <1>8. CASE PutUnwrap
    BY <1>8 DEF PutUnwrap
  <1>9. CASE PutEvalFull
    BY <1>9 DEF PutEvalFull
  <1>10. CASE PutSetFull
    BY <1>10 DEF PutSetFull
  <1>11. CASE PutRelease
    BY <1>11 DEF PutRelease
  <1> QED
    BY <1>1, <1>2, <1>3, <1>4, <1>5, <1>6, <1>7, <1>8, <1>9, <1>10, <1>11 DEF PutDataFrame

LEMMA TxKeeps ==
  ASSUME ~Preempt, TypeInv, TypeInv', IInv, Thread_MeasureTx
  PROVE  IInv'
  <1> USE FrameQueueAssumption
      DEF TypeInv, TypeOK, InRange, Joined, Slots, PutStep, TxStep, PutMayRun, TxMayRun, PutInside, TxInside,
          SendInside, FreeInside, WaitBusyOver, queue, memory, server, putV, txV, tcpV,
          IInv, Alone, Indices, Ring, FullFlag, EmptyFlag, Head0, Blocks0,
          In0, Out0, Full0, Next0, Within, Stale
  <1>1. CASE SendLook
    <2>1. FrameOut \in Slots /\ (~FrameQEmpty => slot[FrameOut] # NULL)
      BY <1>1 DEF SendLook
    <2> QED
      BY <1>1, <2>1, SMTT(30) DEF SendLook
  <1>2. CASE SendTransmit
    BY <1>2 DEF SendTransmit
  <1>3. CASE SendFree
    BY <1>3 DEF SendFree, Freed
  <1>4. CASE SendWaitBusy
    BY <1>4 DEF SendWaitBusy
  <1>18. CASE SendTakeBusy
    BY <1>18 DEF SendTakeBusy
  <1>5. CASE SendClear
    BY <1>5 DEF SendClear
  <1>6. CASE SendAdvance
    BY <1>6 DEF SendAdvance
  <1>7. CASE SendEvalEmpty
    BY <1>7 DEF SendEvalEmpty
  <1>8. CASE SendSetEmpty
    BY <1>8 DEF SendSetEmpty
  <1>9. CASE SendRelease
    BY <1>9 DEF SendRelease
  <1>10. CASE FreeWaitBusy
    BY <1>10 DEF FreeWaitBusy
  <1>11. CASE FreeTakeBusy
    BY <1>11 DEF FreeTakeBusy
  <1>12. CASE FreeDrain
    BY <1>12, SMTT(30) DEF FreeDrain, Freed, Walked
  <1>13. CASE FreeZero
    BY <1>13 DEF FreeZero, ZeroQueue
  <1>14. CASE TxReset
    BY <1>14 DEF TxReset, ZeroQueue
  <1>15. CASE TxAnnounce
    BY <1>15 DEF TxAnnounce
  <1>16. CASE TxSleep
    BY <1>16 DEF TxSleep
  <1>17. CASE TxLeave
    BY <1>17 DEF TxLeave
  <1> QED
    BY <1>1, <1>2, <1>3, <1>4, <1>5, <1>6, <1>7, <1>8, <1>9, <1>10, <1>11, <1>12, <1>13, <1>14, <1>15, <1>16, <1>17, <1>18
    DEF Thread_MeasureTx, SendDataFrame, FreeFrameQ

LEMMA TcpKeeps ==
  ASSUME ~Preempt, TypeInv, TypeInv', IInv, Thread_TcpSocket
  PROVE  IInv'
  <1> USE FrameQueueAssumption
      DEF TypeInv, TypeOK, InRange, Joined, Slots, PutStep, TxStep, PutMayRun, TxMayRun, PutInside, TxInside,
          SendInside, FreeInside, WaitBusyOver, queue, memory, server, putV, txV, tcpV,
          IInv, Alone, Indices, Ring, FullFlag, EmptyFlag, Head0, Blocks0,
          In0, Out0, Full0, Next0, Within, Stale
  <1>1. CASE Accept
    BY <1>1 DEF Accept
  <1>2. CASE HostGone
    BY <1>2 DEF HostGone
  <1>3. CASE Join
    BY <1>3 DEF Join
  <1> QED
    BY <1>1, <1>2, <1>3 DEF Thread_TcpSocket

LEMMA InitHolds == Init => IInv
  BY FrameQueueAssumption
  DEF Init, Slots, PutInside, TxInside, SendInside, FreeInside, IInv, Alone, Indices,
      Ring, FullFlag, EmptyFlag, Head0, Blocks0, In0, Out0, Full0, Within, Stale

LEMMA StepKeeps ==
  ASSUME ~Preempt, TypeInv, TypeInv', IInv, [Next]_vars
  PROVE  IInv'
  <1>1. CASE UNCHANGED vars
    BY <1>1
    DEF vars, queue, memory, server, putV, txV, tcpV, IInv, Alone, Indices, Ring,
        FullFlag, EmptyFlag, Head0, Blocks0, PutInside, TxInside, SendInside, FreeInside,
        In0, Out0, Full0, Within, Stale, Next0
  <1>2. CASE PutDataFrame
    BY <1>2, PutKeeps
  <1>3. CASE Thread_MeasureTx
    BY <1>3, TxKeeps
  <1>4. CASE Thread_TcpSocket
    BY <1>4, TcpKeeps
  <1> QED
    BY <1>1, <1>2, <1>3, <1>4 DEF Next

LEMMA Invariant ==
  ASSUME ~Preempt
  PROVE  Spec => []IInv
  <1>1. TypeInv /\ TypeInv' /\ IInv /\ [Next]_vars => IInv'
    BY StepKeeps
  <1> QED
    BY <1>1, InitHolds, TypeInvariant, PTL DEF Spec

-----------------------------------------------------------------------------
(* What follows for the queue.                                             *)

\* Every write of the producer falls inside DataFrameQ.
THEOREM SerialInBounds ==
  ASSUME ~Preempt
  PROVE  Spec => []InBounds
  <1>1. IInv => InBounds
    BY DEF IInv, Indices, InBounds
  <1> QED
    BY <1>1, Invariant, PTL

\* The block being sent stays in the head slot, live, until the sender frees it.
THEOREM SerialOwnership ==
  ASSUME ~Preempt
  PROVE  Spec => []SenderOwnsHead
  <1>1. TypeInv /\ IInv => SenderOwnsHead
    BY DEF IInv, TypeInv, TypeOK, InRange, Joined, Slots, Head0, Blocks0, Stale, SenderOwnsHead
  <1> QED
    BY <1>1, Invariant, TypeInvariant, PTL

\* Between operations the indices and the flags describe the occupied slots.
THEOREM SerialRing ==
  ASSUME ~Preempt
  PROVE  Spec => []RingAgrees
  <1>1. TypeInv /\ IInv => RingAgrees
    <2> SUFFICES ASSUME TypeInv, IInv, ~PutInside, ~TxInside, tx \notin {"off", "reset"}
                 PROVE  /\ \A i \in Slots : slot[i] # NULL <=> Between(i)
                        /\ FrameQEmpty <=> \A i \in Slots : slot[i] = NULL
                        /\ FrameQFull <=> \A i \in Slots : slot[i] # NULL
                        /\ ~FrameQBusy
      BY DEF RingAgrees
    <2> USE FrameQueueAssumption
        DEF TypeInv, TypeOK, InRange, Joined, Slots, PutInside, TxInside, SendInside, FreeInside, IInv, Ring,
            FullFlag, EmptyFlag, Indices, In0, Out0, Full0, Within, Between
    <2>1. \A i \in Slots : slot[i] # NULL <=> Between(i)
      OBVIOUS
    <2>2. FrameQFull => \A i \in Slots : slot[i] # NULL
      BY <2>1
    <2>3. ~FrameQFull => ~Between(FrameIn) /\ FrameIn \in Slots
      OBVIOUS
    <2>4. FrameQEmpty <=> FrameIn = FrameOut /\ ~FrameQFull
      OBVIOUS
    <2>5. ~FrameQEmpty => Between(FrameOut) /\ FrameOut \in Slots
      BY <2>4
    <2>6. FrameQEmpty => \A i \in Slots : ~Between(i)
      BY <2>4
    <2> QED
      BY <2>1, <2>2, <2>3, <2>5, <2>6 DEF Alone
  <1> QED
    BY <1>1, Invariant, TypeInvariant, PTL

-----------------------------------------------------------------------------
(* The order of the frames and the blocks of the heap.  The invariant      *)
(* above says which slots are occupied and by whom.                        *)

Pending == put \in {"wait", "take", "full", "insert"}
Newest  == IF Pending THEN made - 1 ELSE made

\* The head slot between its transmission and its clearing.
Gone(i) == tx \in {"free", "wait", "take", "clear"} /\ i = FrameOut

\* i comes before j on the way round from FrameOut.
Before(i, j) ==
  \/ FrameOut <= i /\ i < j
  \/ FrameOut <= i /\ j < FrameOut
  \/ i < j /\ j < FrameOut

\* The frame to be inserted is younger than any in the ring, the ring is in
\* order, and everything on the wire is older than what is still to be sent.
PutsNewest == Pending => made \in Nat \ {0} /\ heap[putbuf] = made
Wire ==
  /\ \A k \in 1 .. Len(sent) : sent[k] \in 1 .. Newest
  /\ \A k, l \in 1 .. Len(sent) : k < l => sent[k] < sent[l]
Numbers == \A i \in Slots : slot[i] # NULL /\ ~Stale(i) => heap[slot[i]] \in 1 .. Newest
AfterWire ==
  \A i \in Slots : slot[i] # NULL /\ ~Gone(i) =>
    \A k \in 1 .. Len(sent) : sent[k] < heap[slot[i]]
RingOrder ==
  \A i, j \in Slots :
    slot[i] # NULL /\ slot[j] # NULL /\ ~Stale(i) /\ ~Stale(j) /\ Before(i, j) =>
      heap[slot[i]] < heap[slot[j]]

Order == PutsNewest /\ Wire /\ Numbers /\ AfterWire /\ RingOrder

-----------------------------------------------------------------------------
(* The order is kept, one action at a time.                                *)

LEMMA PutKeepsOrder ==
  ASSUME ~Preempt, TypeInv, IInv, Order, PutDataFrame
  PROVE  Order'
<1> USE FrameQueueAssumption
    DEF TypeInv, TypeOK, InRange, Slots, PutStep, queue, memory, server, putV, txV, tcpV,
        Order, PutsNewest, Wire, Numbers, AfterWire, RingOrder, Pending, Newest, Gone, Stale, Before
<1>1. CASE PutRefuse
  BY <1>1, SMTT(30) DEF PutRefuse
<1>2. CASE PutAlloc
  <2>1. PICK b \in Buf : heap[b] = 0 /\ heap' = [heap EXCEPT ![b] = made + 1] /\ putbuf' = b
    BY <1>2 DEF PutAlloc
  <2>2. \A i \in Slots : slot[i] # NULL /\ ~Stale(i) => slot[i] # b /\ heap'[slot[i]] = heap[slot[i]]
    BY <2>1 DEF IInv, Blocks0
  <2> QED
    BY <1>2, <2>1, <2>2 DEF PutAlloc
<1>3. CASE PutWaitBusy \/ PutTakeBusy
  BY <1>3 DEF PutWaitBusy, PutTakeBusy
<1>4. CASE PutDiscard
  <2>1. CASE ~FrameQFull
    BY <1>4, <2>1 DEF PutDiscard
  <2>2. CASE FrameQFull
    <3>1. /\ put = "full" /\ put' = "insert" /\ PrevIn \in Slots
          /\ slot' = [slot EXCEPT ![PrevIn] = NULL] /\ heap' = Freed({slot[PrevIn]})
          /\ UNCHANGED <<FrameOut, tx, putbuf, made, sent>>
      BY <1>4, <2>2 DEF PutDiscard, PrevIn, IInv, Indices
    <3>2. FrameIn = FrameOut /\ PrevIn # FrameOut /\ ~Stale(PrevIn)
      BY <1>4, <2>2, <3>1 DEF PrevIn, IInv, Indices, FullFlag, In0, Out0, Alone, PutInside, TxInside, SendInside
    <3>3. \A i \in Slots : slot[i] # NULL
      BY <1>4, <2>2, <3>1, <3>2
      DEF IInv, Ring, Within, In0, Out0, Full0, Alone, PutInside, TxInside, SendInside, FreeInside
    <3>4. \A i \in Slots : ~Stale(i) /\ i # PrevIn => heap'[slot[i]] = heap[slot[i]] /\ slot'[i] = slot[i]
      BY <3>1, <3>2, <3>3 DEF Freed, IInv, Blocks0
    <3>5. heap'[putbuf] = heap[putbuf]
      BY <3>1, <3>2, <3>3 DEF Freed, IInv, Blocks0
    <3>6. slot'[PrevIn] = NULL
      BY <3>1
    <3>7. \A i \in Slots : slot'[i] # NULL => i # PrevIn /\ slot'[i] = slot[i]
      BY <3>1, <3>6
    <3>8. Newest' = Newest /\ made' = made /\ sent' = sent /\ FrameOut' = FrameOut /\ tx' = tx /\ putbuf' = putbuf
      BY <3>1
    <3>9. PutsNewest' /\ Wire'
      BY <3>1, <3>5, <3>8
    <3>10. Numbers'
      BY <3>4, <3>7, <3>8
    <3>11. AfterWire'
      <4>1. \A i \in Slots : slot'[i] # NULL /\ ~Gone(i) => ~Stale(i)
        OBVIOUS
      <4> QED
        BY <3>4, <3>7, <3>8, <4>1
    <3>12. RingOrder'
      BY <3>4, <3>7, <3>8
    <3> QED
      BY <3>9, <3>10, <3>11, <3>12
  <2> QED
    BY <2>1, <2>2
<1>5. CASE PutInsert
  <2>1. /\ put = "insert" /\ put' = "wrap" /\ FrameIn \in Slots /\ putbuf # NULL
        /\ slot' = [i \in Slots |-> IF i = FrameIn THEN putbuf ELSE slot[i]]
        /\ UNCHANGED <<FrameOut, tx, heap, made, sent>>
    BY <1>5 DEF PutInsert, IInv, Indices, Blocks0
  <2>2. \A i \in Slots : slot[i] # NULL => i # FrameIn /\ Before(i, FrameIn) /\ ~Before(FrameIn, i)
    BY <2>1 DEF IInv, Ring, Within, In0, Out0, Full0, Indices, Alone, PutInside, TxInside, SendInside, FreeInside
  <2>3. ~Gone(FrameIn)
    BY <2>1, <2>2 DEF IInv, Head0
  <2>4. \A i \in Slots : i # FrameIn => slot'[i] = slot[i]
    BY <2>1
  <2>5. slot'[FrameIn] = putbuf /\ heap'[putbuf] = made
    BY <2>1
  <2>6. \A i \in Slots : slot[i] # NULL /\ ~Stale(i) => heap[slot[i]] < made
    BY <2>1
  <2>7. PutsNewest' /\ Wire'
    BY <2>1
  <2>8. Numbers'
    BY <2>1, <2>4, <2>5, <2>6
  <2>9. AfterWire'
    BY <2>1, <2>4, <2>5
  <2>10. RingOrder'
    <3> SUFFICES ASSUME NEW i \in Slots, NEW j \in Slots, slot'[i] # NULL, slot'[j] # NULL,
                        ~Stale(i), ~Stale(j), Before(i, j)
                 PROVE  heap[slot'[i]] < heap[slot'[j]]
      BY <2>1
    <3>1. CASE j = FrameIn
      BY <2>2, <2>4, <2>5, <2>6, <3>1, <2>1
    <3>2. CASE i = FrameIn /\ j # FrameIn
      BY <2>2, <2>4, <3>2
    <3>3. CASE i # FrameIn /\ j # FrameIn
      BY <2>4, <3>3
    <3> QED
      BY <3>1, <3>2, <3>3
  <2> QED
    BY <2>7, <2>8, <2>9, <2>10
<1>6. CASE PutWrap \/ PutUnwrap \/ PutEvalFull \/ PutSetFull \/ PutRelease
  BY <1>6 DEF PutWrap, PutUnwrap, PutEvalFull, PutSetFull, PutRelease
<1> QED
  BY <1>1, <1>2, <1>3, <1>4, <1>5, <1>6 DEF PutDataFrame

LEMMA UpToNext == \A n \in Nat : \A k \in 1 .. n + 1 : k \in 1 .. n \/ k = n + 1
OBVIOUS

LEMMA TxKeepsOrder ==
  ASSUME ~Preempt, TypeInv, IInv, Order, Thread_MeasureTx
  PROVE  Order'
<1> USE FrameQueueAssumption
    DEF TypeInv, TypeOK, InRange, Slots, TxStep, queue, memory, server, putV, txV, tcpV,
        Order, PutsNewest, Wire, Numbers, AfterWire, RingOrder, Pending, Newest, Gone, Stale, Before
<1>1. CASE SendLook
  BY <1>1 DEF SendLook
<1>2. CASE SendTransmit
  <2>1. /\ tx = "xmit" /\ tx' = "free" /\ FrameOut \in Slots
        /\ UNCHANGED <<slot, FrameOut, heap, made, put, putbuf>>
    BY <1>2 DEF SendTransmit
  <2>2. txbuf = slot[FrameOut] /\ txbuf # NULL /\ ~Stale(FrameOut) /\ ~Gone(FrameOut)
    BY <2>1 DEF IInv, Head0
  <2>3. heap[txbuf] \in 1 .. Newest /\ \A k \in 1 .. Len(sent) : sent[k] < heap[txbuf]
    BY <2>1, <2>2
  <2>4. ASSUME NEW i \in Slots, slot[i] # NULL, i # FrameOut PROVE heap[txbuf] < heap[slot[i]]
    <3>1. Before(FrameOut, i) /\ ~Stale(i)
      BY <2>1, <2>4
    <3> HIDE DEF Before
    <3> QED
      BY <2>1, <2>2, <2>4, <3>1
  <2>5. CASE sent' = Append(sent, heap[txbuf])
    <3>1. /\ Len(sent') = Len(sent) + 1 /\ sent'[Len(sent) + 1] = heap[txbuf]
          /\ \A k \in 1 .. Len(sent) : sent'[k] = sent[k]
      BY <2>1, <2>3, <2>5
    <3>2. Len(sent) \in Nat
      OBVIOUS
    <3>3. \A k \in 1 .. Len(sent') : k \in 1 .. Len(sent) \/ k = Len(sent) + 1
      <4> HIDE DEF TypeInv, Order
      <4> QED
        BY <3>1, <3>2, UpToNext
    <3>4. Wire'
      <4>1. \A k \in 1 .. Len(sent') : sent'[k] \in 1 .. Newest
        BY <2>1, <2>3, <3>1, <3>3
      <4>2. ASSUME NEW k \in 1 .. Len(sent'), NEW l \in 1 .. Len(sent'), k < l
            PROVE  sent'[k] < sent'[l]
        <5>1. k \in 1 .. Len(sent)
          BY <3>1, <3>2, <4>2
        <5>2. CASE l \in 1 .. Len(sent)
          BY <3>1, <4>2, <5>1, <5>2
        <5>3. CASE l = Len(sent) + 1
          BY <2>3, <3>1, <5>1, <5>3
        <5> QED
          BY <3>3, <5>2, <5>3
      <4> QED
        BY <2>1, <4>1, <4>2
    <3>5. AfterWire'
      <4> SUFFICES ASSUME NEW i \in Slots, slot[i] # NULL, i # FrameOut,
                          NEW k \in 1 .. Len(sent')
                   PROVE  sent'[k] < heap[slot[i]]
        BY <2>1
      <4>1. heap[txbuf] < heap[slot[i]]
        BY <2>4
      <4>2. \A m \in 1 .. Len(sent) : sent[m] < heap[slot[i]]
        BY <2>1
      <4> QED
        BY <3>1, <3>3, <4>1, <4>2
    <3> QED
      BY <2>1, <3>4, <3>5
  <2>6. CASE UNCHANGED sent
    BY <2>1, <2>6
  <2> QED
    BY <1>2, <2>5, <2>6 DEF SendTransmit
<1>3. CASE SendFree
  <2>1. /\ tx = "free" /\ tx' = "wait" /\ FrameOut \in Slots /\ txbuf = slot[FrameOut] /\ txbuf # NULL
        /\ heap' = Freed({txbuf}) /\ UNCHANGED <<slot, FrameOut, made, sent, put, putbuf>>
    BY <1>3 DEF SendFree, IInv, Head0
  <2>2. \A i \in Slots : slot[i] # NULL /\ i # FrameOut => heap'[slot[i]] = heap[slot[i]]
    BY <2>1 DEF Freed, IInv, Blocks0
  <2>3. Pending => heap'[putbuf] = heap[putbuf]
    BY <2>1 DEF Freed, IInv, Blocks0
  <2> QED
    BY <2>1, <2>2, <2>3
<1>4. CASE SendWaitBusy \/ SendTakeBusy
  BY <1>4 DEF SendWaitBusy, SendTakeBusy
<1>5. CASE SendClear
  <2>1. /\ tx = "clear" /\ tx' = "advance" /\ FrameOut \in Slots
        /\ slot' = [slot EXCEPT ![FrameOut] = NULL]
        /\ UNCHANGED <<FrameOut, heap, made, sent, put, putbuf>>
    BY <1>5 DEF SendClear
  <2>2. slot'[FrameOut] = NULL /\ \A i \in Slots : i # FrameOut => slot'[i] = slot[i]
    BY <2>1
  <2> QED
    BY <2>1, <2>2
<1>6. CASE SendAdvance
  <2>1. /\ tx = "advance" /\ tx' = "eval" /\ FrameOut \in Slots /\ FrameOut' = Next0(FrameOut)
        /\ UNCHANGED <<slot, heap, made, sent, put, putbuf>>
    BY <1>6 DEF SendAdvance, Next0
  <2>2. slot[FrameOut] = NULL
    BY <2>1 DEF IInv, Ring, Within, In0, Out0, Full0, Next0, Indices, Alone, PutInside, TxInside, SendInside
  <2> QED
    BY <2>1, <2>2 DEF Next0
<1>7. CASE SendEvalEmpty \/ SendSetEmpty \/ SendRelease \/ FreeWaitBusy \/ FreeTakeBusy
  BY <1>7 DEF SendEvalEmpty, SendSetEmpty, SendRelease, FreeWaitBusy, FreeTakeBusy
<1>8. CASE FreeDrain
  <2>1. ~PutInside /\ tx = "drain" /\ tx' = "zero" /\ UNCHANGED <<made, sent, put, putbuf>>
    BY <1>8 DEF FreeDrain, IInv, Alone, TxInside, FreeInside
  <2>2. CASE Walked = {}
    BY <1>8, <2>1, <2>2, SMTT(30) DEF FreeDrain, Freed
  <2>3. CASE Walked # {}
    <3>1. \A i \in Slots : slot[i] # NULL => i \in Walked
      BY <2>1, <2>3 DEF IInv, Ring, Within, In0, Out0, Full0, Walked, Indices, PutInside
    <3>2. \A i \in Slots : slot'[i] = NULL
      BY <1>8, <3>1 DEF FreeDrain
    <3>3. Pending => heap'[putbuf] = heap[putbuf]
      BY <1>8, <2>1 DEF FreeDrain, Freed, Walked, IInv, Blocks0
    <3> QED
      BY <2>1, <3>2, <3>3
  <2> QED
    BY <2>2, <2>3
<1>9. CASE FreeZero \/ TxReset
  <2>1. \A i \in Slots : slot'[i] = NULL
    BY <1>9 DEF FreeZero, TxReset, ZeroQueue
  <2> QED
    BY <1>9, <2>1 DEF FreeZero, TxReset
<1>10. CASE TxAnnounce \/ TxSleep \/ TxLeave
  BY <1>10 DEF TxAnnounce, TxSleep, TxLeave
<1> QED
  BY <1>1, <1>2, <1>3, <1>4, <1>5, <1>6, <1>7, <1>8, <1>9, <1>10
  DEF Thread_MeasureTx, SendDataFrame, FreeFrameQ

LEMMA StepKeepsOrder ==
  ASSUME ~Preempt, TypeInv, IInv, Order, [Next]_vars
  PROVE  Order'
<1> USE DEF Order, PutsNewest, Wire, Numbers, AfterWire, RingOrder, Pending, Newest, Gone, Stale, Before
<1>1. CASE UNCHANGED vars
  BY <1>1 DEF vars, queue, memory, server, putV, txV, tcpV
<1>2. CASE PutDataFrame
  BY <1>2, PutKeepsOrder
<1>3. CASE Thread_MeasureTx
  BY <1>3, TxKeepsOrder
<1>4. CASE Thread_TcpSocket
  <2>1. CASE Accept
    <3>1. tx = "off"
      BY <2>1 DEF TypeInv, Joined, Accept
    <3> QED
      BY <2>1, <3>1 DEF Accept, queue, memory, server, putV, txV, tcpV
  <2>2. CASE HostGone \/ Join
    BY <2>2 DEF HostGone, Join, queue, memory, server, putV, txV, tcpV
  <2> QED
    BY <1>4, <2>1, <2>2 DEF Thread_TcpSocket
<1> QED
  BY <1>1, <1>2, <1>3, <1>4 DEF Next

LEMMA InitOrder == Init => Order
BY FrameQueueAssumption
DEF Init, Slots, Order, PutsNewest, Wire, Numbers, AfterWire, RingOrder, Pending, Newest, Gone, Stale

LEMMA OrderInvariant ==
  ASSUME ~Preempt
  PROVE  Spec => []Order
<1>1. TypeInv /\ IInv /\ Order /\ [Next]_vars => Order'
  BY StepKeepsOrder
<1> QED
  BY <1>1, InitOrder, Invariant, TypeInvariant, PTL DEF Spec

\* With undisturbed sections no frame is sent twice or behind a younger one,
\* through discards, failed sends, new hosts and queues left over from old ones.
THEOREM SerialOrder ==
  ASSUME ~Preempt
  PROVE  Spec => []InOrder
<1>1. TypeInv /\ Order => InOrder
  BY SMTT(30) DEF TypeInv, TypeOK, Order, Wire, Newest, InOrder
<1> QED
  BY <1>1, OrderInvariant, TypeInvariant, PTL

-----------------------------------------------------------------------------
(* Who can still reach a block.                                            *)

Temps ==
  /\ ~Pending => putbuf = NULL
  /\ tx \notin {"xmit", "free"} => txbuf = NULL

\* The block of the head slot, freed before the slot is cleared, may have been
\* handed out again: then its new owner holds it too.
StaleHeld ==
  tx \in {"wait", "take", "clear"} /\ heap[slot[FrameOut]] # 0 =>
    slot[FrameOut] = putbuf \/ \E j \in Slots : j # FrameOut /\ slot[j] = slot[FrameOut]

Reach == Temps /\ StaleHeld

NoLeak == Leaked' \subseteq Leaked \/ tx \in {"zero", "reset"}

LEMMA PutReach ==
  ASSUME ~Preempt, TypeInv, IInv, Reach, PutDataFrame
  PROVE  Reach' /\ NoLeak
<1> USE FrameQueueAssumption
    DEF TypeInv, TypeOK, InRange, Slots, PutStep, queue, memory, server, putV, txV, tcpV,
        Reach, Temps, StaleHeld, Pending, NoLeak, Leaked, Held
<1>1. CASE PutRefuse
  BY <1>1 DEF PutRefuse
<1>2. CASE PutAlloc
  <2>1. PICK b \in Buf : heap[b] = 0 /\ heap' = [heap EXCEPT ![b] = made + 1] /\ putbuf' = b
    BY <1>2 DEF PutAlloc
  <2>2. putbuf = NULL /\ UNCHANGED <<slot, FrameOut, tx, txbuf>> /\ put' = "wait"
    BY <1>2 DEF PutAlloc
  <2>3. Reach'
    <3>1. tx \in {"wait", "take", "clear"} => slot[FrameOut] \in Buf
      BY DEF IInv, Head0
    <3>2. \A c \in Buf : c # b => heap'[c] = heap[c]
      BY <2>1
    <3> QED
      BY <2>1, <2>2, <3>1, <3>2
  <2>4. ASSUME NEW c \in Leaked' PROVE c \in Leaked
    <3>1. c \in Buf /\ c # b /\ heap[c] # 0 /\ c # txbuf /\ c \notin {slot[i] : i \in Slots}
      BY <2>1, <2>2, <2>4
    <3> QED
      BY <2>2, <3>1
  <2> QED
    BY <2>3, <2>4
<1>3. CASE PutWaitBusy \/ PutTakeBusy
  BY <1>3 DEF PutWaitBusy, PutTakeBusy
<1>4. CASE PutDiscard
  <2>1. CASE ~FrameQFull
    BY <1>4, <2>1 DEF PutDiscard
  <2>2. CASE FrameQFull
    <3>1. /\ put = "full" /\ put' = "insert" /\ PrevIn \in Slots
          /\ slot' = [slot EXCEPT ![PrevIn] = NULL] /\ heap' = Freed({slot[PrevIn]})
          /\ UNCHANGED <<FrameOut, tx, txbuf, putbuf>>
      BY <1>4, <2>2 DEF PutDiscard, PrevIn, IInv, Indices
    <3>2. FrameIn = FrameOut /\ PrevIn # FrameOut
      BY <1>4, <2>2, <3>1 DEF PrevIn, IInv, Indices, FullFlag, In0, Out0, Alone, PutInside, TxInside, SendInside
    <3>3. \A b \in Buf : heap'[b] # 0 => heap'[b] = heap[b] /\ b # slot[PrevIn]
      BY <3>1 DEF Freed
    <3>4. \A i \in Slots : i # PrevIn => slot'[i] = slot[i]
      BY <3>1
    <3>5. Reach'
      BY <3>1, <3>2, <3>3, <3>4
    <3>6. ASSUME NEW b \in Leaked' PROVE b \in Leaked
      <4>1. b \in Buf /\ heap[b] # 0 /\ b # slot[PrevIn] /\ b # putbuf /\ b # txbuf
        BY <3>1, <3>3, <3>6
      <4>2. \A i \in Slots : i # PrevIn => b # slot[i]
        BY <3>4, <3>6
      <4> QED
        BY <4>1, <4>2
    <3> QED
      BY <3>5, <3>6
  <2> QED
    BY <2>1, <2>2
<1>5. CASE PutInsert
  <2>1. /\ put = "insert" /\ put' = "wrap" /\ FrameIn \in Slots /\ putbuf' = NULL
        /\ slot' = [i \in Slots |-> IF i = FrameIn THEN putbuf ELSE slot[i]]
        /\ UNCHANGED <<FrameOut, tx, txbuf, heap>>
    BY <1>5 DEF PutInsert, IInv, Indices
  <2>2. slot[FrameIn] = NULL
    BY <2>1 DEF IInv, Ring, Within, In0, Out0, Full0, Indices, Alone, PutInside, TxInside, SendInside, FreeInside
  <2>3. tx \in {"wait", "take", "clear"} => FrameIn # FrameOut
    BY <2>2 DEF IInv, Head0
  <2>4. slot'[FrameIn] = putbuf /\ \A i \in Slots : i # FrameIn => slot'[i] = slot[i]
    BY <2>1
  <2>5. Reach'
    BY <2>1, <2>2, <2>3, <2>4
  <2>6. NoLeak
    BY <2>1, <2>2, <2>4
  <2> QED
    BY <2>5, <2>6
<1>6. CASE PutWrap \/ PutUnwrap \/ PutEvalFull \/ PutSetFull \/ PutRelease
  BY <1>6 DEF PutWrap, PutUnwrap, PutEvalFull, PutSetFull, PutRelease
<1> QED
  BY <1>1, <1>2, <1>3, <1>4, <1>5, <1>6 DEF PutDataFrame

LEMMA TxReach ==
  ASSUME ~Preempt, TypeInv, IInv, Reach, Thread_MeasureTx
  PROVE  Reach' /\ NoLeak
<1> USE FrameQueueAssumption
    DEF TypeInv, TypeOK, InRange, Slots, TxStep, queue, memory, server, putV, txV, tcpV,
        Reach, Temps, StaleHeld, Pending, NoLeak, Leaked, Held
<1>1. CASE SendLook
  BY <1>1 DEF SendLook
<1>2. CASE SendTransmit
  BY <1>2 DEF SendTransmit
<1>3. CASE SendFree
  <2>1. /\ tx = "free" /\ tx' = "wait" /\ FrameOut \in Slots /\ txbuf = slot[FrameOut] /\ txbuf # NULL
        /\ heap' = Freed({txbuf}) /\ txbuf' = NULL /\ UNCHANGED <<slot, FrameOut, put, putbuf>>
    BY <1>3 DEF SendFree, IInv, Head0
  <2>2. heap'[slot[FrameOut]] = 0 /\ \A b \in Buf : heap'[b] # 0 => heap'[b] = heap[b] /\ b # txbuf
    BY <2>1 DEF Freed
  <2>3. Reach'
    BY <2>1, <2>2
  <2>4. ASSUME NEW b \in Leaked' PROVE b \in Leaked
    <3>1. b \in Buf /\ heap[b] # 0 /\ b # txbuf
      BY <2>2, <2>4
    <3>2. b # putbuf /\ b \notin {slot[i] : i \in Slots}
      BY <2>1, <2>4
    <3> QED
      BY <3>1, <3>2
  <2> QED
    BY <2>3, <2>4
<1>4. CASE SendWaitBusy \/ SendTakeBusy
  BY <1>4 DEF SendWaitBusy, SendTakeBusy
<1>5. CASE SendClear
  <2>1. /\ tx = "clear" /\ tx' = "advance" /\ FrameOut \in Slots
        /\ slot' = [slot EXCEPT ![FrameOut] = NULL] /\ txbuf = NULL
        /\ UNCHANGED <<FrameOut, heap, put, putbuf, txbuf>>
    BY <1>5 DEF SendClear
  <2>2. slot'[FrameOut] = NULL /\ \A i \in Slots : i # FrameOut => slot'[i] = slot[i]
    BY <2>1
  <2>3. ASSUME NEW b \in Leaked' PROVE b \in Leaked
    <3>1. b \in Buf /\ heap[b] # 0 /\ b # putbuf /\ b # txbuf
      BY <2>1, <2>3
    <3>2. \A i \in Slots : i # FrameOut => b # slot[i]
      BY <2>1, <2>2, <2>3
    <3>3. b # slot[FrameOut]
      BY <2>1, <3>1, <3>2
    <3> QED
      BY <3>1, <3>2, <3>3
  <2> QED
    BY <2>1, <2>3
<1>6. CASE SendAdvance \/ SendEvalEmpty \/ SendSetEmpty \/ SendRelease \/ FreeWaitBusy \/ FreeTakeBusy
  BY <1>6 DEF SendAdvance, SendEvalEmpty, SendSetEmpty, SendRelease, FreeWaitBusy, FreeTakeBusy
<1>7. CASE FreeDrain
  <2>1. /\ tx = "drain" /\ tx' = "zero" /\ heap' = Freed({slot[i] : i \in Walked})
        /\ slot' = [i \in Slots |-> IF i \in Walked THEN NULL ELSE slot[i]]
        /\ UNCHANGED <<put, putbuf, txbuf>>
    BY <1>7 DEF FreeDrain
  <2>2. \A b \in Buf : heap'[b] # 0 =>
          heap'[b] = heap[b] /\ \A i \in Walked : b # slot[i]
    BY <2>1 DEF Freed
  <2>3. \A i \in Slots : i \notin Walked => slot'[i] = slot[i]
    BY <2>1
  <2>4. ASSUME NEW b \in Leaked' PROVE b \in Leaked
    <3>1. b \in Buf /\ heap[b] # 0 /\ b # putbuf /\ b # txbuf
      BY <2>1, <2>2, <2>4
    <3>2. ASSUME NEW i \in Slots PROVE b # slot[i]
      <4>1. b # slot'[i] /\ heap'[b] # 0 /\ b \in Buf
        BY <2>4
      <4>2. CASE i \in Walked
        BY <2>2, <4>1, <4>2
      <4> QED
        BY <2>3, <4>1, <4>2
    <3> QED
      BY <3>1, <3>2
  <2> QED
    BY <2>1, <2>4
<1>8. CASE FreeZero \/ TxReset
  BY <1>8 DEF FreeZero, TxReset
<1>9. CASE TxAnnounce \/ TxSleep \/ TxLeave
  BY <1>9 DEF TxAnnounce, TxSleep, TxLeave
<1> QED
  BY <1>1, <1>2, <1>3, <1>4, <1>5, <1>6, <1>7, <1>8, <1>9
  DEF Thread_MeasureTx, SendDataFrame, FreeFrameQ

LEMMA StepReach ==
  ASSUME ~Preempt, TypeInv, IInv, Reach, [Next]_vars
  PROVE  Reach' /\ [NoLeak]_vars
<1> USE DEF Reach, Temps, StaleHeld, Pending, NoLeak, Leaked, Held,
            queue, memory, server, putV, txV, tcpV
<1>1. CASE UNCHANGED vars
  BY <1>1 DEF vars
<1>2. CASE PutDataFrame
  BY <1>2, PutReach
<1>3. CASE Thread_MeasureTx
  BY <1>3, TxReach
<1>4. CASE Thread_TcpSocket
  BY <1>4 DEF Thread_TcpSocket, Accept, HostGone, Join, TypeInv, Joined
<1> QED
  BY <1>1, <1>2, <1>3, <1>4 DEF Next

\* With undisturbed sections only the two clearings of the array lose blocks:
\* no put, discard, failed send or join does.
THEOREM SerialKeepsBlocks ==
  ASSUME ~Preempt
  PROVE  Spec => OnlyZeroingLeaks
<1>1. Init => Reach
  BY DEF Init, Reach, Temps, StaleHeld, Pending
<1>2. TypeInv /\ IInv /\ Reach /\ [Next]_vars => Reach' /\ [NoLeak]_vars
  BY StepReach
<1> QED
  BY <1>1, <1>2, Invariant, TypeInvariant, PTL DEF Spec, OnlyZeroingLeaks, NoLeak
=============================================================================
