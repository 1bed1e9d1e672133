----------------------------- MODULE FrameQueue -----------------------------
(***************************************************************************)
(* The outgoing frame queue of algorithm/NetworkSocket.c and the threads   *)
(* that share it:                                                          *)
(*                                                                         *)
(*   - the producer, Thread_OtdrAlgo, which calls PutDataFrame;            *)
(*   - the sender, Thread_MeasureTx, which loops over SendDataFrame and    *)
(*     calls FreeFrameQ when a send fails;                                 *)
(*   - the command thread, Thread_TcpSocket, which accepts a host, starts  *)
(*     the sender, and stops and joins it when the host goes away.         *)
(*                                                                         *)
(* A step is a piece of C that touches the shared words once as far as the *)
(* other threads can tell: the test of a flag and the assignment that      *)
(* follows from it are separate steps.  The two indices are C ints that    *)
(* only one thread advances; FreeFrameQ and a starting sender zero them.   *)
(*                                                                         *)
(* The contents of a frame are abstracted to its number; the memory of the *)
(* process to the pool Buf, where heap[b] is the frame held by the live    *)
(* block b, or 0 when b is free.                                           *)
(***************************************************************************)
EXTENDS Integers, Sequences, FiniteSets

CONSTANTS
  N,           \* MAX_FRAME_COUNT
  Buf,         \* blocks malloc can hand out
  NULL,
  MaxFrames,   \* bound: frames the producer makes
  MaxConns,    \* bound: hosts that connect
  Preempt,     \* may a thread lose the processor inside a critical section?
  Timeouts,    \* may a bounded wait on FrameQBusy run out?
  SendFails    \* may send() fail?

ASSUME FrameQueueAssumption ==
  /\ N \in Nat /\ N >= 2
  /\ NULL \notin Buf
  /\ MaxFrames \in Nat /\ MaxConns \in Nat
  /\ {Preempt, Timeouts, SendFails} \subseteq BOOLEAN

VARIABLES
  slot, FrameIn, FrameOut,                       \* DataFrameQ and its indices
  FrameQFull, FrameQEmpty, FrameQBusy,
  DataFrameQServerOpen, Thread_MeasureTx_exit,
  heap, made, sent,                              \* memory; frames made; frames on the wire
  put, putbuf,                                   \* producer: next step, BufTemp
  tx, txbuf, txok,                               \* sender: next step, FrameBufAddr, TxLen > 0
  tcp, conns                                     \* command thread; hosts accepted

queue  == <<slot, FrameIn, FrameOut, FrameQFull, FrameQEmpty, FrameQBusy>>
memory == <<heap, made, sent>>
server == <<DataFrameQServerOpen, Thread_MeasureTx_exit>>
putV   == <<put, putbuf>>
txV    == <<tx, txbuf, txok>>
tcpV   == <<tcp, conns>>
vars   == <<queue, memory, server, putV, txV, tcpV>>

Slots == 0 .. N - 1

Init ==
  /\ slot = [i \in Slots |-> NULL]
  /\ FrameIn = 0 /\ FrameOut = 0
  /\ FrameQFull = FALSE /\ FrameQEmpty = FALSE /\ FrameQBusy = FALSE
  /\ DataFrameQServerOpen = FALSE /\ Thread_MeasureTx_exit = FALSE
  /\ heap = [b \in Buf |-> 0] /\ made = 0 /\ sent = <<>>
  /\ put = "idle" /\ putbuf = NULL
  /\ tx = "off" /\ txbuf = NULL /\ txok = TRUE
  /\ tcp = "listen" /\ conns = 0

-----------------------------------------------------------------------------
(* Who is where.  The critical sections are lines 510-531, 569-576 and     *)
(* 600-643; with Preempt = FALSE no other thread runs while one is inside. *)

PutInside == put \in {"full", "insert", "wrap", "unwrap", "eval", "setfull", "release"}
SendInside == tx \in {"clear", "advance", "eval", "setempty", "release"}
FreeInside == tx \in {"drain", "zero"}
TxInside == SendInside \/ FreeInside

PutMayRun == Preempt \/ ~TxInside
TxMayRun  == Preempt \/ ~PutInside

PutStep(from, to) == put = from /\ put' = to /\ PutMayRun
TxStep(from, to)  == tx = from /\ tx' = to /\ TxMayRun

\* The five-round wait for FrameQBusy: over when the flag is down or the rounds are.
WaitBusyOver == ~FrameQBusy \/ Timeouts

-----------------------------------------------------------------------------
(* PutDataFrame, called by the producer.  The wait for room (lines 498-502)*)
(* gives up after five rounds and decides nothing, so it has no step.      *)

\* Server closed, or all five mallocs failed: the frame is dropped.
PutRefuse ==
  /\ put = "idle" /\ PutMayRun /\ made < MaxFrames
  /\ ~DataFrameQServerOpen \/ \A b \in Buf : heap[b] # 0
  /\ made' = made + 1
  /\ UNCHANGED <<queue, heap, sent, server, putV, txV, tcpV>>

PutAlloc ==
  /\ PutStep("idle", "wait") /\ made < MaxFrames
  /\ DataFrameQServerOpen
  /\ \E b \in Buf :
       /\ heap[b] = 0
       /\ heap' = [heap EXCEPT ![b] = made + 1]
       /\ putbuf' = b
  /\ made' = made + 1
  /\ UNCHANGED <<queue, sent, server, txV, tcpV>>

PutWaitBusy ==
  /\ PutStep("wait", "take") /\ WaitBusyOver
  /\ UNCHANGED <<queue, memory, server, putbuf, txV, tcpV>>

PutTakeBusy ==
  /\ PutStep("take", "full")
  /\ FrameQBusy' = TRUE
  /\ UNCHANGED <<slot, FrameIn, FrameOut, FrameQFull, FrameQEmpty, memory, server, putbuf, txV, tcpV>>

PrevIn == IF FrameIn - 1 < 0 THEN N - 1 ELSE FrameIn - 1

\* free() of the block b, or of NULL.
Freed(B) == [b \in Buf |-> IF b \in B THEN 0 ELSE heap[b]]

\* Mutant: the discarded block is forgotten, not freed.
PutDiscardNoFree ==
  /\ PutStep("full", "insert")
  /\ IF FrameQFull
     THEN FrameIn' = PrevIn /\ slot' = [slot EXCEPT ![PrevIn] = NULL]
     ELSE UNCHANGED <<FrameIn, slot>>
  /\ UNCHANGED heap
  /\ UNCHANGED <<FrameOut, FrameQFull, FrameQEmpty, FrameQBusy, made, sent, server, putbuf, txV, tcpV>>

\* Mutant: the oldest frame makes room.
PutDiscardOldest ==
  /\ PutStep("full", "insert")
  /\ IF FrameQFull
     THEN /\ FrameOut' = (FrameOut + 1) % N
          /\ heap' = Freed({slot[FrameOut]})
          /\ slot' = [slot EXCEPT ![FrameOut] = NULL]
     ELSE UNCHANGED <<FrameOut, heap, slot>>
  /\ UNCHANGED <<FrameIn, FrameQFull, FrameQEmpty, FrameQBusy, made, sent, server, putbuf, txV, tcpV>>

\* A full queue loses its newest frame to make room.
PutDiscard ==
  /\ PutStep("full", "insert")
  /\ IF FrameQFull
     THEN /\ FrameIn' = PrevIn
          /\ heap' = Freed({slot[PrevIn]})
          /\ slot' = [slot EXCEPT ![PrevIn] = NULL]
     ELSE UNCHANGED <<FrameIn, heap, slot>>
  /\ UNCHANGED <<FrameOut, FrameQFull, FrameQEmpty, FrameQBusy, made, sent, server, putbuf, txV, tcpV>>

\* An index outside the array writes over memory that is not modelled.
PutInsert ==
  /\ PutStep("insert", "wrap")
  /\ slot' = [i \in Slots |-> IF i = FrameIn THEN putbuf ELSE slot[i]]
  /\ FrameIn' = FrameIn + 1
  /\ FrameQEmpty' = FALSE
  /\ putbuf' = NULL
  /\ UNCHANGED <<FrameOut, FrameQFull, FrameQBusy, memory, server, txV, tcpV>>

\* Mutant: the index wraps one place late.
PutWrapLate ==
  /\ PutStep("wrap", IF FrameIn > N THEN "unwrap" ELSE "eval")
  /\ UNCHANGED <<queue, memory, server, putbuf, txV, tcpV>>

PutWrap ==
  /\ PutStep("wrap", IF FrameIn >= N THEN "unwrap" ELSE "eval")
  /\ UNCHANGED <<queue, memory, server, putbuf, txV, tcpV>>

PutUnwrap ==
  /\ PutStep("unwrap", "eval")
  /\ FrameIn' = FrameIn - N
  /\ UNCHANGED <<slot, FrameOut, FrameQFull, FrameQEmpty, FrameQBusy, memory, server, putbuf, txV, tcpV>>

\* Mutant: the queue counts as full with a place to spare.
PutEvalFullEarly ==
  /\ PutStep("eval", IF (FrameIn + 1) % N = FrameOut THEN "setfull" ELSE "release")
  /\ UNCHANGED <<queue, memory, server, putbuf, txV, tcpV>>

PutEvalFull ==
  /\ PutStep("eval", IF FrameIn = FrameOut THEN "setfull" ELSE "release")
  /\ UNCHANGED <<queue, memory, server, putbuf, txV, tcpV>>

PutSetFull ==
  /\ PutStep("setfull", "release")
  /\ FrameQFull' = TRUE
  /\ UNCHANGED <<slot, FrameIn, FrameOut, FrameQEmpty, FrameQBusy, memory, server, putbuf, txV, tcpV>>

PutRelease ==
  /\ PutStep("release", "idle")
  /\ FrameQBusy' = FALSE
  /\ UNCHANGED <<slot, FrameIn, FrameOut, FrameQFull, FrameQEmpty, memory, server, putbuf, txV, tcpV>>

PutDataFrame ==
  \/ PutRefuse \/ PutAlloc \/ PutWaitBusy \/ PutTakeBusy \/ PutDiscard
  \/ PutInsert \/ PutWrap \/ PutUnwrap \/ PutEvalFull \/ PutSetFull \/ PutRelease

-----------------------------------------------------------------------------
(* SendDataFrame, called by the sender.                                    *)

\* Mutant: the newest frame is sent first.
SendLookNewest ==
  /\ TxStep("look", IF FrameQEmpty THEN "sleep" ELSE "xmit")
  /\ txbuf' = IF FrameQEmpty THEN NULL ELSE slot[PrevIn]
  /\ txok' = TRUE
  /\ UNCHANGED <<queue, memory, server, putV, tcpV>>

\* An empty queue returns 0x7fffffff, which the caller takes for success.
SendLook ==
  /\ TxStep("look", IF FrameQEmpty THEN "sleep" ELSE "xmit")
  /\ txbuf' = IF FrameQEmpty THEN NULL ELSE slot[FrameOut]
  /\ txok' = TRUE
  /\ UNCHANGED <<queue, memory, server, putV, tcpV>>

\* send_elephant: -1 for an empty slot (length <= 0), -1 when send() fails.
SendTransmit ==
  /\ TxStep("xmit", "free")
  /\ \/ /\ txbuf # NULL
        /\ sent' = Append(sent, heap[txbuf])
        /\ txok' = TRUE
     \/ /\ txbuf = NULL \/ SendFails
        /\ txok' = FALSE
        /\ UNCHANGED sent
  /\ UNCHANGED <<queue, heap, made, server, putV, txbuf, tcpV>>

SendFree ==
  /\ TxStep("free", "wait")
  /\ heap' = Freed({txbuf})
  /\ txbuf' = NULL
  /\ UNCHANGED <<queue, made, sent, server, putV, txok, tcpV>>

SendWaitBusy ==
  /\ TxStep("wait", "take") /\ WaitBusyOver
  /\ UNCHANGED <<queue, memory, server, putV, txbuf, txok, tcpV>>

SendTakeBusy ==
  /\ TxStep("take", "clear")
  /\ FrameQBusy' = TRUE
  /\ UNCHANGED <<slot, FrameIn, FrameOut, FrameQFull, FrameQEmpty, memory, server, putV, txbuf, txok, tcpV>>

\* Mutant: the full flag stays up after a send.
SendClearKeepsFull ==
  /\ TxStep("clear", "advance")
  /\ slot' = [slot EXCEPT ![FrameOut] = NULL]
  /\ UNCHANGED <<FrameIn, FrameOut, FrameQFull, FrameQEmpty, FrameQBusy, memory, server, putV, txbuf, txok, tcpV>>

SendClear ==
  /\ TxStep("clear", "advance")
  /\ slot' = [slot EXCEPT ![FrameOut] = NULL]
  /\ FrameQFull' = FALSE
  /\ UNCHANGED <<FrameIn, FrameOut, FrameQEmpty, FrameQBusy, memory, server, putV, txbuf, txok, tcpV>>

\* Mutant: the index wraps one place late.
SendAdvanceLate ==
  /\ TxStep("advance", "eval")
  /\ FrameOut' = IF FrameOut + 1 > N THEN FrameOut + 1 - N ELSE FrameOut + 1
  /\ UNCHANGED <<slot, FrameIn, FrameQFull, FrameQEmpty, FrameQBusy, memory, server, putV, txbuf, txok, tcpV>>

SendAdvance ==
  /\ TxStep("advance", "eval")
  /\ FrameOut' = IF FrameOut + 1 >= N THEN FrameOut + 1 - N ELSE FrameOut + 1
  /\ UNCHANGED <<slot, FrameIn, FrameQFull, FrameQEmpty, FrameQBusy, memory, server, putV, txbuf, txok, tcpV>>

\* Mutant: the queue is taken for empty after every send.
SendEvalEmptyAlways ==
  /\ TxStep("eval", "setempty")
  /\ UNCHANGED <<queue, memory, server, putV, txbuf, txok, tcpV>>

SendEvalEmpty ==
  /\ TxStep("eval", IF FrameIn = FrameOut THEN "setempty" ELSE "release")
  /\ UNCHANGED <<queue, memory, server, putV, txbuf, txok, tcpV>>

SendSetEmpty ==
  /\ TxStep("setempty", "release")
  /\ FrameQEmpty' = TRUE
  /\ UNCHANGED <<slot, FrameIn, FrameOut, FrameQFull, FrameQBusy, memory, server, putV, txbuf, txok, tcpV>>

\* Back in Thread_MeasureTx: a failed send goes on to FreeFrameQ.
SendRelease ==
  /\ TxStep("release", IF txok THEN "sleep" ELSE "fwait")
  /\ FrameQBusy' = FALSE
  /\ UNCHANGED <<slot, FrameIn, FrameOut, FrameQFull, FrameQEmpty, memory, server, putV, txbuf, txok, tcpV>>

SendDataFrame ==
  \/ SendLook \/ SendTransmit \/ SendFree \/ SendWaitBusy \/ SendTakeBusy
  \/ SendClear \/ SendAdvance \/ SendEvalEmpty \/ SendSetEmpty \/ SendRelease

-----------------------------------------------------------------------------
(* FreeFrameQ, called by the sender after a failed send.                   *)

FreeWaitBusy ==
  /\ TxStep("fwait", "ftake") /\ WaitBusyOver
  /\ UNCHANGED <<queue, memory, server, putV, txbuf, txok, tcpV>>

FreeTakeBusy ==
  /\ TxStep("ftake", "drain")
  /\ FrameQBusy' = TRUE
  /\ UNCHANGED <<slot, FrameIn, FrameOut, FrameQFull, FrameQEmpty, memory, server, putV, txbuf, txok, tcpV>>

\* The slots the loops walk over, FrameOut in front: none at all when FrameOut = FrameIn.
Walked ==
  IF FrameQEmpty \/ FrameOut = FrameIn THEN {}
  ELSE IF FrameOut < FrameIn THEN {i \in Slots : FrameOut <= i /\ i < FrameIn}
  ELSE {i \in Slots : FrameOut <= i \/ i < FrameIn}

FreeDrain ==
  /\ TxStep("drain", "zero")
  /\ heap' = Freed({slot[i] : i \in Walked})
  /\ slot' = [i \in Slots |-> IF i \in Walked THEN NULL ELSE slot[i]]
  /\ FrameOut' = IF Walked = {} THEN FrameOut ELSE IF FrameIn < 0 THEN 0 ELSE FrameIn
  /\ UNCHANGED <<FrameIn, FrameQFull, FrameQEmpty, FrameQBusy, made, sent, server, putV, txbuf, txok, tcpV>>

\* memset of the array and of its words: also how a new sender starts.
ZeroQueue ==
  /\ slot' = [i \in Slots |-> NULL]
  /\ FrameIn' = 0 /\ FrameOut' = 0
  /\ FrameQFull' = FALSE /\ FrameQEmpty' = TRUE /\ FrameQBusy' = FALSE

FreeZero ==
  /\ TxStep("zero", "leave")
  /\ ZeroQueue
  /\ UNCHANGED <<memory, server, putV, txbuf, txok, tcpV>>

FreeFrameQ == FreeWaitBusy \/ FreeTakeBusy \/ FreeDrain \/ FreeZero

-----------------------------------------------------------------------------
(* Thread_MeasureTx around those two.                                      *)

TxReset ==
  /\ TxStep("reset", "announce")
  /\ ZeroQueue
  /\ UNCHANGED <<memory, server, putV, txbuf, txok, tcpV>>

\* The thread lowers its own exit flag when it starts.
TxAnnounce ==
  /\ TxStep("announce", "look")
  /\ DataFrameQServerOpen' = TRUE
  /\ Thread_MeasureTx_exit' = FALSE
  /\ UNCHANGED <<queue, memory, putV, txbuf, txok, tcpV>>

\* Mutant: the loop never looks at its exit flag.
TxSleepForever ==
  /\ TxStep("sleep", "look")
  /\ UNCHANGED <<queue, memory, server, putV, txbuf, txok, tcpV>>

TxSleep ==
  /\ TxStep("sleep", IF Thread_MeasureTx_exit THEN "leave" ELSE "look")
  /\ UNCHANGED <<queue, memory, server, putV, txbuf, txok, tcpV>>

TxLeave ==
  /\ TxStep("leave", "off")
  /\ DataFrameQServerOpen' = FALSE
  /\ UNCHANGED <<queue, memory, Thread_MeasureTx_exit, putV, txbuf, txok, tcpV>>

Thread_MeasureTx ==
  SendDataFrame \/ FreeFrameQ \/ TxReset \/ TxAnnounce \/ TxSleep \/ TxLeave

-----------------------------------------------------------------------------
(* Thread_TcpSocket: the life of a connection.  The host may close at any  *)
(* time, even before the sender thread has run.                            *)

Accept ==
  /\ tcp = "listen" /\ conns < MaxConns
  /\ tcp' = "serve" /\ conns' = conns + 1
  /\ tx' = "reset"
  /\ UNCHANGED <<queue, memory, server, putV, txbuf, txok>>

HostGone ==
  /\ tcp = "serve"
  /\ tcp' = "join"
  /\ Thread_MeasureTx_exit' = TRUE
  /\ UNCHANGED <<queue, memory, DataFrameQServerOpen, putV, txV, conns>>

Join ==
  /\ tcp = "join" /\ tx = "off"
  /\ tcp' = "listen"
  /\ UNCHANGED <<queue, memory, server, putV, txV, conns>>

Thread_TcpSocket == Accept \/ HostGone \/ Join

Next == PutDataFrame \/ Thread_MeasureTx \/ Thread_TcpSocket

Spec == Init /\ [][Next]_vars

\* A started call runs on, the sender's loop runs on, a join returns once it can;
\* nothing obliges the producer to make a frame or a host to come or go.
Fairness ==
  /\ WF_vars(PutDataFrame /\ put # "idle")
  /\ WF_vars(Thread_MeasureTx)
  /\ WF_vars(Join)

FairSpec == Spec /\ Fairness

-----------------------------------------------------------------------------
(* Properties *)

\* The shapes of the variables; FrameIn strays when FreeFrameQ zeroes it half-way,
\* FrameOut only at the end of FreeFrameQ's loops.
TypeOK ==
  /\ slot \in [Slots -> Buf \cup {NULL}]
  /\ FrameIn \in 0 - N .. N /\ FrameOut \in 0 .. N
  /\ tx # "zero" => FrameOut \in Slots
  /\ {FrameQFull, FrameQEmpty, FrameQBusy, DataFrameQServerOpen,
      Thread_MeasureTx_exit, txok} \subseteq BOOLEAN
  /\ heap \in [Buf -> Nat] /\ made \in Nat /\ sent \in Seq(Nat)
  /\ put \in {"idle", "wait", "take"} \cup
       {"full", "insert", "wrap", "unwrap", "eval", "setfull", "release"}
  /\ tx \in {"off", "reset", "announce", "look", "xmit", "free", "wait", "take", "clear",
       "advance", "eval", "setempty", "release", "sleep", "fwait", "ftake", "drain", "zero", "leave"}
  /\ putbuf \in Buf \cup {NULL} /\ txbuf \in Buf \cup {NULL}
  /\ tcp \in {"listen", "serve", "join"} /\ conns \in Nat

\* The producer and the sender are never both inside the sections FrameQBusy
\* is there to keep apart (the comment at line 504 calls it a semaphore).
OneInside == ~(PutInside /\ TxInside)

\* The producer writes inside DataFrameQ.
InBounds == put = "insert" => FrameIn \in Slots

\* While a frame is being sent and until it is freed, its block is the one in
\* slot FrameOut and is live: no discard takes it away from under send().
SenderOwnsHead ==
  tx \in {"xmit", "free"} =>
    txbuf # NULL /\ slot[FrameOut] = txbuf /\ heap[txbuf] # 0

\* The slots from FrameOut up to FrameIn, going round: all of them when full.
Between(i) ==
  IF FrameOut < FrameIn THEN FrameOut <= i /\ i < FrameIn
  ELSE IF FrameIn < FrameOut THEN FrameOut <= i \/ i < FrameIn
  ELSE FrameQFull

\* Between two operations on a running connection the four words agree:
\* the occupied slots are those between the indices, none iff FrameQEmpty,
\* all iff FrameQFull, and FrameQBusy is down.
RingAgrees ==
  (~PutInside /\ ~TxInside /\ tx \notin {"off", "reset"}) =>
    /\ \A i \in Slots : slot[i] # NULL <=> Between(i)
    /\ FrameQEmpty <=> \A i \in Slots : slot[i] = NULL
    /\ FrameQFull <=> \A i \in Slots : slot[i] # NULL
    /\ ~FrameQBusy

\* No frame reaches the wire twice or after a younger one, and only made frames do.
InOrder ==
  /\ \A i, j \in 1 .. Len(sent) : i < j => sent[i] < sent[j]
  /\ \A i \in 1 .. Len(sent) : sent[i] \in 1 .. made

\* Blocks no slot and no thread can reach any more.
Held == {slot[i] : i \in Slots} \cup {putbuf, txbuf}
Leaked == {b \in Buf : heap[b] # 0 /\ b \notin Held}

\* Putting and sending never lose track of a block: only clearing the array does.
OnlyZeroingLeaks == [][Leaked' \subseteq Leaked \/ tx \in {"zero", "reset"}]_vars

Queued(f) == \E i \in Slots : slot[i] # NULL /\ heap[slot[i]] = f

\* A frame in the queue is sent or given up, unless the connection ends first.
FramesMove ==
  \A f \in 1 .. MaxFrames :
    Queued(f) ~> (~Queued(f) \/ ~DataFrameQServerOpen)

\* A command thread that lost its host gets back to accepting (line 693: the
\* sender checks the connection each time round).
JoinReturns == tcp = "join" ~> tcp = "listen"

\* It does so when the host stayed until the sender had lowered its exit flag.
JoinReturnsOnceStarted ==
  (tcp = "join" /\ Thread_MeasureTx_exit /\ tx \notin {"reset", "announce"})
    ~> tcp = "listen"

\* The abstract queue seen in the ring.
Taken  == IF tx \in {"free", "wait", "take", "clear"} THEN 1 ELSE 0
First  == IF tx \in {"free", "wait", "take", "clear", "advance"} THEN FrameOut + 1 ELSE FrameOut
Count  == Cardinality({i \in Slots : slot[i] # NULL}) - Taken
Fifo == INSTANCE FrameFifo WITH
  q      <- [k \in 1 .. Count |-> heap[slot[(First + k - 1) % N]]],
  flight <- Taken,
  last   <- IF put \in {"wait", "take", "full", "insert"} THEN made - 1 ELSE made

\* With undisturbed critical sections the queue is the abstract one.
ImplementsFifo == Fifo!Spec
=============================================================================
