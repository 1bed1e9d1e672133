# hebei-v2: TLA+ models and proofs

hebei-v2 is the program of an optical-fibre monitoring node: it drives an OTDR
board, uploads the measured curves to a host over TCP, and talks the TMS
protocol (glink frames) with a network manager. This directory holds TLA+
modules translated from its C code, TLC configurations that check them, and
proofs checked by TLAPS. Paths below are relative to the repository; line
numbers are those of the C files.

## The system

| component | state | operations | hard behaviour |
|---|---|---|---|
| outgoing frame queue (`algorithm/NetworkSocket.c` 452-700) | `DataFrameQ`, `FrameIn`, `FrameOut`, `FrameQFull`, `FrameQEmpty`, `FrameQBusy`, the exit and open flags | `PutDataFrame`, `SendDataFrame`, `FreeFrameQ`, start and join of `Thread_MeasureTx` | two threads behind a hand-made lock; full/empty ambiguity; blocks owned by slots; failed sends; threads started and joined per connection |
| measurement control (`algorithm/OtdrMain.c`, `ProcessRcvData`, `OtdrUpdateParam`) | `OtdrCtrl` words, `mutex_otdr`, accumulators, `OtdrData.ChanData` | start, stop, cancel; accumulate, refresh, finish; process and upload | three threads, plain flags, sleeps in place of synchronisation |
| event search and report (`algorithm/Event.c`, `EventParam.c`, `ProcessFinalData`) | the event arrays, `SaturateEvent`, the coefficients and losses, group starts | the passes of one analysis | indices into lists that other passes shorten; a computation that restarts from an earlier group |
| frame reception (`src/ep_app.c`, `glink_FindFrame`) | rings `bb` and `lbb`, `enable_lbb`, `lbyte`, `morebyte` | `epFUI_OnRecv` | a stream cut anywhere, bad frames, ring wrap, change to a large buffer and back |
| connection life (`src/ep_app.c`, epoll library, `shell/cmd/cmd_server.c`) | the list of connections, descriptors, `tmsxx_app` | accept, hang-up, close by the shell | the shell's thread changes what the event loop is using; descriptors come again |
| frame transmission (`protocol/glink.c`, `tms_Ret*`) | the socket, copies of contexts and their mutexes | `glink_Send`, `glink_SendHead/Tail`, the senders | a frame is several writes; a failure in the middle; some callers lock twice |
| TMS dispatch (`protocol/tmsxx.c`) and application (`src/tms_app.c`) | dispatch tables, the frame, `pcontext->pgb` | `tms_Analyse`, `tms_SetDoWhat`, `tms_Copy2Use`, `tms_SelectContextByFD`, callbacks | tables changed at run time, data converted in place, contexts copied |
| run log (`schedule/common/program_run_log.c`) | a file per day: header and records, or lines; `mutex_log` | write, list, expire | a kill between header and record; expiry without the mutex |
| RAM log (`ramlog/ramlog.c`) | a directory in memory, one on the disk, the child that watches | start, write, copy, thin out | a restart that outruns the child |
| shell commands, main, SPI, schedule helpers, curve algorithms, hardware parameters | none or local | - | see Not modelled |
| epoll server, shell library, ring buffer library, MD5 | binary or vendored | - | modelled from use where they matter |

How they interact: the host's command arrives in `Thread_TcpSocket`, which
writes `OtdrCtrl` (measurement control) and starts and joins `Thread_MeasureTx`
(frame queue). `Thread_OtdrData` raises a flag for `Thread_OtdrAlgo`, which
processes the curve (event search and report) and calls `PutDataFrame`;
`Thread_MeasureTx` takes frames out and sends them. Separately the event loop
calls `epFUI_OnRecv`, which cuts frames out of the stream and calls
`tms_Analyse`; that calls back into the TMS application, which answers through
the `tms_Ret*` senders.

What makes each correct: the queue neither loses, doubles nor reorders frames
and never frees a block in use; a measurement ends, answers stops, and
delivers exactly one whole final curve of its own data; the event list is in
order with one start and one end, and each number stands with its event; the
receiver hands on the good frames in order, loses none but to a wrong length, and never
goes deaf; a command reaches its one handler with its numbers in the host's order,
and its answer goes to the host that asked; senders send whole frames and come
back; logs keep the newest records through kills.

## The modules

**FrameQueue** - the queue and the three threads that share it. One variable
per C word (`slot` is `DataFrameQ[].FrameBufAddr`); `put`, `tx`, `tcp` are the
program counters, `putbuf`, `txbuf`, `txok` the locals. One action per piece of
C that touches shared words once: the test of a flag and the assignment after
it are separate steps (`PutWaitBusy`/`PutTakeBusy`, `PutWrap`/`PutUnwrap`,
`SendEvalEmpty`/`SendSetEmpty`). A statement group inside one critical section
that another thread cannot tell apart from a single step is one action
(`SendClear`, `FreeDrain`). Memory is a pool `Buf` with `heap[b]` the number of
the frame in block `b`. `Timeouts`, `SendFails` and `Preempt` switch the waits
that give up, the failing `send()`, and the regime described below.

**FrameFifo** - what the queue promises: a bounded FIFO that gives up its newest
frame when all places are taken and all of them when a connection ends.
FrameQueue implements it under the mapping at its end (`ImplementsFifo`): the
abstract queue is read off the ring from `FrameOut`, and the place of a frame
already transmitted is `flight`.

**OtdrMeasure** - one action per statement group of `Thread_OtdrData` (46-200),
`Thread_OtdrAlgo` (211-243) and the start and stop commands of
`ProcessRcvData`. A curve is the measurement it belongs to, the pieces of
200 ms in it, and whether it is still raw; `AlgoProcess` reports `whole` if the
curve it took was raw and nobody wrote into it meanwhile. Of the repeated
polling loops each is one blocking action.

**EventFind** - `ProcessFinalData` from the search for saturated stretches to the
setting of the end event, one action per pass (`SatPlateau` ... `FindEndEventPoint`).
A curve is cut down to which samples are saturated and where its difference
leaves the noise with which sign; every decision on a level or a slope in dB is a
free choice, so the passes are checked for whatever the floating point says: an event
that is split may fall into any pieces within it that are in order (`Pieces`), one of
which may begin at the last sample of the one before or a sample earlier.
`FinalEvent`, `FinalEventEnd` and `EventType` are one sequence `ev`. What the
code uses without its being there ends in `pc = "wild"` with the cause in `oob`.

**EventReport** - EXTENDS EventFind with `AnalyseMeasureResult`: coefficients,
groups, losses, the filtering of a group and the restart, the filling of the
list. A number is the samples it was computed from, so that a number standing
with the wrong event shows. **MCEvents** gives eleven measurements.

**RecvPath** - one call of `epFUI_OnRecv` is the steps from `RecvRing`,
`RecvLarge` or `RecvNoRoom` to `OnRecvEnd`. A byte is its position in the
stream, so what is delivered can be compared with what was sent.
`glink_FindFrame` is the operator `FindFrame`; the ring buffer, a library
without source, is modelled from the calls and from its object code (`Reserve`,
`Commit`, `UnContiguous`, `DecommitBlock`). Besides good frames the peer sends noise,
frames whose lengths disagree, frames with a bad tail, and frames whose two length
fields agree on a length that is wrong: too large, too small, 0 or negative. A length
below that of a tag has the tail looked for in front of the block: nothing is found there
and the block loses 0 bytes, which is looked at again for ever, or all its bytes; or an old
tail is found (`TailInFront`); or no memory is there (`Fault`). How many bytes each read returns is
a free choice, so every cut of the stream is covered; for that reason nothing
is lost by having the peer send everything first. **MCRecvPath** gives the lengths.

**TmsDispatch** - pure operators: the tables and what `tms_SetDoWhat` makes of them,
what each handler does (acknowledge, convert, call back, copy), the pieces each
sender sends, and conversions as what they do to the byte order of each part of a
payload. Each function is the sequence of steps it takes.

**TmsServer** - EXTENDS TmsDispatch with the threads that take those steps: the
event loop (`Accept`, `Receive`, `HungUp`), application threads that look for a
connection by its descriptor and send on it, the shell's `ShellClose`, hosts that
close. One step of a thread is one piece written. A connection is a number, its
descriptor is used again; `ctx` is a thread's copy of a context with the
connection it was copied from. The epoll library is modelled from its use and
its disassembly. **MCTms** picks one command of each treatment and the senders
with a hazard of their own.

RecvPath and TmsServer meet at one call: RecvPath delivers whole frames in order,
and `Receive` takes one such frame. They are checked apart, because neither reads
what the other keeps.

**RunLog** - the log of a day as a ring of records behind a header (or as lines),
writers that take the file's name before the mutex, `clear_expiry_log` without it,
and kills between any two steps. A record is its number among those its file's
header has counted. **RamLog** - the files in memory, the child that polls for
its parent's death and then copies, restarts, the thinning of the disk. A byte is
the start that wrote it and its number. **MCLogs** runs either log in one
specification, since they share nothing.

**FrameQueueProofs**, **FrameFifoProofs**, **OtdrMeasureProofs**, **RecvPathProofs**,
**TmsProofs**, **EventProofs**, **RunLogProofs**, **RamLogProofs** - the theorems.
**MCFrameQueue** - FrameQueue with the symmetry of the blocks.

### Two regimes

The queue's lock and the measurement's sleeps are not synchronisation in any
strict sense, and the violation runs show what that costs. To say what the
rest of the code achieves, two constants name the assumption the code makes:

- `Preempt = FALSE` (FrameQueue): the producer does not run while the sender is
  between raising and lowering `FrameQBusy`, nor the other way round. The sections are a dozen
  assignments and one `free`. With `Preempt = TRUE` mutual exclusion itself
  fails (`frame_queue_busy`), so there is nothing further to check there except
  type correctness, which is proved for both values. The regime does not make
  the other steps atomic: the waits, the transmission, the `free` at line 560,
  the look at `FrameQEmpty` interleave freely with the producer.
- `Prompt = TRUE` (OtdrMeasure): when `Thread_OtdrData` ends a sleep (200 ms of
  accumulation, the sleep at 187), `Thread_OtdrAlgo` has taken the few steps it
  had to take; it may still be processing, for as long as it likes. And
  `Thread_OtdrData` does not run between the adjacent stores of 239 and 240.
  The waits at 163 and 188 sleep only when they find the busy flag up, so no
  such assumption is made where they find it down.

### Callers that are assumed

Some functions with state have no caller in the repository: `tms_AckEx`,
`tms_Tick`, `tms_Update`, `tms_RetStatusData`, `tms_CheckoutResult`,
`tms_OTDRBasicInfo` with the `tms_Select` functions, `outoutLog` and `LOGW` (called
only by a schedule helper that nobody calls), `rl_init` and `rl_snprintf`. The models
call them from application threads, as their signatures and comments intend:
any number for the run log, which has a mutex; one for the RAM log, which has
none.

## The runs

Passing:

| run | checks | bounds |
|---|---|---|
| `frame_queue_serial` | `TypeOK`, `SenderOwnsHead`, `RingAgrees`, `InOrder`, `OnlyZeroingLeaks`, `ImplementsFifo` | ring of 3, 5 blocks, 5 frames, 2 hosts, sends may fail |
| `frame_queue_live` | `FramesMove`, `JoinReturnsOnceStarted` | ring of 2, 4 blocks, 3 frames, 2 hosts, sends may fail |
| `otdr_measure` | `TypeOK`, `FinalDelivered`, `FinalCopyAlone`, `ParametersKept`, `AvgEnds`, `StopReturnsOnceRunning` | 3 pieces, refresh every piece, 3 measurements, stops and cancels at any time |
| `events` | `TypeOK`, `Ordered`, `SatIndicesFresh`, `SaturationKept`, `EmptyOnlyIfNothingFound`, `OneEnd`, `NumbersOfTheirEvents`, `ReportEnds` | 25 samples, pulse of 1, at most 6 events, up to 3 pieces of an event, eleven measurements |
| `recv_path` | `TypeOK`, `BytesInOrder`, `DeliveredInOrder`, `RingBack`, `StuckOnlyOnLong`, `FollowedDelivered` | ring of 9 bytes, frames of 3, 8 and 11, one byte of noise, frames of 3 that say they are -1, 0, 2, 6 or 14, 3 items |
| `tms` | `TypeOK`, `AckNamesCommand`, `ByteOrder`, `RightPeer`, `WholeFrames`, `WaitsOnlyForItself` | 2 descriptors, 2 connections of which 1 ends, 1 application thread with 1 operation, 2 commands |
| `logs` | `TypeOK`, `NewestKept`, `ReadBack`, `FilesJoin`, `OldestExpires`, `LogsReachDisk` | run log: 2 writers, 5 writes, rings of 3, 3 days of 2 instants, 1 file kept, 2 kills; RAM log: files of 3 bytes, messages of 2 and 7, 7 bytes a start, 3 starts in 2 seconds |

Why the bounds are enough: five frames fill a ring of three, overflow it twice
and wrap both indices; two hosts give a queue left over from the first. Three
pieces with a refresh each make a first refresh, one that may find the
processing still running, and the final round; three measurements let the
second inherit from the first and pass on to the third. A ring of 9 with a
minimal frame of 3 has the three cases of a frame: shorter than half the ring,
nearly as long as the ring, longer than the ring; three items put noise or a
bad frame before and behind each. The minimal frame and the later `morebyte`
are both 40 in the code (`MinFrame`); a head tag is one byte here, so a tag cut
in two is not covered, while a tag that is the last byte of a read is.
The eleven measurements of `events` have saturation at the start, in the middle
and twice with a gap of one sample, events that touch, events enough for several
groups and for a filtered group in front of another, more points than
`MaxEvents`, joined curves, no event at all, and the manual threshold. Two
commands, on one connection or on two, let acknowledgements come in an order, and
let the second meet what the first left; each meets a closing from each side, a
descriptor used again, and a concurrent sender. The thread that sends makes one call, so
that what an earlier call left in its structure is not there in the run; the
theorems are for any number of calls. Messages of 2 bytes
fit a file of three with room to spare, go past its end and fill it exactly; one of 7
takes three files. Five writes wrap a ring of three with two writers
at once, and three days with one file kept make two expiries. Names with
numbers up to 2 in base 2 have the property the code's names have with base 10
(one number a prefix of another).

Violations, each a disagreement between the code and what its comments say:

| run | property | what happens |
|---|---|---|
| `frame_queue_busy` | `OneInside` | both threads find `FrameQBusy` down before either raises it |
| `frame_queue_join` | `JoinReturns` | a sender that starts after its host has left lowers its exit flag; the join never returns |
| `otdr_stop` | `StopReturns` | `OtdrUpdateParam` wipes out an early stop of a realtime measurement |
| `otdr_cancel` | `CancelDiscards` | the ready flag of a cancelled measurement starts a processing in the next |
| `recv_stall` | `FittingDelivered` | a frame that fits the ring but begins behind its middle stops all reading |

Several passing properties are the weakened forms of these or of the defects
listed below: they say how far the damage reaches. `JoinReturnsOnceStarted`
excludes only the start of the sender; `StopReturnsOnceRunning` only stops before
the accumulation; `StuckOnlyOnLong` says that a frame that says it is no longer than half
the ring never gets it stuck; `DeliveredInOrder` and `FollowedDelivered` that a good frame is lost or
late only if a frame with a wrong length in front of it claims its bytes or has a
length of 0 or less; `OnlyZeroingLeaks` that no operation but the two clearings
loses a block (`FreeFrameQ` takes a full ring for an empty one and leaves its
blocks to the clearing); `RightPeer` names the two ways a frame reaches the
wrong host; `NumbersOfTheirEvents` the two restarts after which a number is
another event's; `OldestExpires` and `LogsReachDisk` the cases in which a log goes
early.

Deadlock checking is off throughout: the host, the peer, the producer and the
writers are bounded and may stop, a server with nothing to do waits, and a
process that was killed does nothing more.

### Fairness

`FrameQueue!Fairness`: a started `PutDataFrame` runs on, `Thread_MeasureTx`
loops (its sleep is bounded), a join returns once its thread has ended. Nothing
makes the producer produce or the host come or go. `OtdrMeasure!Fairness`: both
measurement threads are endless loops with bounded sleeps, and the polling loop
of a stop notices an idle mode; a mode that is idle only for a moment between
two measurements cannot be missed for ever, because no start is accepted while
the command thread is in that loop. `RecvPath!FairSpec`: the event loop is
level triggered and calls back as long as there are unread bytes.
`EventReport!FairSpec`: the thread that analyses goes on with its computation,
which waits for nobody. Only weak fairness is used. `TmsServer` has none: that nobody waits
for another is said of each state (`WaitsOnlyForItself`: a thread that cannot go on is
one of the callers that lock twice, and holds the mutex itself).

## The proofs

Assumptions are only those of the modules (`FrameQueueAssumption`: `N >= 2`, since
with one slot the newest frame is the head and the discard frees the block being
sent; `OtdrMeasureAssumption`; `RunLogAssumption`: a ring of at least two records;
`RecvPathAssumption`, below; `SizesAssumption` and `GapAssumption` of the event passes: sizes are
positive, the narrowest event is no wider than a plateau, the curve is longer than two pulses;
`RamLogAssumption` and `TmsServerAssumption`: files and messages have bytes, descriptors are
positive). All bounds are arbitrary. Where an argument would go by induction over a sequence or a
set, it takes the least counterexample instead (`Smallest`), because the library's induction
theorems cannot be instantiated.

**The queue.** `FrameQueueProofs`, for every ring size, pool, number of frames
and hosts: `TypeCorrect` for both values of `Preempt` (`TypeOK` is not inductive by
itself; `TypeInv` adds at which steps `FrameIn` may be out of the array, `InRange`,
and that no sender is left when a host is accepted, `Joined`); and under
`~Preempt` `SerialInBounds`, `SerialOwnership`, `SerialRing` for `InBounds`,
`SenderOwnsHead` and `RingAgrees`.
The inductive invariant `IInv` is needed because those three only speak of
moments at which nobody is half-way: `Ring` says which slots are occupied at
every step, with the indices corrected for a wrap or an advance still to come
(`In0`, `Out0`) and with `Full0` saying what equal indices mean right now;
`FullFlag` and `EmptyFlag` say what the flags are worth at every step; `Head0`
and `Blocks0` that the sender's block is the one in the head slot, that live
slots hold distinct live blocks and that the producer's block is none of them,
the head slot being `Stale` from its `free` to its clearing; `Alone` that the
sections exclude each other. `SerialOwnership` then holds because a discard
needs a full ring, and in a full ring of two or more the newest slot is not
the head. The step that needs this is `PutDiscard` in `PutKeeps`.

The second part of `FrameQueueProofs` adds, on top of `IInv`: `SerialOrder` (`InOrder`) by the invariant
`Order` - the frame to be inserted is younger than all in the ring (`PutsNewest`),
the ring is in order from `FrameOut` round (`RingOrder`), what is on the wire is
increasing and older than all that waits (`Wire`, `AfterWire`); and
`SerialKeepsBlocks` (`OnlyZeroingLeaks`) by `Reach`, which says of the head slot
between its `free` and its clearing that its pointer may already name a new frame's
block, whose other holder is then known.

`FrameFifoProofs` proves `SerialRefines`: `Spec => ImplementsFifo`. The occupied
slots are counted (`Counted`: their number is the distance from `Out0` to `In0`), the
mapped queue is then a sequence of known length (`ReadsOff`), and each action is
shown to be its abstract step or a stutter (`PutFifo`, `TxFifo`, `OtherFifo`).

**The measurement.** `OtdrMeasureProofs`, for any number of pieces, period and measurements, and
whatever the scheduling (both values of `Prompt`): `TypeCorrect` - an accumulation makes no more
pieces and refreshes than asked for, because its goal is fixed under the mutex (`Counters`);
`ParametersStay` - `ParametersKept`, from `Owners`, which says at which steps each thread holds
`mutex_otdr`. It is about the parameters only: the copies into the curve's buffer take no mutex, and
what keeps them off a curve in processing are the sleeps, of which `FinalDelivered` and
`FinalCopyAlone` speak.

**Reception.** `RecvPathProofs`, for every ring of at least three minimal frames,
every tag and minimal frame, any stream and every cut of it into reads: `TypeCorrect`,
`OrderKept` (`BytesInOrder`), `UnclaimedHandedOn` (`DeliveredInOrder`), `RingPutBack`
(`RingBack`) and `OnlyLongSticks` (`StuckOnlyOnLong`), all from one invariant.
`Stream` lays the items one behind the other. `RingAlone` says when the ring's second
block is in use, which none of the properties says: only behind the middle of the
ring, and with a minimal frame in the first block only while that block begins a
frame which waits for more (`Waits`); so what is delivered or dropped always lies in
one block (`OneBlock`), and a call ends with little in the ring, with a frame that
waits, or with one block at the front. `LargeFilling` and `LargeThere` say the same of a
large frame on its way. `Handed` ties what has been handed on to `Cursor`, the byte
before those still buffered. The steps that need all of it are `Deliver`, where a tail
found at the place the length gives must be that of the frame in front
(`WholeFound`), and `Drop`, which may take no head of a good frame (`DropFound`) unless a frame
that agrees on a wrong length claims it. The
blocks and the answers of `glink_FindFrame` are the first part of the module. The ring is
assumed to hold three minimal frames (`RecvPathAssumption`; 30000 and 40 bytes in the code).

**The run log.** `RunLogProofs`, for any number of writers, records, days and
kills: `TypeCorrect` - every header written passes `check_log_head`; and
`NewestAreKept`. `NewestKept` is not inductive: `Promised` says of a writer between
header and record that its place is the newest one (it needs `Exclusive`, the
mutex), `Counts` ties the header to the number of records, and `Kept` and `Lines`
are `NewestKept` of all days. The ring itself is in the lemmas `PlacesDiffer` and
`AdvancedKeeps`: moving the header on gives its old index to the new record and
takes only the oldest one's.

On the same invariant rest two more. `ExpiryTakesOldest` (`OldestExpires`) needs of a cleaner
what it knew when it chose its file (`Aged`): no file is older than its name, and the chosen one is
of no later day than the last change of any other - also when writers have gone on writing since,
since a file only gets younger. `ListingComplete` (`ReadBack`) counts the records that are missing:
`Holes` are the newest numbers with no record, one for each kill between header and record and one
for the writer that is between them now (`Missing`), and `Listed` says that a newest number is
in its place and that place inside the file, so that a listing meets it.

**The RAM log.** `RamLogProofs`, for every size of files and messages and any number of starts and of
files on the disk: `RamInvariant`, then `FilesAreJoined` (`FilesJoin`) and `KilledLogIsSaved`
(`LogsReachDisk`). The invariant is `FilesJoin` with what makes it inductive: a start begins with an
empty directory and, between the parts of a message, with a full file (`Fresh`); what the disk has of the
present start is a beginning of what memory has (`DiskBehind`), since only a child copies, and it copies what
a dead program left; and a child that copies in time has copied all it no longer lists (`KidsLate`). The two
ways a part is written, into the open file or into a new one, share the lemmas `OneFile` and `PartKeeps`.

**The command server.** `TmsProofs`, for any number of connections, descriptors, application threads,
commands and settings: `TmsInvariant`, and from it `TmsTypes` (`TypeOK`), `FramesAreWhole`
(`WholeFrames`), `PeersAreRight` (`RightPeer`), `OrdersAreRight` (`ByteOrder`) and
`AcksNameCommands` (`AckNamesCommand`). `TmsInv` is about what the threads still have to do, which none of the
properties mentions:
`StepsOK` says that a program left is the rest of a sequence of whole frames (`Going`) and, of the loop's, in
the order acknowledge, convert, call back, copy (`Rising`); `Contexts` whose context a thread has, namely that of
a connection whose descriptor still is the one copied, or of one that was closed; `Untouched` that a
connection not yet accepted has been sent nothing, so that a descriptor used again starts with a clean wire;
`InFrame` that the piece a thread sends next continues what it last sent there (`Expects`). `Strangers`, `AllWhole`
and `Orders` are `RightPeer`, `WholeFrames` and `ByteOrder` of what is on the wires. `Treated` says what
byte order the frame has at the steps left, and `Answered` counts the acknowledgements, of which the
loop may owe one.

**The events.** `EventProofs`, for every curve, every size of the arrays and every outcome of the
decisions in dB: `EventInvariant`, and from it all seven invariants of the run: `EventTypes`,
`EventsStayOrdered`, `IndicesStayFresh`, `SaturationsAreKept`, `ListStaysFilled`, `ReportHasOneEnd`
and `NumbersStandWithEvents`. The helpers come first: a set listed upwards (`Ascends`), what leaving
events do to a list (`Kicked`, `StaysSorted`, `GroupLeaves`), what an event may fall into
(`PiecesFit`), the sorting (`Sorts`: events one of which is `Ahead` of the other come out in the
order of the curve, none lost) and the grouping of points into events (`Grouped`: groups are
disjoint, in order, and hold every saturated sample). `ListOK` says of each pass what it leaves: in
order, or while events are being split one `Ahead` of the other, and in order until the first piece
was appended. `Ahead` allows the one sample that two pieces may share. `EndsOK` has the kinds of the
events, `TailRuns` the width of a saturation with its tail, because of which no narrowness removes
it. For the report, `GroupsOK` keeps the group starts strictly increasing and at or above their
numbers, so that, while no group was filtered late, the groups in front of the one filtered are
single events and going on from the event before it is right; `Losses` and `Sections` say up to
where the numbers were computed from the present list. Two things came out of the proof. `Ordered`
as first stated was false: `SplitFinalEvents` at a full list writes past the arrays and leaves
pieces at the end of the list, which no measurement of `events` reaches with a split list; the
property now leaves out that end (`pc = "wild"`). And `EventArraySort` is stated by the rank of each
event, as a total order, instead of as a sorting procedure.

Only model-checked: every liveness property (fairness and ENABLED are outside the prover's reach),
`ReportEnds`, `FramesMove` and the others; `WaitsOnlyForItself`, which speaks of ENABLED;
`FinalDelivered` and `FinalCopyAlone`, which need an invariant over both threads' steps under
`Prompt`.

## Known defects

Found while modelling and, where a model reaches them, part of it. Those with a
run are in the table of violations. The others:

- `Otdr.c` 864 with a manual threshold: no events are searched for, but the report
  reads the arrays that were not allocated (`oob = "unallocated"`). A curve of
  low power whose first sample saturates reads a point never set (`"unset"`). With
  nothing found, `SetEndEvent` writes at index -1 (`"empty"`). `SplitFinalEvents`
  does not look at `MAX_EVENT_NUM` (`"full"`).
- `EventParam.c` 539: the event to go on from is looked up with an event's number
  in an array of group starts.
- `OtdrMain.c` 152: a refresh raises the ready flag before it copies; that the other
  thread does not come in between is an assumption on its 15 ms poll (`OtdrSleepTime`).
- `glink.c` 386: two length fields that agree are believed. With 0 the loop at 347 of `ep_app.c` never ends
  and the event loop serves nobody; a length too large waits for, and then takes, the good frames behind it; a
  negative one has the tail read in front of the buffer (402) and drops all that is buffered.
- `glink.c` 178: `glink_Send` takes a mutex and does not lock it, so that frames of two threads on one
  connection can mix.
- `Event.c` 1437: after a peak too low to be an event the next piece may begin one sample before the end of
  the last, so two events of the report can share a sample.
- `tmsxx.c` 1286, 1322: the mutex is locked a second time instead of unlocked. 1146-1151: the fibre
  sections of a reply are read through a header that was not checked against the frame's length.
  1378: counts are read through pointers before they are set, and one after it was turned into
  network order. 1984: every setting goes to command 0. 2014: contexts are copied with their mutex.
  2029: an uninitialised field is compared.
- `main.c` 411: SIGPIPE is not ignored, so a second write to a host that has closed
  kills the program (`process = "killed"`).
- Between the listing of a connection and `epFUI_OnAccept` it has no structure;
  whoever walks the list then reads near address 0 (`process = "wild"`). `do_close`
  never frees the structure. `ep_app.c` 71 frees `bb` but not `lbb`.
- `program_run_log.c`: the name and the time are taken before the lock, so a line
  may go into yesterday's file after midnight, and that file then outlives a newer
  one; `outoutLog` says it deletes old files and does not; the listing starts at place
  0 also after a wrap, and leaves the files open.
- `ramlog.c`: the comments (22-41, 100) say the files are sorted by time; `ls` sorts them by name,
  and within a second '-10' comes before '-9', so the thinning may keep an older file of a second
  than the one it removes. A restart within the child's second loses the last run's logs; two starts
  in one second use the same names; fewer than four files are never thinned out; modes are given in
  decimal (`mkdir(..., 777)`); `rl_snprintf` writes as many bytes as `vsnprintf` would have wanted.

## Plan

Done: the queue, its FIFO and their proofs; the measurement; reception, connection
life, transmission and dispatch, both logs and the event passes, with the proofs of all their
invariants. What is left, in the order of its worth:

1. Proofs of `FinalDelivered` and `FinalCopyAlone` under `Prompt`.
2. RecvPath composed with TmsServer, if the event loop ever handles two connections
   in two threads; today one thread does both and they share only the call.

## Not modelled

Much of the tree is not the program's own logic: of the lines of C and headers,
vendored headers make up more than half (`include/asm/mach-types.h` and
`include/sqlite3.h` alone 15,000), so the share of the whole that any model
can stand for is small. Of the program's own code these are left out:

- Floating point: filters, logarithms, fits, splicing of curves
  (`OtdrAlgo.c`, parts of `Event.c` and `EventParam.c`). Their results are numbers,
  not states; where they decide which way the program goes, the decision is a free
  choice.
- The SPI and FPGA registers and the tables of hardware parameters
  (`OtdrUpdateParam`'s register images): device I/O without a protocol of its own.
- The layouts of frames and structures: conversions are modelled as what they do to
  byte orders and counts, not field by field; printing of frames is left out.
- The reader of the command socket (`NetworkSocket.c` 110-140) keeps one count and
  meets no other thread.
- Schedule helpers (`schedule_fun.c`, `schedule_tsk.c`): arithmetic on parameters,
  called by nobody; the scheduling thread is an unfinished loop.
- `main`, and the shell's commands other than `close`; `cache.c`, a timing program;
  MD5; the epoll, shell and ring libraries except as used; logging to the terminal.
- Lengths near 2^31 in a frame's header: the 32-bit sum of `glink.c` 386 and what `bipbuffer_AllocateBuffer`
  does with such a size.
- The mixing of two threads' frames on one descriptor: the wire is kept for each thread apart.
- The limit of `TotalEvent` (`DATA_LEN` places), which the loops that fill it test on some of their
  paths only (`Event.c` 334-367): the points of a curve are a set here. Waits that give up
  (`Timeouts = TRUE`) are in the model and in `TypeCorrect`, and in no run.
- Errors of the file system, and loss of power: a kill of the process leaves on the
  disk what was given to the system.

`PutDataFrame`'s wait for room (498-502) decides nothing and has no step. Threads
are taken to see each other's plain stores in program order, as they do on the
single-core boards this runs on.
