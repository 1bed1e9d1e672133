---------------------------- MODULE OtdrMeasure ----------------------------
(***************************************************************************)
(* One OTDR measurement, from the host's command to the uploaded curve:    *)
(* three threads that talk through the words of OtdrCtrl.                  *)
(*                                                                         *)
(*   - Thread_TcpSocket (ProcessRcvData) sets OtdrMode to start and        *)
(*     UserAction to stop or cancel, and then polls OtdrMode;              *)
(*   - Thread_OtdrData accumulates pieces of 200 ms, copies them to        *)
(*     OtdrData.ChanData and raises OtdrAlgoReadyFlag;                     *)
(*   - Thread_OtdrAlgo polls that flag, processes ChanData in place and    *)
(*     uploads the result.                                                 *)
(*                                                                         *)
(* mutex_otdr covers OtdrUpdateParam and the processing, not the copies.   *)
(* A curve is abstracted to the measurement it belongs to, the pieces in   *)
(* it and whether it is still raw.                                         *)
(***************************************************************************)
EXTENDS Naturals

CONSTANTS
  Pieces,     \* pieces of an averaging measurement: MeasureTime_ms / TIMES_COUNT_ONCE
  Period,     \* pieces to a refresh: RefreshPeriod_ms / TIMES_COUNT_ONCE
  MaxStarts,  \* bound: measurements the host asks for
  Prompt      \* is Thread_OtdrAlgo's scheduling as good as the sleeps count on?

ASSUME OtdrMeasureAssumption ==
  /\ Period \in Nat \ {0} /\ Pieces \in Nat /\ Pieces >= Period
  /\ MaxStarts \in Nat
  /\ Prompt \in BOOLEAN

VARIABLES
  OtdrMode, UserAction, RefreshData, FindEvent,       \* OtdrCtrl
  OtdrAlgoReadyFlag, OtdrAlgoBusyNow,
  mutex_otdr,                                         \* its owner
  asked, NetWorkMeasureParam,                         \* starts accepted; the newest one's
  host,                                               \* Thread_TcpSocket's next step
  data, OtdrState, TotalAccumulate, CurrentAccumulate, RefreshCount,
  ChanData,
  algo, work,                                         \* Thread_OtdrAlgo; the curve it took
  last, finals                                        \* newest upload; finals of OtdrState

ctrl  == <<OtdrMode, UserAction, RefreshData, FindEvent>>
flags == <<OtdrAlgoReadyFlag, OtdrAlgoBusyNow>>
hostV == <<asked, NetWorkMeasureParam, host>>
accV  == <<TotalAccumulate, CurrentAccumulate, RefreshCount>>
algoV == <<algo, work>>
upV   == <<last, finals>>
vars  == <<ctrl, flags, mutex_otdr, hostV, data, OtdrState, accV, ChanData, algoV, upV>>

Curve(m, n) == [of |-> m, n |-> n, raw |-> TRUE]
Blank == Curve(0, 0)

Init ==
  /\ OtdrMode = "idle" /\ UserAction = "none" /\ RefreshData = FALSE /\ FindEvent = FALSE
  /\ OtdrAlgoReadyFlag = "dead" /\ OtdrAlgoBusyNow = FALSE /\ mutex_otdr = "none"
  /\ asked = 0 /\ NetWorkMeasureParam = [id |-> 0, refresh |-> FALSE] /\ host = "recv"
  /\ data = "begin" /\ OtdrState = 0
  /\ TotalAccumulate = 0 /\ CurrentAccumulate = 0 /\ RefreshCount = 0
  /\ ChanData = Blank
  /\ algo = "free" /\ work = [curve |-> Blank, final |-> FALSE]
  /\ last = [for |-> 0, of |-> 0, n |-> 0, final |-> FALSE, whole |-> TRUE] /\ finals = 0

-----------------------------------------------------------------------------
(* ProcessRcvData.  A start while OtdrMode is not idle is refused and      *)
(* changes nothing.                                                        *)

StartMeasure(mode, refresh) ==
  /\ host = "recv" /\ OtdrMode = "idle" /\ asked < MaxStarts
  /\ asked' = asked + 1
  /\ NetWorkMeasureParam' = [id |-> asked + 1, refresh |-> refresh]
  /\ OtdrMode' = mode
  /\ UNCHANGED <<UserAction, RefreshData, FindEvent, flags, mutex_otdr, host,
                 data, OtdrState, accV, ChanData, algoV, upV>>

StopMeasure(action) ==
  /\ host = "recv"
  /\ UserAction' = action
  /\ host' = "stopping"
  /\ UNCHANGED <<OtdrMode, RefreshData, FindEvent, flags, mutex_otdr, asked, NetWorkMeasureParam,
                 data, OtdrState, accV, ChanData, algoV, upV>>

StopAnswered ==
  /\ host = "stopping" /\ OtdrMode = "idle"
  /\ host' = "recv"
  /\ UNCHANGED <<ctrl, flags, mutex_otdr, asked, NetWorkMeasureParam,
                 data, OtdrState, accV, ChanData, algoV, upV>>

ProcessRcvData ==
  \/ \E mode \in {"avg", "realtime"}, refresh \in BOOLEAN : StartMeasure(mode, refresh)
  \/ \E action \in {"cancel", "stop"} : StopMeasure(action)
  \/ StopAnswered

-----------------------------------------------------------------------------
(* Thread_OtdrData *)

\* Thread_OtdrAlgo has nothing short left to do: it is processing, or polling
\* a flag that is down, or skipping a cancelled one round and round.
CaughtUp ==
  \/ algo = "process"
  \/ algo = "poll" /\ OtdrAlgoReadyFlag # "start"
  \/ algo \in {"free", "poll", "check"} /\ OtdrAlgoReadyFlag = "start" /\ UserAction = "cancel"

\* The end of a sleep of this thread, which has let the other one catch up.
Slept == Prompt => CaughtUp

\* Nor does this thread run between the adjacent stores of lines 239 and 240.
DataMayRun == Prompt => algo # "ready"

DataStep(from, to) == data = from /\ data' = to /\ DataMayRun

DataBegin ==
  /\ DataStep("begin", "wait")
  /\ OtdrMode' = "idle"
  /\ UNCHANGED <<UserAction, RefreshData, FindEvent, flags, mutex_otdr, hostV,
                 OtdrState, accV, ChanData, algoV, upV>>

DataWake ==
  /\ DataStep("wait", "lock") /\ OtdrMode # "idle"
  /\ UNCHANGED <<ctrl, flags, mutex_otdr, hostV, OtdrState, accV, ChanData, algoV, upV>>

\* Mutant: the parameters are updated without the mutex.
DataLockFree ==
  /\ DataStep("lock", "update")
  /\ mutex_otdr' = "data"
  /\ UNCHANGED <<ctrl, flags, hostV, OtdrState, accV, ChanData, algoV, upV>>

DataLock ==
  /\ DataStep("lock", "update")
  /\ mutex_otdr = "none" /\ mutex_otdr' = "data"
  /\ UNCHANGED <<ctrl, flags, hostV, OtdrState, accV, ChanData, algoV, upV>>

\* OtdrUpdateParam leaves OtdrAlgoReadyFlag as it is and lowers UserAction.
OtdrUpdateParam ==
  /\ DataStep("update", "unlock")
  /\ RefreshData' = (NetWorkMeasureParam.refresh /\ OtdrMode # "realtime")
  /\ UserAction' = "none"
  /\ FindEvent' = FALSE
  /\ OtdrState' = NetWorkMeasureParam.id
  /\ finals' = 0
  /\ UNCHANGED <<OtdrMode, flags, mutex_otdr, hostV, accV, ChanData, algoV, last>>

DataUnlock ==
  /\ DataStep("unlock", "clear")
  /\ mutex_otdr' = "none"
  /\ UNCHANGED <<ctrl, flags, hostV, OtdrState, accV, ChanData, algoV, upV>>

DataClear ==
  /\ DataStep("clear", "round")
  /\ ChanData' = Blank
  /\ UNCHANGED <<ctrl, flags, mutex_otdr, hostV, OtdrState, accV, algoV, upV>>

\* In realtime mode the measure time is one refresh period.
Goal == IF OtdrMode = "realtime" THEN Period ELSE Pieces

DataRound ==
  /\ DataStep("round", "piece")
  /\ TotalAccumulate' = 0 /\ CurrentAccumulate' = 0
  /\ RefreshCount' = (Goal \div Period) - 1
  /\ UNCHANGED <<ctrl, flags, mutex_otdr, hostV, OtdrState, ChanData, algoV, upV>>

get_one_piece_of_data ==
  /\ DataStep("piece", "judge") /\ Slept
  /\ TotalAccumulate' = TotalAccumulate + 1
  /\ CurrentAccumulate' = CurrentAccumulate + 1
  /\ UNCHANGED <<ctrl, flags, mutex_otdr, hostV, OtdrState, RefreshCount, ChanData, algoV, upV>>

DataCancelled ==
  /\ DataStep("judge", "begin") /\ UserAction = "cancel"
  /\ UNCHANGED <<ctrl, flags, mutex_otdr, hostV, OtdrState, accV, ChanData, algoV, upV>>

DataStopped ==
  /\ DataStep("judge", "settle") /\ UserAction = "stop"
  /\ UNCHANGED <<ctrl, flags, mutex_otdr, hostV, OtdrState, accV, ChanData, algoV, upV>>

\* Mutant: one piece too many.
NextPieceLate == IF TotalAccumulate <= Goal THEN "piece" ELSE "settle"

NextPiece == IF TotalAccumulate < Goal THEN "piece" ELSE "settle"

RefreshDue ==
  RefreshData /\ OtdrMode = "avg" /\ CurrentAccumulate >= Period /\ RefreshCount > 0

DataGoesOn ==
  /\ DataStep("judge", IF RefreshDue THEN "flag" ELSE NextPiece) /\ UserAction = "none"
  /\ UNCHANGED <<ctrl, flags, mutex_otdr, hostV, OtdrState, accV, ChanData, algoV, upV>>

\* The flag goes up before the data are in place.
DataRefresh ==
  /\ DataStep("flag", "copy")
  /\ CurrentAccumulate' = 0
  /\ OtdrAlgoReadyFlag' = "start"
  /\ FindEvent' = FALSE
  /\ UNCHANGED <<OtdrMode, UserAction, RefreshData, OtdrAlgoBusyNow, mutex_otdr, hostV,
                 OtdrState, TotalAccumulate, RefreshCount, ChanData, algoV, upV>>

EDMA_Chan_CopyData == ChanData' = Curve(OtdrState, TotalAccumulate)

DataRefreshCopy ==
  /\ DataStep("copy", NextPiece)
  /\ EDMA_Chan_CopyData
  /\ RefreshCount' = RefreshCount - 1
  /\ UNCHANGED <<ctrl, flags, mutex_otdr, hostV, OtdrState, TotalAccumulate, CurrentAccumulate,
                 algoV, upV>>

\* Mutant: the last round does not wait for a refresh in progress.
DataSettleNow ==
  /\ DataStep("settle", "final")
  /\ UNCHANGED <<ctrl, flags, mutex_otdr, hostV, OtdrState, accV, ChanData, algoV, upV>>

DataSettle ==
  /\ DataStep("settle", "final") /\ ~OtdrAlgoBusyNow
  /\ UNCHANGED <<ctrl, flags, mutex_otdr, hostV, OtdrState, accV, ChanData, algoV, upV>>

DataFinalCopy ==
  /\ DataStep("final", "find")
  /\ EDMA_Chan_CopyData
  /\ UNCHANGED <<ctrl, flags, mutex_otdr, hostV, OtdrState, accV, algoV, upV>>

DataFindEvent ==
  /\ DataStep("find", "signal")
  /\ FindEvent' = (OtdrMode = "avg" \/ UserAction # "none")
  /\ UNCHANGED <<OtdrMode, UserAction, RefreshData, flags, mutex_otdr, hostV,
                 OtdrState, accV, ChanData, algoV, upV>>

DataSignal ==
  /\ DataStep("signal", IF OtdrMode = "avg" THEN "doze" ELSE "check")
  /\ OtdrAlgoReadyFlag' = "start"
  /\ UNCHANGED <<ctrl, OtdrAlgoBusyNow, mutex_otdr, hostV, OtdrState, accV, ChanData, algoV, upV>>

\* Mutant: no sleep before the wait.
DataDozeNot ==
  /\ \/ DataStep("doze", "hush")
     \/ DataStep("nap", "lull")
  /\ UNCHANGED <<ctrl, flags, mutex_otdr, hostV, OtdrState, accV, ChanData, algoV, upV>>

\* One sleep before the wait for Thread_OtdrAlgo: "doze" at the end of an
\* averaging measurement, "nap" at that of a stopped realtime one.
DataDoze ==
  /\ \/ DataStep("doze", "hush")
     \/ DataStep("nap", "lull")
  /\ Slept
  /\ UNCHANGED <<ctrl, flags, mutex_otdr, hostV, OtdrState, accV, ChanData, algoV, upV>>

DataHush ==
  /\ \/ DataStep("hush", "idle")
     \/ DataStep("lull", "rest")
  /\ ~OtdrAlgoBusyNow
  /\ UNCHANGED <<ctrl, flags, mutex_otdr, hostV, OtdrState, accV, ChanData, algoV, upV>>

DataIdle ==
  /\ \/ DataStep("idle", "check")
     \/ DataStep("rest", "loop")
  /\ OtdrMode' = "idle"
  /\ UNCHANGED <<UserAction, RefreshData, FindEvent, flags, mutex_otdr, hostV,
                 OtdrState, accV, ChanData, algoV, upV>>

\* Mutant: only a cancel ends a realtime measurement.
DataCheckCancel ==
  /\ DataStep("check", IF OtdrMode = "realtime" /\ UserAction = "cancel" THEN "nap" ELSE "loop")
  /\ UNCHANGED <<ctrl, flags, mutex_otdr, hostV, OtdrState, accV, ChanData, algoV, upV>>

DataCheck ==
  /\ DataStep("check", IF OtdrMode = "realtime" /\ UserAction # "none" THEN "nap" ELSE "loop")
  /\ UNCHANGED <<ctrl, flags, mutex_otdr, hostV, OtdrState, accV, ChanData, algoV, upV>>

DataLoop ==
  /\ DataStep("loop", IF OtdrMode = "realtime" THEN "round" ELSE "begin")
  /\ UNCHANGED <<ctrl, flags, mutex_otdr, hostV, OtdrState, accV, ChanData, algoV, upV>>

Thread_OtdrData ==
  \/ DataBegin \/ DataWake \/ DataLock \/ OtdrUpdateParam \/ DataUnlock \/ DataClear
  \/ DataRound \/ get_one_piece_of_data \/ DataCancelled \/ DataStopped \/ DataGoesOn
  \/ DataRefresh \/ DataRefreshCopy \/ DataSettle \/ DataFinalCopy \/ DataFindEvent
  \/ DataSignal \/ DataDoze \/ DataHush \/ DataIdle \/ DataCheck \/ DataLoop

-----------------------------------------------------------------------------
(* Thread_OtdrAlgo *)

AlgoStep(from, to) == algo = from /\ algo' = to

AlgoFree ==
  /\ AlgoStep("free", "poll")
  /\ OtdrAlgoBusyNow' = FALSE
  /\ UNCHANGED <<ctrl, OtdrAlgoReadyFlag, mutex_otdr, hostV, data, OtdrState, accV, ChanData, work, upV>>

AlgoPoll ==
  /\ AlgoStep("poll", "check") /\ OtdrAlgoReadyFlag = "start"
  /\ UNCHANGED <<ctrl, flags, mutex_otdr, hostV, data, OtdrState, accV, ChanData, work, upV>>

\* A cancelled measurement is skipped, and the flag stays up.
AlgoCheck ==
  /\ AlgoStep("check", IF UserAction = "cancel" THEN "free" ELSE "mark")
  /\ UNCHANGED <<ctrl, flags, mutex_otdr, hostV, data, OtdrState, accV, ChanData, work, upV>>

AlgoMark ==
  /\ AlgoStep("mark", "lock")
  /\ OtdrAlgoBusyNow' = TRUE
  /\ UNCHANGED <<ctrl, OtdrAlgoReadyFlag, mutex_otdr, hostV, data, OtdrState, accV, ChanData, work, upV>>

AlgoLock ==
  /\ AlgoStep("lock", "judge")
  /\ mutex_otdr = "none" /\ mutex_otdr' = "algo"
  /\ UNCHANGED <<ctrl, flags, hostV, data, OtdrState, accV, ChanData, work, upV>>

\* The curve is processed in place, from here on.
AlgoJudge ==
  /\ AlgoStep("judge", IF OtdrMode # "idle" THEN "process" ELSE "finish")
  /\ IF OtdrMode # "idle"
     THEN /\ work' = [curve |-> ChanData, final |-> FindEvent]
          /\ ChanData' = [ChanData EXCEPT !.raw = FALSE]
     ELSE UNCHANGED <<work, ChanData>>
  /\ UNCHANGED <<ctrl, flags, mutex_otdr, hostV, data, OtdrState, accV, upV>>

\* ProcessRefreshData or ProcessFinalData up to their PutDataFrame: whole if
\* the curve was raw and nobody wrote into it meanwhile.
AlgoProcess ==
  /\ AlgoStep("process", "finish")
  /\ last' = [for |-> OtdrState, of |-> work.curve.of, n |-> work.curve.n, final |-> work.final,
              whole |-> work.curve.raw /\ ChanData = [work.curve EXCEPT !.raw = FALSE]]
  /\ finals' = IF work.final /\ finals < 2 THEN finals + 1 ELSE finals
  /\ UNCHANGED <<ctrl, flags, mutex_otdr, hostV, data, OtdrState, accV, ChanData, work>>

AlgoFinish ==
  /\ AlgoStep("finish", "ready")
  /\ OtdrAlgoBusyNow' = FALSE
  /\ UNCHANGED <<ctrl, OtdrAlgoReadyFlag, mutex_otdr, hostV, data, OtdrState, accV, ChanData, work, upV>>

AlgoReady ==
  /\ AlgoStep("ready", "unlock")
  /\ OtdrAlgoReadyFlag' = "done"
  /\ UNCHANGED <<ctrl, OtdrAlgoBusyNow, mutex_otdr, hostV, data, OtdrState, accV, ChanData, work, upV>>

\* Mutant: the mutex is kept.
AlgoUnlockNot ==
  /\ AlgoStep("unlock", "free")
  /\ UNCHANGED <<ctrl, flags, mutex_otdr, hostV, data, OtdrState, accV, ChanData, work, upV>>

AlgoUnlock ==
  /\ AlgoStep("unlock", "free")
  /\ mutex_otdr' = "none"
  /\ UNCHANGED <<ctrl, flags, hostV, data, OtdrState, accV, ChanData, work, upV>>

Thread_OtdrAlgo ==
  \/ AlgoFree \/ AlgoPoll \/ AlgoCheck \/ AlgoMark \/ AlgoLock
  \/ AlgoJudge \/ AlgoProcess \/ AlgoFinish \/ AlgoReady \/ AlgoUnlock

-----------------------------------------------------------------------------
Next == ProcessRcvData \/ Thread_OtdrData \/ Thread_OtdrAlgo

Spec == Init /\ [][Next]_vars

\* Both threads run on, and the wait of a stop command ends once it can;
\* nothing obliges the host to send a command.
Fairness ==
  /\ WF_vars(Thread_OtdrData)
  /\ WF_vars(Thread_OtdrAlgo)
  /\ WF_vars(StopAnswered)

FairSpec == Spec /\ Fairness

-----------------------------------------------------------------------------
(* Properties *)

\* The shapes of the variables.
TypeOK ==
  /\ OtdrMode \in {"idle", "avg", "realtime"} /\ UserAction \in {"none", "cancel", "stop"}
  /\ {RefreshData, FindEvent, OtdrAlgoBusyNow} \subseteq BOOLEAN
  /\ OtdrAlgoReadyFlag \in {"dead", "start", "done"} /\ mutex_otdr \in {"none", "data", "algo"}
  /\ asked \in 0 .. MaxStarts /\ host \in {"recv", "stopping"}
  /\ NetWorkMeasureParam \in [id : 0 .. MaxStarts, refresh : BOOLEAN]
  /\ data \in {"begin", "wait", "lock", "update", "unlock", "clear", "round", "piece", "judge",
       "flag", "copy", "settle", "final", "find", "signal", "doze", "hush", "idle", "nap",
       "lull", "rest", "check", "loop"}
  /\ algo \in {"free", "poll", "check", "mark", "lock", "judge", "process", "finish",
       "ready", "unlock"}
  /\ OtdrState \in 0 .. MaxStarts
  /\ TotalAccumulate \in 0 .. Pieces /\ CurrentAccumulate \in 0 .. Pieces
  /\ RefreshCount \in 0 .. Pieces
  /\ ChanData \in [of : 0 .. MaxStarts, n : 0 .. Pieces, raw : BOOLEAN]
  /\ work \in [curve : [of : 0 .. MaxStarts, n : 0 .. Pieces, raw : BOOLEAN], final : BOOLEAN]
  /\ last \in [for : 0 .. MaxStarts, of : 0 .. MaxStarts, n : 0 .. Pieces, final : BOOLEAN,
       whole : BOOLEAN]
  /\ finals \in 0 .. 2

\* An averaging measurement that nobody cancelled ends with exactly one final
\* result, made of all its pieces and of nothing else: the wait of lines 163
\* and 187-189 loses it to no refresh, stop or older measurement.
FinalDelivered ==
  [][data = "idle" /\ data' # "idle" /\ UserAction # "cancel" =>
       /\ finals = 1
       /\ last = [for |-> OtdrState, of |-> OtdrState, n |-> TotalAccumulate,
                  final |-> TRUE, whole |-> TRUE]]_vars

\* The measurement under way is the one the host last asked for.
Current == OtdrState = NetWorkMeasureParam.id

\* The copy at the end of a round never lands in a curve being processed, but
\* for a start accepted just when a stopped realtime measurement is leaving its
\* loop (lines 196-198), which runs on with the old parameters.
FinalCopyAlone ==
  [][data = "final" /\ data' # "final" /\ Current => algo # "process"]_vars

\* The parameters of a measurement are not replaced under a running processing,
\* whoever else may run: both sides take mutex_otdr.  Of the curve's buffer,
\* which is written without it, FinalDelivered and FinalCopyAlone speak.
ParametersKept == [][algo = "process" => OtdrState' = OtdrState]_vars

\* An averaging measurement ends, whatever the host does.
AvgEnds == OtdrMode = "avg" ~> OtdrMode = "idle"

Running == data \in {"round", "piece", "judge", "flag", "copy"}

\* A stop or cancel that the accumulation can see is answered.
StopReturnsOnceRunning ==
  (host = "stopping" /\ UserAction # "none" /\ Running) ~> host = "recv"

\* The stop command waits until the mode is idle (comment, NetworkSocket.c line 363).
StopReturns == host = "stopping" ~> host = "recv"

\* Of a measurement that was cancelled nothing is processed (Otdr.h line 239):
\* no upload of a measurement is made from another one's data.
CancelDiscards == last.of \in {0, last.for}
=============================================================================
