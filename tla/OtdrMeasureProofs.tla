------------------------- MODULE OtdrMeasureProofs -------------------------
(***************************************************************************)
(* For every number of pieces, refresh period and number of measurements,  *)
(* and whatever the scheduling: the counters of an accumulation stay in    *)
(* their ranges, and mutex_otdr keeps the parameters from being replaced   *)
(* under a running processing.                                             *)
(***************************************************************************)
EXTENDS OtdrMeasure, TLAPS

DataSteps ==
  {"begin", "wait", "lock", "update", "unlock", "clear", "round", "piece", "judge",
   "flag", "copy", "settle", "final", "find", "signal", "doze", "hush", "idle", "nap",
   "lull", "rest", "check", "loop"}
AlgoSteps ==
  {"free", "poll", "check", "mark", "lock", "judge", "process", "finish", "ready", "unlock"}

\* TypeOK in the parts that different actions disturb.
CtrlType ==
  /\ OtdrMode \in {"idle", "avg", "realtime"} /\ UserAction \in {"none", "cancel", "stop"}
  /\ RefreshData \in BOOLEAN /\ FindEvent \in BOOLEAN /\ OtdrAlgoBusyNow \in BOOLEAN
  /\ OtdrAlgoReadyFlag \in {"dead", "start", "done"}
HostType ==
  /\ asked \in 0 .. MaxStarts /\ host \in {"recv", "stopping"}
  /\ NetWorkMeasureParam \in [id : 0 .. MaxStarts, refresh : BOOLEAN]
StepType == data \in DataSteps /\ algo \in AlgoSteps /\ mutex_otdr \in {"none", "data", "algo"}
CurveSet == [of : 0 .. MaxStarts, n : 0 .. Pieces, raw : BOOLEAN]
CurveType ==
  /\ OtdrState \in 0 .. MaxStarts
  /\ ChanData \in CurveSet /\ work \in [curve : CurveSet, final : BOOLEAN]
  /\ last \in [for : 0 .. MaxStarts, of : 0 .. MaxStarts, n : 0 .. Pieces, final : BOOLEAN,
       whole : BOOLEAN]
  /\ finals \in 0 .. 2

\* The counters: a piece is begun only while one is wanted, and a refresh only
\* while one is left.
Counters ==
  /\ TotalAccumulate \in 0 .. Pieces /\ CurrentAccumulate \in 0 .. Pieces
  /\ CurrentAccumulate <= TotalAccumulate /\ RefreshCount \in 0 .. Pieces
  /\ data = "piece" => TotalAccumulate < Pieces
  /\ data \in {"flag", "copy"} => RefreshCount > 0

\* Each thread is between lock and unlock just when it owns the mutex.
Owners ==
  /\ mutex_otdr = "data" <=> data \in {"update", "unlock"}
  /\ mutex_otdr = "algo" <=> algo \in {"judge", "process", "finish", "ready", "unlock"}

IInv == CtrlType /\ HostType /\ StepType /\ CurveType /\ Counters /\ Owners

LEMMA TypeParts == IInv => TypeOK
BY DEF IInv, CtrlType, HostType, StepType, CurveType, Counters, TypeOK, DataSteps, AlgoSteps, CurveSet

\* A measure time of at least one refresh period has at least one refresh, and
\* no more of them than pieces.
LEMMA GoalRange == CtrlType => Goal \in 1 .. Pieces /\ (Goal \div Period) - 1 \in 0 .. Pieces
<1> SUFFICES ASSUME CtrlType PROVE Goal \in 1 .. Pieces /\ (Goal \div Period) - 1 \in 0 .. Pieces
  OBVIOUS
<1>1. Goal \in Nat /\ Goal >= Period /\ Goal <= Pieces /\ Period \in Nat /\ Period > 0 /\ Pieces \in Nat
  BY OtdrMeasureAssumption DEF Goal
<1>2. \A g, p \in Nat : p > 0 /\ g >= p => g \div p \in Nat /\ g \div p >= 1 /\ g \div p <= g
  OBVIOUS
<1> QED
  BY <1>1, <1>2

-----------------------------------------------------------------------------
(* Each thread keeps the invariant                                         *)

LEMMA InitIInv == Init => IInv
<1> SUFFICES ASSUME Init PROVE IInv
  OBVIOUS
<1>1. CtrlType
  BY DEF Init, CtrlType
<1>2. HostType
  <2>1. [id |-> 0, refresh |-> FALSE] \in [id : 0 .. MaxStarts, refresh : BOOLEAN]
    BY OtdrMeasureAssumption
  <2> QED
    BY <2>1, OtdrMeasureAssumption DEF Init, HostType
<1>3. StepType /\ Counters /\ Owners
  BY OtdrMeasureAssumption DEF Init, StepType, Counters, Owners, DataSteps, AlgoSteps
<1>4. CurveType
  <2>1. Blank \in CurveSet
    BY OtdrMeasureAssumption DEF Blank, Curve, CurveSet
  <2>2. [for |-> 0, of |-> 0, n |-> 0, final |-> FALSE, whole |-> TRUE] \in
          [for : 0 .. MaxStarts, of : 0 .. MaxStarts, n : 0 .. Pieces, final : BOOLEAN,
           whole : BOOLEAN]
    BY OtdrMeasureAssumption
  <2>3. [curve |-> Blank, final |-> FALSE] \in [curve : CurveSet, final : BOOLEAN]
    BY <2>1
  <2> QED
    BY <2>1, <2>2, <2>3, OtdrMeasureAssumption DEF Init, CurveType
<1> QED
  BY <1>1, <1>2, <1>3, <1>4 DEF IInv

LEMMA HostKeeps == IInv /\ ProcessRcvData => IInv'
<1> USE OtdrMeasureAssumption
    DEF IInv, CtrlType, HostType, StepType, CurveType, Counters, Owners, ctrl, flags, accV, algoV, upV
<1>1. ASSUME IInv, NEW mode \in {"avg", "realtime"}, NEW refresh \in BOOLEAN,
             StartMeasure(mode, refresh)
      PROVE  IInv'
  BY <1>1 DEF StartMeasure
<1>2. ASSUME IInv, NEW action \in {"cancel", "stop"}, StopMeasure(action) PROVE IInv'
  BY <1>2 DEF StopMeasure
<1>3. ASSUME IInv, StopAnswered PROVE IInv'
  BY <1>3 DEF StopAnswered
<1> QED
  BY <1>1, <1>2, <1>3 DEF ProcessRcvData

LEMMA DataKeeps == IInv /\ Thread_OtdrData => IInv'
<1> SUFFICES ASSUME IInv, Thread_OtdrData PROVE IInv'
  OBVIOUS
<1> USE OtdrMeasureAssumption
    DEF IInv, HostType, StepType, CurveType, Counters, Owners, DataSteps,
        ctrl, flags, hostV, accV, algoV, upV, DataStep
<1>1. CASE DataBegin
  <2>1. CtrlType'
    BY <1>1 DEF CtrlType, DataBegin
  <2> QED
    BY <1>1, <2>1 DEF DataBegin
<1>2. CASE DataWake \/ DataLock \/ DataUnlock
  <2>1. CtrlType'
    BY <1>2 DEF CtrlType, DataWake, DataLock, DataUnlock
  <2> QED
    BY <1>2, <2>1 DEF DataWake, DataLock, DataUnlock
<1>3. CASE OtdrUpdateParam
  <2>1. NetWorkMeasureParam.id \in 0 .. MaxStarts
    OBVIOUS
  <2>2. RefreshData' \in BOOLEAN /\ FindEvent' \in BOOLEAN
    BY <1>3, Zenon DEF OtdrUpdateParam
  <2>3. CtrlType'
    BY <1>3, <2>2 DEF CtrlType, OtdrUpdateParam
  <2> QED
    BY <1>3, <2>1, <2>2, <2>3 DEF OtdrUpdateParam
<1>4. CASE DataClear
  <2>1. Blank \in CurveSet
    BY DEF Blank, Curve, CurveSet
  <2>2. CtrlType'
    BY <1>4 DEF CtrlType, DataClear
  <2> QED
    BY <1>4, <2>1, <2>2 DEF DataClear
<1>5. CASE DataRound
  <2>1. Goal \in 1 .. Pieces /\ (Goal \div Period) - 1 \in 0 .. Pieces
    BY GoalRange
  <2>2. CtrlType'
    BY <1>5 DEF CtrlType, DataRound
  <2> QED
    BY <1>5, <2>1, <2>2 DEF DataRound
<1>6. CASE get_one_piece_of_data
  <2>1. CtrlType'
    BY <1>6 DEF CtrlType, get_one_piece_of_data
  <2> QED
    BY <1>6, <2>1 DEF get_one_piece_of_data
<1>7. CASE DataCancelled \/ DataStopped
  <2>1. CtrlType'
    BY <1>7 DEF CtrlType, DataCancelled, DataStopped
  <2> QED
    BY <1>7, <2>1 DEF DataCancelled, DataStopped
<1>8. CASE DataGoesOn
  <2>1. Goal \in 1 .. Pieces
    BY GoalRange
  <2>2. CtrlType'
    BY <1>8 DEF CtrlType, DataGoesOn
  <2> QED
    BY <1>8, <2>1, <2>2 DEF DataGoesOn, RefreshDue, NextPiece
<1>9. CASE DataRefresh
  <2>1. CtrlType'
    BY <1>9 DEF CtrlType, DataRefresh
  <2> QED
    BY <1>9, <2>1 DEF DataRefresh
<1>10. CASE DataRefreshCopy
  <2>1. Goal \in 1 .. Pieces
    BY GoalRange
  <2>2. ChanData' \in CurveSet
    BY <1>10 DEF DataRefreshCopy, EDMA_Chan_CopyData, Curve, CurveSet
  <2>3. CtrlType'
    BY <1>10 DEF CtrlType, DataRefreshCopy
  <2> QED
    BY <1>10, <2>1, <2>2, <2>3 DEF DataRefreshCopy, NextPiece
<1>11. CASE DataSettle \/ DataHush \/ DataDoze
  <2>1. CtrlType'
    BY <1>11 DEF CtrlType, DataSettle, DataHush, DataDoze
  <2> QED
    BY <1>11, <2>1 DEF DataSettle, DataHush, DataDoze
<1>12. CASE DataFinalCopy
  <2>1. ChanData' \in CurveSet
    BY <1>12 DEF DataFinalCopy, EDMA_Chan_CopyData, Curve, CurveSet
  <2>2. CtrlType'
    BY <1>12 DEF CtrlType, DataFinalCopy
  <2> QED
    BY <1>12, <2>1, <2>2 DEF DataFinalCopy
<1>13. CASE DataFindEvent
  <2>1. FindEvent' \in BOOLEAN
    BY <1>13, Zenon DEF DataFindEvent
  <2>2. CtrlType'
    BY <1>13, <2>1 DEF CtrlType, DataFindEvent
  <2> QED
    BY <1>13, <2>1, <2>2 DEF DataFindEvent
<1>14. CASE DataSignal
  <2>1. CtrlType'
    BY <1>14 DEF CtrlType, DataSignal
  <2> QED
    BY <1>14, <2>1 DEF DataSignal
<1>15. CASE DataIdle
  <2>1. CtrlType'
    BY <1>15 DEF CtrlType, DataIdle
  <2> QED
    BY <1>15, <2>1 DEF DataIdle
<1>16. CASE DataCheck \/ DataLoop
  <2>1. CtrlType'
    BY <1>16 DEF CtrlType, DataCheck, DataLoop
  <2> QED
    BY <1>16, <2>1 DEF DataCheck, DataLoop
<1> QED
  BY <1>1, <1>2, <1>3, <1>4, <1>5, <1>6, <1>7, <1>8,
     <1>9, <1>10, <1>11, <1>12, <1>13, <1>14, <1>15, <1>16
  DEF Thread_OtdrData

LEMMA AlgoKeeps == IInv /\ Thread_OtdrAlgo => IInv'
<1> SUFFICES ASSUME IInv, Thread_OtdrAlgo PROVE IInv'
  OBVIOUS
<1> USE DEF IInv, HostType, StepType, CurveType, Counters, Owners, AlgoSteps,
        ctrl, flags, hostV, accV, upV, AlgoStep
<1>1. CASE AlgoFree \/ AlgoMark
  <2>1. CtrlType'
    BY <1>1 DEF CtrlType, AlgoFree, AlgoMark
  <2> QED
    BY <1>1, <2>1 DEF AlgoFree, AlgoMark
<1>2. CASE AlgoPoll \/ AlgoCheck
  <2>1. CtrlType'
    BY <1>2 DEF CtrlType, AlgoPoll, AlgoCheck
  <2> QED
    BY <1>2, <2>1 DEF AlgoPoll, AlgoCheck
<1>3. CASE AlgoLock \/ AlgoUnlock
  <2>1. CtrlType'
    BY <1>3 DEF CtrlType, AlgoLock, AlgoUnlock
  <2> QED
    BY <1>3, <2>1 DEF AlgoLock, AlgoUnlock
<1>4. CASE AlgoJudge
  <2>1. FindEvent \in BOOLEAN
    BY DEF CtrlType
  <2>2. ChanData' \in CurveSet
    BY <1>4 DEF AlgoJudge, CurveSet
  <2>3. work' = [curve |-> ChanData, final |-> FindEvent] \/ work' = work
    BY <1>4 DEF AlgoJudge
  <2>4. [curve |-> ChanData, final |-> FindEvent] \in [curve : CurveSet, final : BOOLEAN]
    BY <2>1
  <2>5. work' \in [curve : CurveSet, final : BOOLEAN]
    BY <2>3, <2>4
  <2>6. CtrlType'
    BY <1>4 DEF CtrlType, AlgoJudge
  <2> QED
    BY <1>4, <2>2, <2>5, <2>6 DEF AlgoJudge
<1>5. CASE AlgoProcess
  <2>1. work.curve \in CurveSet /\ work.final \in BOOLEAN
    OBVIOUS
  <2>2. last' \in [for : 0 .. MaxStarts, of : 0 .. MaxStarts, n : 0 .. Pieces, final : BOOLEAN,
                   whole : BOOLEAN]
    BY <1>5, <2>1 DEF AlgoProcess, CurveSet
  <2>3. finals' \in 0 .. 2
    BY <1>5 DEF AlgoProcess
  <2>4. CtrlType'
    BY <1>5 DEF CtrlType, AlgoProcess
  <2> QED
    BY <1>5, <2>1, <2>2, <2>3, <2>4 DEF AlgoProcess
<1>6. CASE AlgoFinish
  <2>1. CtrlType'
    BY <1>6 DEF CtrlType, AlgoFinish
  <2> QED
    BY <1>6, <2>1 DEF AlgoFinish
<1>7. CASE AlgoReady
  <2>1. CtrlType'
    BY <1>7 DEF CtrlType, AlgoReady
  <2> QED
    BY <1>7, <2>1 DEF AlgoReady
<1> QED
  BY <1>1, <1>2, <1>3, <1>4, <1>5, <1>6, <1>7 DEF Thread_OtdrAlgo

LEMMA Invariant == Spec => []IInv
<1>1. IInv /\ [Next]_vars => IInv'
  <2> SUFFICES ASSUME IInv, [Next]_vars PROVE IInv'
    OBVIOUS
  <2>1. CASE UNCHANGED vars
    BY <2>1 DEF IInv, CtrlType, HostType, StepType, CurveType, Counters, Owners,
                vars, ctrl, flags, hostV, accV, algoV, upV
  <2> QED
    BY <2>1, HostKeeps, DataKeeps, AlgoKeeps DEF Next
<1> QED
  BY InitIInv, <1>1, PTL DEF Spec

-----------------------------------------------------------------------------
(* The theorems                                                            *)

\* An accumulation makes no more pieces and no more refreshes than it was
\* asked for, and every word of OtdrCtrl keeps its range, under any scheduling.
THEOREM TypeCorrect == Spec => []TypeOK
BY Invariant, TypeParts, PTL

\* While Thread_OtdrAlgo processes a curve, OtdrUpdateParam does not run.
THEOREM ParametersStay == Spec => ParametersKept
<1>1. IInv /\ [Next]_vars => [algo = "process" => OtdrState' = OtdrState]_vars
  <2> SUFFICES ASSUME IInv, Next, algo = "process" PROVE OtdrState' = OtdrState
    OBVIOUS
  <2>1. data # "update"
    BY DEF IInv, Owners
  <2>2. CASE ProcessRcvData
    BY <2>2 DEF ProcessRcvData, StartMeasure, StopMeasure, StopAnswered
  <2>3. CASE Thread_OtdrData
    BY <2>1, <2>3 DEF Thread_OtdrData, DataStep, DataBegin, DataWake, DataLock, OtdrUpdateParam,
       DataUnlock, DataClear, DataRound, get_one_piece_of_data, DataCancelled, DataStopped,
       DataGoesOn, DataRefresh, DataRefreshCopy, DataSettle, DataFinalCopy, DataFindEvent,
       DataSignal, DataDoze, DataHush, DataIdle, DataCheck, DataLoop
  <2>4. CASE Thread_OtdrAlgo
    BY <2>4 DEF Thread_OtdrAlgo, AlgoFree, AlgoPoll, AlgoCheck, AlgoMark, AlgoLock, AlgoJudge,
       AlgoProcess, AlgoFinish, AlgoReady, AlgoUnlock
  <2> QED
    BY <2>2, <2>3, <2>4 DEF Next
<1> QED
  BY <1>1, Invariant, PTL DEF Spec, ParametersKept
=============================================================================
