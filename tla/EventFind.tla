------------------------------ MODULE EventFind ------------------------------
(***************************************************************************)
(* The event search of ProcessFinalData (src/algorithm/Otdr.c) with the    *)
(* passes of src/algorithm/Event.c.  A curve is cut down to what the       *)
(* passes ask of it: which samples are saturated, and where the difference *)
(* over one pulse width leaves the noise and with which sign.  Thresholds  *)
(* in dB on levels and slopes are choices.  An event is a record of its    *)
(* first and last sample and its type; the arrays FinalEvent,              *)
(* FinalEventEnd and EventType are the one sequence ev.                    *)
(***************************************************************************)
EXTENDS Naturals, Sequences, FiniteSets, SequencesExt

CONSTANTS N,          \* samples searched, DATA_LEN - NOISE_LEN
          M,          \* pulse width in samples
          EventDis,   \* points farther apart belong to different events
          MinWidth,   \* a narrower event is dropped
          MaxCount,   \* samples at the top that make a saturation
          TailLen,    \* length of the tail behind a saturation
          MaxEvents,  \* MAX_EVENT_NUM
          MaxPieces,  \* bound: pieces of one event
          ConcatPoint,\* CurveConcatPoint when two curves are joined
          Inputs      \* measurements: records of conf, the Settings that are
                      \* on; delta, the sign of the difference at each sample,
                      \* 2 where the low power curve saturates; and sat, the
                      \* saturated samples

Pos == 0 .. N - 1
Settings == {"manual", "long", "wide", "concat", "upload"}

ASSUME SizesAssumption ==
    /\ {N, M, EventDis, MinWidth, MaxCount, MaxEvents} \subseteq Nat \ {0}
    /\ MaxPieces \in Nat /\ TailLen \in Nat /\ ConcatPoint \in Pos
    /\ MinWidth <= MaxCount /\ N > 2 * M
    /\ Inputs \subseteq [conf : [Settings -> BOOLEAN],
                         delta : [Pos -> {-1, 0, 1, 2}], sat : SUBSET Pos]

VARIABLES
    pc,         \* the pass that runs next
    conf,       \* OtdrCtrl and MeasureParam as far as the passes read them
    sat,        \* samples at or above SatThreshold
    delta,      \* the difference curve before its threshold
    scan,       \* the loop's i, LastSaturate, SatStart and SaturatePos
    tails,      \* SatStart .. TailEnd of the saturations found
    points,     \* TotalEvent
    ev,         \* FinalEvent, FinalEventEnd, EventType up to FinalEventNum
    satEv,      \* SaturateEvent
    endReflect, \* EndEventIsReflect
    oob         \* what was used without being there: "none" or the cause

findVars == <<pc, conf, sat, delta, scan, tails, points, ev, satEv, endReflect,
              oob>>
curve == <<conf, sat, delta>>

(* Undefined behaviour: nothing is known of the program from here on *)
Wild(cause) == pc' = "wild" /\ oob' = cause

Types == {"start", "reflect", "nonreflect", "probable", "end"}
Event == [s : Pos, e : 0 .. N, t : Types]

FromPoint == IF conf.concat THEN ConcatPoint ELSE 0

(* Where the scan for the end of a plateau that begins at i stops *)
PlateauEnd(i) == CHOOSE j \in i + 1 .. N :
                    /\ j \notin sat
                    /\ i + 1 .. j - 1 \subseteq sat

(* The members of S in ascending order *)
Ascending(S) ==
    [k \in 1 .. Cardinality(S) |->
        CHOOSE x \in S : Cardinality({y \in S : y < x}) = k - 1]

(* KickOutOfArray: the events of the marked indices leave the arrays, the *)
(* others keep their order                                                *)
KickOutOfArray(list, bad) ==
    LET kept == Ascending(DOMAIN list \ bad)
    IN  [k \in DOMAIN kept |-> list[kept[k]]]

(* ProcessFinalData starts on the curve of a measurement *)
Start ==
    /\ pc = "idle"
    /\ \E m \in Inputs :
          /\ conf' = m.conf /\ delta' = m.delta /\ sat' = m.sat
          /\ scan' = [i |-> IF m.conf.concat THEN ConcatPoint ELSE 0,
                      last |-> FALSE, start |-> 0, top |-> 0]
    /\ pc' = "sat" /\ tails' = {}
    /\ UNCHANGED <<points, ev, satEv, endReflect, oob>>

(* GetCurveSaturatePoint, at a sample of a plateau: one that is long and   *)
(* level enough is remembered.  The sample that ends it is stepped over,   *)
(* so a plateau behind a gap of one sample replaces the start kept.        *)
SatPlateau ==
    LET j == PlateauEnd(scan.i) IN
    /\ pc = "sat" /\ scan.i < N /\ scan.i \in sat
    /\ \E level \in IF j - scan.i >= MaxCount THEN BOOLEAN ELSE {FALSE} :
          scan' = IF level
                  THEN [i |-> j + 1, last |-> TRUE, start |-> scan.i, top |-> j]
                  ELSE [scan EXCEPT !.i = j + 1]
    /\ UNCHANGED <<pc, curve, tails, points, ev, satEv, endReflect, oob>>

(* Behind a remembered plateau the tail ends where the level reaches the   *)
(* noise, rises again, or TailLen is used up; N samples are too few for    *)
(* MAX_SAT_POINTS plateaus                                                 *)
SatTail ==
    /\ pc = "sat" /\ scan.i < N /\ scan.i \notin sat
    /\ IF scan.last
       THEN \E te \in scan.top .. Min({scan.top + TailLen, N}) :
               /\ tails' = tails \cup (scan.start .. te)
               /\ scan' = [scan EXCEPT !.i = te + 1, !.last = FALSE]
       ELSE scan' = [scan EXCEPT !.i = @ + 1] /\ UNCHANGED tails
    /\ UNCHANGED <<pc, curve, points, ev, satEv, endReflect, oob>>

SatDone ==
    /\ pc = "sat" /\ scan.i >= N
    /\ pc' = "find"
    /\ UNCHANGED <<curve, scan, tails, points, ev, satEv, endReflect, oob>>

(* A sample that starts a run of its sign between two samples in the noise *)
(* is refined: its point is moved back by up to M samples                  *)
Out(i) == delta[i] \in {-1, 1}
Refined(from, to) ==
    {i \in from .. to :
        /\ Out(i)
        /\ \A k \in from .. i - 1 :
              delta[k] = delta[i] => \E z \in k + 1 .. i - 1 : delta[z] = 0}

FoundPoints(from, to, back) ==
    {i + M : i \in {k \in from .. to : Out(k)}}
        \cup UNION {Max({0, i - back[i]}) + M .. i + M : i \in DOMAIN back}
Backs(from, to) == [Refined(from, to) -> 0 .. M]

(* On the low power part a saturated sample appends the point found last,  *)
(* which is no point at all while none was found                           *)
Unset(high) ==
    /\ conf.concat /\ high = {}
    /\ \E i \in 0 .. ConcatPoint - M - 1 :
          delta[i] = 2 /\ \A k \in 0 .. i - 1 : ~Out(k)

(* FindLargeEventsBeforeLog, on the high power part and then, when the two *)
(* curves are joined, on the low power part                                *)
FindLarge ==
    LET end == N - 1 - 2 * M
        lowEnd == IF conf.concat THEN ConcatPoint - M - 1 ELSE 0
        lowFrom == IF conf.concat THEN 0 ELSE 1     \* nothing from 1 to 0
    IN
    /\ pc = "find" /\ ~conf.manual
    /\ \E bh \in Backs(FromPoint, end), bl \in Backs(lowFrom, lowEnd) :
          LET high == FoundPoints(FromPoint, end, bh) IN
          /\ points' = high \cup FoundPoints(lowFrom, lowEnd, bl)
          /\ \/ Unset(high) /\ Wild("unset")
             \/ ~Unset(high) /\ pc' = "filter" /\ UNCHANGED oob
    /\ UNCHANGED <<curve, scan, tails, ev, satEv, endReflect>>

(* With a manual threshold the search is left out and the event arrays are *)
(* never allocated; the filter below uses them all the same                *)
FindSkipped ==
    /\ pc = "find" /\ conf.manual
    /\ Wild("unallocated")
    /\ UNCHANGED <<curve, scan, tails, points, ev, satEv, endReflect>>

(* Mutant: the tails of saturations left out *)
FilledPointsOnly == points \cup 0 .. Min(points)

(* The points of EventPointsFilter: those found, the tails, and all from 0 *)
(* to the smallest; groups with no gap above EventDis                      *)
Filled == LET p == points \cup tails IN p \cup 0 .. Min(p)
Groups ==
    LET filled == Filled
        starts == {p \in filled : filled \cap (p - EventDis .. p - 1) = {}}
        last(p) == Max({q \in filled :
                          q >= p /\ starts \cap (p + 1 .. q) = {}})
        sorted == Ascending(starts)
    IN  [k \in 1 .. Min({MaxEvents, Len(sorted)}) |->
            <<sorted[k], last(sorted[k])>>]

(* EventPointsFilter: one event per group, the narrow ones dropped except  *)
(* the first, each typed by its peak                                       *)
EventPointsFilter ==
    /\ pc = "filter"
    /\ IF points = {} THEN ev' = <<>>
       ELSE LET all == Groups
                narrow == {k \in DOMAIN all :
                              k > 1 /\ all[k][2] - all[k][1] < MinWidth}
                g == KickOutOfArray(all, narrow)
            IN  \E t \in [DOMAIN g -> {"reflect", "nonreflect"}] :
                   /\ t[1] = "reflect"
                   /\ ev' = [k \in DOMAIN g |->
                               [s |-> g[k][1], e |-> g[k][2], t |-> t[k]]]
    /\ pc' = "mark1"
    /\ UNCHANGED <<curve, scan, tails, points, satEv, endReflect, oob>>

(* FindSaturateEvents: the indices of the events with a saturated sample *)
Saturated(list) == {k \in DOMAIN list : (list[k].s .. list[k].e) \cap sat # {}}
FindSaturateEvents ==
    /\ satEv' = Ascending(Saturated(ev))
    /\ UNCHANGED <<curve, tails, points, ev, endReflect, oob>>

(* Mutant: the indices are searched once only *)
MarkOnce(from, to) ==
    /\ pc = from /\ pc' = to
    /\ satEv' = IF from = "mark1" THEN Ascending(Saturated(ev)) ELSE satEv
    /\ scan' = [scan EXCEPT !.i = 1, !.top = Len(ev)]
    /\ UNCHANGED <<curve, tails, points, ev, endReflect, oob>>

Mark(from, to) == /\ pc = from /\ pc' = to /\ FindSaturateEvents
                  /\ scan' = [scan EXCEPT !.i = 1, !.top = Len(ev)]

(* The pieces an event may be split into: they lie in it, reach two samples *)
(* on at least, and are in order.  One begins where the one before ends or *)
(* behind it, or a sample earlier where a peak between them was too low.   *)
Pieces(x) ==
    LET part == {y \in [s : x.s .. x.e, e : x.s .. x.e, t : {x.t}] : y.s + 2 <= y.e}
    IN  UNION {{p \in [1 .. n -> part] :
                   \A k \in 1 .. n : \A j \in 1 .. k - 1 : p[j].e <= p[k].s + 1} :
               n \in 2 .. MaxPieces}

(* SplitFinalEvents at one event: if it is wide enough it may fall into    *)
(* pieces, the new ones behind the arrays' end, which is not looked at     *)
SplitEvent ==
    /\ pc = "split" /\ scan.i <= scan.top
    /\ \/ UNCHANGED <<pc, ev, oob>>
       \/ \E p \in Pieces(ev[scan.i]) :
             /\ ev[scan.i].e - ev[scan.i].s + 1 > M
             /\ ev' = [ev EXCEPT ![scan.i] = p[1]] \o Tail(p)
             /\ \/ Len(ev') > MaxEvents /\ Wild("full")
                \/ Len(ev') <= MaxEvents /\ UNCHANGED <<pc, oob>>
    /\ scan' = [scan EXCEPT !.i = @ + 1]
    /\ UNCHANGED <<curve, tails, points, satEv, endReflect>>

(* EventArraySort: the arrays together, by the first sample.  No two events *)
(* have the same, so that its two ways of sorting are one.                  *)
EventArraySort(list) ==
    LET before(k) == {j \in DOMAIN list :
                        \/ list[j].s < list[k].s
                        \/ list[j].s = list[k].s /\ j < k}
    IN  [n \in DOMAIN list |->
            list[CHOOSE k \in DOMAIN list : Cardinality(before(k)) = n - 1]]

(* Mutant: no sorting *)
SplitDoneUnsorted ==
    /\ pc = "split" /\ scan.i > scan.top
    /\ pc' = "mark2"
    /\ UNCHANGED <<curve, scan, tails, points, ev, satEv, endReflect, oob>>

SplitDone ==
    /\ pc = "split" /\ scan.i > scan.top
    /\ ev' = IF Len(ev) > scan.top THEN EventArraySort(ev) ELSE ev
    /\ pc' = "mark2"
    /\ UNCHANGED <<curve, scan, tails, points, satEv, endReflect, oob>>

(* RemoveTailNonReflexEventPoint: on short ranges, non-reflective events   *)
(* behind the last saturated one may be part of its tail                   *)
RemoveTailNonReflexEventPoint ==
    /\ pc = "tail"
    /\ \E bad \in IF conf.long \/ satEv = <<>> THEN {{}}
                  ELSE SUBSET {k \in DOMAIN ev : /\ k > Last(satEv)
                                                 /\ ev[k].t = "nonreflect"} :
          ev' = KickOutOfArray(ev, bad)
    /\ pc' = "low"
    /\ UNCHANGED <<curve, scan, tails, points, satEv, endReflect, oob>>

(* Mutant: the first event may go, too *)
LowCandidatesAll == {k \in DOMAIN ev : ev[k].t # "probable"}

(* RemoveLowLevelEventPoint: events below the end threshold, the first     *)
(* never, a probable one never.  RemoveConcatPointEventPoint behind it     *)
(* does nothing unless the threshold is manual.                            *)
LowCandidates == {k \in DOMAIN ev : k > 1 /\ ev[k].t # "probable"}
RemoveLowLevelEventPoint ==
    /\ pc = "low"
    /\ \E bad \in SUBSET LowCandidates : ev' = KickOutOfArray(ev, bad)
    /\ pc' = "probable"
    /\ UNCHANGED <<curve, scan, tails, points, satEv, endReflect, oob>>

(* FindProbableEndEvent: on wide pulses an end may be guessed behind the   *)
(* last event; its last sample is 0 when no step down was found            *)
FindProbableEndEvent ==
    /\ pc = "probable"
    /\ \/ conf.wide /\ ev = <<>> /\ Wild("empty") /\ UNCHANGED ev
       \/ ~(conf.wide /\ ev = <<>>) /\ pc' = "mark3" /\ UNCHANGED <<ev, oob>>
       \/ /\ conf.wide /\ ev # <<>>
          /\ \E st \in {p \in Pos : 2 * p > 2 * Last(ev).e + 3 * M} :
             \E et \in {0} \cup (st .. N - 1) :
                ev' = Append(ev, [s |-> st, e |-> et, t |-> "probable"])
          /\ \/ Len(ev) >= MaxEvents /\ Wild("full")
             \/ Len(ev) < MaxEvents /\ pc' = "mark3" /\ UNCHANGED oob
    /\ UNCHANGED <<curve, scan, tails, points, satEv, endReflect>>

(* The reflective events FindEndEventPoint may take for ghosts of the last *)
(* two saturated ones; the first event has none                            *)
GhostCandidates ==
    IF satEv = <<>> \/ Last(satEv) = 1 THEN {}
    ELSE LET low == IF Len(satEv) > 1 /\ satEv[Len(satEv) - 1] > 1
                    THEN satEv[Len(satEv) - 1] ELSE Last(satEv)
         IN  {k \in DOMAIN ev : k > low /\ ev[k].t = "reflect"}

(* SetEndEvent: the last event becomes the end, the first the start; with  *)
(* no event at all the end's type is written in front of the array         *)
SetEndEvent(list) ==
    IF list = <<>> THEN list
    ELSE [[list EXCEPT ![Len(list)].t = "end"] EXCEPT ![1].t = "start"]

(* Mutant: start and end are set before the ghosts leave *)
FindEndEventPointEarly ==
    /\ pc = "end"
    /\ \E ghosts \in SUBSET GhostCandidates :
          /\ ev' = KickOutOfArray(SetEndEvent(ev), ghosts)
          /\ endReflect' = (ev # <<>> /\ Last(ev).t = "reflect")
          /\ \/ ev = <<>> /\ Wild("empty")
             \/ ev # <<>> /\ pc' = "report" /\ UNCHANGED oob
    /\ UNCHANGED <<curve, scan, tails, points, satEv>>

FindEndEventPoint ==
    /\ pc = "end"
    /\ \E ghosts \in SUBSET GhostCandidates :
          LET list == KickOutOfArray(ev, ghosts) IN
          /\ ev' = SetEndEvent(list)
          /\ endReflect' = (list # <<>> /\ Last(list).t = "reflect")
          /\ \/ list = <<>> /\ Wild("empty")
             \/ list # <<>> /\ pc' = "report" /\ UNCHANGED oob
    /\ UNCHANGED <<curve, scan, tails, points, satEv>>

FindInit ==
    /\ pc = "idle"
    /\ \E m \in Inputs : conf = m.conf /\ delta = m.delta /\ sat = m.sat
    /\ scan = [i |-> 0, last |-> FALSE, start |-> 0, top |-> 0]
    /\ tails = {} /\ points = {} /\ ev = <<>> /\ satEv = <<>>
    /\ endReflect = FALSE /\ oob = "none"

FindNext ==
    \/ Start \/ SatPlateau \/ SatTail \/ SatDone \/ FindLarge \/ FindSkipped
    \/ EventPointsFilter
    \/ Mark("mark1", "split") \/ Mark("mark2", "tail") \/ Mark("mark3", "end")
    \/ SplitEvent \/ SplitDone \/ RemoveTailNonReflexEventPoint
    \/ RemoveLowLevelEventPoint \/ FindProbableEndEvent \/ FindEndEventPoint

------------------------------------------------------------------------------
(* The search never has two events that change places or overlap by more   *)
(* than the sample two pieces of one event may share: they are in the order*)
(* of the curve after every pass, whatever was split, dropped or added.    *)
(* Only the guessed end may have a last sample before its first.           *)
(* SplitFinalEvents puts its pieces at the end of the list until they are  *)
(* sorted, and a list it finds full is left as it is, with the write past  *)
(* the arrays.                                                             *)
Ordered ==
    pc \notin {"split", "wild"} =>
    \A k \in DOMAIN ev :
        /\ ev[k].s <= ev[k].e \/ (k = Len(ev) /\ conf.wide /\ ev[k].e = 0)
        /\ k < Len(ev) => ev[k].e <= ev[k + 1].s + 1 /\ ev[k].s < ev[k + 1].s

(* A pass that reads SaturateEvent reads the indices of the present list,  *)
(* not those of the list before the last split or removal.                 *)
SatIndicesFresh ==
    pc \in {"tail", "end"} => ToSet(satEv) = Saturated(ev)

(* A plateau that was found, with its tail, is inside an event when the    *)
(* list is made, whatever the threshold search saw of it.                  *)
SaturationKept ==
    pc = "mark1" /\ ev # <<>> /\ Len(Groups) < MaxEvents =>
        \A p \in tails : \E k \in DOMAIN ev : p \in ev[k].s .. ev[k].e

(* Apart from a list that is full, indices leave the arrays only where     *)
(* nothing was found on the curve: no removal ever empties the list, so    *)
(* that the write to the last event's type hits an event.                  *)
EmptyOnlyIfNothingFound == oob = "empty" => points = {}
==============================================================================
