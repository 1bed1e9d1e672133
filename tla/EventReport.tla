----------------------------- MODULE EventReport -----------------------------
(***************************************************************************)
(* The report on the events found: AnalyseMeasureResult                    *)
(* (src/algorithm/EventParam.c), after the search of EventFind, up to the  *)
(* freeing of the arrays.  Sections of fibre between events get an         *)
(* attenuation coefficient where they are long enough to be fitted; events *)
(* with no such section between them form a group; losses are computed     *)
(* group by group, and a group of little loss is filtered out, after which *)
(* the computation goes on from an earlier group.  What a number is is     *)
(* which samples it was computed from: None, or those samples.             *)
(***************************************************************************)
EXTENDS EventFind

CONSTANT Gap    \* 2 * m + MinEventDis: a shorter section is not fitted

ASSUME GapAssumption == Gap \in Nat \ {0}

VARIABLES
    ac,       \* AttenCoef: of the section behind event i
    il, rl,   \* EventInsertLoss, EventReflectLoss
    egs,      \* EventGroupStart, the array TotalEvent used anew; 0: a leftover
    egNum,    \* EventGroupNum
    gi,       \* the group that comes next, i
    lastG,    \* LastValidGroupIndex
    lastE,    \* LastValidEventIndex
    filtered, \* (history) the first events of the groups filtered out, and
              \* whether a group of several events was before
    report    \* the events uploaded

sums == <<ac, il, rl, egs, egNum, gi, lastG, lastE, filtered>>
vars == <<findVars, sums, report>>

None == <<>>        \* RSVD_FLOAT
Slots == 1 .. MaxEvents
Blank == [i \in Slots |-> None]

(* CalculateFiberSectionAttenCoef: from the end of event i to the start of *)
(* the next, if there is one and it is far enough                          *)
CalculateFiberSectionAttenCoef(i) ==
    IF i < Len(ev) /\ ev[i].e + Gap <= ev[i + 1].s
    THEN <<ev[i].e, ev[i + 1].s>> ELSE None

(* InitEventGroupStart: a group starts behind every section with a         *)
(* coefficient; the rest of the array keeps what it had                    *)
InitEventGroupStart(coef) ==
    LET starts == Ascending({1} \cup {i \in 2 .. Len(ev) : coef[i - 1] # None})
    IN  /\ egNum' = Len(starts)
        /\ egs' = [k \in Slots |-> IF k <= Len(starts) THEN starts[k] ELSE egs[k]]

(* CalculateEventPoint_IL_RL: the first group has only the reflection of   *)
(* its last event, the last group only that of its first; those between    *)
(* have both and an insertion loss at their first event                    *)
GroupEnd(g) == egs[g + 1] - 1
Reflections(g) == IF g = 1 THEN IF egNum > 1 THEN {GroupEnd(g)} ELSE {}
                  ELSE IF g = egNum THEN {egs[g]}
                  ELSE {egs[g], GroupEnd(g)}
Middle(g) == 1 < g /\ g < egNum

(* Mutant: the insertion loss goes to the last event of the group *)
CalculateEventPointLast(g) ==
    /\ rl' = [i \in Slots |-> IF i \in Reflections(g) THEN <<ev[i].s>> ELSE rl[i]]
    /\ il' = IF Middle(g) THEN [il EXCEPT ![GroupEnd(g)] = <<ev[egs[g]].s>>] ELSE il

CalculateEventPoint_IL_RL(g) ==
    /\ rl' = [i \in Slots |-> IF i \in Reflections(g) THEN <<ev[i].s>> ELSE rl[i]]
    /\ il' = IF Middle(g) THEN [il EXCEPT ![egs[g]] = <<ev[egs[g]].s>>] ELSE il

ReportStart ==
    /\ pc = "report" /\ conf.upload
    /\ ac' = Blank /\ il' = Blank /\ rl' = Blank
    /\ lastG' = 1 /\ lastE' = 1
    /\ pc' = "coefs"
    /\ UNCHANGED <<curve, scan, tails, points, ev, satEv, endReflect, oob, egs,
                   egNum, gi, filtered, report>>

(* EventRestart: coefficients from the last valid event on, then groups *)
Coefs ==
    /\ pc = "coefs"
    /\ LET new == [i \in Slots |-> IF i \in lastE .. Len(ev)
                                   THEN CalculateFiberSectionAttenCoef(i)
                                   ELSE ac[i]]
       IN  ac' = new /\ InitEventGroupStart(new)
    /\ gi' = lastG
    /\ pc' = "group"
    /\ UNCHANGED <<curve, scan, tails, points, ev, satEv, endReflect, oob,
                   il, rl, lastG, lastE, filtered, report>>

(* Mutants: two groups back; on from the group filtered; nothing removed *)
FilterTwoBack(g) ==
    LET s == egs[g] IN
    /\ ev' = KickOutOfArray(ev, s .. GroupEnd(g))
    /\ filtered' = [at |-> filtered.at \cup {s}, late |-> filtered.late \/ s > g]
    /\ lastG' = g - 2 /\ lastE' = 1
    /\ pc' = "coefs"
    /\ UNCHANGED gi
FilterOnwards(g) ==
    LET s == egs[g] IN
    /\ ev' = KickOutOfArray(ev, s .. GroupEnd(g))
    /\ filtered' = [at |-> filtered.at \cup {s}, late |-> filtered.late \/ s > g]
    /\ lastG' = g - 1 /\ lastE' = s
    /\ pc' = "coefs"
    /\ UNCHANGED gi
FilterKeeps(g) ==
    /\ lastG' = g - 1 /\ lastE' = egs[g - 1]
    /\ pc' = "coefs"
    /\ UNCHANGED <<gi, ev, filtered>>

(* A group of little loss that starts non-reflective leaves the arrays.    *)
(* The group before it is to be computed again; the event to go on from is *)
(* looked up in EventGroupStart with the number of an event.               *)
Filter(g) ==
    LET s == egs[g] IN
    /\ ev' = KickOutOfArray(ev, s .. GroupEnd(g))
    /\ filtered' = [at |-> filtered.at \cup {s},
                    late |-> filtered.late \/ s > g]
    /\ lastG' = g - 1
    /\ lastE' \in IF egs[s - 1] = 0 THEN 1 .. Len(ev) + 1 ELSE {egs[s - 1]}
    /\ pc' = "coefs"
    /\ UNCHANGED gi

GroupStep ==
    /\ pc = "group" /\ gi <= egNum
    /\ CalculateEventPoint_IL_RL(gi)
    /\ \/ Middle(gi) /\ ev[egs[gi]].t = "nonreflect" /\ Filter(gi)
       \/ gi' = gi + 1 /\ UNCHANGED <<pc, ev, lastG, lastE, filtered>>
    /\ UNCHANGED <<curve, scan, tails, points, satEv, endReflect, oob, ac, egs,
                   egNum, report>>

(* NormalizeAC_RL: no reflection for an event that is not reflective *)
NormalizeAC_RL(i) ==
    IF \/ i < Len(ev) /\ ev[i].t = "nonreflect"
       \/ i = Len(ev) /\ ~endReflect
    THEN None ELSE rl[i]

(* The list is filled in, each coefficient moved to the event behind its   *)
(* section, and put into the frame queue                                   *)
Fill ==
    /\ pc = "group" /\ gi > egNum
    /\ report' = [i \in DOMAIN ev |->
                    [s |-> ev[i].s, e |-> ev[i].e, t |-> ev[i].t,
                     ac |-> IF i = 1 THEN None ELSE ac[i - 1],
                     il |-> il[i], rl |-> NormalizeAC_RL(i)]]
    /\ pc' = "free"
    /\ UNCHANGED <<curve, scan, tails, points, ev, satEv, endReflect, oob, sums>>

(* FreeEventMem, after the report or where none is asked for *)
FreeEventMem ==
    /\ \/ pc = "free"
       \/ pc = "report" /\ ~conf.upload
    /\ pc' = "idle"
    /\ tails' = {} /\ points' = {} /\ ev' = <<>> /\ satEv' = <<>>
    /\ ac' = Blank /\ il' = Blank /\ rl' = Blank
    /\ egs' = [k \in Slots |-> 0] /\ egNum' = 0 /\ gi' = 1
    /\ lastG' = 1 /\ lastE' = 1
    /\ filtered' = [at |-> {}, late |-> FALSE]
    /\ report' = <<>>
    /\ UNCHANGED <<curve, scan, endReflect, oob>>

Init ==
    /\ FindInit
    /\ ac = Blank /\ il = Blank /\ rl = Blank
    /\ egs = [k \in Slots |-> 0] /\ egNum = 0 /\ gi = 1
    /\ lastG = 1 /\ lastE = 1
    /\ filtered = [at |-> {}, late |-> FALSE]
    /\ report = <<>>

AnalyseMeasureResult == ReportStart \/ Coefs \/ GroupStep \/ Fill
Next ==
    \/ FindNext /\ UNCHANGED <<sums, report>>
    \/ AnalyseMeasureResult
    \/ FreeEventMem
Spec == Init /\ [][Next]_vars
FairSpec == Spec /\ WF_vars(AnalyseMeasureResult)

------------------------------------------------------------------------------
Causes == {"none", "unset", "unallocated", "empty", "full"}
TypeOK ==
    /\ oob \in Causes /\ (pc = "wild") = (oob # "none")
    /\ [conf |-> conf, delta |-> delta, sat |-> sat] \in Inputs
    /\ tails \subseteq 0 .. N /\ points \subseteq Pos
    /\ (pc # "wild" => Len(ev) <= MaxEvents) /\ \A i \in DOMAIN ev : ev[i] \in Event
    /\ \A i \in DOMAIN satEv : satEv[i] \in Slots
    /\ egs \in [Slots -> 0 .. MaxEvents] /\ egNum \in 0 .. MaxEvents
    /\ gi \in 1 .. MaxEvents + 1 /\ lastG \in Slots /\ lastE \in 1 .. MaxEvents + 1

(* The list uploaded starts with the start and ends with the end and has   *)
(* neither anywhere else, whatever was filtered out behind SetEndEvent.    *)
OneEnd ==
    \A i \in DOMAIN report :
        /\ report[i].t = "start" <=> i = 1
        /\ report[i].t = "end" <=> i = Len(report) /\ i > 1

(* The coefficient reported with an event is the one of the section that   *)
(* ends at it, unless a group was filtered out behind one of several       *)
(* events: then AnalyseMeasureResult may go on from too late an event.     *)
SectionOfItsEvent ==
    ~filtered.late =>
        \A i \in DOMAIN report :
            report[i].ac # None => report[i].ac = <<report[i - 1].e, report[i].s>>

(* An insertion loss reported with an event was measured at it, unless a   *)
(* group was filtered out that began at its place in the list.             *)
LossOfItsEvent ==
    \A i \in DOMAIN report :
        \/ i \in filtered.at \/ filtered.late
        \/ report[i].il \in {None, <<report[i].s>>}

(* Every number of the report belongs to the event it stands with.         *)
NumbersOfTheirEvents == SectionOfItsEvent /\ LossOfItsEvent

(* The restarts of AnalyseMeasureResult come to an end, whatever is        *)
(* filtered out of the list and wherever the computation goes on.          *)
ReportEnds == pc = "coefs" ~> pc = "free"
==============================================================================
