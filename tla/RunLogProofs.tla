---------------------------- MODULE RunLogProofs ----------------------------
(***************************************************************************)
(* For every number of writers, size of the ring and length of the run:    *)
(* the variables keep their types, so that check_log_head never refuses a  *)
(* header this code has written; the newest records are in the places the  *)
(* header gives for them; the listing prints them; and a cleaner removes   *)
(* the file that was the oldest when it looked.                            *)
(***************************************************************************)
EXTENDS RunLog, FiniteSetTheorems, TLAPS

Inside == {"open", "headed"}

\* The mutex: a writer is between lock and unlock just when it holds it.
Exclusive == \A w \in Writers : pc[w] \in Inside <=> lock = w

\* Between the two writes of outoutLog the header already counts the record,
\* and the record's place is where the header says, unless the file is gone.
Promised ==
  \A w \in Writers : pc[w] = "headed" /\ w \notin gone =>
    /\ format = "bin" /\ number[w] > 0 /\ number[w] = counted[day[w]]
    /\ at[w] = Place(day[w], number[w])

\* A file without a header has no records, and none is done before it counts.
Counts ==
  \A d \in Days :
    /\ format = "bin" => (head[d].num = 0 <=> counted[d] = 0)
    /\ head[d].num = 0 => head[d].idx = 0
    /\ \A n \in done[d] : n <= counted[d]

\* NewestKept, of the files that are not there as well.
Kept ==
  \A d \in Days : \A n \in done[d] :
    format = "bin" /\ n > counted[d] - RecordMax => slot[d][Place(d, n)] = n

\* In the text format the n-th line is the n-th record.
Lines ==
  format = "txt" => \A d \in Days :
    Len(lines[d]) = counted[d] /\ \A n \in 1 .. counted[d] : lines[d][n] = n

IInv == TypeOK /\ Exclusive /\ Promised /\ Counts /\ Kept /\ Lines

-----------------------------------------------------------------------------
(* The ring                                                                *)

\* Two of the newest RecordMax records have different places.
LEMMA PlacesDiffer ==
  ASSUME NEW idx \in Slots, NEW a \in Nat, NEW b \in Nat,
         a < RecordMax, b < RecordMax, a # b
  PROVE  PlaceAt(idx, a) \in Slots /\ PlaceAt(idx, a) # PlaceAt(idx, b)
BY RunLogAssumption DEF Slots, PlaceAt

\* Moving the header on gives its old index to the new record and leaves the
\* others, but the oldest, where they are.
LEMMA AdvancedKeeps ==
  ASSUME NEW h \in [idx : Slots, num : 0 .. RecordMax], h.num > 0
  PROVE  /\ Advanced(h) \in [idx : Slots, num : 0 .. RecordMax]
         /\ Advanced(h).num > 0
         /\ PlaceAt(Advanced(h).idx, 0) = h.idx
         /\ \A b \in Nat : b + 1 < RecordMax =>
              PlaceAt(Advanced(h).idx, b + 1) = PlaceAt(h.idx, b)
<1>1. h.idx \in Slots /\ h.num \in 0 .. RecordMax
  OBVIOUS
<1>2. /\ Advanced(h).idx = IF h.idx + 1 >= RecordMax THEN 0 ELSE h.idx + 1
      /\ Advanced(h).num = IF h.num < RecordMax THEN h.num + 1 ELSE h.num
  BY DEF Advanced
<1>3. Advanced(h).idx \in Slots /\ Advanced(h).num \in 0 .. RecordMax
  BY <1>1, <1>2, RunLogAssumption DEF Slots
<1>4. Advanced(h) \in [idx : Slots, num : 0 .. RecordMax]
  BY <1>3 DEF Advanced
<1>5. Advanced(h).num > 0
  BY <1>1, <1>2, RunLogAssumption
<1>6. PlaceAt(Advanced(h).idx, 0) = h.idx
  BY <1>1, <1>2, RunLogAssumption DEF Slots, PlaceAt
<1>7. ASSUME NEW b \in Nat, b + 1 < RecordMax
      PROVE  PlaceAt(Advanced(h).idx, b + 1) = PlaceAt(h.idx, b)
  BY <1>1, <1>2, <1>7, RunLogAssumption DEF Slots, PlaceAt
<1> QED
  BY <1>4, <1>5, <1>6, <1>7

-----------------------------------------------------------------------------
(* Each action keeps the invariant                                         *)

LEMMA InitIInv == Init => IInv
<1> SUFFICES ASSUME Init PROVE IInv
  OBVIOUS
<1> USE DEF Init
<1>1. Day(now) \in Days
  BY RunLogAssumption DEF Day, Days
<1>2. NoHead \in [idx : Slots, num : 0 .. RecordMax] /\ Empty \in [Slots -> Nat]
  BY RunLogAssumption DEF NoHead, Empty, Slots
<1>3. 0 \in Slots /\ 0 \in Days
  BY RunLogAssumption DEF Slots, Days
<1>4. TypeOK
  BY <1>1, <1>2, <1>3, RunLogAssumption DEF TypeOK
<1>5. Exclusive /\ Promised
  BY RunLogAssumption DEF Exclusive, Promised, Inside
<1>6. Counts /\ Kept
  BY DEF Counts, Kept, NoHead
<1>7. Lines
  BY DEF Lines
<1> QED
  BY <1>4, <1>5, <1>6, <1>7 DEF IInv

LEMMA TakeNameKeeps ==
  ASSUME IInv, NEW w \in Writers, TakeName(w) PROVE IInv'
<1> USE DEF IInv, TakeName, files
<1>1. TypeOK'
  <2>1. /\ day \in [Writers -> Days] /\ writes \in Nat /\ Day(now) \in Days
        /\ pc \in [Writers -> {"idle", "named", "open", "headed"}]
    BY DEF TypeOK
  <2>2. /\ day' \in [Writers -> Days] /\ writes' \in Nat
        /\ pc' \in [Writers -> {"idle", "named", "open", "headed"}]
    BY <2>1
  <2> QED
    BY <2>2 DEF TypeOK
<1>2. Exclusive'
  BY DEF Exclusive, Inside, TypeOK
<1>3. Promised'
  BY DEF Promised, Place, TypeOK
<1>4. Counts' /\ Kept' /\ Lines'
  BY DEF Counts, Kept, Lines, Place
<1> QED
  BY <1>1, <1>2, <1>3, <1>4

LEMMA OpenLogKeeps ==
  ASSUME IInv, NEW w \in Writers, OpenLog(w) PROVE IInv'
<1> USE DEF IInv, OpenLog
<1>1. TypeOK'
  <2>1. day[w] \in Days /\ mtime \in [Days -> Nat] /\ now \in Nat /\ there \subseteq Days
    BY DEF TypeOK
  <2>2. there' \subseteq Days /\ mtime' \in [Days -> Nat]
    BY <2>1
  <2>3. pc' \in [Writers -> {"idle", "named", "open", "headed"}]
    BY DEF TypeOK
  <2> QED
    BY <2>2, <2>3 DEF TypeOK
<1>2. Exclusive'
  BY RunLogAssumption DEF Exclusive, Inside, TypeOK
<1>3. Promised'
  BY DEF Promised, Place, TypeOK
<1>4. Counts' /\ Kept' /\ Lines'
  BY DEF Counts, Kept, Lines, Place
<1> QED
  BY <1>1, <1>2, <1>3, <1>4

LEMMA SaveHeadKeeps ==
  ASSUME IInv, NEW w \in Writers, SaveHead(w) PROVE IInv'
<1> DEFINE d == day[w]
           h == head[d]
           First == [idx |-> 1, num |-> 1]
<1> USE DEF IInv
<1>0. /\ day \in [Writers -> Days] /\ at \in [Writers -> Slots] /\ number \in [Writers -> Nat]
      /\ head \in [Days -> [idx : Slots, num : 0 .. RecordMax]] /\ counted \in [Days -> Nat]
      /\ done \in [Days -> SUBSET (Nat \ {0})] /\ mtime \in [Days -> Nat] /\ now \in Nat
      /\ pc \in [Writers -> {"idle", "named", "open", "headed"}]
  BY DEF TypeOK
<1>1. d \in Days /\ h \in [idx : Slots, num : 0 .. RecordMax] /\ h.num \in Nat /\ counted[d] \in Nat
  BY <1>0
<1>2. format = "bin" /\ pc[w] = "open" /\ lock = w
  BY DEF SaveHead, Exclusive, Inside
<1>3. Exclusive'
  BY <1>0, <1>2 DEF SaveHead, Exclusive, Inside
<1>4. Lines'
  BY <1>2 DEF SaveHead, Lines
<1>5. CASE w \in gone
  <2>1. TypeOK'
    BY <1>5 DEF SaveHead, TypeOK
  <2>2. Promised'
    BY <1>0, <1>5 DEF SaveHead, Promised, Place
  <2>3. Counts' /\ Kept'
    BY <1>5 DEF SaveHead, Counts, Kept, Place
  <2> QED
    BY <1>3, <1>4, <2>1, <2>2, <2>3
<1>6. CASE w \notin gone
  <2> DEFINE new == IF h.num = 0 THEN First ELSE Advanced(h)
  <2>1. /\ head' = [head EXCEPT ![d] = new] /\ counted' = [counted EXCEPT ![d] = @ + 1]
        /\ at' = [at EXCEPT ![w] = h.idx] /\ number' = [number EXCEPT ![w] = counted[d] + 1]
        /\ pc' = [pc EXCEPT ![w] = "headed"]
        /\ UNCHANGED <<format, now, there, slot, size, lines, lock, day, gone, victim, writes,
                       crashes, done>>
    BY <1>6 DEF SaveHead
  <2>2. First \in [idx : Slots, num : 0 .. RecordMax] /\ First.num > 0 /\ PlaceAt(First.idx, 0) = 0
    BY RunLogAssumption DEF Slots, PlaceAt
  <2>3. new \in [idx : Slots, num : 0 .. RecordMax] /\ new.num > 0
    BY <1>1, <2>2, AdvancedKeeps
  <2>4. TypeOK'
    <3>1. /\ head' \in [Days -> [idx : Slots, num : 0 .. RecordMax]]
          /\ counted' \in [Days -> Nat]
      BY <1>0, <1>1, <2>1, <2>3
    <3>2. /\ at' \in [Writers -> Slots] /\ number' \in [Writers -> Nat]
          /\ pc' \in [Writers -> {"idle", "named", "open", "headed"}]
      BY <1>0, <1>1, <2>1
    <3>3. mtime' \in [Days -> Nat]
      BY <1>0, <1>1, <1>6 DEF SaveHead
    <3> QED
      BY <2>1, <3>1, <3>2, <3>3 DEF TypeOK
  <2> HIDE DEF new
  <2>5. head'[d] = new /\ counted'[d] = counted[d] + 1
    BY <1>0, <1>1, <2>1
  <2>6. PlaceAt(new.idx, 0) = h.idx
    BY <1>1, <2>2, AdvancedKeeps DEF new, Counts
  <2>7. Promised'
    <3> SUFFICES ASSUME NEW v \in Writers, pc'[v] = "headed"
                 PROVE  (/\ format = "bin" /\ number[v] > 0 /\ number[v] = counted[day[v]]
                         /\ at[v] = Place(day[v], number[v]))'
      BY DEF Promised
    <3>1. v = w
      BY <1>0, <1>2, <2>1 DEF Exclusive, Inside
    <3>2. number'[w] = counted[d] + 1 /\ at'[w] = h.idx /\ day'[w] = d
      BY <1>0, <2>1
    <3>3. counted'[d] - number'[w] = 0
      BY <1>1, <2>5, <3>2
    <3>4. PlaceAt(head'[d].idx, counted'[d] - number'[w]) = h.idx
      BY <2>5, <2>6, <3>3
    <3>5. at'[w] = Place(day[w], number[w])'
      BY <3>2, <3>4 DEF Place
    <3>6. number'[w] > 0 /\ number'[w] = counted'[day'[w]] /\ format' = "bin"
      BY <1>1, <1>2, <2>1, <2>5, <3>2
    <3> QED
      BY <3>1, <3>5, <3>6
  <2>8. Counts'
    <3> SUFFICES ASSUME NEW e \in Days
                 PROVE  /\ head'[e].num = 0 <=> counted'[e] = 0
                        /\ head'[e].num = 0 => head'[e].idx = 0
                        /\ \A n \in done'[e] : n <= counted'[e]
      BY DEF Counts
    <3>1. CASE e = d
      <4>1. head'[d].num # 0 /\ counted'[d] # 0
        BY <1>1, <2>3, <2>5
      <4>2. ASSUME NEW n \in done'[d] PROVE n <= counted'[d]
        <5>1. n \in Nat /\ n <= counted[d]
          BY <1>0, <1>1, <2>1 DEF Counts
        <5> QED
          BY <1>1, <2>5, <5>1
      <4> QED
        BY <3>1, <4>1, <4>2
    <3>2. CASE e # d
      BY <1>0, <1>2, <2>1, <3>2 DEF Counts
    <3> QED
      BY <3>1, <3>2
  <2>9. Kept'
    <3> SUFFICES ASSUME NEW e \in Days, NEW n \in done[e], n > counted'[e] - RecordMax
                 PROVE  slot[e][Place(e, n)'] = n
      BY <2>1 DEF Kept
    <3>1. CASE e # d
      BY <1>0, <1>2, <2>1, <3>1 DEF Kept, Place
    <3>2. CASE e = d
      <4>1. n \in Nat /\ n > 0 /\ n <= counted[d]
        BY <1>0, <1>1, <3>2 DEF Counts
      <4>2. new = Advanced(h) /\ h.num > 0
        BY <1>1, <1>2, <4>1 DEF Counts, new
      <4> DEFINE b == counted[d] - n
      <4>3. b \in Nat /\ b + 1 < RecordMax /\ counted'[d] - n = b + 1
        BY <1>1, <2>5, <3>2, <4>1, RunLogAssumption
      <4>4. PlaceAt(new.idx, b + 1) = PlaceAt(h.idx, b)
        BY <1>1, <4>2, <4>3, AdvancedKeeps
      <4>5. Place(d, n)' = Place(d, n)
        BY <2>1, <2>5, <4>3, <4>4 DEF Place
      <4>6. n > counted[d] - RecordMax
        BY <1>1, <4>1, <4>3, RunLogAssumption
      <4> QED
        <5>1. slot[d][Place(d, n)] = n
          BY <1>1, <1>2, <3>2, <4>6 DEF Kept
        <5> QED
          BY <2>1, <3>2, <4>5, <5>1
    <3> QED
      BY <3>1, <3>2
  <2> QED
    BY <1>3, <1>4, <2>4, <2>7, <2>8, <2>9
<1> QED
  BY <1>5, <1>6

LEMMA SaveRecordKeeps ==
  ASSUME IInv, NEW w \in Writers, SaveRecord(w) PROVE IInv'
<1> DEFINE d == day[w]
<1> USE DEF IInv
<1>1. /\ d \in Days /\ head[d].idx \in Slots /\ at[w] \in Slots
      /\ counted \in [Days -> Nat] /\ counted[d] \in Nat /\ done \in [Days -> SUBSET (Nat \ {0})]
      /\ slot \in [Days -> [Slots -> Nat]] /\ slot[d] \in [Slots -> Nat] /\ number[w] \in Nat
  BY DEF TypeOK
<1>2. lock = w /\ pc[w] = "headed"
  BY DEF SaveRecord, Exclusive, Inside
<1>3. Exclusive'
  BY <1>2, RunLogAssumption DEF SaveRecord, Return, Exclusive, Inside, TypeOK
<1>4. Lines'
  BY DEF SaveRecord, Lines
<1>5. Promised'
  BY <1>2 DEF SaveRecord, Return, Promised, Exclusive, Inside, TypeOK
<1>6. CASE w \in gone
  <2>1. TypeOK'
    BY <1>6 DEF SaveRecord, Return, TypeOK
  <2>2. Counts' /\ Kept'
    BY <1>6 DEF SaveRecord, Counts, Kept, Place
  <2> QED
    BY <1>3, <1>4, <1>5, <2>1, <2>2
<1>7. CASE w \notin gone
  <2>1. /\ slot' = [slot EXCEPT ![d][at[w]] = number[w]]
        /\ size' = [size EXCEPT ![d] = IF @ < at[w] + 1 THEN at[w] + 1 ELSE @]
        /\ done' = [done EXCEPT ![d] = @ \cup {number[w]}]
        /\ UNCHANGED <<format, head, counted>>
    BY <1>7 DEF SaveRecord
  <2>2. /\ format = "bin" /\ number[w] > 0 /\ number[w] = counted[d]
        /\ at[w] = Place(d, number[w])
    BY <1>2, <1>7 DEF Promised
  <2>3. TypeOK'
    <3>1. size' \in [Days -> 0 .. RecordMax]
      <4>1. at[w] + 1 \in 0 .. RecordMax /\ size \in [Days -> 0 .. RecordMax]
        <5>1. at[w] \in 0 .. RecordMax - 1 /\ RecordMax \in Nat
          BY <1>1, RunLogAssumption DEF Slots
        <5>2. size \in [Days -> 0 .. RecordMax]
          BY DEF TypeOK
        <5> QED
          BY <5>1, <5>2
      <4> QED
        BY <1>1, <2>1, <4>1
    <3>2. slot' \in [Days -> [Slots -> Nat]]
      BY <1>1, <2>1
    <3>3. done' \in [Days -> SUBSET (Nat \ {0})]
      BY <1>1, <2>1, <2>2
    <3>4. /\ lock' = NoOne /\ gone' \subseteq Writers /\ mtime' \in [Days -> Nat]
          /\ pc' \in [Writers -> {"idle", "named", "open", "headed"}]
      <4>1. /\ gone \subseteq Writers /\ mtime \in [Days -> Nat] /\ now \in Nat
            /\ pc \in [Writers -> {"idle", "named", "open", "headed"}]
        BY DEF TypeOK
      <4> QED
        BY <1>1, <1>7, <4>1 DEF SaveRecord, Return
    <3> QED
      BY <1>7, <3>1, <3>2, <3>3, <3>4 DEF SaveRecord, TypeOK
  <2>4. Counts'
    BY <1>1, <2>1, <2>2 DEF Counts
  <2>5. Kept'
    <3> SUFFICES ASSUME NEW e \in Days, NEW n \in done'[e], n > counted[e] - RecordMax
                 PROVE  slot'[e][Place(e, n)] = n
      BY <2>1 DEF Kept, Place
    <3>1. CASE e # d
      BY <1>1, <2>1, <2>2, <3>1 DEF Kept
    <3>2. CASE e = d /\ n = number[w]
      BY <1>1, <2>1, <2>2, <3>2
    <3>3. CASE e = d /\ n # number[w]
      <4>1. n \in done[d] /\ n \in Nat /\ n <= counted[d]
        BY <1>1, <2>1, <3>3 DEF Counts
      <4> DEFINE b == counted[d] - n
      <4>2. b \in Nat /\ b < RecordMax /\ b # 0
        <5>1. n # counted[d] /\ n > counted[d] - RecordMax
          BY <2>2, <3>3
        <5>2. counted[d] \in Nat /\ RecordMax \in Nat
          BY <1>1, RunLogAssumption
        <5> HIDE DEF d, IInv
        <5> QED
          BY <4>1, <5>1, <5>2
      <4>3. PlaceAt(head[d].idx, b) # PlaceAt(head[d].idx, 0) /\ PlaceAt(head[d].idx, b) \in Slots
        BY <1>1, <4>2, PlacesDiffer, RunLogAssumption
      <4>4. Place(d, n) # at[w] /\ Place(d, n) \in Slots
        BY <1>1, <2>2, <4>3 DEF Place
      <4>5. slot[d][Place(d, n)] = n
        BY <2>2, <3>3, <4>1 DEF Kept
      <4> QED
        BY <1>1, <2>1, <3>3, <4>4, <4>5
    <3> QED
      BY <3>1, <3>2, <3>3
  <2> QED
    BY <1>3, <1>4, <1>5, <2>3, <2>4, <2>5
<1> QED
  BY <1>6, <1>7

LEMMA SaveLineKeeps ==
  ASSUME IInv, NEW w \in Writers, SaveLine(w) PROVE IInv'
<1> DEFINE d == day[w]
<1> USE DEF IInv
<1>1. /\ d \in Days /\ counted \in [Days -> Nat] /\ counted[d] \in Nat
      /\ done \in [Days -> SUBSET (Nat \ {0})]
      /\ lines \in [Days -> Seq(Nat)] /\ lines[d] \in Seq(Nat)
  BY DEF TypeOK
<1>2. format = "txt" /\ lock = w
  BY DEF SaveLine, Exclusive, Inside
<1>3. Exclusive'
  BY <1>2, RunLogAssumption DEF SaveLine, Return, Exclusive, Inside, TypeOK
<1>4. Promised'
  BY <1>2 DEF SaveLine, Return, Promised, Exclusive, Inside, TypeOK
<1>5. Kept'
  BY <1>2 DEF SaveLine, Kept
<1>6. CASE w \in gone
  <2>1. TypeOK'
    BY <1>6 DEF SaveLine, Return, TypeOK
  <2>2. Counts' /\ Lines'
    BY <1>6 DEF SaveLine, Counts, Lines
  <2> QED
    BY <1>3, <1>4, <1>5, <2>1, <2>2
<1>7. CASE w \notin gone
  <2>1. /\ lines' = [lines EXCEPT ![d] = Append(@, counted[d] + 1)]
        /\ counted' = [counted EXCEPT ![d] = @ + 1]
        /\ done' = [done EXCEPT ![d] = @ \cup {counted[d] + 1}]
        /\ UNCHANGED <<format, head>>
    BY <1>7 DEF SaveLine
  <2>2. /\ lines'[d] = Append(lines[d], counted[d] + 1) /\ counted'[d] = counted[d] + 1
        /\ lines' \in [Days -> Seq(Nat)] /\ counted' \in [Days -> Nat]
        /\ done' \in [Days -> SUBSET (Nat \ {0})]
    BY <1>1, <2>1
  <2>3. TypeOK'
    <3>1. /\ lock' = NoOne /\ gone' \subseteq Writers /\ mtime' \in [Days -> Nat]
          /\ pc' \in [Writers -> {"idle", "named", "open", "headed"}]
      <4>1. /\ gone \subseteq Writers /\ mtime \in [Days -> Nat] /\ now \in Nat
            /\ pc \in [Writers -> {"idle", "named", "open", "headed"}]
        BY DEF TypeOK
      <4> QED
        BY <1>1, <1>7, <4>1 DEF SaveLine, Return
    <3> QED
      BY <1>7, <2>2, <3>1 DEF SaveLine, TypeOK
  <2>4. Counts'
    BY <1>1, <1>2, <2>1 DEF Counts
  <2>5. Lines'
    BY <1>1, <1>2, <2>1, <2>2 DEF Lines
  <2> QED
    BY <1>3, <1>4, <1>5, <2>3, <2>4, <2>5
<1> QED
  BY <1>6, <1>7

LEMMA ExpiryKeeps ==
  ASSUME IInv, get_log_file_num \/ clear_expiry_log PROVE IInv'
<1> USE DEF IInv
<1>1. CASE get_log_file_num
  <2> USE <1>1 DEF get_log_file_num, files, local
  <2>1. TypeOK'
    <3>1. victim' \in Days
      BY DEF Oldest, TypeOK
    <3> QED
      BY <3>1 DEF TypeOK
  <2>2. Exclusive' /\ Promised' /\ Counts' /\ Kept' /\ Lines'
    BY DEF Exclusive, Promised, Counts, Kept, Lines, Place
  <2> QED
    BY <2>1, <2>2
<1>2. CASE clear_expiry_log
  <2> USE <1>2 DEF clear_expiry_log, local
  <2>1. /\ head \in [Days -> [idx : Slots, num : 0 .. RecordMax]]
        /\ counted \in [Days -> Nat] /\ done \in [Days -> SUBSET (Nat \ {0})]
        /\ lines \in [Days -> Seq(Nat)] /\ slot \in [Days -> [Slots -> Nat]]
        /\ size \in [Days -> 0 .. RecordMax] /\ day \in [Writers -> Days]
        /\ victim \in Days \cup {NoOne}
    BY DEF TypeOK
  <2>2. NoHead \in [idx : Slots, num : 0 .. RecordMax] /\ NoHead.num = 0 /\ NoHead.idx = 0
    BY RunLogAssumption DEF NoHead, Slots
  <2>3. TypeOK'
    <3>1. head' \in [Days -> [idx : Slots, num : 0 .. RecordMax]]
      BY <2>1, <2>2
    <3>2. slot' \in [Days -> [Slots -> Nat]]
      BY <2>1 DEF Empty
    <3>3. size' \in [Days -> 0 .. RecordMax] /\ counted' \in [Days -> Nat]
      BY <2>1, RunLogAssumption
    <3>4. lines' \in [Days -> Seq(Nat)] /\ done' \in [Days -> SUBSET (Nat \ {0})]
      BY <2>1
    <3>5. gone' \subseteq Writers /\ there' \subseteq Days
      BY DEF TypeOK
    <3> QED
      BY <3>1, <3>2, <3>3, <3>4, <3>5 DEF TypeOK
  <2>4. Exclusive'
    BY DEF Exclusive
  <2>5. Promised'
    <3> SUFFICES ASSUME NEW v \in Writers, pc[v] = "headed", v \notin gone'
                 PROVE  (/\ format = "bin" /\ number[v] > 0 /\ number[v] = counted[day[v]]
                         /\ at[v] = Place(day[v], number[v]))'
      BY DEF Promised
    <3>1. v \notin gone /\ day[v] # victim /\ day[v] \in Days
      BY <2>1
    <3>2. head'[day[v]] = head[day[v]] /\ counted'[day[v]] = counted[day[v]]
      BY <2>1, <3>1
    <3> QED
      BY <3>1, <3>2 DEF Promised, Place
  <2>6. Counts'
    BY <2>1, <2>2 DEF Counts
  <2>7. Kept'
    BY <2>1 DEF Kept, Place
  <2>8. Lines'
    BY <2>1 DEF Lines
  <2> QED
    BY <2>3, <2>4, <2>5, <2>6, <2>7, <2>8
<1> QED
  BY <1>1, <1>2

LEMMA WorldKeeps ==
  ASSUME IInv, Tick \/ Crash PROVE IInv'
<1> USE DEF IInv
<1>1. CASE Tick
  <2> USE <1>1 DEF Tick, files, local
  <2>1. TypeOK'
    <3>1. now' \in Nat /\ Day(now)' \in Days
      BY DEF TypeOK, Day
    <3> QED
      BY <3>1 DEF TypeOK
  <2>2. Exclusive' /\ Promised' /\ Counts' /\ Kept' /\ Lines'
    BY DEF Exclusive, Promised, Counts, Kept, Lines, Place
  <2> QED
    BY <2>1, <2>2
<1>2. CASE Crash
  <2> USE <1>2 DEF Crash, files
  <2>1. TypeOK'
    <3>1. /\ crashes' \in Nat /\ victim' \in Days \cup {NoOne}
          /\ lock' \in Writers \cup {NoOne} /\ gone' \subseteq Writers
      BY DEF TypeOK
    <3>2. pc' \in [Writers -> {"idle", "named", "open", "headed"}]
      OBVIOUS
    <3> QED
      BY <3>1, <3>2 DEF TypeOK
  <2>2. Exclusive' /\ Promised'
    BY RunLogAssumption DEF Exclusive, Promised, Inside
  <2>3. Counts' /\ Kept' /\ Lines'
    BY DEF Counts, Kept, Lines, Place
  <2> QED
    BY <2>1, <2>2, <2>3
<1> QED
  BY <1>1, <1>2

-----------------------------------------------------------------------------
(* The theorems                                                            *)

\* IInv holds always: Init establishes it and every action keeps it.
LEMMA Invariant == Spec => []IInv
<1>1. IInv /\ [Next]_vars => IInv'
  <2> SUFFICES ASSUME IInv, [Next]_vars PROVE IInv'
    OBVIOUS
  <2>1. ASSUME NEW w \in Writers, LOGW(w) PROVE IInv'
    BY <2>1, TakeNameKeeps, OpenLogKeeps, SaveHeadKeeps, SaveRecordKeeps, SaveLineKeeps DEF LOGW
  <2>2. CASE get_log_file_num \/ clear_expiry_log
    BY <2>2, ExpiryKeeps
  <2>3. CASE Tick \/ Crash
    BY <2>3, WorldKeeps
  <2>4. CASE UNCHANGED vars
    <3>1. TypeOK'
      BY <2>4 DEF IInv, TypeOK, vars, files, local
    <3>2. Exclusive' /\ Promised' /\ Counts' /\ Kept' /\ Lines'
      BY <2>4 DEF IInv, Exclusive, Promised, Counts, Kept, Lines, Place, vars, files, local
    <3> QED
      BY <3>1, <3>2 DEF IInv
  <2> QED
    BY <2>1, <2>2, <2>3, <2>4 DEF Next
<1> QED
  BY InitIInv, <1>1, PTL DEF Spec

\* The headers outoutLog writes are good ones for check_log_head, and every
\* place a writer goes to is in the ring, whatever is killed or removed when.
THEOREM TypeCorrect == Spec => []TypeOK
<1>1. IInv => TypeOK
  BY DEF IInv
<1> QED
  BY <1>1, Invariant, PTL

\* Each of the newest RecordMax records whose writer has returned is where the
\* header of its file says, for every number of threads, days and crashes: a
\* kill between the writes of header and record costs that record, no other.
THEOREM NewestAreKept == Spec => []NewestKept
<1>1. IInv => NewestKept
  <2> SUFFICES ASSUME IInv, NEW d \in there, NEW n \in done[d]
               PROVE  /\ format = "bin" /\ n > counted[d] - RecordMax => slot[d][Place(d, n)] = n
                      /\ format = "txt" => n \in DOMAIN lines[d] /\ lines[d][n] = n
    BY DEF NewestKept
  <2>1. /\ d \in Days /\ n \in Nat /\ n > 0 /\ n <= counted[d] /\ counted[d] \in Nat
        /\ lines[d] \in Seq(Nat)
    BY DEF IInv, TypeOK, Counts
  <2>2. format = "bin" /\ n > counted[d] - RecordMax => slot[d][Place(d, n)] = n
    BY <2>1 DEF IInv, Kept
  <2>3. ASSUME format = "txt" PROVE n \in DOMAIN lines[d] /\ lines[d][n] = n
    BY <2>1, <2>3 DEF IInv, Lines
  <2> QED
    BY <2>2, <2>3
<1> QED
  BY <1>1, Invariant, PTL
-----------------------------------------------------------------------------
(* Expiry                                                                  *)

\* A file is not older than its name says, a name is that of no later day, and
\* the file chosen is of no later day than the last change of any other file.
Aged ==
  /\ \A w \in Writers : day[w] <= Day(now)
  /\ \A d \in there : d <= Day(mtime[d]) /\ mtime[d] <= now
  /\ victim # NoOne => /\ victim \in there /\ Cardinality(there) > NumDateSave
                       /\ \A e \in there : victim <= Day(mtime[e])

\* The day goes on with the clock.
LEMMA DayMonotone ==
  ASSUME NEW s \in Nat, NEW t \in Nat, s <= t
  PROVE  Day(s) \in Nat /\ Day(s) <= Day(t)
<1> DEFINE L == DayLength
           p == s \div L
           q == t \div L
<1>1. L \in Nat /\ L > 0
  BY RunLogAssumption
<1>2. p \in Nat /\ q \in Nat /\ L * p <= s /\ t < L * q + L
  BY <1>1
<1>3. ASSUME q < p PROVE FALSE
  <2>1. p = q + 1 + (p - q - 1) /\ p - q - 1 \in Nat
    BY <1>2, <1>3
  <2>2. L * p = L * q + L + L * (p - q - 1)
    BY <1>1, <1>2, <2>1
  <2>3. L * (p - q - 1) >= 0
    BY <1>1, <2>1
  <2> QED
    BY <1>1, <1>2, <2>2, <2>3
<1> QED
  BY <1>2, <1>3 DEF Day

LEMMA FilesFinite ==
  ASSUME TypeOK
  PROVE  IsFiniteSet(there) /\ Cardinality(there) \in Nat
<1>1. IsFiniteSet(Days)
  BY RunLogAssumption, FS_Interval DEF Days
<1> QED
  BY <1>1, FS_Subset, FS_CardinalityType DEF TypeOK

LEMMA InitAged == Init => Aged
BY RunLogAssumption, DayMonotone DEF Init, Aged

\* A writer makes files and brings them up to now; both keep Aged.
LEMMA WriterAged ==
  ASSUME IInv, Aged, NEW w \in Writers, LOGW(w) PROVE Aged'
<1>0. /\ now \in Nat /\ there \subseteq Days /\ mtime \in [Days -> Nat] /\ TypeOK
      /\ day \in [Writers -> Days] /\ victim \in Days \cup {NoOne} /\ Days \subseteq Nat
      /\ Day(now) \in Nat
  <2>1. now \in Nat /\ Days \subseteq Nat
    BY RunLogAssumption DEF IInv, TypeOK, Days
  <2> QED
    BY <2>1, DayMonotone DEF IInv, TypeOK
<1>1. CASE TakeName(w)
  BY <1>0, <1>1 DEF TakeName, files, Aged
<1>2. CASE OpenLog(w)
  <2> DEFINE d == day[w]
  <2>1. /\ there' = there \cup {d} /\ mtime' = IF d \in there THEN mtime ELSE [mtime EXCEPT ![d] = now]
        /\ UNCHANGED <<now, day, victim>>
    BY <1>2 DEF OpenLog
  <2>2. d \in Days /\ d <= Day(now)
    BY <1>0 DEF Aged
  <2>3. \A e \in there' : e <= Day(mtime'[e]) /\ mtime'[e] <= now
    BY <1>0, <2>1, <2>2 DEF Aged
  <2>4. ASSUME victim # NoOne
        PROVE  /\ victim \in there' /\ Cardinality(there') > NumDateSave
               /\ \A e \in there' : victim <= Day(mtime'[e])
    <3>1. victim \in there /\ victim <= Day(now)
      <4>1. victim \in there /\ victim <= Day(mtime[victim]) /\ mtime[victim] <= now
        BY <2>4 DEF Aged
      <4>2. mtime[victim] \in Nat /\ victim \in Nat
        BY <1>0, <4>1
      <4>3. Day(mtime[victim]) <= Day(now) /\ Day(mtime[victim]) \in Nat
        BY <1>0, <4>1, <4>2, DayMonotone
      <4> QED
        BY <1>0, <4>1, <4>2, <4>3
    <3>2. Cardinality(there') > NumDateSave
      <4>1. Cardinality(there') \in {Cardinality(there), Cardinality(there) + 1}
        BY <1>0, <2>1, FilesFinite, FS_AddElement
      <4> QED
        BY <1>0, <2>4, <4>1, FilesFinite, RunLogAssumption DEF Aged
    <3>3. \A e \in there' : victim <= Day(mtime'[e])
      BY <1>0, <2>1, <2>2, <2>4, <3>1 DEF Aged
    <3> QED
      BY <2>1, <3>1, <3>2, <3>3
  <2> QED
    BY <2>1, <2>3, <2>4 DEF Aged
<1>3. CASE SaveHead(w) \/ SaveRecord(w) \/ SaveLine(w)
  <2>1. /\ mtime' = mtime \/ mtime' = [mtime EXCEPT ![day[w]] = now]
        /\ UNCHANGED <<now, there, day, victim>>
    BY <1>3 DEF SaveHead, SaveRecord, SaveLine
  <2>2. day[w] \in Days /\ day[w] <= Day(now)
    BY <1>0 DEF Aged
  <2>3. \A e \in there : e <= Day(mtime'[e]) /\ mtime'[e] <= now
    BY <1>0, <2>1, <2>2 DEF Aged
  <2>4. ASSUME victim # NoOne, NEW e \in there PROVE victim <= Day(mtime'[e])
    <3>1. victim <= Day(mtime[e]) /\ mtime[e] <= now /\ mtime[e] \in Nat /\ victim \in Nat
      BY <1>0, <2>4 DEF Aged
    <3>2. Day(mtime[e]) <= Day(now) /\ Day(mtime[e]) \in Nat
      BY <1>0, <3>1, DayMonotone
    <3>3. mtime'[e] = mtime[e] \/ mtime'[e] = now
      BY <1>0, <2>1, <2>4
    <3> QED
      BY <1>0, <3>1, <3>2, <3>3
  <2> QED
    BY <2>1, <2>3, <2>4 DEF Aged
<1> QED
  BY <1>1, <1>2, <1>3 DEF LOGW

LEMMA NextAged == IInv /\ Aged /\ [Next]_vars => Aged'
<1> SUFFICES ASSUME IInv, Aged, [Next]_vars PROVE Aged'
  OBVIOUS
<1>0. /\ now \in Nat /\ there \subseteq Days /\ mtime \in [Days -> Nat] /\ TypeOK
      /\ day \in [Writers -> Days] /\ Days \subseteq Nat
  <2>1. Days \subseteq Nat
    BY RunLogAssumption DEF Days
  <2> QED
    BY <2>1 DEF IInv, TypeOK
<1>1. CASE get_log_file_num
  <2>1. /\ Cardinality(there) > NumDateSave /\ victim' \in there
        /\ \A e \in there : mtime[victim'] <= mtime[e]
        /\ UNCHANGED <<now, there, mtime, day>>
    BY <1>1 DEF get_log_file_num, Oldest, files, local
  <2>2. ASSUME NEW e \in there PROVE victim' <= Day(mtime[e])
    <3>1. mtime[victim'] \in Nat /\ mtime[e] \in Nat /\ victim' \in Nat
      BY <1>0, <2>1
    <3>2. Day(mtime[victim']) \in Nat /\ Day(mtime[victim']) <= Day(mtime[e]) /\ Day(mtime[e]) \in Nat
      BY <2>1, <3>1, DayMonotone
    <3>3. victim' <= Day(mtime[victim'])
      BY <2>1 DEF Aged
    <3> QED
      BY <3>1, <3>2, <3>3
  <2> QED
    BY <2>1, <2>2 DEF Aged
<1>2. CASE clear_expiry_log
  BY <1>2 DEF clear_expiry_log, local, Aged
<1>3. CASE Tick
  <2>1. now' = now + 1 /\ UNCHANGED <<there, mtime, day, victim>>
    BY <1>3 DEF Tick, files, local
  <2>2. \A w \in Writers : day[w] <= Day(now')
    <3>1. Day(now) \in Nat /\ Day(now) <= Day(now') /\ Day(now') \in Nat
      BY <1>0, <2>1, DayMonotone
    <3>2. \A w \in Writers : day[w] \in Nat /\ day[w] <= Day(now) /\ day'[w] = day[w]
      BY <1>0, <2>1 DEF Aged
    <3> QED
      BY <3>1, <3>2
  <2>3. \A d \in there : mtime[d] <= now'
    BY <1>0, <2>1 DEF Aged
  <2> QED
    BY <2>1, <2>2, <2>3 DEF Aged
<1>4. CASE Crash
  BY <1>4 DEF Crash, files, Aged
<1>5. CASE UNCHANGED vars
  BY <1>5 DEF vars, files, local, Aged
<1> QED
  BY <1>1, <1>2, <1>3, <1>4, <1>5, WriterAged DEF Next

\* clear_expiry_log leaves NumDateSave files or more, and any file of an earlier
\* day that it leaves was written after its day, whatever the writers did
\* between the choice of the file and its removal.
THEOREM ExpiryTakesOldest == Spec => OldestExpires
<1> DEFINE Left == \A d \in there \ there' :
                     /\ Cardinality(there') >= NumDateSave
                     /\ \A e \in there' : e < d => Day(mtime[e]) > e
<1>1. ASSUME IInv, Aged, Next PROVE Left
  <2>1. CASE there \subseteq there'
    BY <2>1
  <2>2. CASE clear_expiry_log
    <3>1. /\ victim # NoOne /\ there' = there \ {victim} /\ victim \in there
          /\ Cardinality(there) > NumDateSave /\ \A e \in there : victim <= Day(mtime[e])
      BY <1>1, <2>2 DEF clear_expiry_log, Aged
    <3>2. IsFiniteSet(there) /\ Cardinality(there) \in Nat /\ Cardinality(there') = Cardinality(there) - 1
      BY <1>1, <3>1, FilesFinite, FS_RemoveElement DEF IInv
    <3>3. Cardinality(there') >= NumDateSave
      BY <3>1, <3>2, RunLogAssumption
    <3>4. ASSUME NEW e \in there', e < victim PROVE Day(mtime[e]) > e
      <4>1. e \in Nat /\ victim \in Nat /\ mtime[e] \in Nat /\ victim <= Day(mtime[e])
        <5>1. e \in Days /\ victim \in Days /\ Days \subseteq Nat
          BY <1>1, <3>1, <3>4, RunLogAssumption DEF IInv, TypeOK, Days
        <5> QED
          BY <1>1, <3>1, <3>4, <5>1 DEF IInv, TypeOK
      <4>2. Day(mtime[e]) \in Nat
        BY <4>1, DayMonotone
      <4> QED
        BY <3>4, <4>1, <4>2
    <3> QED
      BY <3>1, <3>3, <3>4
  <2>3. there \subseteq there' \/ clear_expiry_log
    BY <1>1 DEF Next, LOGW, TakeName, OpenLog, SaveHead, SaveRecord, SaveLine, get_log_file_num,
                Tick, Crash, files
  <2> QED
    BY <2>1, <2>2, <2>3
<1>2. IInv /\ Aged /\ [Next]_vars => [Left]_vars
  BY <1>1
<1> QED
  BY InitAged, NextAged, Invariant, <1>2, PTL DEF Spec, OldestExpires

-----------------------------------------------------------------------------
(* Listing                                                                 *)

\* Somebody is between the header and the record of file d.
Pending(d) == \E w \in Writers : pc[w] = "headed" /\ w \notin gone /\ day[w] = d

\* The newest numbers whose record was not written.
Holes(d) == {n \in 1 .. counted[d] : n > counted[d] - RecordMax /\ n \notin done[d]}

\* The header counts up to RecordMax and its index goes with it; a slot that
\* was written is inside the file, and a newest number in it is in its place.
Listed ==
  format = "bin" => \A d \in Days :
    /\ head[d].num = IF counted[d] < RecordMax THEN counted[d] ELSE RecordMax
    /\ counted[d] < RecordMax => head[d].idx = counted[d]
    /\ \A p \in Slots :
         /\ slot[d][p] # 0 => p < size[d]
         /\ slot[d][p] <= counted[d]
         /\ slot[d][p] # 0 /\ slot[d][p] > counted[d] - RecordMax => p = Place(d, slot[d][p])

\* A newest record is missing for each kill at most, and the one being written.
Missing ==
  format = "bin" => \A d \in Days :
    /\ Pending(d) => Cardinality(Holes(d)) <= crashes + 1 /\ counted[d] \notin done[d]
    /\ ~Pending(d) => Cardinality(Holes(d)) <= crashes

ListInv == Listed /\ Missing

LEMMA HolesFinite ==
  ASSUME TypeOK, NEW d \in Days
  PROVE  IsFiniteSet(Holes(d)) /\ Cardinality(Holes(d)) \in Nat
<1>1. counted[d] \in Nat
  BY DEF TypeOK
<1>2. IsFiniteSet(1 .. counted[d])
  BY <1>1, FS_Interval
<1>3. Holes(d) \subseteq 1 .. counted[d]
  BY DEF Holes
<1> QED
  BY <1>2, <1>3, FS_Subset, FS_CardinalityType

LEMMA InitList == Init => ListInv
<1> SUFFICES ASSUME Init PROVE ListInv
  OBVIOUS
<1>1. \A d \in Days : Holes(d) = {}
  BY DEF Init, Holes
<1>2. \A d \in Days : ~Pending(d)
  BY DEF Init, Pending
<1>3. Missing
  <2>1. Cardinality({}) = 0 /\ crashes = 0
    BY FS_EmptySet DEF Init
  <2> QED
    BY <1>1, <1>2, <2>1 DEF Missing
<1>4. Listed
  BY RunLogAssumption DEF Init, Listed, NoHead, Empty, Slots
<1> QED
  BY <1>3, <1>4 DEF ListInv

\* A step that writes no file keeps both, if the same writers are half-way.
LEMMA NoWriteList ==
  ASSUME IInv, ListInv, UNCHANGED <<format, head, slot, size, counted, done>>,
         UNCHANGED crashes, \A d \in Days : Pending(d)' <=> Pending(d)
  PROVE  ListInv'
<1>1. Listed'
  BY DEF ListInv, Listed, Place
<1>2. \A d \in Days : Holes(d)' = Holes(d)
  BY DEF Holes
<1>3. Missing'
  BY <1>2 DEF ListInv, Missing
<1> QED
  BY <1>1, <1>3 DEF ListInv

LEMMA SaveHeadList ==
  ASSUME IInv, ListInv, NEW w \in Writers, SaveHead(w) PROVE ListInv'
<1> USE DEF IInv, ListInv
<1>0. /\ day \in [Writers -> Days] /\ counted \in [Days -> Nat] /\ TypeOK
      /\ head \in [Days -> [idx : Slots, num : 0 .. RecordMax]]
      /\ slot \in [Days -> [Slots -> Nat]] /\ done \in [Days -> SUBSET (Nat \ {0})]
      /\ pc \in [Writers -> {"idle", "named", "open", "headed"}] /\ crashes \in Nat
  BY DEF TypeOK
<1>d. PICK d \in Days : d = day[w]
  BY <1>0
<1> DEFINE h == head[d]
           c == counted[d]
<1>1. d \in Days /\ h \in [idx : Slots, num : 0 .. RecordMax] /\ c \in Nat /\ RecordMax \in Nat
  BY <1>0, RunLogAssumption
<1>2. format = "bin" /\ format' = "bin" /\ pc[w] = "open" /\ lock = w
  BY DEF SaveHead, Exclusive, Inside
<1>3. \A e \in Days : ~Pending(e)
  BY <1>0, <1>2 DEF Pending, Exclusive, Inside
<1>4. CASE w \in gone
  <2>1. \A e \in Days : ~Pending(e)'
    BY <1>0, <1>2, <1>4 DEF SaveHead, Pending, Exclusive, Inside
  <2> QED
    BY <1>3, <1>4, <2>1, NoWriteList DEF SaveHead
<1>5. CASE w \notin gone
  <2> DEFINE new == IF h.num = 0 THEN [idx |-> 1, num |-> 1] ELSE Advanced(h)
  <2>1. /\ head' = [head EXCEPT ![d] = new] /\ counted' = [counted EXCEPT ![d] = @ + 1]
        /\ pc' = [pc EXCEPT ![w] = "headed"]
        /\ UNCHANGED <<slot, size, lock, day, gone, crashes, done>>
    BY <1>5, <1>d DEF SaveHead
  <2>2. head'[d] = new /\ counted'[d] = c + 1
    BY <1>0, <1>1, <2>1
  <2>3. \A e \in Days : e # d => head'[e] = head[e] /\ counted'[e] = counted[e]
    BY <1>0, <2>1
  <2>4. h.num = (IF c < RecordMax THEN c ELSE RecordMax) /\ (c < RecordMax => h.idx = c)
    BY <1>1, <1>2 DEF Listed
  <2>5. /\ new.num = IF c + 1 < RecordMax THEN c + 1 ELSE RecordMax
        /\ c + 1 < RecordMax => new.idx = c + 1
    <3>1. CASE h.num = 0
      BY <1>1, <2>4, <3>1, RunLogAssumption
    <3>2. CASE h.num # 0
      BY <1>1, <2>4, <3>2, RunLogAssumption DEF Advanced
    <3> QED
      BY <3>1, <3>2
  <2> HIDE DEF new
  <2>6. ASSUME NEW e \in Days, NEW p \in Slots
        PROVE  /\ slot[e][p] # 0 => p < size[e]
               /\ slot[e][p] <= counted'[e]
               /\ slot[e][p] # 0 /\ slot[e][p] > counted'[e] - RecordMax
                    => p = Place(e, slot[e][p])'
    <3>v. PICK v \in Nat : v = slot[e][p]
      BY <1>0
    <3>1. /\ v # 0 => p < size[e]
          /\ v <= counted[e]
          /\ v # 0 /\ v > counted[e] - RecordMax => p = Place(e, v)
          /\ v \in Nat /\ counted[e] \in Nat
      BY <1>0, <1>2, <3>v DEF Listed
    <3>2. CASE e # d
      BY <2>1, <2>3, <3>v, <3>1, <3>2 DEF Place
    <3>3. CASE e = d
      <4>1. v <= c + 1
        BY <1>1, <3>1, <3>3
      <4>2. ASSUME v # 0, v > c + 1 - RecordMax PROVE p = Place(e, v)'
        <5> DEFINE b == c - v
        <5>1. b \in Nat /\ b + 1 < RecordMax /\ c + 1 - v = b + 1 /\ v > c - RecordMax
          BY <1>1, <3>1, <3>3, <4>2
        <5>2. h.num > 0 /\ new = Advanced(h)
          BY <1>1, <2>4, <3>1, <3>3, <4>2, RunLogAssumption DEF new
        <5>3. PlaceAt(new.idx, b + 1) = PlaceAt(h.idx, b)
          BY <1>1, <5>1, <5>2, AdvancedKeeps
        <5>4. Place(d, v) = PlaceAt(h.idx, b)
          BY DEF Place
        <5>5. Place(d, v)' = PlaceAt(new.idx, b + 1)
          <6>1. counted'[d] - v = b + 1
            BY <1>1, <2>2
          <6> HIDE DEF b
          <6> QED
            BY <2>2, <6>1 DEF Place
        <5> QED
          BY <3>1, <3>3, <4>2, <5>1, <5>3, <5>4, <5>5
      <4> QED
        <5>1. (v # 0 => p < size[e]) /\ counted'[e] = c + 1
          BY <2>2, <3>1, <3>3
        <5>2. slot[e][p] = v /\ Place(e, v)' = Place(e, slot[e][p])'
          BY <2>1, <3>v
        <5> QED
          BY <1>1, <3>3, <4>1, <4>2, <5>1, <5>2
    <3> QED
      BY <3>2, <3>3
  <2>7. Listed'
    BY <1>2, <2>1, <2>2, <2>3, <2>5, <2>6 DEF Listed
  <2>8. ASSUME NEW e \in Days
        PROVE  /\ Pending(e)' => Cardinality(Holes(e)') <= crashes + 1 /\ counted'[e] \notin done[e]
               /\ ~Pending(e)' => Cardinality(Holes(e)') <= crashes
    <3>1. Cardinality(Holes(e)) <= crashes /\ Cardinality(Holes(e)) \in Nat /\ IsFiniteSet(Holes(e))
      BY <1>0, <1>2, <1>3, HolesFinite DEF Missing
    <3>2. CASE e # d
      <4>1. ~Pending(e)'
        BY <1>0, <1>2, <1>3, <1>d, <2>1, <3>2 DEF Pending, Exclusive, Inside
      <4>2. Holes(e)' = Holes(e)
        BY <2>1, <2>3, <3>2 DEF Holes
      <4> QED
        BY <3>1, <4>1, <4>2
    <3>3. CASE e = d
      <4>1. Pending(d)'
        BY <1>0, <1>5, <1>d, <2>1 DEF Pending
      <4>2. Holes(d)' \subseteq Holes(d) \cup {c + 1}
        BY <1>1, <2>1, <2>2 DEF Holes
      <4>3. /\ IsFiniteSet(Holes(d) \cup {c + 1})
            /\ Cardinality(Holes(d) \cup {c + 1}) \in {Cardinality(Holes(d)), Cardinality(Holes(d)) + 1}
        BY <3>1, <3>3, FS_AddElement
      <4>4. Cardinality(Holes(d)') <= Cardinality(Holes(d) \cup {c + 1}) /\ Cardinality(Holes(d)') \in Nat
        BY <4>2, <4>3, FS_Subset, FS_CardinalityType
      <4>5. Cardinality(Holes(d)') <= crashes + 1
        BY <1>0, <3>1, <3>3, <4>3, <4>4
      <4>6. \A n \in done[d] : n \in Nat /\ n <= c
        BY <1>0, <1>1 DEF Counts
      <4>7. counted'[d] \notin done[d]
        BY <1>1, <2>2, <4>6
      <4> QED
        BY <3>3, <4>1, <4>5, <4>7
    <3> QED
      BY <3>2, <3>3
  <2>9. Missing'
    BY <2>1, <2>8 DEF Missing
  <2> QED
    BY <2>7, <2>9
<1> QED
  BY <1>4, <1>5

LEMMA SaveRecordList ==
  ASSUME IInv, ListInv, NEW w \in Writers, SaveRecord(w) PROVE ListInv'
<1> USE DEF IInv, ListInv
<1>0. /\ day \in [Writers -> Days] /\ counted \in [Days -> Nat] /\ TypeOK
      /\ slot \in [Days -> [Slots -> Nat]] /\ done \in [Days -> SUBSET (Nat \ {0})]
      /\ size \in [Days -> 0 .. RecordMax] /\ at \in [Writers -> Slots]
      /\ pc \in [Writers -> {"idle", "named", "open", "headed"}] /\ crashes \in Nat
  BY DEF TypeOK
<1>d. PICK d \in Days : d = day[w]
  BY <1>0
<1> DEFINE c == counted[d]
<1>1. d \in Days /\ c \in Nat /\ at[w] \in Slots /\ Slots \subseteq Nat
  BY <1>0, RunLogAssumption DEF Slots
<1>2. lock = w /\ pc[w] = "headed"
  BY DEF SaveRecord, Exclusive, Inside
<1>3. \A e \in Days : ~Pending(e)'
  BY <1>0, <1>2 DEF SaveRecord, Return, Pending, Exclusive, Inside
<1>4. \A e \in Days : e # d => ~Pending(e)
  BY <1>0, <1>2, <1>d DEF Pending, Exclusive, Inside
<1>5. CASE w \in gone \/ format # "bin"
  <2>1. w \in gone
    BY <1>2, <1>5 DEF Promised
  <2>2. ~Pending(d)
    BY <1>0, <1>2, <1>d, <2>1 DEF Pending, Exclusive, Inside
  <2>3. UNCHANGED <<format, head, slot, size, counted, done, crashes>>
    BY <2>1 DEF SaveRecord
  <2>4. \A e \in Days : Holes(e)' = Holes(e)
    BY <2>3 DEF Holes
  <2>5. Listed'
    BY <2>3 DEF Listed, Place
  <2>6. Missing'
    BY <1>3, <1>4, <2>2, <2>3, <2>4 DEF Missing
  <2> QED
    BY <2>5, <2>6
<1>6. CASE w \notin gone /\ format = "bin"
  <2>1. /\ slot' = [slot EXCEPT ![d][at[w]] = number[w]]
        /\ size' = [size EXCEPT ![d] = IF @ < at[w] + 1 THEN at[w] + 1 ELSE @]
        /\ done' = [done EXCEPT ![d] = @ \cup {number[w]}]
        /\ UNCHANGED <<format, head, counted, crashes>>
    BY <1>6, <1>d DEF SaveRecord
  <2>2. number[w] = c /\ c > 0 /\ at[w] = Place(d, c)
    BY <1>2, <1>6, <1>d DEF Promised
  <2>3. Pending(d)
    BY <1>2, <1>6, <1>d DEF Pending
  <2>4. ASSUME NEW e \in Days, NEW p \in Slots
        PROVE  /\ slot'[e][p] # 0 => p < size'[e]
               /\ slot'[e][p] <= counted[e]
               /\ slot'[e][p] # 0 /\ slot'[e][p] > counted[e] - RecordMax => p = Place(e, slot'[e][p])
    <3>1. /\ slot[e][p] # 0 => p < size[e]
          /\ slot[e][p] <= counted[e]
          /\ slot[e][p] # 0 /\ slot[e][p] > counted[e] - RecordMax => p = Place(e, slot[e][p])
          /\ p \in Nat /\ size[e] \in Nat /\ counted[e] \in Nat /\ at[w] \in Nat
      BY <1>0, <1>1, <1>6, RunLogAssumption DEF Listed
    <3>2. CASE e = d /\ p = at[w]
      <4>1. slot'[e][p] = c /\ at[w] < size'[d]
        BY <1>0, <1>1, <2>1, <2>2, <3>1, <3>2
      <4> QED
        BY <1>1, <2>2, <3>2, <4>1
    <3>3. CASE ~(e = d /\ p = at[w])
      <4>1. slot'[e][p] = slot[e][p]
        BY <1>0, <1>1, <2>1, <3>3
      <4>2. size[e] <= size'[e] /\ size'[e] \in Nat
        BY <1>0, <1>1, <2>1, <3>1
      <4> QED
        BY <3>1, <4>1, <4>2
    <3> QED
      BY <3>2, <3>3
  <2>5. Listed'
    <3>1. \A e \in Days, n \in Nat : Place(e, n)' = Place(e, n)
      BY <2>1 DEF Place
    <3>2. \A e \in Days, p \in Slots : slot'[e][p] \in Nat
      BY <1>0, <1>1, <2>1, <2>2
    <3> QED
      BY <1>6, <2>1, <2>4, <3>1, <3>2 DEF Listed
  <2>6. ASSUME NEW e \in Days
        PROVE  Cardinality(Holes(e)') <= crashes
    <3>1. /\ Cardinality(Holes(e)) \in Nat /\ IsFiniteSet(Holes(e))
          /\ Pending(e) => Cardinality(Holes(e)) <= crashes + 1 /\ counted[e] \notin done[e]
          /\ ~Pending(e) => Cardinality(Holes(e)) <= crashes
      BY <1>0, <1>6, HolesFinite DEF Missing
    <3>2. CASE e # d
      <4>1. Holes(e)' = Holes(e)
        BY <1>0, <1>1, <2>1, <3>2 DEF Holes
      <4> QED
        BY <1>4, <3>1, <3>2, <4>1
    <3>3. CASE e = d
      <4>1. c \in Holes(d)
        <5>1. c \in 1 .. c /\ c > c - RecordMax
          BY <1>1, <2>2, RunLogAssumption
        <5> QED
          BY <2>3, <3>1, <3>3, <5>1 DEF Holes
      <4>2. Holes(d)' = Holes(d) \ {c}
        <5>1. done'[d] = done[d] \cup {c} /\ counted'[d] = counted[d]
          BY <1>0, <1>1, <2>1, <2>2
        <5> QED
          BY <5>1 DEF Holes
      <4>3. Cardinality(Holes(d)') = Cardinality(Holes(d)) - 1
        BY <3>1, <3>3, <4>1, <4>2, FS_RemoveElement
      <4> QED
        BY <1>0, <2>3, <3>1, <3>3, <4>3
    <3> QED
      BY <3>2, <3>3
  <2>7. Missing'
    BY <1>3, <2>1, <2>6 DEF Missing
  <2> QED
    BY <2>5, <2>7
<1> QED
  BY <1>5, <1>6

LEMMA ClearList ==
  ASSUME IInv, ListInv, clear_expiry_log PROVE ListInv'
<1> USE DEF IInv, ListInv
<1>0. /\ counted \in [Days -> Nat] /\ TypeOK /\ victim \in Days
      /\ head \in [Days -> [idx : Slots, num : 0 .. RecordMax]]
      /\ slot \in [Days -> [Slots -> Nat]] /\ done \in [Days -> SUBSET (Nat \ {0})]
      /\ size \in [Days -> 0 .. RecordMax] /\ crashes \in Nat
  BY DEF TypeOK, clear_expiry_log
<1>v. PICK f \in Days : f = victim
  BY <1>0
<1>1. /\ head' = [head EXCEPT ![f] = NoHead] /\ slot' = [slot EXCEPT ![f] = Empty]
      /\ size' = [size EXCEPT ![f] = 0] /\ counted' = [counted EXCEPT ![f] = 0]
      /\ done' = [done EXCEPT ![f] = {}] /\ UNCHANGED <<format, crashes, pc, day>>
      /\ gone' = gone \cup {w \in Writers : pc[w] \in {"open", "headed"} /\ day[w] = f}
  BY <1>v DEF clear_expiry_log, local
<1>2. ASSUME NEW e \in Days, e # f
      PROVE  /\ head'[e] = head[e] /\ slot'[e] = slot[e] /\ size'[e] = size[e]
             /\ counted'[e] = counted[e] /\ done'[e] = done[e]
             /\ Holes(e)' = Holes(e) /\ (Pending(e)' <=> Pending(e))
  <2>1. /\ head'[e] = head[e] /\ slot'[e] = slot[e] /\ size'[e] = size[e]
        /\ counted'[e] = counted[e] /\ done'[e] = done[e]
    BY <1>0, <1>1, <1>2
  <2>2. Holes(e)' = Holes(e)
    BY <2>1 DEF Holes
  <2>3. Pending(e)' <=> Pending(e)
    BY <1>1, <1>2 DEF Pending
  <2> QED
    BY <2>1, <2>2, <2>3
<1>3. /\ head'[f] = NoHead /\ slot'[f] = Empty /\ counted'[f] = 0
  BY <1>0, <1>1
<1>4. Holes(f)' = {} /\ ~Pending(f)'
  <2>1. Holes(f)' = {}
    <3>1. Holes(f)' = {n \in 1 .. 0 : n > 0 - RecordMax /\ n \notin done'[f]}
      BY <1>3 DEF Holes
    <3> QED
      BY <3>1
  <2>2. ~Pending(f)'
    <3> SUFFICES ASSUME NEW w \in Writers, pc'[w] = "headed", w \notin gone', day'[w] = f
                 PROVE  FALSE
      BY DEF Pending
    <3> QED
      BY <1>1
  <2> QED
    BY <2>1, <2>2
<1>5. Listed'
  <2> SUFFICES ASSUME format = "bin", NEW e \in Days
               PROVE  (/\ head[e].num = IF counted[e] < RecordMax THEN counted[e] ELSE RecordMax
                       /\ counted[e] < RecordMax => head[e].idx = counted[e]
                       /\ \A p \in Slots :
                            /\ slot[e][p] # 0 => p < size[e]
                            /\ slot[e][p] <= counted[e]
                            /\ slot[e][p] # 0 /\ slot[e][p] > counted[e] - RecordMax
                                 => p = Place(e, slot[e][p]))'
    BY <1>1 DEF Listed
  <2>1. CASE e = f
    BY <1>3, <2>1, RunLogAssumption DEF NoHead, Empty
  <2>2. CASE e # f
    <3>1. \A n \in Nat : Place(e, n)' = Place(e, n)
      BY <1>2, <2>2 DEF Place
    <3>2. \A p \in Slots : slot[e][p] \in Nat
      BY <1>0
    <3> QED
      BY <1>2, <2>2, <3>1, <3>2 DEF Listed
  <2> QED
    BY <2>1, <2>2
<1>6. Missing'
  <2> SUFFICES ASSUME format = "bin", NEW e \in Days
               PROVE  (/\ Pending(e) => Cardinality(Holes(e)) <= crashes + 1 /\ counted[e] \notin done[e]
                       /\ ~Pending(e) => Cardinality(Holes(e)) <= crashes)'
    BY <1>1 DEF Missing
  <2>1. CASE e = f
    <3>1. Cardinality({}) = 0
      BY FS_EmptySet
    <3>2. Holes(e)' = {} /\ ~Pending(e)'
      BY <1>4, <2>1
    <3>3. Cardinality(Holes(e)') = 0
      BY <3>1, <3>2
    <3> QED
      BY <1>0, <1>1, <3>2, <3>3
  <2>2. CASE e # f
    BY <1>1, <1>2, <2>2 DEF Missing
  <2> QED
    BY <2>1, <2>2
<1> QED
  BY <1>5, <1>6

LEMMA NextList == IInv /\ ListInv /\ [Next]_vars => ListInv'
<1> SUFFICES ASSUME IInv, ListInv, [Next]_vars PROVE ListInv'
  OBVIOUS
<1>0. /\ crashes \in Nat /\ TypeOK /\ pc \in [Writers -> {"idle", "named", "open", "headed"}]
      /\ day \in [Writers -> Days] /\ format \in {"bin", "txt"}
  BY DEF IInv, TypeOK
<1>1. ASSUME NEW w \in Writers, LOGW(w) PROVE ListInv'
  <2>1. CASE TakeName(w) \/ OpenLog(w)
    <3>1. UNCHANGED <<format, head, slot, size, counted, done, crashes, gone>>
      BY <2>1 DEF TakeName, OpenLog, files
    <3>2. \A v \in Writers : /\ pc'[v] = "headed" <=> pc[v] = "headed"
                             /\ pc[v] = "headed" => day'[v] = day[v]
      BY <1>0, <2>1 DEF TakeName, OpenLog
    <3>3. \A d \in Days : Pending(d)' <=> Pending(d)
      BY <3>1, <3>2 DEF Pending
    <3>4. Listed'
      BY <3>1 DEF ListInv, Listed, Place
    <3>5. \A d \in Days : Holes(d)' = Holes(d)
      BY <3>1 DEF Holes
    <3>6. Missing'
      BY <3>1, <3>3, <3>5 DEF ListInv, Missing
    <3> QED
      BY <3>4, <3>6 DEF ListInv
  <2>2. CASE SaveHead(w) \/ SaveRecord(w)
    BY <2>2, SaveHeadList, SaveRecordList
  <2>3. CASE SaveLine(w)
    BY <2>3 DEF SaveLine, ListInv, Listed, Missing
  <2> QED
    BY <1>1, <2>1, <2>2, <2>3 DEF LOGW
<1>2. CASE clear_expiry_log
  BY <1>2, ClearList
<1>3. CASE get_log_file_num \/ Tick \/ UNCHANGED vars
  <2>1. UNCHANGED <<format, head, slot, size, counted, done, crashes, gone, pc, day>>
    BY <1>3 DEF get_log_file_num, Tick, files, local, vars
  <2>2. Listed'
    BY <2>1 DEF ListInv, Listed, Place
  <2>3. Missing'
    BY <2>1 DEF ListInv, Missing, Holes, Pending
  <2> QED
    BY <2>2, <2>3 DEF ListInv
<1>4. CASE Crash
  <2>1. /\ UNCHANGED <<format, head, slot, size, counted, done>> /\ crashes' = crashes + 1
        /\ \A d \in Days : ~Pending(d)'
    BY <1>4 DEF Crash, files, Pending
  <2>2. Listed'
    BY <2>1 DEF ListInv, Listed, Place
  <2>3. Missing'
    <3> SUFFICES ASSUME format = "bin", NEW d \in Days PROVE Cardinality(Holes(d)') <= crashes + 1
      BY <2>1 DEF Missing
    <3>1. Holes(d)' = Holes(d)
      BY <2>1 DEF Holes
    <3>2. Cardinality(Holes(d)) \in Nat /\ Cardinality(Holes(d)) <= crashes + 1
      BY <1>0, HolesFinite DEF ListInv, Missing
    <3> QED
      BY <1>0, <3>1, <3>2
  <2> QED
    BY <2>2, <2>3 DEF ListInv
<1> QED
  BY <1>1, <1>2, <1>3, <1>4 DEF Next

\* The number whose record belongs at the i-th entry of a listing of file d.
Belongs(d, i) ==
  IF i <= head[d].idx THEN counted[d] - head[d].idx + i
  ELSE counted[d] - head[d].idx + i - RecordMax

\* It is one of the newest, and its place is that entry's.
LEMMA EntryBelongs ==
  ASSUME IInv, ListInv, format = "bin", NEW d \in Days,
         NEW i \in 1 .. (IF head[d].num < size[d] THEN head[d].num ELSE size[d])
  PROVE  /\ Belongs(d, i) \in 1 .. counted[d] /\ Belongs(d, i) > counted[d] - RecordMax
         /\ i - 1 \in Slots /\ Place(d, Belongs(d, i)) = i - 1
<1>1. /\ head[d].idx \in Slots /\ counted[d] \in Nat /\ size[d] \in 0 .. RecordMax
      /\ head[d].num = IF counted[d] < RecordMax THEN counted[d] ELSE RecordMax
      /\ counted[d] < RecordMax => head[d].idx = counted[d]
  BY DEF IInv, TypeOK, ListInv, Listed
<1>2. head[d].idx \in 0 .. RecordMax - 1 /\ RecordMax \in Nat /\ i \in 1 .. head[d].num
  BY <1>1, RunLogAssumption DEF Slots
<1>3. i \in 1 .. RecordMax /\ i - 1 \in Slots
  BY <1>1, <1>2 DEF Slots
<1>4. CASE i <= head[d].idx
  <2>1. Belongs(d, i) = counted[d] - head[d].idx + i
    BY <1>4 DEF Belongs
  <2>2. counted[d] - Belongs(d, i) = head[d].idx - i
    BY <1>1, <1>2, <1>3, <2>1
  <2>3. Place(d, Belongs(d, i)) = i - 1
    BY <1>2, <1>3, <1>4, <2>2 DEF Place, PlaceAt
  <2> QED
    BY <1>1, <1>2, <1>3, <1>4, <2>1, <2>3
<1>5. CASE i > head[d].idx
  <2>1. Belongs(d, i) = counted[d] - head[d].idx + i - RecordMax
    BY <1>2, <1>3, <1>5 DEF Belongs
  <2>2. counted[d] - Belongs(d, i) = head[d].idx - i + RecordMax
    BY <1>1, <1>2, <1>3, <2>1
  <2>3. Place(d, Belongs(d, i)) = i - 1
    BY <1>2, <1>3, <1>5, <2>2 DEF Place, PlaceAt
  <2> QED
    BY <1>1, <1>2, <1>3, <1>5, <2>1, <2>3
<1> QED
  BY <1>2, <1>3, <1>4, <1>5

\* A record in a place of the ring is counted from the header's index.
LEMMA PlaceGives ==
  ASSUME IInv, NEW d \in Days, NEW n \in 1 .. counted[d], n > counted[d] - RecordMax,
         NEW i \in Nat, i > 0, Place(d, n) = i - 1
  PROVE  Belongs(d, i) = n
<1>1. head[d].idx \in 0 .. RecordMax - 1 /\ counted[d] \in Nat /\ RecordMax \in Nat
  BY RunLogAssumption DEF IInv, TypeOK, Slots
<1> QED
  BY <1>1 DEF Place, PlaceAt, Belongs

\* A listing has every one of the newest records, in order on each side of the
\* header's index, and at most one entry for each kill that is no such record.
THEOREM ListingComplete == Spec => []ReadBack
<1>1. ASSUME IInv, ListInv PROVE ReadBack
  <2> SUFFICES ASSUME lock = NoOne, format = "bin", NEW d \in there
               PROVE  LET list   == convert_log2txt(d)
                          newest == {n \in done[d] : n > counted[d] - RecordMax}
                          other  == {i \in DOMAIN list : list[i] \notin newest}
                      IN  /\ \A n \in newest : \E i \in DOMAIN list : list[i] = n
                          /\ \A i, j \in DOMAIN list \ other :
                               i < j /\ (i <= head[d].idx <=> j <= head[d].idx) => list[i] < list[j]
                          /\ Cardinality(other) <= crashes
    BY DEF ReadBack
  <2> DEFINE list   == convert_log2txt(d)
             newest == {n \in done[d] : n > counted[d] - RecordMax}
             other  == {i \in DOMAIN list : list[i] \notin newest}
             last   == IF head[d].num < size[d] THEN head[d].num ELSE size[d]
  <2>0. /\ TypeOK /\ d \in Days /\ counted[d] \in Nat /\ done[d] \subseteq Nat \ {0}
        /\ slot[d] \in [Slots -> Nat] /\ size[d] \in 0 .. RecordMax /\ crashes \in Nat
        /\ head[d] \in [idx : Slots, num : 0 .. RecordMax] /\ RecordMax \in Nat
        /\ \A n \in done[d] : n <= counted[d]
    <3>1. TypeOK /\ Counts /\ d \in Days
      BY <1>1 DEF IInv, TypeOK
    <3> QED
      BY <3>1, RunLogAssumption DEF TypeOK, Counts
  <2>1. last \in Nat /\ DOMAIN list = 1 .. last /\ \A i \in 1 .. last : list[i] = slot[d][i - 1]
    <3>1. list = [i \in 1 .. last |-> slot[d][i - 1]]
      BY DEF convert_log2txt
    <3> QED
      BY <2>0, <3>1
  <2>2. \A n \in newest : n \in 1 .. counted[d] /\ n > counted[d] - RecordMax /\ slot[d][Place(d, n)] = n
    BY <1>1, <2>0 DEF IInv, Kept
  <2> HIDE DEF list, last
  <2>3. ASSUME NEW n \in newest PROVE \E i \in DOMAIN list : list[i] = n
    <3>1. n \in 1 .. counted[d] /\ n > counted[d] - RecordMax /\ slot[d][Place(d, n)] = n
      BY <2>2
    <3>2. counted[d] - n \in 0 .. RecordMax - 1 /\ head[d].idx \in 0 .. RecordMax - 1
      BY <2>0, <3>1 DEF Slots
    <3>3. Place(d, n) \in Slots
      <4>1. PICK back : back = counted[d] - n
        OBVIOUS
      <4>2. PICK idx : idx = head[d].idx
        OBVIOUS
      <4>3. back \in 0 .. RecordMax - 1 /\ idx \in 0 .. RecordMax - 1
        BY <3>2, <4>1, <4>2
      <4>4. PlaceAt(idx, back) \in Slots
        BY <4>3, RunLogAssumption DEF PlaceAt, Slots
      <4> QED
        BY <4>1, <4>2, <4>4 DEF Place
    <3>4. Place(d, n) < size[d]
      BY <1>1, <2>0, <3>1, <3>3 DEF ListInv, Listed
    <3>5. Place(d, n) < head[d].num
      <4>1. /\ head[d].num = IF counted[d] < RecordMax THEN counted[d] ELSE RecordMax
            /\ counted[d] < RecordMax => head[d].idx = counted[d]
        BY <1>1, <2>0 DEF ListInv, Listed
      <4> QED
        BY <2>0, <3>1, <3>2, <4>1 DEF Place, PlaceAt
    <3>6. Place(d, n) + 1 \in 1 .. last
      BY <2>0, <3>3, <3>4, <3>5 DEF last, Slots
    <3>7. list[Place(d, n) + 1] = n
      <4>1. (Place(d, n) + 1) - 1 = Place(d, n)
        BY <3>3, RunLogAssumption DEF Slots
      <4> QED
        BY <2>1, <3>1, <3>6, <4>1
    <3> QED
      BY <2>1, <3>6, <3>7
  <2>4. ASSUME NEW i \in DOMAIN list, list[i] \in newest
        PROVE  Belongs(d, i) = list[i] /\ i \in Nat
    <3>1. i \in 1 .. last /\ list[i] = slot[d][i - 1] /\ i - 1 \in Slots
      BY <1>1, <2>0, <2>1, <2>4, EntryBelongs DEF last
    <3>2. /\ list[i] \in 1 .. counted[d] /\ list[i] > counted[d] - RecordMax
      BY <2>2, <2>4
    <3>3. Place(d, list[i]) = i - 1
      BY <1>1, <2>0, <3>1, <3>2 DEF ListInv, Listed
    <3> QED
      BY <1>1, <2>0, <2>1, <3>1, <3>2, <3>3, PlaceGives
  <2>5. ASSUME NEW i \in DOMAIN list \ other, NEW j \in DOMAIN list \ other, i < j,
               i <= head[d].idx <=> j <= head[d].idx
        PROVE  list[i] < list[j]
    <3>1. list[i] = Belongs(d, i) /\ list[j] = Belongs(d, j) /\ i \in Nat /\ j \in Nat
      BY <2>4, <2>5
    <3>2. head[d].idx \in Nat
      BY <2>0 DEF Slots
    <3> QED
      BY <2>0, <2>5, <3>1, <3>2 DEF Belongs
  <2>6. Cardinality(other) <= crashes
    <3> DEFINE f == [i \in other |-> Belongs(d, i)]
    <3>1. \A w \in Writers : pc[w] # "headed"
      BY <1>1, RunLogAssumption DEF IInv, Exclusive, Inside
    <3>2. IsFiniteSet(Holes(d)) /\ Cardinality(Holes(d)) \in Nat /\ Cardinality(Holes(d)) <= crashes
      BY <1>1, <2>0, <3>1, HolesFinite DEF ListInv, Missing, Pending
    <3>3. ASSUME NEW i \in other
          PROVE  Belongs(d, i) \in Holes(d) /\ Place(d, Belongs(d, i)) = i - 1 /\ i \in Nat
      <4>1. i \in 1 .. last /\ list[i] = slot[d][i - 1] /\ list[i] \notin newest
        BY <2>1
      <4>2. /\ Belongs(d, i) \in 1 .. counted[d] /\ Belongs(d, i) > counted[d] - RecordMax
            /\ i - 1 \in Slots /\ Place(d, Belongs(d, i)) = i - 1
        BY <1>1, <2>0, <4>1, EntryBelongs DEF last
      <4>3. Belongs(d, i) \notin done[d]
        BY <2>2, <4>1, <4>2
      <4> QED
        BY <2>1, <4>1, <4>2, <4>3 DEF Holes
    <3>4. f \in Injection(other, Holes(d))
      <4>1. f \in [other -> Holes(d)]
        BY <3>3
      <4>2. ASSUME NEW i \in other, NEW j \in other, f[i] = f[j] PROVE i = j
        <5>1. Belongs(d, i) = Belongs(d, j)
          BY <4>2
        <5>2. i - 1 = j - 1 /\ i \in Nat /\ j \in Nat
          BY <3>3, <5>1
        <5> QED
          BY <5>2
      <4> QED
        BY <4>1, <4>2 DEF Injection, IsInjective
    <3>5. Cardinality(other) <= Cardinality(Holes(d)) /\ IsFiniteSet(other)
      BY <3>2, <3>4, FS_Injection
    <3>6. Cardinality(other) \in Nat
      BY <3>5, FS_CardinalityType
    <3> HIDE DEF other
    <3> QED
      BY <2>0, <3>2, <3>5, <3>6
  <2> QED
    BY <2>3, <2>5, <2>6 DEF list
<1> QED
  BY InitList, NextList, Invariant, <1>1, PTL DEF Spec
=============================================================================
