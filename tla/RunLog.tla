------------------------------- MODULE RunLog -------------------------------
(***************************************************************************)
(* The run log of schedule/common/program_run_log.c: a file per day, in    *)
(* the binary format a ring of records behind a header, in the text format *)
(* lines.  Threads write under mutex_log, after they have taken the file's *)
(* name from the date; another thread removes the oldest file, without the *)
(* mutex.  The program may be killed between any two steps; what it has    *)
(* given to the system by then is on the disk.                             *)
(*                                                                         *)
(* A record is its number among those the header of its file has counted;  *)
(* 0 is a place in the file that was never written.                        *)
(***************************************************************************)
EXTENDS Integers, Sequences, FiniteSets

CONSTANTS
  Writers,       \* threads that call LOGW or outoutLog
  RecordMax,     \* NUM_LOG_RECORD_MAX
  NumDateSave,   \* NUM_DATE_SAVE
  DayLength,     \* instants of the clock in a day
  MaxDay,        \* bound: the last day
  MaxWrites,     \* bound: calls of the writers
  MaxCrashes,    \* bound: times the program is killed
  NoOne

\* With one record the header of a new file would be found bad at once.
ASSUME RunLogAssumption ==
  /\ RecordMax \in Nat /\ RecordMax >= 2 /\ NumDateSave \in Nat
  /\ DayLength \in Nat \ {0} /\ MaxDay \in Nat /\ MaxWrites \in Nat /\ MaxCrashes \in Nat
  /\ NoOne \notin Writers /\ NoOne \notin 0 .. MaxDay

Days  == 0 .. MaxDay
Slots == 0 .. RecordMax - 1

Day(t) == t \div DayLength

VARIABLES
  format,   \* LOG_FORMAT_BIN of the build: "bin" or "txt"
  now,      \* the clock
  there,    \* the files in log_path
  head,     \* their headers; num is 0 when there is none yet
  slot,     \* their records
  size,     \* places the file reaches over
  lines,    \* their lines, in the text format
  mtime,    \* the time of their last change
  lock,     \* who holds mutex_log
  pc, day, at, number,   \* of each writer: its step, file, place and record
  gone,     \* writers whose open file has been removed
  victim,   \* the file clear_expiry_log is about to remove
  writes, crashes,
  counted,  \* (history) records each file's header has counted
  done      \* (history) the records whose writer has returned

files  == <<there, head, slot, size, lines, mtime, counted, done>>
local == <<pc, day, at, number>>
vars  == <<format, now, files, lock, local, gone, victim, writes, crashes>>

NoHead == [idx |-> 0, num |-> 0]
Empty  == [i \in Slots |-> 0]

Init ==
  /\ format \in {"bin", "txt"} /\ now = 0
  /\ there = {} /\ head = [d \in Days |-> NoHead] /\ slot = [d \in Days |-> Empty]
  /\ size = [d \in Days |-> 0] /\ lines = [d \in Days |-> <<>>] /\ mtime = [d \in Days |-> 0]
  /\ lock = NoOne /\ gone = {}
  /\ pc = [w \in Writers |-> "idle"] /\ day = [w \in Writers |-> 0]
  /\ at = [w \in Writers |-> 0] /\ number = [w \in Writers |-> 0]
  /\ victim = NoOne /\ writes = 0 /\ crashes = 0
  /\ counted = [d \in Days |-> 0] /\ done = [d \in Days |-> {}]

-----------------------------------------------------------------------------
(* Writing                                                                 *)

\* get_sys_time: the file is the one of the day at this moment.
TakeName(w) ==
  /\ pc[w] = "idle" /\ writes < MaxWrites
  /\ pc' = [pc EXCEPT ![w] = "named"] /\ day' = [day EXCEPT ![w] = Day(now)]
  /\ writes' = writes + 1
  /\ UNCHANGED <<format, now, files, lock, at, number, gone, victim, crashes>>

\* Mutant: the mutex is not taken.
OpenLogUnlocked(w) ==
  /\ pc[w] = "named"
  /\ lock' = w /\ pc' = [pc EXCEPT ![w] = "open"]
  /\ there' = there \cup {day[w]}
  /\ mtime' = IF day[w] \in there THEN mtime ELSE [mtime EXCEPT ![day[w]] = now]
  /\ UNCHANGED <<format, now, head, slot, size, lines, day, at, number, gone, victim, writes,
                 crashes, counted, done>>

\* pthread_mutex_lock and fopen, which makes the file when it is not there.
OpenLog(w) ==
  /\ pc[w] = "named" /\ lock = NoOne
  /\ lock' = w /\ pc' = [pc EXCEPT ![w] = "open"]
  /\ there' = there \cup {day[w]}
  /\ mtime' = IF day[w] \in there THEN mtime ELSE [mtime EXCEPT ![day[w]] = now]
  /\ UNCHANGED <<format, now, head, slot, size, lines, day, at, number, gone, victim, writes,
                 crashes, counted, done>>

\* Mutants: the wrap comes one late; the count stops one early.
AdvancedLate(h) ==
  [idx |-> IF h.idx + 1 > RecordMax THEN 0 ELSE h.idx + 1,
   num |-> IF h.num < RecordMax THEN h.num + 1 ELSE h.num]
AdvancedShort(h) ==
  [idx |-> IF h.idx + 1 >= RecordMax THEN 0 ELSE h.idx + 1,
   num |-> IF h.num < RecordMax - 1 THEN h.num + 1 ELSE h.num]

\* outoutLog: the header, moved on by one, is written before its record.
Advanced(h) ==
  [idx |-> IF h.idx + 1 >= RecordMax THEN 0 ELSE h.idx + 1,
   num |-> IF h.num < RecordMax THEN h.num + 1 ELSE h.num]

SaveHead(w) ==
  LET d == day[w] IN
  /\ format = "bin" /\ pc[w] = "open"
  /\ pc' = [pc EXCEPT ![w] = "headed"]
  /\ IF w \in gone THEN UNCHANGED <<head, mtime, counted, at, number>>
     ELSE /\ head' = [head EXCEPT ![d] = IF @.num = 0 THEN [idx |-> 1, num |-> 1] ELSE Advanced(@)]
          /\ mtime' = [mtime EXCEPT ![d] = now]
          /\ counted' = [counted EXCEPT ![d] = @ + 1]
          /\ at' = [at EXCEPT ![w] = head[d].idx]
          /\ number' = [number EXCEPT ![w] = counted[d] + 1]
  /\ UNCHANGED <<format, now, there, slot, size, lines, lock, day, gone, victim, writes, crashes,
                 done>>

\* fclose writes the record; pthread_mutex_unlock.
Return(w) ==
  /\ lock' = NoOne /\ pc' = [pc EXCEPT ![w] = "idle"] /\ gone' = gone \ {w}

SaveRecord(w) ==
  LET d == day[w] IN
  /\ pc[w] = "headed" /\ Return(w)
  /\ IF w \in gone THEN UNCHANGED <<slot, size, mtime, done>>
     ELSE /\ slot' = [slot EXCEPT ![d][at[w]] = number[w]]
          /\ size' = [size EXCEPT ![d] = IF @ < at[w] + 1 THEN at[w] + 1 ELSE @]
          /\ mtime' = [mtime EXCEPT ![d] = now]
          /\ done' = [done EXCEPT ![d] = @ \cup {number[w]}]
  /\ UNCHANGED <<format, now, there, head, lines, day, at, number, victim, writes, crashes,
                 counted>>

\* outputLogTxt: the line goes to the end of the file.
SaveLine(w) ==
  LET d == day[w] IN
  /\ format = "txt" /\ pc[w] = "open" /\ Return(w)
  /\ IF w \in gone THEN UNCHANGED <<lines, mtime, counted, done>>
     ELSE /\ lines' = [lines EXCEPT ![d] = Append(@, counted[d] + 1)]
          /\ mtime' = [mtime EXCEPT ![d] = now]
          /\ counted' = [counted EXCEPT ![d] = @ + 1]
          /\ done' = [done EXCEPT ![d] = @ \cup {counted[d] + 1}]
  /\ UNCHANGED <<format, now, there, head, slot, size, day, at, number, victim, writes, crashes>>

LOGW(w) == TakeName(w) \/ OpenLog(w) \/ SaveHead(w) \/ SaveRecord(w) \/ SaveLine(w)

-----------------------------------------------------------------------------
(* Expiry, and the world                                                   *)

\* Mutant: the comparison of the times is turned round.
OldestNewest == {d \in there : \A e \in there : mtime[e] <= mtime[d]}

\* get_log_file_num: of the files changed before now, one changed first.
Oldest == {d \in there : mtime[d] < now /\ \A e \in there : mtime[d] <= mtime[e]}

get_log_file_num ==
  /\ victim = NoOne /\ Cardinality(there) > NumDateSave
  /\ victim' \in Oldest
  /\ UNCHANGED <<format, now, files, lock, local, gone, writes, crashes>>

clear_expiry_log ==
  /\ victim # NoOne /\ victim' = NoOne
  /\ there' = there \ {victim}
  /\ head' = [head EXCEPT ![victim] = NoHead] /\ slot' = [slot EXCEPT ![victim] = Empty]
  /\ size' = [size EXCEPT ![victim] = 0] /\ lines' = [lines EXCEPT ![victim] = <<>>]
  /\ counted' = [counted EXCEPT ![victim] = 0] /\ done' = [done EXCEPT ![victim] = {}]
  /\ gone' = gone \cup {w \in Writers : pc[w] \in {"open", "headed"} /\ day[w] = victim}
  /\ UNCHANGED <<format, now, mtime, lock, local, writes, crashes>>

Tick ==
  /\ Day(now + 1) \in Days /\ now' = now + 1
  /\ UNCHANGED <<format, files, lock, local, gone, victim, writes, crashes>>

\* The program is killed and started again: the mutex and the threads are new.
Crash ==
  /\ crashes < MaxCrashes /\ crashes' = crashes + 1
  /\ lock' = NoOne /\ gone' = {} /\ victim' = NoOne
  /\ pc' = [w \in Writers |-> "idle"]
  /\ UNCHANGED <<format, now, files, day, at, number, writes>>

Next ==
  \/ \E w \in Writers : LOGW(w)
  \/ get_log_file_num \/ clear_expiry_log \/ Tick \/ Crash

Spec == Init /\ [][Next]_vars

-----------------------------------------------------------------------------
(* Reading: convert_log2txt, with the mutex held                           *)

\* The records from place 0 on, as many as the header says or the file has.
convert_log2txt(d) ==
  [i \in 1 .. (IF head[d].num < size[d] THEN head[d].num ELSE size[d]) |-> slot[d][i - 1]]

-----------------------------------------------------------------------------
(* Properties                                                              *)

\* The place so many records back from the newest.
PlaceAt(idx, back) == IF idx - 1 - back >= 0 THEN idx - 1 - back ELSE idx - 1 - back + RecordMax

\* Where the header of file d says that its n-th record is.
Place(d, n) == PlaceAt(head[d].idx, counted[d] - n)

\* Every variable has its type, and every header written would be found good
\* by check_log_head: its index is inside the ring and its count not beyond.
TypeOK ==
  /\ format \in {"bin", "txt"} /\ now \in Nat /\ Day(now) \in Days /\ there \subseteq Days
  /\ head \in [Days -> [idx : Slots, num : 0 .. RecordMax]]
  /\ slot \in [Days -> [Slots -> Nat]] /\ size \in [Days -> 0 .. RecordMax]
  /\ lines \in [Days -> Seq(Nat)] /\ mtime \in [Days -> Nat]
  /\ lock \in Writers \cup {NoOne} /\ gone \subseteq Writers
  /\ pc \in [Writers -> {"idle", "named", "open", "headed"}] /\ day \in [Writers -> Days]
  /\ at \in [Writers -> Slots] /\ number \in [Writers -> Nat]
  /\ victim \in Days \cup {NoOne} /\ writes \in Nat /\ crashes \in Nat
  /\ counted \in [Days -> Nat] /\ done \in [Days -> SUBSET (Nat \ {0})]

\* However often the program was killed and however the ring has wrapped, each
\* of the last RecordMax records counted in a file, if its writer returned, is
\* in its place; a line whose writer returned is in its file.
NewestKept ==
  \A d \in there : \A n \in done[d] :
    /\ format = "bin" /\ n > counted[d] - RecordMax => slot[d][Place(d, n)] = n
    /\ format = "txt" => n \in DOMAIN lines[d] /\ lines[d][n] = n

\* A listing made between two writes has every newest record exactly once, at
\* most one other entry for each crash, and is in order up to the place where
\* the ring was wrapped.
ReadBack ==
  lock = NoOne /\ format = "bin" =>
    \A d \in there :
      LET list   == convert_log2txt(d)
          newest == {n \in done[d] : n > counted[d] - RecordMax}
          other  == {i \in DOMAIN list : list[i] \notin newest}
      IN  /\ \A n \in newest : \E i \in DOMAIN list : list[i] = n
          /\ \A i, j \in DOMAIN list \ other :
               i < j /\ (i <= head[d].idx <=> j <= head[d].idx) => list[i] < list[j]
          /\ Cardinality(other) <= crashes

\* Expiry leaves NumDateSave files, and takes a file before one of an earlier
\* day only when that one was written after its day, by a writer that had taken
\* the name before midnight.  The file of this day can go in no other way.
OldestExpires ==
  [][\A d \in there \ there' :
       /\ Cardinality(there') >= NumDateSave
       /\ \A e \in there' : e < d => Day(mtime[e]) > e]_vars
=============================================================================
