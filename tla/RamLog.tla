------------------------------- MODULE RamLog -------------------------------
(***************************************************************************)
(* The log of ramlog/ramlog.c: the program writes files of s_log bytes to  *)
(* a directory in memory; a child forked at the start asks every second    *)
(* whether its parent has died and then copies that directory to the disk. *)
(* A new start empties the directory, whether or not the child of the last *)
(* one has come to its copying, and thins out the disk.                    *)
(*                                                                         *)
(* A byte is <<the start that wrote it, its number in what that start      *)
(* wrote>>; a file's name is the second of the start and a number.         *)
(***************************************************************************)
EXTENDS Integers, Sequences, FiniteSets, SequencesExt

CONSTANTS
  s_log,        \* bytes of a file
  s_total,      \* bytes the disk's directory may have
  MAX_LAST_LOG,
  Base,         \* of the numbers in names: 10
  Sizes,        \* lengths of the messages
  MaxStarts,    \* bound: starts of the program
  MaxSeconds,   \* bound: seconds of the clock
  MaxWritten    \* bound: bytes of one start

ASSUME RamLogAssumption ==
  /\ s_log \in Nat \ {0} /\ s_total \in Nat /\ MAX_LAST_LOG \in Nat \ {0} /\ Base \in Nat \ {0, 1}
  /\ Sizes \subseteq Nat \ {0} /\ MaxStarts \in Nat

VARIABLES
  clock,
  start,    \* how many times the program was started
  main,     \* the program: "down", "findlast", "limit", "fork", "up", "write"
  tm, curid, s_cur, left,   \* struct ramlog, and what is left of a message
  last,     \* last_id
  ram, disk,                \* the directories: names to contents
  kids,     \* the children: of which start, and the files still to copy
  written,  \* (history) bytes each start has written
  late      \* (history) starts whose files were removed before they were copied

log    == <<tm, curid, s_cur, left>>
ramlog == <<clock, start, main, log, last, ram, disk, kids, written, late>>

Starts == 1 .. MaxStarts
Files(dir) == DOMAIN dir
NoFiles == [f \in {} |-> <<>>]
Kid(k, s) == [of |-> k, step |-> s, todo |-> {}]

RamInit ==
  /\ clock = 0 /\ start = 0 /\ main = "down"
  /\ tm = 0 /\ curid = 0 /\ s_cur = 0 /\ left = 0 /\ last = {}
  /\ ram = NoFiles /\ disk = NoFiles /\ kids = {}
  /\ written = [k \in Starts |-> 0] /\ late = {}

-----------------------------------------------------------------------------
(* The start                                                               *)

\* _rl_tm and _rl_rm_ram.
_rl_rm_ram ==
  /\ main = "down" /\ start < MaxStarts
  /\ start' = start + 1 /\ main' = "findlast"
  /\ tm' = clock /\ curid' = 0 /\ s_cur' = 0 /\ left' = 0
  /\ ram' = NoFiles
  /\ late' = late \cup {k.of : k \in kids}
  /\ UNCHANGED <<clock, last, disk, kids, written>>

\* The order of ls: by the second, then by the number's digits from the left.
Digits[n \in Nat] == IF n < Base THEN <<n>> ELSE Append(Digits[n \div Base], n % Base)
ListedBefore(f, g) ==
  LET a == Digits[f[2]]  b == Digits[g[2]]
  IN  \/ f[1] < g[1]
      \/ /\ f[1] = g[1]
         /\ \/ IsStrictPrefix(a, b)
            \/ \E i \in DOMAIN a \cap DOMAIN b :
                 a[i] < b[i] /\ \A j \in 1 .. i - 1 : a[j] = b[j]

\* Mutant: the first of the listing.
FindFirst ==
  {f \in Files(disk) : Cardinality({g \in Files(disk) : ListedBefore(g, f)}) < MAX_LAST_LOG}

\* The last MAX_LAST_LOG of the listing.
_rl_findlast ==
  {f \in Files(disk) : Cardinality({g \in Files(disk) : ListedBefore(f, g)}) < MAX_LAST_LOG}

FindLast ==
  /\ main = "findlast" /\ main' = "limit" /\ last' = _rl_findlast
  /\ UNCHANGED <<clock, start, log, ram, disk, kids, written, late>>

\* grep -v goes by parts of names; with fewer names than MAX_LAST_LOG its
\* pattern has an empty part, which every name contains.
Spared(f) ==
  \/ Cardinality(last) < MAX_LAST_LOG
  \/ \E g \in last : f[1] = g[1] /\ IsPrefix(Digits[g[2]], Digits[f[2]])

DirSize(dir) == FoldLeft(LAMBDA n, f : n + Len(dir[f]), 0, SetToSeq(Files(dir)))

rl_dirlimitsize ==
  /\ main = "limit" /\ main' = "fork"
  /\ disk' = IF DirSize(disk) > s_total
             THEN [f \in {g \in Files(disk) : Spared(g)} |-> disk[f]] ELSE disk
  /\ UNCHANGED <<clock, start, log, last, ram, kids, written, late>>

\* A fork that fails is reported and otherwise ignored.
Fork ==
  /\ main = "fork" /\ main' = "up" /\ kids' \in {kids, kids \cup {Kid(start, "wait")}}
  /\ UNCHANGED <<clock, start, log, last, ram, disk, written, late>>

rl_init == _rl_rm_ram \/ FindLast \/ rl_dirlimitsize \/ Fork

-----------------------------------------------------------------------------
(* Writing                                                                 *)

\* rl_onefile: n more bytes at the end of the file of this name.
rl_onefile(f, n) ==
  LET more == [i \in 1 .. n |-> <<start, written[start] + i>>]
      old  == IF f \in Files(ram) THEN ram[f] ELSE <<>>
  IN  /\ ram' = [g \in Files(ram) \cup {f} |-> IF g = f THEN old \o more ELSE ram[g]]
      /\ s_cur' = Len(old) + n /\ left' = left - n
      /\ written' = [written EXCEPT ![start] = @ + n]

rl_snprintf ==
  /\ main = "up" /\ main' = "write"
  /\ \E n \in Sizes : written[start] + n <= MaxWritten /\ left' = n
  /\ UNCHANGED <<clock, start, tm, curid, s_cur, last, ram, disk, kids, written, late>>

\* Mutant: the last byte of a file is not used when a message goes past it.
RoomLessOne == IF s_cur + left > s_log THEN s_log - s_cur - 1 ELSE left
\* rl_multifile: what the file still takes of the message.
Room == IF s_cur + left > s_log THEN s_log - s_cur ELSE left

FirstPart ==
  /\ main = "write" /\ rl_onefile(<<tm, curid>>, Room)
  /\ main' = IF left' = 0 THEN "up" ELSE "more"
  /\ UNCHANGED <<clock, start, tm, curid, last, disk, kids, late>>

\* A new file for every s_log bytes of the rest.
NextPart ==
  /\ main = "more" /\ curid' = curid + 1
  /\ rl_onefile(<<tm, curid'>>, IF left > s_log THEN s_log ELSE left)
  /\ main' = IF left' = 0 THEN "up" ELSE "more"
  /\ UNCHANGED <<clock, start, tm, last, disk, kids, late>>

rl_multifile == FirstPart \/ NextPart

-----------------------------------------------------------------------------
(* The child, and the world                                                *)

\* The parent of the child has died: the shell lists the files for cp.
Woken(k) ==
  /\ k \in kids /\ k.step = "wait" /\ (k.of < start \/ main = "down")
  /\ kids' = (kids \ {k}) \cup {[Kid(k.of, "copy") EXCEPT !.todo = Files(ram)]}
  /\ UNCHANGED <<clock, start, main, log, last, ram, disk, written, late>>

CopyFile(k) ==
  /\ k \in kids /\ k.step = "copy"
  /\ \E f \in k.todo :
       /\ \A g \in k.todo \ {f} : ListedBefore(f, g)
       /\ kids' = (kids \ {k}) \cup {[k EXCEPT !.todo = @ \ {f}]}
       /\ disk' = IF f \notin Files(ram) THEN disk
                  ELSE [g \in Files(disk) \cup {f} |-> IF g = f THEN ram[f] ELSE disk[g]]
  /\ UNCHANGED <<clock, start, main, log, last, ram, written, late>>

\* Mutant: the child ends with its first file.
ExitEarly(k) ==
  /\ k \in kids /\ k.step = "copy" /\ kids' = kids \ {k}
  /\ UNCHANGED <<clock, start, main, log, last, ram, disk, written, late>>

Exit(k) ==
  /\ k \in kids /\ k.step = "copy" /\ k.todo = {} /\ kids' = kids \ {k}
  /\ UNCHANGED <<clock, start, main, log, last, ram, disk, written, late>>

_rl_ram2disk(k) == Woken(k) \/ CopyFile(k) \/ Exit(k)

Second ==
  /\ clock < MaxSeconds /\ clock' = clock + 1
  /\ UNCHANGED <<start, main, log, last, ram, disk, kids, written, late>>

Killed ==
  /\ main # "down" /\ main' = "down"
  /\ UNCHANGED <<clock, start, log, last, ram, disk, kids, written, late>>

RamNext ==
  \/ rl_init \/ rl_snprintf \/ rl_multifile
  \/ \E k \in kids : _rl_ram2disk(k)
  \/ Second \/ Killed

RamSpec == RamInit /\ [][RamNext]_ramlog

-----------------------------------------------------------------------------
(* Properties                                                              *)

\* The files of the present start, one behind the other, are what it has
\* written; every one but the last is full, and s_cur is the last one's length.
FilesJoin ==
  IF Files(ram) = {} THEN s_cur = 0 /\ (start > 0 => written[start] = 0)
  ELSE /\ Files(ram) = {<<tm, i>> : i \in 0 .. curid}
       /\ \A i \in 0 .. curid :
            ram[<<tm, i>>] = [j \in 1 .. (IF i < curid THEN s_log ELSE s_cur) |-> <<start, i * s_log + j>>]
       /\ s_cur <= s_log /\ written[start] = curid * s_log + s_cur

\* A child that ends has brought to the disk all that the start it belongs to
\* had written, unless the next start was quicker than its polling.
Saved(k) ==
  \A n \in 1 .. written[k.of] : \E f \in Files(disk) : \E i \in DOMAIN disk[f] : disk[f][i] = <<k.of, n>>

\* A file on the disk disappears only in thinning out, which leaves
\* MAX_LAST_LOG files and none of an earlier second, or, in another start of
\* the same second, under a file of the same name.
Lost(f) ==
  /\ main = "limit" /\ f \notin Files(disk') /\ Cardinality(Files(disk')) >= MAX_LAST_LOG
  /\ \A g \in Files(disk') : f[1] <= g[1]
Replaced(f) == f \in Files(disk') /\ disk[f][1][1] # disk'[f][1][1]

\* What a killed program had logged reaches the disk, and what is on the disk
\* stays there, but for the cases above.
LogsReachDisk ==
  [][/\ \A k \in kids : k.step = "copy" /\ (\A l \in kids' : l.of # k.of) /\ k.of \notin late => Saved(k)
     /\ \A f \in Files(disk) :
          \/ f \in Files(disk') /\ IsPrefix(disk[f], disk'[f])
          \/ Lost(f) \/ Replaced(f)]_ramlog
=============================================================================
