---------------------------- MODULE RamLogProofs ----------------------------
(***************************************************************************)
(* For every size of files, disk and messages, every number of starts and  *)
(* every length of a run: what a start has written is in its files without *)
(* a gap, it reaches the disk when the program is killed, and what is on   *)
(* the disk stays there but for the cases LogsReachDisk names.             *)
(***************************************************************************)
EXTENDS RamLog, FiniteSetTheorems, SequenceTheorems, TLAPS

-----------------------------------------------------------------------------
(* Digits                                                                  *)

\* A set of naturals has a least element, which stands in for induction.
LEMMA Smallest ==
  ASSUME NEW S, S \subseteq Nat, S # {}
  PROVE  \E i \in S : \A j \in S : i <= j
<1>1. \E i \in S : \A j \in S : ~(<<j, i>> \in OpToRel(<, Nat))
  BY NatLessThanWellFounded, WFMin
<1>2. \A i, j \in S : <<j, i>> \in OpToRel(<, Nat) <=> j < i
  BY DEF OpToRel
<1>3. \E i \in S : \A j \in S : ~(j < i)
  BY <1>1, <1>2, Zenon
<1> QED
  BY <1>3

LEMMA Shorter ==
  ASSUME NEW n \in Nat, n >= Base
  PROVE  n \div Base \in Nat /\ n \div Base < n /\ n % Base \in Nat
<1> DEFINE q == n \div Base
<1>1. Base \in Nat /\ Base >= 2
  BY RamLogAssumption
<1>2. q \in Nat /\ n % Base \in 0 .. Base - 1 /\ Base * q <= n /\ n < Base * q + Base
  BY <1>1
<1>3. (Base - 2) * q \in Nat
  BY <1>1, <1>2
<1>4. Base * q = (Base - 2) * q + 2 * q
  BY <1>1, <1>2
<1>5. ASSUME q = 0 PROVE FALSE
  <2>1. Base * q = 0
    BY <1>1, <1>5
  <2> QED
    BY <1>1, <1>2, <2>1
<1>6. q < n
  BY <1>1, <1>2, <1>3, <1>4, <1>5
<1> QED
  BY <1>2, <1>6

\* f gives the digits of the numbers up to N.
DigitsTo(N, f) ==
  f = [n \in 0 .. N |-> IF n < Base THEN <<n>> ELSE Append(f[n \div Base], n % Base)]

LEMMA DigitsExist == \A N \in Nat : \E f : DigitsTo(N, f)
<1> DEFINE Bad == {N \in Nat : ~\E f : DigitsTo(N, f)}
<1>1. SUFFICES ASSUME Bad # {} PROVE FALSE
  OBVIOUS
<1>2. PICK N \in Bad : \A M \in Bad : N <= M
  BY <1>1, Smallest
<1>3. N \in Nat /\ ~\E f : DigitsTo(N, f)
  BY <1>2
<1>4. \A n \in 0 .. N : n >= Base => n \div Base \in 0 .. N - 1 /\ N - 1 \in Nat
  BY <1>3, Shorter
<1>5. PICK f : N > 0 => DigitsTo(N - 1, f)
  <2>1. CASE N = 0
    BY <2>1
  <2>2. CASE N > 0
    <3>1. N - 1 \in Nat /\ N - 1 \notin Bad
      BY <1>2, <1>3, <2>2
    <3> QED
      BY <3>1
  <2> QED
    BY <1>3, <2>1, <2>2
<1> DEFINE g == [n \in 0 .. N |-> IF n < Base THEN <<n>> ELSE Append(f[n \div Base], n % Base)]
<1>6. ASSUME NEW n \in 0 .. N, n >= Base PROVE g[n \div Base] = f[n \div Base]
  <2>1. n \div Base \in 0 .. N - 1 /\ n \div Base \in 0 .. N /\ N > 0
    BY <1>3, <1>4, <1>6
  <2>2. f = [m \in 0 .. N - 1 |-> IF m < Base THEN <<m>> ELSE Append(f[m \div Base], m % Base)]
    BY <1>5, <2>1 DEF DigitsTo
  <2>3. f[n \div Base] = IF n \div Base < Base THEN <<n \div Base>>
                         ELSE Append(f[(n \div Base) \div Base], (n \div Base) % Base)
    BY <2>1, <2>2, Zenon
  <2> QED
    BY <2>1, <2>3, Zenon
<1>7. \A n \in 0 .. N : n < Base \/ n >= Base
  BY <1>3, RamLogAssumption
<1>8. \A n \in 0 .. N : (IF n < Base THEN <<n>> ELSE Append(f[n \div Base], n % Base))
                      = (IF n < Base THEN <<n>> ELSE Append(g[n \div Base], n % Base))
  BY <1>6, <1>7, Zenon
<1>9. DigitsTo(N, g)
  BY <1>8, Zenon DEF DigitsTo
<1> QED
  BY <1>3, <1>9

LEMMA DigitsAgree ==
  ASSUME NEW M \in Nat, NEW N \in Nat, NEW f, NEW g, DigitsTo(M, f), DigitsTo(N, g),
         NEW k \in Nat, k <= M, k <= N
  PROVE  f[k] = g[k]
<1> DEFINE Bad == {n \in Nat : n <= M /\ n <= N /\ f[n] # g[n]}
<1>1. SUFFICES ASSUME Bad # {} PROVE FALSE
  OBVIOUS
<1>2. PICK n \in Bad : \A m \in Bad : n <= m
  BY <1>1, Smallest
<1>3. n \in 0 .. M /\ n \in 0 .. N /\ n \in Nat
  BY <1>2
<1>4. /\ f[n] = IF n < Base THEN <<n>> ELSE Append(f[n \div Base], n % Base)
      /\ g[n] = IF n < Base THEN <<n>> ELSE Append(g[n \div Base], n % Base)
  BY <1>3, Zenon DEF DigitsTo
<1>5. ~(n < Base)
  BY <1>2, <1>4
<1>6. n \div Base \in Nat /\ n \div Base < n
  BY <1>3, <1>5, Shorter, RamLogAssumption
<1>7. f[n \div Base] = g[n \div Base]
  <2>1. n \div Base \notin Bad
    BY <1>2, <1>3, <1>6
  <2> QED
    BY <1>3, <1>6, <2>1
<1> QED
  BY <1>2, <1>4, <1>5, <1>7

\* The recursion of Digits defines it.
LEMMA DigitsDef ==
  \A n \in Nat : Digits[n] = IF n < Base THEN <<n>> ELSE Append(Digits[n \div Base], n % Base)
<1> DEFINE F(N) == CHOOSE f : DigitsTo(N, f)
           D == [n \in Nat |-> F(n)[n]]
<1>1. \A N \in Nat : DigitsTo(N, F(N))
  BY DigitsExist
<1> HIDE DEF F
<1>2. ASSUME NEW n \in Nat
      PROVE  D[n] = IF n < Base THEN <<n>> ELSE Append(D[n \div Base], n % Base)
  <2>1. F(n) = [k \in 0 .. n |-> IF k < Base THEN <<k>> ELSE Append(F(n)[k \div Base], k % Base)]
    BY <1>1 DEF DigitsTo
  <2>2. n \in 0 .. n
    OBVIOUS
  <2>3. F(n)[n] = IF n < Base THEN <<n>> ELSE Append(F(n)[n \div Base], n % Base)
    BY <2>1, <2>2, Zenon
  <2>4. ASSUME n >= Base PROVE F(n)[n \div Base] = D[n \div Base]
    <3>1. n \div Base \in Nat /\ n \div Base <= n
      BY <2>4, Shorter
    <3>2. F(n)[n \div Base] = F(n \div Base)[n \div Base]
      BY <1>1, <3>1, DigitsAgree
    <3> QED
      BY <3>1, <3>2
  <2>5. n < Base \/ n >= Base
    BY RamLogAssumption
  <2> QED
    BY <2>3, <2>4, <2>5, Zenon
<1>3. D = [n \in Nat |-> IF n < Base THEN <<n>> ELSE Append(D[n \div Base], n % Base)]
  BY <1>2, Zenon
<1>4. \E d : d = [n \in Nat |-> IF n < Base THEN <<n>> ELSE Append(d[n \div Base], n % Base)]
  BY <1>3, Zenon
<1>5. Digits = [n \in Nat |-> IF n < Base THEN <<n>> ELSE Append(Digits[n \div Base], n % Base)]
  BY <1>4, Zenon DEF Digits
<1> QED
  BY <1>5, Zenon

LEMMA DigitsType == \A n \in Nat : Digits[n] \in Seq(Nat)
<1> DEFINE Bad == {n \in Nat : Digits[n] \notin Seq(Nat)}
<1>1. SUFFICES ASSUME Bad # {} PROVE FALSE
  OBVIOUS
<1>2. PICK n \in Bad : \A m \in Bad : n <= m
  BY <1>1, Smallest
<1>3. n \in Nat /\ Digits[n] \notin Seq(Nat)
  BY <1>2
<1>4. CASE n < Base
  <2>1. Digits[n] = <<n>>
    BY <1>3, <1>4, DigitsDef, Zenon
  <2> QED
    BY <1>3, <2>1
<1>5. CASE n >= Base
  <2>1. n \div Base \in Nat /\ n \div Base < n /\ n % Base \in Nat
    BY <1>3, <1>5, Shorter
  <2>2. Digits[n \div Base] \in Seq(Nat)
    BY <1>2, <1>3, <2>1
  <2>3. Digits[n] = Append(Digits[n \div Base], n % Base)
    <3>1. ~(n < Base)
      BY <1>3, <1>5, RamLogAssumption
    <3> QED
      BY <1>3, <3>1, DigitsDef, Zenon
  <2> QED
    BY <1>3, <2>1, <2>2, <2>3
<1> QED
  BY <1>3, <1>4, <1>5, RamLogAssumption

-----------------------------------------------------------------------------
(* The inductive invariant                                                 *)

Names    == Nat \X Nat
Byte     == Nat \X Nat
Contents == Seq(Byte) \ {<<>>}
Kids     == [of : Starts, step : {"wait", "copy"}, todo : SUBSET Names]

RamType ==
  /\ clock \in Nat /\ start \in 0 .. MaxStarts
  /\ main \in {"down", "findlast", "limit", "fork", "up", "write", "more"}
  /\ tm \in Nat /\ curid \in Nat /\ s_cur \in Nat /\ left \in Nat
  /\ Files(disk) \subseteq Names /\ IsFiniteSet(Files(disk))
  /\ disk = [f \in Files(disk) |-> disk[f]] /\ \A f \in Files(disk) : disk[f] \in Contents
  /\ ram = [f \in Files(ram) |-> ram[f]]
  /\ kids \subseteq Kids /\ written \in [Starts -> Nat]

\* A start begins with an empty directory and writes on in it.
Fresh ==
  /\ start = 0 => main = "down"
  /\ \A k \in Starts : k > start => written[k] = 0
  /\ main \in {"findlast", "limit", "fork"} => Files(ram) = {}
  /\ Files(ram) = {} => curid = 0
  /\ Files(ram) # {} => s_cur > 0 /\ start > 0
  /\ main \in {"write", "more"} => left > 0
  /\ main = "more" => Files(ram) # {} /\ s_cur = s_log
  /\ main = "limit" => last = _rl_findlast

\* What the disk has of the present start is the beginning of what memory has.
DiskBehind ==
  \A f \in Files(disk) :
    /\ disk[f][1][1] <= start
    /\ disk[f][1][1] = start =>
         /\ f \in Files(ram) /\ Len(disk[f]) <= Len(ram[f])
         /\ \A i \in 1 .. Len(disk[f]) : disk[f][i] = ram[f][i]

\* A child that copies is in time only while the program of its start is dead
\* and not followed by another, and then it has copied what it does not list.
KidsLate ==
  \A k \in kids :
    /\ k.of <= start /\ (k.of < start => k.of \in late)
    /\ k.step = "copy" /\ k.of \notin late =>
         /\ main = "down"
         /\ \A f \in Files(ram) \ k.todo : f \in Files(disk) /\ disk[f] = ram[f]

RamInv == RamType /\ Fresh /\ FilesJoin /\ DiskBehind /\ KidsLate

-----------------------------------------------------------------------------
(* Sequences                                                               *)

LEMMA Row ==
  ASSUME NEW S, NEW n \in Nat, NEW s \in [1 .. n -> S]
  PROVE  s \in Seq(S) /\ Len(s) = n
<1>1. s \in Seq(S)
  BY SeqDef, Zenon
<1>2. Len(s) \in Nat /\ 1 .. Len(s) = 1 .. n
  BY <1>1, LenProperties
<1> QED
  BY <1>1, <1>2

LEMMA PrefixByPlace ==
  ASSUME NEW S, NEW s \in Seq(S), NEW t \in Seq(S), Len(s) <= Len(t), \A i \in 1 .. Len(s) : s[i] = t[i]
  PROVE  IsPrefix(s, t)
<1>1. Len(s) \in Nat /\ Len(t) \in Nat
  BY LenProperties
<1>2. SubSeq(s, 1, Len(s)) = [i \in 1 .. Len(s) |-> s[i]]
  BY <1>1, SubSeqProperties
<1>3. SubSeq(t, 1, Len(s)) = [i \in 1 .. Len(s) |-> t[i]]
  BY <1>1, SubSeqProperties
<1>4. SubSeq(s, 1, Len(s)) = SubSeq(t, 1, Len(s))
  BY <1>2, <1>3
<1> QED
  BY <1>4 DEF IsPrefix

-----------------------------------------------------------------------------
(* One file                                                                *)

\* The first n bytes of the file of number i, of start k.
Bytes(k, i, n) == [j \in 1 .. n |-> <<k, i * s_log + j>>]

LEMMA BytesRow ==
  ASSUME NEW k \in Nat, NEW i \in Nat, NEW n \in Nat
  PROVE  Bytes(k, i, n) \in [1 .. n -> Byte] /\ Bytes(k, i, n) \in Seq(Byte) /\ Len(Bytes(k, i, n)) = n
<1>1. i * s_log \in Nat
  BY RamLogAssumption
<1>2. Bytes(k, i, n) \in [1 .. n -> Byte]
  BY <1>1 DEF Bytes, Byte
<1> QED
  BY <1>2, Row

LEMMA BytesNone ==
  ASSUME NEW k \in Nat, NEW i \in Nat
  PROVE  Bytes(k, i, 0) = <<>>
  BY BytesRow, EmptySeq

\* FilesJoin, with the files as Bytes.
LEMMA JoinedFiles ==
  ASSUME RamType, FilesJoin, Files(ram) # {}
  PROVE  /\ Files(ram) = {<<tm, i>> : i \in 0 .. curid}
         /\ \A i \in 0 .. curid : i < curid => ram[<<tm, i>>] = Bytes(start, i, s_log)
         /\ ram[<<tm, curid>>] = Bytes(start, curid, s_cur)
         /\ s_cur <= s_log /\ written[start] = curid * s_log + s_cur
<1>1. curid \in Nat /\ curid \in 0 .. curid /\ ~(curid < curid)
  BY DEF RamType
<1>2. /\ Files(ram) = {<<tm, i>> : i \in 0 .. curid}
      /\ \A i \in 0 .. curid : ram[<<tm, i>>] = Bytes(start, i, IF i < curid THEN s_log ELSE s_cur)
      /\ s_cur <= s_log /\ written[start] = curid * s_log + s_cur
  BY Zenon DEF FilesJoin, Bytes
<1>3. ram[<<tm, curid>>] = Bytes(start, curid, s_cur)
  BY <1>1, <1>2, Zenon
<1>4. \A i \in 0 .. curid : i < curid => ram[<<tm, i>>] = Bytes(start, i, s_log)
  BY <1>2, Zenon
<1> QED
  BY <1>2, <1>3, <1>4

\* rl_onefile, as FirstPart and NextPart call it, keeps the files joined.
LEMMA OneFile ==
  ASSUME RamType, Fresh, FilesJoin, start \in Starts, NEW c \in Nat, NEW n \in Nat, n <= left,
         \/ c = curid /\ s_cur + n <= s_log /\ s_cur + n > 0
         \/ c = curid + 1 /\ Files(ram) # {} /\ s_cur = s_log /\ n > 0 /\ n <= s_log,
         rl_onefile(<<tm, c>>, n), curid' = c, tm' = tm, start' = start
  PROVE  /\ FilesJoin'
         /\ ram' = [f \in Files(ram)' |-> ram'[f]] /\ written' \in [Starts -> Nat]
         /\ s_cur' \in Nat \ {0} /\ left' \in Nat /\ left' = left - n
         /\ c = curid => s_cur' = s_cur + n
         /\ c # curid => s_cur' = n
         /\ Files(ram)' = Files(ram) \cup {<<tm, c>>}
         /\ \A k \in Starts : k # start => written'[k] = written[k]
         /\ \A f \in Files(ram) : /\ Len(ram[f]) <= Len(ram'[f])
                                  /\ \A i \in 1 .. Len(ram[f]) : ram'[f][i] = ram[f][i]
<1> DEFINE f == <<tm, c>>
           w == written[start]
           a == IF c = curid THEN s_cur ELSE 0
           old == IF f \in Files(ram) THEN ram[f] ELSE <<>>
           more == [i \in 1 .. n |-> <<start, w + i>>]
<1>1. /\ tm \in Nat /\ curid \in Nat /\ s_cur \in Nat /\ left \in Nat /\ start \in Nat /\ w \in Nat
      /\ a \in Nat /\ s_log \in Nat \ {0} /\ written \in [Starts -> Nat]
  BY RamLogAssumption DEF RamType, Starts
<1>2. old = Bytes(start, c, a) /\ w = c * s_log + a /\ a + n > 0 /\ a + n <= s_log
  <2>1. CASE Files(ram) = {}
    <3>1. c = 0 /\ a = 0 /\ w = 0 /\ n > 0 /\ n <= s_log /\ curid = 0 /\ s_cur = 0
      BY <1>1, <2>1 DEF FilesJoin, Fresh, Starts
    <3>2. old = <<>>
      BY <2>1
    <3> QED
      BY <1>1, <3>1, <3>2, BytesNone
  <2>2. CASE Files(ram) # {} /\ c = curid
    <3>1. /\ Files(ram) = {<<tm, i>> : i \in 0 .. curid}
          /\ ram[<<tm, curid>>] = Bytes(start, curid, s_cur)
          /\ written[start] = curid * s_log + s_cur
      BY <2>2, JoinedFiles
    <3>2. f \in Files(ram)
      BY <1>1, <2>2, <3>1
    <3> QED
      BY <1>1, <2>2, <3>1, <3>2
  <2>3. CASE Files(ram) # {} /\ c = curid + 1 /\ s_cur = s_log /\ n > 0 /\ n <= s_log
    <3>1. /\ Files(ram) = {<<tm, i>> : i \in 0 .. curid}
          /\ written[start] = curid * s_log + s_log
      BY <2>3, JoinedFiles
    <3>2. a = 0 /\ f \notin Files(ram)
      BY <1>1, <2>3, <3>1
    <3>3. c * s_log = curid * s_log + s_log
      BY <1>1, <2>3
    <3>4. c * s_log \in Nat
      BY <1>1
    <3>5. old = Bytes(start, c, a)
      BY <1>1, <3>2, BytesNone, Zenon
    <3> QED
      BY <1>1, <2>3, <3>1, <3>2, <3>3, <3>4, <3>5
  <2> QED
    BY <1>1, <2>1, <2>2, <2>3
<1> DEFINE p == c * s_log
<1>3. p \in Nat /\ w = p + a
  BY <1>1, <1>2
<1> HIDE DEF old, a, w, p
<1>4. old \o more = Bytes(start, c, a + n)
  <2>1. old \in [1 .. a -> Byte] /\ \A j \in 1 .. a : old[j] = <<start, p + j>>
    <3>1. old \in [1 .. a -> Byte]
      BY <1>1, <1>2, BytesRow
    <3> QED
      BY <1>2, <3>1 DEF Bytes, p
  <2>2. more \in [1 .. n -> Byte] /\ \A j \in 1 .. n : more[j] = <<start, w + j>>
    BY <1>1 DEF Byte
  <2>3. Bytes(start, c, a + n) = [j \in 1 .. a + n |-> <<start, p + j>>]
    BY DEF Bytes, p
  <2> HIDE DEF more
  <2>4. /\ old \o more \in [1 .. a + n -> Byte]
        /\ \A j \in 1 .. a : (old \o more)[j] = old[j]
        /\ \A j \in a + 1 .. a + n : (old \o more)[j] = more[j - a]
    <3>1. old \in Seq(Byte) /\ Len(old) = a /\ more \in Seq(Byte) /\ Len(more) = n
      BY <1>1, <2>1, <2>2, Row
    <3>2. /\ old \o more \in Seq(Byte) /\ Len(old \o more) = a + n
          /\ \A j \in 1 .. a + n : (old \o more)[j] = IF j <= a THEN old[j] ELSE more[j - a]
      BY <3>1, ConcatProperties
    <3>3. old \o more \in [1 .. a + n -> Byte]
      BY <3>2, LenProperties
    <3>4. \A j \in 1 .. a : j \in 1 .. a + n /\ j <= a
      BY <1>1
    <3>5. \A j \in a + 1 .. a + n : j \in 1 .. a + n /\ ~(j <= a)
      BY <1>1
    <3> QED
      BY <3>2, <3>3, <3>4, <3>5
  <2>5. \A j \in a + 1 .. a + n : j - a \in 1 .. n /\ w + (j - a) = p + j
    BY <1>1, <1>3
  <2>6. \A j \in 1 .. a + n : j \in 1 .. a \/ j \in a + 1 .. a + n
    BY <1>1
  <2>7. \A j \in 1 .. a + n : (old \o more)[j] = <<start, p + j>>
    BY <2>1, <2>2, <2>4, <2>5, <2>6, Zenon
  <2>8. old \o more = [j \in 1 .. a + n |-> <<start, p + j>>]
    BY <2>4, <2>7
  <2> QED
    BY <2>3, <2>8
<1> HIDE DEF more
<1>5. /\ ram' = [g \in Files(ram) \cup {f} |-> IF g = f THEN Bytes(start, c, a + n) ELSE ram[g]]
      /\ s_cur' = Len(old) + n /\ left' = left - n /\ written' = [written EXCEPT ![start] = @ + n]
  BY <1>4 DEF rl_onefile, old, w, more
<1>6. Files(ram)' = Files(ram) \cup {f} /\ ram' = [g \in Files(ram)' |-> ram'[g]]
  BY <1>5 DEF Files
<1>7. s_cur' = a + n /\ written'[start] = p + (a + n) /\ written' \in [Starts -> Nat]
  <2>1. Len(old) = a
    BY <1>1, <1>2, BytesRow
  <2> QED
    BY <1>1, <1>2, <1>3, <1>5, <2>1 DEF w
<1>8. ram'[f] = Bytes(start, c, a + n) /\ \A g \in Files(ram) \ {f} : ram'[g] = ram[g]
  BY <1>5
<1>9. Files(ram)' = {<<tm, i>> : i \in 0 .. c} /\ \A i \in 0 .. c : i < c => ram'[<<tm, i>>] = Bytes(start, i, s_log)
  <2>1. CASE Files(ram) = {}
    <3>1. c = 0
      BY <1>1, <2>1 DEF Fresh
    <3> QED
      BY <1>6, <2>1, <3>1
  <2>2. CASE Files(ram) # {} /\ c = curid
    <3>1. /\ Files(ram) = {<<tm, i>> : i \in 0 .. curid}
          /\ \A i \in 0 .. curid : i < curid => ram[<<tm, i>>] = Bytes(start, i, s_log)
      BY <2>2, JoinedFiles
    <3>2. Files(ram)' = {<<tm, i>> : i \in 0 .. c}
      BY <1>1, <1>6, <2>2, <3>1
    <3>3. ASSUME NEW i \in 0 .. c, i < c PROVE ram'[<<tm, i>>] = Bytes(start, i, s_log)
      <4>1. <<tm, i>> # f /\ <<tm, i>> \in Files(ram)
        BY <1>1, <2>2, <3>1, <3>3
      <4> QED
        BY <1>8, <2>2, <3>1, <3>3, <4>1
    <3> QED
      BY <3>2, <3>3
  <2>3. CASE Files(ram) # {} /\ c = curid + 1 /\ s_cur = s_log
    <3>1. /\ Files(ram) = {<<tm, i>> : i \in 0 .. curid}
          /\ \A i \in 0 .. curid : ram[<<tm, i>>] = Bytes(start, i, s_log)
      <4>1. /\ Files(ram) = {<<tm, i>> : i \in 0 .. curid}
            /\ \A i \in 0 .. curid : i < curid => ram[<<tm, i>>] = Bytes(start, i, s_log)
            /\ ram[<<tm, curid>>] = Bytes(start, curid, s_log)
        BY <2>3, JoinedFiles
      <4>2. \A i \in 0 .. curid : i < curid \/ i = curid
        BY <1>1
      <4> QED
        BY <4>1, <4>2, Zenon
    <3>2. Files(ram)' = {<<tm, i>> : i \in 0 .. c}
      BY <1>1, <1>6, <2>3, <3>1
    <3>3. ASSUME NEW i \in 0 .. c, i < c PROVE ram'[<<tm, i>>] = Bytes(start, i, s_log)
      <4>1. <<tm, i>> # f /\ <<tm, i>> \in Files(ram) /\ i \in 0 .. curid
        BY <1>1, <2>3, <3>1, <3>3
      <4> QED
        BY <1>8, <3>1, <4>1
    <3> QED
      BY <3>2, <3>3
  <2> QED
    BY <2>1, <2>2, <2>3
<1>10. FilesJoin'
  <2>1. Files(ram)' # {}
    BY <1>6
  <2>2. \A i \in 0 .. c : ram'[<<tm, i>>] = Bytes(start, i, IF i < c THEN s_log ELSE s_cur')
    <3>1. \A i \in 0 .. c : i < c \/ (i = c /\ ~(i < c))
      BY <1>1
    <3> QED
      BY <1>7, <1>8, <1>9, <3>1, Zenon
  <2>3. s_cur' <= s_log /\ written'[start] = c * s_log + s_cur'
    BY <1>2, <1>7 DEF p
  <2> QED
    BY <1>9, <2>1, <2>2, <2>3, ZenonT(40) DEF FilesJoin, Files, Bytes
<1>11. \A g \in Files(ram) : Len(ram[g]) <= Len(ram'[g]) /\ \A i \in 1 .. Len(ram[g]) : ram'[g][i] = ram[g][i]
  <2>1. ASSUME NEW g \in Files(ram), g # f PROVE Len(ram[g]) <= Len(ram'[g]) /\ \A i \in 1 .. Len(ram[g]) : ram'[g][i] = ram[g][i]
    <3>1. \E i \in 0 .. curid : ram[g] = Bytes(start, i, s_log) \/ ram[g] = Bytes(start, i, s_cur)
      <4>1. /\ Files(ram) = {<<tm, i>> : i \in 0 .. curid}
            /\ \A i \in 0 .. curid : i < curid => ram[<<tm, i>>] = Bytes(start, i, s_log)
            /\ ram[<<tm, curid>>] = Bytes(start, curid, s_cur)
        BY JoinedFiles
      <4>2. PICK i \in 0 .. curid : g = <<tm, i>>
        BY <4>1, Zenon
      <4>3. i < curid \/ i = curid
        BY <1>1
      <4> QED
        BY <4>1, <4>2, <4>3, Zenon
    <3>2. Len(ram[g]) \in Nat
      <4>1. \A i, m \in Nat : Len(Bytes(start, i, m)) = m
        BY <1>1, BytesRow
      <4> QED
        BY <1>1, <3>1, <4>1
    <3> QED
      BY <1>8, <2>1, <3>2
  <2>2. CASE f \in Files(ram)
    <3>1. ram[f] = Bytes(start, c, a) /\ ram'[f] = Bytes(start, c, a + n)
      BY <1>2, <1>8, <2>2 DEF old
    <3>2. Len(ram[f]) = a /\ Len(ram'[f]) = a + n
      <4>1. a + n \in Nat /\ a \in Nat /\ start \in Nat
        BY <1>1
      <4>2. Len(Bytes(start, c, a)) = a
        BY <4>1, BytesRow
      <4>3. Len(Bytes(start, c, a + n)) = a + n
        BY <4>1, BytesRow
      <4> QED
        BY <3>1, <4>2, <4>3, Zenon
    <3>3. \A i \in 1 .. a : ram'[f][i] = ram[f][i]
      BY <1>1, <3>1 DEF Bytes
    <3> QED
      <4>1. Len(ram[f]) <= Len(ram'[f]) /\ \A i \in 1 .. Len(ram[f]) : ram'[f][i] = ram[f][i]
        BY <1>1, <3>2, <3>3
      <4> QED
        BY <2>1, <4>1, Zenon
  <2> QED
    BY <2>1, <2>2
<1>12. \A k \in Starts : k # start => written'[k] = written[k]
  BY <1>1, <1>5
<1>13. left' \in Nat
  BY <1>1, <1>5
<1> QED
  <2>1. s_cur' \in Nat \ {0} /\ (c = curid => s_cur' = s_cur + n) /\ (c # curid => s_cur' = n)
    BY <1>1, <1>2, <1>7 DEF a
  <2> QED
    BY <1>5, <1>6, <1>7, <1>10, <1>11, <1>12, <1>13, <2>1, Zenon

\* A file in memory is named by the second of the start and holds its bytes.
LEMMA FilesOfStart ==
  ASSUME RamType, Fresh, FilesJoin, NEW f \in Files(ram)
  PROVE  f \in Names /\ ram[f] \in Contents /\ ram[f][1][1] = start /\ start \in Starts
<1>1. /\ tm \in Nat /\ curid \in Nat /\ start \in Nat /\ start \in Starts
      /\ s_log \in Nat \ {0} /\ s_cur \in Nat \ {0}
  BY RamLogAssumption DEF RamType, Fresh, Starts
<1>2. PICK i \in 0 .. curid : f = <<tm, i>> /\ (ram[f] = Bytes(start, i, s_log) \/ ram[f] = Bytes(start, i, s_cur))
  <2>1. /\ Files(ram) = {<<tm, i>> : i \in 0 .. curid}
        /\ \A i \in 0 .. curid : i < curid => ram[<<tm, i>>] = Bytes(start, i, s_log)
        /\ ram[<<tm, curid>>] = Bytes(start, curid, s_cur)
    BY JoinedFiles
  <2>2. PICK i \in 0 .. curid : f = <<tm, i>>
    BY <2>1, Zenon
  <2>3. i < curid \/ i = curid
    BY <1>1
  <2> QED
    BY <2>1, <2>2, <2>3, Zenon
<1>3. ASSUME NEW n \in Nat \ {0}, ram[f] = Bytes(start, i, n)
      PROVE  ram[f] \in Contents /\ ram[f][1][1] = start
  <2>1. ram[f] \in Seq(Byte) /\ Len(ram[f]) = n
    <3>1. i \in Nat /\ n \in Nat /\ start \in Nat
      BY <1>1
    <3>2. Bytes(start, i, n) \in Seq(Byte) /\ Len(Bytes(start, i, n)) = n
      BY <3>1, BytesRow
    <3> QED
      BY <1>3, <3>2, Zenon
  <2>2. ram[f] # <<>>
    BY <2>1
  <2>3. ram[f][1] = <<start, i * s_log + 1>>
    BY <1>3 DEF Bytes
  <2> QED
    BY <2>1, <2>2, <2>3 DEF Contents
<1> QED
  BY <1>1, <1>2, <1>3 DEF Names

FilesHold == \A f \in Files(ram) : ram[f] \in Contents
LEMMA FilesFilled == RamType /\ Fresh /\ FilesJoin => FilesHold
  BY FilesOfStart DEF FilesHold

LEMMA ContentsFirst ==
  ASSUME NEW x \in Contents
  PROVE  x \in Seq(Byte) /\ Len(x) \in Nat \ {0} /\ 1 \in 1 .. Len(x) /\ x[1][1] \in Nat
<1>1. x \in Seq(Byte) /\ x # <<>>
  BY DEF Contents
<1>2. Len(x) \in Nat \ {0} /\ 1 \in 1 .. Len(x) /\ x[1] \in Byte
  BY <1>1
<1> QED
  BY <1>1, <1>2 DEF Byte

-----------------------------------------------------------------------------
(* Each action keeps the invariant                                         *)

LEMMA RamInvInit == RamInit => RamInv
<1>1. Files(NoFiles) = {} /\ NoFiles = [f \in {} |-> NoFiles[f]]
  BY DEF Files, NoFiles
<1>2. IsFiniteSet({})
  BY FS_EmptySet
<1>3. RamInit => RamType
  <2> SUFFICES ASSUME RamInit PROVE RamType
    OBVIOUS
  <2>1. Files(ram) = {} /\ Files(disk) = {} /\ ram = NoFiles /\ disk = NoFiles
    BY <1>1 DEF RamInit
  <2>2. /\ ram = [f \in Files(ram) |-> ram[f]]
        /\ disk = [f \in Files(disk) |-> disk[f]]
        /\ IsFiniteSet(Files(disk))
    BY <1>1, <1>2, <2>1
  <2> QED
    BY <2>1, <2>2, RamLogAssumption DEF RamInit, RamType, Starts
<1>4. RamInit => Fresh
  BY <1>1, RamLogAssumption DEF RamInit, Fresh, Starts
<1>5. RamInit => FilesJoin /\ DiskBehind /\ KidsLate
  BY <1>1 DEF RamInit, FilesJoin, DiskBehind, KidsLate
<1> QED
  BY <1>3, <1>4, <1>5 DEF RamInv

LEMMA StartAgain == ASSUME RamInv, _rl_rm_ram PROVE RamInv'
<1>1. /\ RamType /\ Fresh /\ DiskBehind /\ KidsLate
      /\ start \in Nat /\ start + 1 \in 0 .. MaxStarts /\ start' = start + 1 /\ main = "down" /\ main' = "findlast"
      /\ tm' = clock /\ curid' = 0 /\ s_cur' = 0 /\ left' = 0 /\ ram' = NoFiles
      /\ late' = late \cup {k.of : k \in kids} /\ UNCHANGED <<clock, last, disk, kids, written>>
  BY RamLogAssumption DEF RamInv, _rl_rm_ram, RamType
<1>2. Files(ram)' = {} /\ ram' = [f \in Files(ram)' |-> ram'[f]] /\ Files(disk)' = Files(disk)
  BY <1>1 DEF NoFiles, Files
<1>3. RamType'
  BY <1>1, <1>2 DEF RamType
<1>4. Fresh' /\ FilesJoin'
  <2>1. written[start + 1] = 0 /\ \A k \in Starts : k > start + 1 => written[k] = 0
    BY <1>1 DEF Fresh, Starts
  <2> QED
    BY <1>1, <1>2, <2>1 DEF Fresh, FilesJoin
<1>5. DiskBehind'
  <2>1. \A f \in Files(disk) : disk[f][1][1] \in Nat /\ disk[f][1][1] <= start
    BY <1>1, ContentsFirst DEF RamType, DiskBehind
  <2> QED
    BY <1>1, <1>2, <2>1 DEF DiskBehind
<1>6. KidsLate'
  <2>1. \A k \in kids : k.of \in Nat /\ k.of <= start
    BY <1>1 DEF RamType, KidsLate, Kids, Starts
  <2> QED
    BY <1>1, <2>1 DEF KidsLate
<1> QED
  BY <1>3, <1>4, <1>5, <1>6 DEF RamInv

LEMMA FindLastKeeps == ASSUME RamInv, FindLast PROVE RamInv'
<1>1. /\ RamType /\ Fresh /\ FilesJoin /\ DiskBehind /\ KidsLate
      /\ main = "findlast" /\ main' = "limit" /\ last' = _rl_findlast
      /\ UNCHANGED <<clock, start, log, ram, disk, kids, written, late>>
  BY DEF RamInv, FindLast
<1>2. UNCHANGED <<tm, curid, s_cur, left>> /\ Files(ram)' = Files(ram) /\ Files(disk)' = Files(disk)
  BY <1>1 DEF log, Files
<1>3. _rl_findlast' = _rl_findlast
  BY <1>1 DEF _rl_findlast, Files
<1>4. RamType'
  BY <1>1, <1>2 DEF RamType
<1>5. Fresh'
  BY <1>1, <1>2, <1>3 DEF Fresh
<1>6. FilesJoin' /\ DiskBehind' /\ KidsLate'
  BY <1>1, <1>2 DEF FilesJoin, DiskBehind, KidsLate
<1> QED
  BY <1>4, <1>5, <1>6 DEF RamInv

LEMMA ThinningKeeps == ASSUME RamInv, rl_dirlimitsize PROVE RamInv'
<1>1. /\ RamType /\ Fresh /\ FilesJoin /\ DiskBehind /\ KidsLate
      /\ main = "limit" /\ main' = "fork"
      /\ UNCHANGED <<clock, start, log, last, ram, kids, written, late>>
  BY DEF RamInv, rl_dirlimitsize
<1>2. UNCHANGED <<tm, curid, s_cur, left>> /\ Files(ram)' = Files(ram)
  BY <1>1 DEF log, Files
<1>3. /\ Files(disk)' \subseteq Files(disk) /\ disk' = [f \in Files(disk)' |-> disk'[f]]
      /\ \A f \in Files(disk)' : disk'[f] = disk[f]
  <2>1. disk = [f \in Files(disk) |-> disk[f]]
    BY <1>1 DEF RamType
  <2>2. disk' = disk \/ disk' = [f \in {g \in Files(disk) : Spared(g)} |-> disk[f]]
    BY DEF rl_dirlimitsize
  <2> QED
    BY <2>1, <2>2 DEF Files
<1>4. RamType'
  <2>1. IsFiniteSet(Files(disk)')
    BY <1>1, <1>3, FS_Subset DEF RamType
  <2> QED
    BY <1>1, <1>2, <1>3, <2>1 DEF RamType
<1>5. Fresh' /\ FilesJoin'
  BY <1>1, <1>2 DEF Fresh, FilesJoin
<1>6. DiskBehind' /\ KidsLate'
  BY <1>1, <1>2, <1>3 DEF DiskBehind, KidsLate
<1> QED
  BY <1>4, <1>5, <1>6 DEF RamInv

LEMMA ForkKeeps == ASSUME RamInv, Fork PROVE RamInv'
<1>1. /\ RamType /\ Fresh /\ FilesJoin /\ DiskBehind /\ KidsLate
      /\ main = "fork" /\ main' = "up" /\ kids' \in {kids, kids \cup {Kid(start, "wait")}}
      /\ UNCHANGED <<clock, start, log, last, ram, disk, written, late>>
  BY DEF RamInv, Fork
<1>2. UNCHANGED <<tm, curid, s_cur, left>> /\ Files(ram)' = Files(ram) /\ Files(disk)' = Files(disk)
  BY <1>1 DEF log, Files
<1>3. Kid(start, "wait") \in Kids /\ Kid(start, "wait").of = start /\ Kid(start, "wait").step = "wait"
  BY <1>1, RamLogAssumption DEF Kid, Kids, Starts, RamType, Fresh
<1>4. RamType'
  BY <1>1, <1>2, <1>3 DEF RamType
<1>5. Fresh' /\ FilesJoin' /\ DiskBehind'
  BY <1>1, <1>2 DEF Fresh, FilesJoin, DiskBehind
<1>6. KidsLate'
  <2>1. start \in Nat
    BY <1>1 DEF RamType
  <2> QED
    BY <1>1, <1>2, <1>3, <2>1 DEF KidsLate
<1> QED
  BY <1>4, <1>5, <1>6 DEF RamInv

LEMMA MessageKeeps == ASSUME RamInv, rl_snprintf PROVE RamInv'
<1>1. /\ RamType /\ Fresh /\ FilesJoin /\ DiskBehind /\ KidsLate
      /\ main = "up" /\ main' = "write" /\ left' \in Nat \ {0}
      /\ UNCHANGED <<clock, start, tm, curid, s_cur, last, ram, disk, kids, written, late>>
  BY RamLogAssumption DEF RamInv, rl_snprintf
<1>2. Files(ram)' = Files(ram) /\ Files(disk)' = Files(disk)
  BY <1>1 DEF Files
<1>3. RamType'
  BY <1>1, <1>2 DEF RamType
<1>4. Fresh' /\ FilesJoin' /\ DiskBehind' /\ KidsLate'
  BY <1>1, <1>2 DEF Fresh, FilesJoin, DiskBehind, KidsLate
<1> QED
  BY <1>3, <1>4 DEF RamInv

\* Appending to a file of memory keeps the disk behind it.
LEMMA StaysBehind ==
  ASSUME RamType, DiskBehind, start' = start, disk' = disk, Files(ram) \subseteq Files(ram)',
         \A f \in Files(ram) : /\ Len(ram[f]) <= Len(ram'[f]) /\ Len(ram[f]) \in Nat /\ Len(ram'[f]) \in Nat
                              /\ \A i \in 1 .. Len(ram[f]) : ram'[f][i] = ram[f][i]
  PROVE  DiskBehind'
<1>1. SUFFICES ASSUME NEW f \in Files(disk), disk[f][1][1] = start
               PROVE  /\ f \in Files(ram)' /\ Len(disk[f]) <= Len(ram'[f])
                      /\ \A i \in 1 .. Len(disk[f]) : disk[f][i] = ram'[f][i]
  BY DEF DiskBehind, Files
<1>2. /\ f \in Files(ram) /\ Len(disk[f]) <= Len(ram[f]) /\ Len(disk[f]) \in Nat
      /\ \A i \in 1 .. Len(disk[f]) : disk[f][i] = ram[f][i]
  BY <1>1, ContentsFirst DEF DiskBehind, RamType
<1>3. \A i \in 1 .. Len(disk[f]) : i \in 1 .. Len(ram[f])
  BY <1>2
<1> QED
  BY <1>2, <1>3

\* What FirstPart and NextPart have in common.
LEMMA PartKeeps ==
  ASSUME RamInv, start' = start, tm' = tm, disk' = disk, main' \in {"up", "more"}, main \in {"write", "more"},
         UNCHANGED <<clock, last, kids, late>>,
         NEW n \in Nat, n <= left, curid' \in Nat, rl_onefile(<<tm, curid'>>, n),
         \/ curid' = curid /\ s_cur + n <= s_log /\ s_cur + n > 0
         \/ curid' = curid + 1 /\ Files(ram) # {} /\ s_cur = s_log /\ n > 0 /\ n <= s_log,
         main' = "more" => left - n > 0 /\ (curid' = curid => s_cur + n = s_log) /\ (curid' # curid => n = s_log)
  PROVE  RamInv'
<1>1. RamType /\ Fresh /\ FilesJoin /\ DiskBehind /\ KidsLate /\ start \in Starts
  <2>1. RamType /\ Fresh /\ FilesJoin /\ DiskBehind /\ KidsLate
    BY DEF RamInv
  <2>2. start \in 0 .. MaxStarts /\ start # 0
    BY <2>1 DEF RamType, Fresh
  <2> QED
    BY <2>1, <2>2, RamLogAssumption DEF Starts
<1>2. PICK c \in Nat : curid' = c
  OBVIOUS
<1>3. /\ rl_onefile(<<tm, c>>, n)
      /\ \/ c = curid /\ s_cur + n <= s_log /\ s_cur + n > 0
         \/ c = curid + 1 /\ Files(ram) # {} /\ s_cur = s_log /\ n > 0 /\ n <= s_log
  BY <1>2, Zenon
<1>4. /\ FilesJoin'
      /\ ram' = [f \in Files(ram)' |-> ram'[f]] /\ written' \in [Starts -> Nat]
      /\ s_cur' \in Nat \ {0} /\ left' \in Nat /\ left' = left - n
      /\ (c = curid => s_cur' = s_cur + n)
      /\ (c # curid => s_cur' = n)
      /\ Files(ram)' = Files(ram) \cup {<<tm, c>>}
      /\ \A k \in Starts : k # start => written'[k] = written[k]
      /\ \A f \in Files(ram) : /\ Len(ram[f]) <= Len(ram'[f])
                               /\ \A i \in 1 .. Len(ram[f]) : ram'[f][i] = ram[f][i]
  BY <1>1, <1>2, <1>3, OneFile
<1>5. RamType'
  BY <1>1, <1>2, <1>4 DEF RamType, Files
<1>6. Fresh'
  <2>1. start' # 0 /\ start > 0
    BY <1>1, RamLogAssumption DEF Starts
  <2>2. \A k \in Starts : k > start => written'[k] = 0
    <3>1. \A k \in Starts : k > start => k # start
      BY <1>1, RamLogAssumption DEF Starts
    <3> QED
      BY <1>1, <1>4, <3>1 DEF Fresh
  <2>3. Files(ram)' # {} /\ s_cur' > 0
    <3>1. <<tm, c>> \in Files(ram)'
      BY <1>4
    <3>2. Files(ram)' # {}
      BY <3>1
    <3>3. s_cur' \in Nat \ {0}
      BY <1>4
    <3>4. s_cur' > 0
      BY <3>3
    <3> QED
      BY <3>2, <3>4
  <2>4. main' = "more" => left' > 0 /\ s_cur' = s_log
    BY <1>2, <1>4
  <2>5. main' \in {"up", "more"}
    OBVIOUS
  <2> QED
    BY <2>1, <2>2, <2>3, <2>4, <2>5 DEF Fresh
<1>7. DiskBehind'
  <2>1. \A f \in Files(ram) : Len(ram[f]) \in Nat
    BY <1>1, FilesOfStart, ContentsFirst
  <2>2. \A f \in Files(ram)' : Len(ram'[f]) \in Nat
    <3>1. FilesHold'
      BY <1>4, <1>5, <1>6, FilesFilled, PTL
    <3> QED
      BY <3>1, ContentsFirst DEF FilesHold, Files
  <2> QED
    BY <1>1, <1>4, <2>1, <2>2, StaysBehind
<1>8. KidsLate'
  BY <1>1, <1>4 DEF KidsLate
<1> QED
  BY <1>4, <1>5, <1>6, <1>7, <1>8 DEF RamInv

LEMMA FirstPartKeeps == ASSUME RamInv, FirstPart PROVE RamInv'
<1>1. /\ RamType /\ Fresh /\ FilesJoin /\ main = "write" /\ rl_onefile(<<tm, curid>>, Room)
      /\ main' = IF left' = 0 THEN "up" ELSE "more"
      /\ UNCHANGED <<clock, start, tm, curid, last, disk, kids, late>>
  BY DEF RamInv, FirstPart
<1>2. s_cur \in Nat /\ s_cur <= s_log /\ s_log \in Nat \ {0} /\ left \in Nat \ {0} /\ curid \in Nat
  BY <1>1, RamLogAssumption DEF FilesJoin, RamType, Fresh
<1>3. /\ Room \in Nat /\ Room <= left /\ s_cur + Room <= s_log /\ s_cur + Room > 0
      /\ Room # left => s_cur + Room = s_log
  BY <1>2 DEF Room
<1>4. left' = left - Room
  BY <1>1 DEF rl_onefile
<1> QED
  <2> DEFINE n == Room
  <2>1. n \in Nat /\ n <= left /\ s_cur + n <= s_log /\ s_cur + n > 0 /\ rl_onefile(<<tm, curid'>>, n)
    BY <1>1, <1>3
  <2>2. main' \in {"up", "more"} /\ (main' = "more" => left - n > 0 /\ s_cur + n = s_log)
    BY <1>1, <1>2, <1>3, <1>4
  <2>3. PICK m \in Nat : m = n
    BY <2>1
  <2> QED
    BY <1>1, <1>2, <2>1, <2>2, <2>3, PartKeeps

LEMMA NextPartKeeps == ASSUME RamInv, NextPart PROVE RamInv'
<1> DEFINE n == IF left > s_log THEN s_log ELSE left
<1>1. /\ RamType /\ Fresh /\ FilesJoin /\ main = "more" /\ curid' = curid + 1
      /\ rl_onefile(<<tm, curid'>>, n) /\ main' = IF left' = 0 THEN "up" ELSE "more"
      /\ UNCHANGED <<clock, start, tm, last, disk, kids, late>>
  BY DEF RamInv, NextPart
<1>2. /\ s_cur = s_log /\ s_log \in Nat \ {0} /\ left \in Nat \ {0} /\ curid \in Nat /\ curid' \in Nat
      /\ Files(ram) # {} /\ curid' # curid
  BY <1>1, RamLogAssumption DEF RamType, Fresh
<1>3. n \in Nat /\ n > 0 /\ n <= left /\ n <= s_log /\ (n # left => n = s_log)
  BY <1>2
<1>4. left' = left - n
  BY <1>1 DEF rl_onefile
<1> HIDE DEF n
<1>5. main' \in {"up", "more"} /\ (main' = "more" => left - n > 0 /\ n = s_log)
  BY <1>1, <1>2, <1>3, <1>4
<1>6. PICK m \in Nat : m = n
  BY <1>3
<1> QED
  BY <1>1, <1>2, <1>3, <1>5, <1>6, PartKeeps

LEMMA WokenKeeps == ASSUME RamInv, NEW k \in kids, Woken(k) PROVE RamInv'
<1> DEFINE c == [Kid(k.of, "copy") EXCEPT !.todo = Files(ram)]
<1>1. /\ RamType /\ Fresh /\ FilesJoin /\ DiskBehind /\ KidsLate
      /\ k.of < start \/ main = "down"
      /\ kids' = (kids \ {k}) \cup {c}
      /\ UNCHANGED <<clock, start, main, log, last, ram, disk, written, late>>
  BY DEF RamInv, Woken
<1>2. UNCHANGED <<tm, curid, s_cur, left>> /\ Files(ram)' = Files(ram) /\ Files(disk)' = Files(disk)
  BY <1>1 DEF log, Files
<1>3. Files(ram) \in SUBSET Names /\ k.of \in Starts /\ k.of \in Nat /\ start \in Nat
  BY <1>1, FilesOfStart DEF RamType, Kids, Starts
<1>4. c \in Kids /\ c.of = k.of /\ c.todo = Files(ram)
  BY <1>3 DEF Kid, Kids
<1> HIDE DEF c
<1>5. RamType'
  BY <1>1, <1>2, <1>4 DEF RamType
<1>6. Fresh'
  <2>1. _rl_findlast' = _rl_findlast
    BY <1>1 DEF _rl_findlast, Files
  <2> QED
    BY <1>1, <1>2, <2>1 DEF Fresh
<1>7. FilesJoin' /\ DiskBehind'
  BY <1>1, <1>2 DEF FilesJoin, DiskBehind
<1>8. KidsLate'
  <2>1. k.of <= start /\ (k.of < start => k.of \in late) /\ (k.of \notin late => main = "down")
    BY <1>1, <1>3 DEF KidsLate
  <2>2. Files(ram) \ c.todo = {}
    BY <1>4
  <2> QED
    BY <1>1, <1>2, <1>4, <2>1, <2>2 DEF KidsLate
<1> QED
  BY <1>5, <1>6, <1>7, <1>8 DEF RamInv

LEMMA CopyFileKeeps == ASSUME RamInv, NEW k \in kids, CopyFile(k) PROVE RamInv'
<1>1. /\ RamType /\ Fresh /\ FilesJoin /\ DiskBehind /\ KidsLate /\ k.step = "copy"
      /\ UNCHANGED <<clock, start, main, log, last, ram, written, late>>
  BY DEF RamInv, CopyFile
<1>2. PICK f \in k.todo :
        /\ kids' = (kids \ {k}) \cup {[k EXCEPT !.todo = @ \ {f}]}
        /\ disk' = IF f \notin Files(ram) THEN disk
                   ELSE [g \in Files(disk) \cup {f} |-> IF g = f THEN ram[f] ELSE disk[g]]
  BY DEF CopyFile
<1>3. UNCHANGED <<tm, curid, s_cur, left>> /\ Files(ram)' = Files(ram)
  BY <1>1 DEF log, Files
<1> DEFINE c == [k EXCEPT !.todo = @ \ {f}]
<1>4. /\ k \in Kids /\ c \in Kids /\ c.of = k.of /\ c.step = "copy" /\ c.todo = k.todo \ {f}
      /\ f \in Names
  BY <1>1, <1>2 DEF RamType, Kids
<1>5. kids' = (kids \ {k}) \cup {c}
  BY <1>2
<1> HIDE DEF c
<1>6. /\ disk' = [g \in Files(disk)' |-> disk'[g]]
      /\ Files(disk)' = IF f \in Files(ram) THEN Files(disk) \cup {f} ELSE Files(disk)
      /\ \A g \in Files(disk)' : disk'[g] = IF g = f /\ f \in Files(ram) THEN ram[f] ELSE disk[g]
  <2>1. disk = [g \in Files(disk) |-> disk[g]]
    BY <1>1 DEF RamType
  <2>2. CASE f \in Files(ram)
    BY <1>2, <2>2 DEF Files
  <2>3. CASE f \notin Files(ram)
    BY <1>2, <2>1, <2>3 DEF Files
  <2> QED
    BY <2>2, <2>3
<1>7. f \in Files(ram) => ram[f] \in Contents /\ ram[f][1][1] = start
  BY <1>1, FilesOfStart
<1>8. RamType'
  <2>1. IsFiniteSet(Files(disk)')
    BY <1>1, <1>6, FS_AddElement DEF RamType
  <2>2. Files(disk)' \subseteq Names /\ \A g \in Files(disk)' : disk'[g] \in Contents
    BY <1>1, <1>4, <1>6, <1>7 DEF RamType
  <2>3. kids' \subseteq Kids
    BY <1>1, <1>4, <1>5 DEF RamType
  <2> QED
    BY <1>1, <1>3, <1>6, <2>1, <2>2, <2>3 DEF RamType
<1>9. Fresh'
  <2>1. main = "limit" => _rl_findlast' = _rl_findlast
    <3>1. main = "limit" => disk' = disk
      BY <1>1, <1>2 DEF Fresh
    <3> QED
      BY <3>1 DEF _rl_findlast, Files
  <2> QED
    BY <1>1, <1>3, <2>1 DEF Fresh
<1>10. FilesJoin'
  BY <1>1, <1>3 DEF FilesJoin
<1>11. DiskBehind'
  <2>1. SUFFICES ASSUME NEW g \in Files(disk)'
                 PROVE  /\ disk'[g][1][1] <= start
                        /\ disk'[g][1][1] = start =>
                             /\ g \in Files(ram) /\ Len(disk'[g]) <= Len(ram[g])
                             /\ \A i \in 1 .. Len(disk'[g]) : disk'[g][i] = ram[g][i]
    BY <1>1, <1>3 DEF DiskBehind
  <2>2. CASE g = f /\ f \in Files(ram)
    <3>1. disk'[g] = ram[g] /\ start \in Nat /\ Len(ram[g]) \in Nat
      BY <1>1, <1>6, <1>7, <2>2, ContentsFirst DEF RamType
    <3> QED
      BY <1>7, <2>2, <3>1
  <2>3. CASE ~(g = f /\ f \in Files(ram))
    <3>1. disk'[g] = disk[g] /\ g \in Files(disk)
      BY <1>6, <2>3
    <3> QED
      BY <1>1, <3>1 DEF DiskBehind
  <2> QED
    BY <2>2, <2>3
<1>12. KidsLate'
  <2>1. ASSUME NEW l \in kids, l.step = "copy", l.of \notin late
        PROVE  /\ main = "down"
               /\ \A g \in Files(ram) \ l.todo : g \in Files(disk)' /\ disk'[g] = ram[g]
    <3>1. main = "down" /\ \A g \in Files(ram) \ l.todo : g \in Files(disk) /\ disk[g] = ram[g]
      BY <1>1, <2>1 DEF KidsLate
    <3> QED
      BY <1>6, <3>1
  <2>2. f \in Files(ram) => f \in Files(disk)' /\ disk'[f] = ram[f]
    BY <1>6
  <2>3. ASSUME NEW l \in kids' PROVE (l \in kids \/ l = c) /\ l.of <= start /\ (l.of < start => l.of \in late)
    BY <1>1, <1>4, <1>5 DEF KidsLate
  <2>4. ASSUME c.of \notin late
        PROVE  main = "down" /\ \A g \in Files(ram) \ c.todo : g \in Files(disk)' /\ disk'[g] = ram[g]
    BY <1>1, <1>4, <2>1, <2>2, <2>4
  <2> QED
    BY <1>1, <1>3, <2>1, <2>3, <2>4 DEF KidsLate
<1> QED
  BY <1>8, <1>9, <1>10, <1>11, <1>12 DEF RamInv

LEMMA ExitKeeps == ASSUME RamInv, NEW k \in kids, Exit(k) PROVE RamInv'
<1>1. /\ RamType /\ Fresh /\ FilesJoin /\ DiskBehind /\ KidsLate /\ kids' \subseteq kids
      /\ UNCHANGED <<clock, start, main, log, last, ram, disk, written, late>>
  BY DEF RamInv, Exit
<1>2. UNCHANGED <<tm, curid, s_cur, left>> /\ Files(ram)' = Files(ram) /\ Files(disk)' = Files(disk)
  BY <1>1 DEF log, Files
<1>3. _rl_findlast' = _rl_findlast
  BY <1>1 DEF _rl_findlast, Files
<1>4. RamType' /\ Fresh'
  BY <1>1, <1>2, <1>3 DEF RamType, Fresh
<1>5. FilesJoin' /\ DiskBehind' /\ KidsLate'
  BY <1>1, <1>2 DEF FilesJoin, DiskBehind, KidsLate
<1> QED
  BY <1>4, <1>5 DEF RamInv

LEMMA WorldKeeps == ASSUME RamInv, Second \/ Killed \/ UNCHANGED ramlog PROVE RamInv'
<1>1. /\ RamType /\ Fresh /\ FilesJoin /\ DiskBehind /\ KidsLate
      /\ clock' \in Nat /\ main' \in {main, "down"}
      /\ UNCHANGED <<start, log, last, ram, disk, kids, written, late>>
  BY DEF RamInv, RamType, Second, Killed, ramlog
<1>2. UNCHANGED <<tm, curid, s_cur, left>> /\ Files(ram)' = Files(ram) /\ Files(disk)' = Files(disk)
  BY <1>1 DEF log, Files
<1>3. _rl_findlast' = _rl_findlast
  BY <1>1 DEF _rl_findlast, Files
<1>4. RamType' /\ Fresh'
  BY <1>1, <1>2, <1>3 DEF RamType, Fresh
<1>5. FilesJoin' /\ DiskBehind' /\ KidsLate'
  BY <1>1, <1>2 DEF FilesJoin, DiskBehind, KidsLate
<1> QED
  BY <1>4, <1>5 DEF RamInv

\* The invariant of the log's files, of its parent and children and of the disk
\* from which the two properties below follow (rl_init, rl_multifile, ramlog.c).
THEOREM RamInvariant == RamSpec => []RamInv
<1>1. RamInv /\ [RamNext]_ramlog => RamInv'
  BY StartAgain, FindLastKeeps, ThinningKeeps, ForkKeeps, MessageKeeps, FirstPartKeeps, NextPartKeeps,
     WokenKeeps, CopyFileKeeps, ExitKeeps, WorldKeeps
     DEF RamNext, rl_init, rl_multifile, _rl_ram2disk
<1> QED
  BY RamInvInit, <1>1, PTL DEF RamSpec

\* The files of a start hold what it has written, in order and without a gap
\* (rl_multifile and rl_onefile, ramlog.c), however its messages are cut.
THEOREM FilesAreJoined == RamSpec => []FilesJoin
<1>1. RamInv => FilesJoin
  BY DEF RamInv
<1> QED
  BY RamInvariant, <1>1, PTL

-----------------------------------------------------------------------------
(* What reaches the disk, and what stays there                             *)

\* Every byte of the present start is in one of its files.
LEMMA Found ==
  ASSUME RamInv, NEW n \in Nat, n \in 1 .. written[start], start \in Starts
  PROVE  \E f \in Files(ram) : \E i \in DOMAIN ram[f] : ram[f][i] = <<start, n>>
<1>1. RamType /\ FilesJoin /\ Fresh
  BY DEF RamInv
<1>2. s_log \in Nat \ {0} /\ s_cur \in Nat /\ curid \in Nat /\ tm \in Nat
  BY <1>1, RamLogAssumption DEF RamType
<1>3. Files(ram) # {}
  BY <1>1, RamLogAssumption DEF FilesJoin, Starts
<1>4. /\ Files(ram) = {<<tm, i>> : i \in 0 .. curid}
      /\ \A i \in 0 .. curid : i < curid => ram[<<tm, i>>] = Bytes(start, i, s_log)
      /\ ram[<<tm, curid>>] = Bytes(start, curid, s_cur)
      /\ s_cur <= s_log /\ written[start] = curid * s_log + s_cur
  BY <1>1, <1>3, JoinedFiles
<1> DEFINE i == (n - 1) \div s_log
           j == ((n - 1) % s_log) + 1
<1>5. i \in Nat /\ j \in 1 .. s_log /\ n = i * s_log + j
  BY <1>2
<1> HIDE DEF i, j
<1>6. ASSUME i > curid PROVE FALSE
  <2>1. PICK d \in Nat : i = curid + 1 + d
    <3>1. i - curid - 1 \in Nat /\ i = curid + 1 + (i - curid - 1)
      BY <1>2, <1>5, <1>6
    <3> QED
      BY <3>1
  <2>2. i * s_log = curid * s_log + s_log + d * s_log /\ d * s_log \in Nat /\ curid * s_log \in Nat /\ i * s_log \in Nat
    BY <1>2, <1>5, <2>1
  <2> QED
    BY <1>2, <1>4, <1>5, <2>2
<1>7. ASSUME i = curid, j > s_cur PROVE FALSE
  <2>1. i * s_log = curid * s_log /\ i * s_log \in Nat
    BY <1>2, <1>5, <1>7
  <2> QED
    BY <1>2, <1>4, <1>5, <1>7, <2>1
<1>8. \E m \in Nat : j \in 1 .. m /\ ram[<<tm, i>>] = Bytes(start, i, m) /\ i \in 0 .. curid
  <2>1. CASE i < curid
    BY <1>2, <1>4, <1>5, <2>1
  <2>2. CASE i = curid
    <3>1. j \in 1 .. s_cur /\ i \in 0 .. curid
      BY <1>2, <1>5, <1>7, <2>2
    <3> QED
      BY <1>2, <1>4, <2>2, <3>1
  <2> QED
    BY <1>2, <1>5, <1>6, <2>1, <2>2
<1>9. PICK m \in Nat : j \in 1 .. m /\ ram[<<tm, i>>] = Bytes(start, i, m) /\ i \in 0 .. curid
  BY <1>8
<1>10. j \in DOMAIN ram[<<tm, i>>] /\ ram[<<tm, i>>][j] = <<start, n>>
  <2>1. DOMAIN Bytes(start, i, m) = 1 .. m /\ Bytes(start, i, m)[j] = <<start, i * s_log + j>>
    BY <1>9 DEF Bytes
  <2> QED
    BY <1>5, <1>9, <2>1, Zenon
<1> QED
  BY <1>4, <1>9, <1>10, Zenon

\* A copying child in time, with nothing left to copy, has saved its start.
LEMMA ExitSaves ==
  ASSUME RamInv, NEW k \in kids, Exit(k), k.of \notin late
  PROVE  Saved(k)
<1>1. RamType /\ KidsLate /\ k \in Kids /\ k.step = "copy" /\ k.todo = {}
  BY DEF RamInv, RamType, Exit
<1>2. k.of \in Starts /\ k.of \in Nat /\ start \in Nat
  BY <1>1 DEF RamType, Kids, Starts
<1>3. k.of = start /\ \A f \in Files(ram) : f \in Files(disk) /\ disk[f] = ram[f]
  BY <1>1, <1>2 DEF KidsLate
<1>4. written[start] \in Nat
  BY <1>1, <1>2, <1>3 DEF RamType
<1>5. SUFFICES ASSUME NEW n \in 1 .. written[k.of]
               PROVE  \E f \in Files(disk) : \E i \in DOMAIN disk[f] : disk[f][i] = <<k.of, n>>
  BY DEF Saved
<1>6. PICK f \in Files(ram) : \E i \in DOMAIN ram[f] : ram[f][i] = <<start, n>>
  <2>1. n \in Nat /\ n \in 1 .. written[start] /\ start \in Starts
    BY <1>2, <1>3, <1>4, <1>5
  <2> QED
    BY <2>1, Found
<1>7. f \in Files(disk) /\ disk[f] = ram[f]
  BY <1>3
<1> QED
  BY <1>3, <1>6, <1>7, Zenon

\* Only the end of a child takes the last child of its start away.
LEMMA LastKidExits ==
  ASSUME RamInv, [RamNext]_ramlog, NEW k \in kids, \A l \in kids' : l.of # k.of
  PROVE  Exit(k)
<1>1. k \notin kids'
  OBVIOUS
<1>2. PICK l \in kids : _rl_ram2disk(l)
  BY <1>1 DEF RamNext, ramlog, rl_init, rl_multifile, _rl_rm_ram, FindLast, rl_dirlimitsize, Fork, rl_snprintf,
     FirstPart, NextPart, Second, Killed
<1>3. l \in Kids
  BY DEF RamInv, RamType
<1>4. ~Woken(l)
  <2>1. SUFFICES ASSUME Woken(l) PROVE FALSE
    OBVIOUS
  <2> DEFINE c == [Kid(l.of, "copy") EXCEPT !.todo = Files(ram)]
  <2>2. kids' = (kids \ {l}) \cup {c} /\ c.of = l.of
    BY <2>1 DEF Woken, Kid
  <2> HIDE DEF c
  <2> QED
    BY <1>1, <2>2
<1>5. ~CopyFile(l)
  <2>1. SUFFICES ASSUME CopyFile(l) PROVE FALSE
    OBVIOUS
  <2>2. PICK f : kids' = (kids \ {l}) \cup {[l EXCEPT !.todo = @ \ {f}]}
    BY <2>1 DEF CopyFile
  <2> DEFINE c == [l EXCEPT !.todo = @ \ {f}]
  <2>3. c.of = l.of
    BY <1>3 DEF Kids
  <2>4. kids' = (kids \ {l}) \cup {c}
    BY <2>2
  <2> HIDE DEF c
  <2> QED
    BY <1>1, <2>3, <2>4
<1>6. Exit(l)
  BY <1>2, <1>4, <1>5 DEF _rl_ram2disk
<1> QED
  BY <1>1, <1>6 DEF Exit

\* Thinning spares the last MAX_LAST_LOG files, and of the rest no file that is
\* of an earlier second than one that goes.
LEMMA Thinning ==
  ASSUME RamInv, rl_dirlimitsize, NEW f \in Files(disk), f \notin Files(disk)'
  PROVE  Lost(f)
<1>1. RamType /\ Fresh /\ main = "limit" /\ last = _rl_findlast
  BY DEF RamInv, rl_dirlimitsize, Fresh
<1>2. disk' = [g \in {h \in Files(disk) : Spared(h)} |-> disk[g]]
  BY DEF rl_dirlimitsize
<1>3. Files(disk)' = {h \in Files(disk) : Spared(h)} /\ ~Spared(f)
  BY <1>2 DEF Files
<1>4. Files(disk) \subseteq Names /\ IsFiniteSet(Files(disk)) /\ last \subseteq Files(disk)
  BY <1>1 DEF RamType, _rl_findlast
<1>5. IsFiniteSet(last) /\ Cardinality(last) \in Nat /\ Cardinality(last) >= MAX_LAST_LOG
  <2>1. IsFiniteSet(last)
    BY <1>4, FS_Subset
  <2>2. Cardinality(last) \in Nat
    BY <2>1, FS_CardinalityType
  <2> QED
    BY <1>3, <2>1, <2>2, RamLogAssumption DEF Spared
<1>6. last \subseteq Files(disk)'
  <2>1. ASSUME NEW g \in last PROVE Spared(g)
    <3>1. g[2] \in Nat
      BY <1>4 DEF Names
    <3>2. IsPrefix(Digits[g[2]], Digits[g[2]])
      BY <3>1, DigitsType, PrefixByPlace, LenProperties
    <3> QED
      BY <3>2 DEF Spared
  <2> QED
    BY <1>3, <1>4, <2>1
<1>7. IsFiniteSet(Files(disk)') /\ Cardinality(Files(disk)') >= MAX_LAST_LOG
  <2>1. IsFiniteSet(Files(disk)')
    BY <1>3, <1>4, FS_Subset
  <2>2. Cardinality(last) <= Cardinality(Files(disk)') /\ Cardinality(Files(disk)') \in Nat
    BY <1>6, <2>1, FS_Subset, FS_CardinalityType
  <2> QED
    BY <1>5, <2>1, <2>2, RamLogAssumption
<1>8. ASSUME NEW g \in Files(disk)', ~(f[1] <= g[1]) PROVE FALSE
  <2>1. PICK h \in last : g[1] = h[1]
    BY <1>3, <1>5, <1>8, RamLogAssumption DEF Spared
  <2>2. f[1] \in Nat /\ g[1] \in Nat /\ h[1] \in Nat /\ h[1] < f[1]
    BY <1>3, <1>4, <1>8, <2>1 DEF Names
  <2> DEFINE After(x) == {y \in Files(disk) : ListedBefore(x, y)}
  <2>3. Cardinality(After(h)) < MAX_LAST_LOG
    BY <1>1 DEF _rl_findlast
  <2>4. After(f) \subseteq After(h)
    <3>1. ASSUME NEW y \in Files(disk), ListedBefore(f, y) PROVE ListedBefore(h, y)
      <4>1. y[1] \in Nat
        BY <1>4 DEF Names
      <4>2. f[1] <= y[1]
        BY <2>2, <3>1, <4>1 DEF ListedBefore
      <4> QED
        BY <2>2, <4>1, <4>2 DEF ListedBefore
    <3> QED
      BY <3>1
  <2>5. IsFiniteSet(After(h)) /\ IsFiniteSet(After(f))
    BY <1>4, FS_Subset
  <2>6. Cardinality(After(f)) <= Cardinality(After(h)) /\ Cardinality(After(f)) \in Nat /\ Cardinality(After(h)) \in Nat
    BY <2>4, <2>5, FS_Subset, FS_CardinalityType
  <2>7. Cardinality(After(f)) < MAX_LAST_LOG
    BY <2>3, <2>6, RamLogAssumption
  <2>8. f \in last
    BY <1>1, <2>7 DEF _rl_findlast
  <2> QED
    BY <1>6, <2>8
<1> QED
  BY <1>1, <1>7, <1>8 DEF Lost, Files

\* A step leaves a file of the disk with more behind what it had, or it is
\* thinned out, or another start's file takes its name.
LEMMA DiskStays ==
  ASSUME RamInv, [RamNext]_ramlog, NEW f \in Files(disk)
  PROVE  (f \in Files(disk') /\ IsPrefix(disk[f], disk'[f])) \/ Lost(f) \/ Replaced(f)
<1>1. /\ RamType /\ Fresh /\ FilesJoin /\ DiskBehind /\ disk[f] \in Contents
      /\ disk[f] \in Seq(Byte) /\ Len(disk[f]) \in Nat
  BY ContentsFirst DEF RamInv, RamType
<1>2. IsPrefix(disk[f], disk[f])
  BY <1>1, PrefixByPlace
<1>3. CASE disk' = disk
  BY <1>2, <1>3 DEF Files
<1>4. CASE rl_dirlimitsize
  <2>1. CASE f \notin Files(disk)'
    BY <1>4, <2>1, Thinning
  <2>2. CASE f \in Files(disk)'
    <3>1. disk'[f] = disk[f]
      BY <1>4, <2>2 DEF rl_dirlimitsize, Files
    <3> QED
      BY <1>2, <2>2, <3>1 DEF Files
  <2> QED
    BY <2>1, <2>2
<1>5. CASE \E k \in kids : CopyFile(k)
  <2>1. PICK g : disk' = IF g \notin Files(ram) THEN disk
                         ELSE [h \in Files(disk) \cup {g} |-> IF h = g THEN ram[g] ELSE disk[h]]
    BY <1>5 DEF CopyFile
  <2>2. f \in Files(disk') /\ (disk'[f] = disk[f] \/ (f \in Files(ram) /\ disk'[f] = ram[f]))
    <3>1. CASE g \notin Files(ram)
      <4>1. disk' = disk
        BY <2>1, <3>1
      <4> QED
        BY <4>1 DEF Files
    <3>2. CASE g \in Files(ram)
      <4>1. disk' = [h \in Files(disk) \cup {g} |-> IF h = g THEN ram[g] ELSE disk[h]]
        BY <2>1, <3>2
      <4>2. Files(disk') = Files(disk) \cup {g}
        BY <4>1 DEF Files
      <4>3. \A h \in Files(disk) : disk'[h] = IF h = g THEN ram[g] ELSE disk[h]
        BY <4>1
      <4> QED
        BY <3>2, <4>2, <4>3 DEF Files
    <3> QED
      BY <3>1, <3>2
  <2>3. CASE disk'[f] = disk[f]
    BY <1>2, <2>2, <2>3
  <2>4. CASE f \in Files(ram) /\ disk'[f] = ram[f] /\ disk[f][1][1] = start
    <3>1. Len(disk[f]) <= Len(ram[f]) /\ \A i \in 1 .. Len(disk[f]) : disk[f][i] = ram[f][i]
      BY <1>1, <2>4 DEF DiskBehind
    <3>2. ram[f] \in Seq(Byte)
      BY <1>1, <2>4, FilesOfStart, ContentsFirst
    <3>3. IsPrefix(disk[f], ram[f])
      BY <1>1, <3>1, <3>2, PrefixByPlace
    <3> QED
      BY <2>2, <2>4, <3>3
  <2>5. CASE f \in Files(ram) /\ disk'[f] = ram[f] /\ disk[f][1][1] # start
    <3>1. ram[f][1][1] = start
      BY <1>1, <2>5, FilesOfStart
    <3> QED
      BY <2>2, <2>5, <3>1 DEF Replaced
  <2> QED
    BY <2>2, <2>3, <2>4, <2>5
<1>6. disk' = disk \/ rl_dirlimitsize \/ \E k \in kids : CopyFile(k)
  BY DEF RamNext, ramlog, rl_init, rl_multifile, _rl_rm_ram, FindLast, Fork, rl_snprintf,
     FirstPart, NextPart, _rl_ram2disk, Woken, Exit, Second, Killed
<1> QED
  BY <1>3, <1>4, <1>5, <1>6

\* What a killed program had logged is on the disk when its child ends, unless
\* the next start was quicker, and what is on the disk stays there but for the
\* thinning out of old files and the reuse of a name (rl_init, ramlog.c).
THEOREM KilledLogIsSaved == RamSpec => LogsReachDisk
<1>1. RamInv /\ [RamNext]_ramlog =>
        [/\ \A k \in kids : k.step = "copy" /\ (\A l \in kids' : l.of # k.of) /\ k.of \notin late => Saved(k)
         /\ \A f \in Files(disk) :
              \/ f \in Files(disk') /\ IsPrefix(disk[f], disk'[f])
              \/ Lost(f) \/ Replaced(f)]_ramlog
  BY LastKidExits, ExitSaves, DiskStays
<1> QED
  BY RamInvariant, <1>1, PTL DEF RamSpec, LogsReachDisk
=============================================================================
