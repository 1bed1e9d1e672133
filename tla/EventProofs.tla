---------------------------- MODULE EventProofs ----------------------------
(***************************************************************************)
(* For every curve, size of the arrays and choice of the passes: the list  *)
(* of events stays in the order of the curve, saturations are in it and    *)
(* their indices fresh, it is emptied by no pass, and the report has one   *)
(* start, one end and, but for two kinds of restart, its events' numbers.  *)
(***************************************************************************)
EXTENDS EventReport, FiniteSetTheorems, SequenceTheorems, TLAPS

-----------------------------------------------------------------------------
(* The inductive invariant                                                 *)

\* The list of events is made, and its events have no start and no end yet.
Searching == {"mark1", "split", "mark2", "tail", "low", "probable", "mark3", "end"}
\* It has them.
Reporting == {"report", "coefs", "group", "free"}
Passes    == {"idle", "sat", "find", "filter", "wild"} \cup Searching \cup Reporting
Kinds     == {"reflect", "nonreflect", "probable"}
Indices   == 1 .. Len(ev)

\* Types, with the limit of the arrays.
Typed ==
  /\ pc \in Passes /\ oob \in Causes /\ (pc = "wild" <=> oob # "none")
  /\ [conf |-> conf, delta |-> delta, sat |-> sat] \in Inputs
  /\ scan \in [i : Nat, last : BOOLEAN, start : Nat, top : Nat]
  /\ tails \subseteq 0 .. N /\ points \subseteq Pos
  /\ ev \in Seq(Event) /\ (pc # "wild" => Len(ev) <= MaxEvents)
  /\ satEv \in Seq(Slots) /\ (pc \in {"idle", "sat", "find", "filter"} => ev = <<>>)

\* The numbers of the report; groups and events go on from where they can.
Counted ==
  /\ il \in [Slots -> Seq(Nat)]
  /\ egs \in [Slots -> 0 .. MaxEvents] /\ egNum \in 0 .. MaxEvents
  /\ gi \in 1 .. MaxEvents + 1 /\ lastG \in Slots /\ lastE \in 1 .. MaxEvents + 1
  /\ filtered \in [at : SUBSET Nat, late : BOOLEAN]

\* The loops over the samples and over the events to be split.
Scanned ==
  /\ pc = "sat" /\ scan.last => scan.start + MaxCount <= scan.top /\ scan.top <= N
  /\ pc = "split" => scan.i >= 1 /\ scan.top <= Len(ev)

\* A saturation with its tail is wide enough for an event.
TailRuns ==
  \A p \in tails : \E lo, hi \in 0 .. N : p \in lo .. hi /\ lo .. hi \subseteq tails /\ lo + MinWidth <= hi

\* a is before b, but for a sample that pieces of one event may share.
Ahead(a, b) == a.s < b.s /\ a.e <= b.s + 1
Sorted(list) == \A i, j \in 1 .. Len(list) : i < j => Ahead(list[i], list[j])
Picks(f, r, list, bad) ==      \* r is list without the places in bad: f says whence
    /\ f \in [1 .. Len(r) -> 1 .. Len(list)]
    /\ \A k \in 1 .. Len(r) : r[k] = list[f[k]] /\ f[k] \notin bad /\ k <= f[k]
    /\ \A i, j \in 1 .. Len(r) : i < j => f[i] < f[j]
    /\ \A x \in 1 .. Len(list) : x \notin bad => \E i \in 1 .. Len(r) : f[i] = x
Lasting(list) == \A k \in 1 .. Len(list) : list[k].s <= list[k].e

ListOK ==
  /\ pc \in Searching \ {"split", "mark3", "end"} => Sorted(ev) /\ Lasting(ev)
  /\ pc = "split" =>
       /\ Lasting(ev) /\ (Len(ev) = scan.top => Sorted(ev))
       /\ \A i, j \in Indices : i # j => Ahead(ev[i], ev[j]) \/ Ahead(ev[j], ev[i])
  /\ pc \in {"mark3", "end"} =>
       /\ Sorted(ev)
       /\ \A k \in Indices : ev[k].s <= ev[k].e
                             \/ (k = Len(ev) /\ conf.wide /\ ev[k].e = 0 /\ ev[k].t = "probable")
  /\ pc \in Reporting =>
       /\ Sorted(ev)
       /\ \A k \in Indices : ev[k].s <= ev[k].e \/ (k = Len(ev) /\ conf.wide /\ ev[k].e = 0)

\* The first event stays, and start and end are where they belong.
EndsOK ==
  /\ pc \in Searching => (points # {} => ev # <<>>) /\ \A k \in Indices : ev[k].t \in Kinds
  /\ pc \in Reporting =>
       /\ Len(ev) > 0 /\ ev[1].t = "start" /\ (Len(ev) > 1 => ev[Len(ev)].t = "end")
       /\ \A k \in 2 .. Len(ev) - 1 : ev[k].t \in Kinds

\* The groups are those of the present list, the first at its first event.
GroupsOK ==
  pc = "group" =>
    /\ \A j \in 1 .. egNum : egs[j] \in Indices /\ egs[j] >= j
    /\ \A i, j \in 1 .. egNum : i < j => egs[i] < egs[j]

\* Coefficients in front of the event from which they are computed anew.
Sections ==
  ~filtered.late /\ pc \in {"coefs", "group"} =>
    \A i \in Slots : i < Len(ev) /\ (pc = "group" \/ i < lastE) => ac[i] \in {None, <<ev[i].e, ev[i + 1].s>>}

\* Losses were computed up to the present group.
Losses ==
  ~filtered.late /\ pc \in {"coefs", "group"} =>
    \A i \in Slots : i \notin filtered.at /\ il[i] # None =>
      /\ i <= Len(ev) /\ il[i] = <<ev[i].s>>
      /\ IF pc = "coefs" THEN i <= lastG ELSE \A j \in gi .. egNum : i <= egs[j]

Reported == (pc # "free" => report = <<>>) /\ OneEnd /\ NumbersOfTheirEvents

EventInv ==
  /\ Typed /\ Scanned /\ TailRuns /\ ListOK /\ EndsOK /\ SatIndicesFresh /\ SaturationKept /\ EmptyOnlyIfNothingFound
  /\ Counted /\ GroupsOK /\ Sections /\ Losses /\ Reported

-----------------------------------------------------------------------------
(* Sets of numbers and sequences                                           *)

LEMMA Smallest ==
  ASSUME NEW S \in SUBSET Nat, S # {}
  PROVE  \E m \in S : \A x \in S : m <= x
<1>1. \E i \in S : \A j \in S : ~(<<j, i>> \in OpToRel(<, Nat))
  BY NatLessThanWellFounded, WFMin
<1>2. \A i, j \in S : <<j, i>> \in OpToRel(<, Nat) <=> j < i
  BY DEF OpToRel
<1>3. \E i \in S : \A j \in S : ~(j < i)
  BY <1>1, <1>2, Zenon
<1> QED
  BY <1>3

LEMMA Least ==
  ASSUME NEW S \in SUBSET Nat, S # {}
  PROVE  Min(S) \in S /\ \A x \in S : Min(S) <= x
<1>1. PICK m \in S : \A x \in S : m <= x
  BY Smallest
<1> QED
  BY <1>1 DEF Min

LEMMA Greatest ==
  ASSUME NEW n \in Nat, NEW S \in SUBSET (0 .. n), S # {}
  PROVE  Max(S) \in S /\ \A x \in S : x <= Max(S)
<1> DEFINE above == {b \in Nat : \A x \in S : x <= b}
<1>1. n \in above
  OBVIOUS
<1>2. PICK b \in above : \A x \in above : b <= x
  <2>1. above \in SUBSET Nat /\ above # {}
    BY <1>1
  <2> HIDE DEF above
  <2> QED
    BY <2>1, Smallest
<1>3. b \in Nat /\ \A x \in S : x <= b
  BY <1>2
<1>4. b \in S
  <2>1. SUFFICES ASSUME b \notin S PROVE FALSE
    OBVIOUS
  <2>2. PICK x \in S : TRUE
    OBVIOUS
  <2>3. \A y \in S : y <= b - 1
    BY <1>3, <2>1
  <2>4. b - 1 \in Nat
    BY <1>3, <2>1, <2>2, <2>3
  <2>5. b - 1 \in above
    BY <2>3, <2>4
  <2> QED
    BY <1>2, <1>3, <2>5
<1> QED
  BY <1>3, <1>4 DEF Max

\* A set in which each member has a set of members before it has a member
\* with k before it for each k.
LEMMA Ranked ==
  ASSUME NEW S, IsFiniteSet(S), NEW L \in [S -> SUBSET S], \A x \in S : x \notin L[x],
         \A x, y \in S : x # y => (x \in L[y] /\ L[x] \subseteq L[y]) \/ (y \in L[x] /\ L[y] \subseteq L[x])
  PROVE  /\ Cardinality(S) \in Nat
         /\ \A x \in S : Cardinality(L[x]) \in 0 .. Cardinality(S) - 1
         /\ \A x, y \in S : x \in L[y] => Cardinality(L[x]) < Cardinality(L[y])
         /\ \A k \in 1 .. Cardinality(S) : \E x \in S : Cardinality(L[x]) = k - 1
<1> DEFINE n == Cardinality(S)
           r == [x \in S |-> Cardinality(L[x])]
<1>1. n \in Nat
  BY FS_CardinalityType
<1>2. \A x \in S : IsFiniteSet(L[x]) /\ Cardinality(L[x]) \in Nat
  BY FS_Subset, FS_CardinalityType
<1>3. \A x \in S : Cardinality(L[x]) \in 0 .. n - 1
  <2>1. TAKE x \in S
  <2>2. L[x] \in SUBSET S /\ L[x] # S
    OBVIOUS
  <2>3. Cardinality(L[x]) <= n /\ Cardinality(L[x]) # n
    BY <2>2, FS_Subset
  <2> HIDE DEF n
  <2> QED
    BY <1>1, <1>2, <2>3
<1>4. ASSUME NEW x \in S, NEW y \in S, x \in L[y] PROVE Cardinality(L[x]) < Cardinality(L[y])
  <2>1. x # y
    BY <1>4
  <2>2. L[x] \subseteq L[y]
    BY <1>4, <2>1
  <2>3. L[x] # L[y]
    BY <1>4
  <2>4. Cardinality(L[x]) <= Cardinality(L[y]) /\ Cardinality(L[x]) # Cardinality(L[y])
    BY <1>2, <2>2, <2>3, FS_Subset
  <2> QED
    BY <1>2, <2>4
<1>5. IsFiniteSet(0 .. n - 1) /\ Cardinality(0 .. n - 1) = n
  <2>1. 0 \in Int /\ n - 1 \in Int
    BY <1>1
  <2> HIDE DEF n
  <2>2. IsFiniteSet(0 .. n - 1) /\ Cardinality(0 .. n - 1) = IF 0 > n - 1 THEN 0 ELSE n - 1 - 0 + 1
    BY <2>1, FS_Interval
  <2> QED
    BY <1>1, <2>2
<1>6. r \in Injection(S, 0 .. n - 1)
  <2>1. r \in [S -> 0 .. n - 1]
    BY <1>3
  <2>2. \A x, y \in S : x # y => r[x] # r[y]
    BY <1>2, <1>4
  <2> HIDE DEF r, n
  <2> QED
    BY <2>1, <2>2 DEF Injection, IsInjective
<1>7. r \in Surjection(S, 0 .. n - 1)
  <2> HIDE DEF r
  <2> QED
    BY <1>5, <1>6, FS_Injection
<1>8. \A k \in 1 .. n : \E x \in S : Cardinality(L[x]) = k - 1
  <2>1. TAKE k \in 1 .. n
  <2>2. k - 1 \in 0 .. n - 1
    BY <1>1
  <2>3. \E x \in S : r[x] = k - 1
    <3> HIDE DEF r, n
    <3> QED
      BY <1>7, <2>2 DEF Surjection
  <2> QED
    BY <2>3
<1> QED
  BY <1>1, <1>3, <1>4, <1>8

\* A set of numbers in ascending order.
LEMMA Ascends ==
  ASSUME NEW S \in SUBSET Nat, IsFiniteSet(S)
  PROVE  LET f == Ascending(S)
             n == Cardinality(S)
         IN  /\ n \in Nat /\ f \in [1 .. n -> S]
             /\ \A i, j \in 1 .. n : i < j => f[i] < f[j]
             /\ \A x \in S : \E i \in 1 .. n : f[i] = x
             /\ \A i \in 1 .. n : Cardinality({y \in S : y < f[i]}) = i - 1
<1> DEFINE L == [x \in S |-> {y \in S : y < x}]
           n == Cardinality(S)
           f == Ascending(S)
<1>2. \A x \in S : L[x] = {y \in S : y < x}
  OBVIOUS
<1>1. /\ n \in Nat /\ \A x \in S : Cardinality(L[x]) \in 0 .. n - 1
      /\ \A x, y \in S : x \in L[y] => Cardinality(L[x]) < Cardinality(L[y])
      /\ \A k \in 1 .. n : \E x \in S : Cardinality(L[x]) = k - 1
  <2>1. L \in [S -> SUBSET S]
    OBVIOUS
  <2> HIDE DEF L
  <2>2. \A x \in S : x \notin L[x]
    BY <1>2
  <2>3. \A x, y \in S : x # y => (x \in L[y] /\ L[x] \subseteq L[y]) \/ (y \in L[x] /\ L[y] \subseteq L[x])
    <3>1. ASSUME NEW x \in S, NEW y \in S, x < y PROVE x \in L[y] /\ L[x] \subseteq L[y]
      <4>1. \A z \in S : z < x => z < y
        <5>1. x \in Nat /\ y \in Nat /\ \A z \in S : z \in Nat
          OBVIOUS
        <5> QED
          BY <3>1, <5>1
      <4>2. L[x] = {z \in S : z < x} /\ L[y] = {z \in S : z < y}
        BY <1>2
      <4> QED
        BY <3>1, <4>1, <4>2
    <3>2. \A x, y \in S : x # y => x < y \/ y < x
      OBVIOUS
    <3> QED
      BY <3>1, <3>2
  <2> QED
    BY <2>1, <2>2, <2>3, Ranked
<1>3. \A i \in 1 .. n : f[i] \in S /\ Cardinality(L[f[i]]) = i - 1
  <2>1. TAKE i \in 1 .. n
  <2>2. f[i] = CHOOSE x \in S : Cardinality({y \in S : y < x}) = i - 1
    BY DEF Ascending
  <2>3. \E x \in S : Cardinality({y \in S : y < x}) = i - 1
    BY <1>1, <1>2
  <2> HIDE DEF L, f
  <2> QED
    BY <1>2, <2>2, <2>3
<1>4. f = [i \in 1 .. n |-> f[i]]
  BY SMTT(40) DEF Ascending
<1> HIDE DEF L, f, n
<1>5. \A i, j \in 1 .. n : i < j => f[i] < f[j]
  <2> SUFFICES ASSUME NEW i \in 1 .. n, NEW j \in 1 .. n, i < j, ~(f[i] < f[j]) PROVE FALSE
    OBVIOUS
  <2>1. f[i] \in Nat /\ f[j] \in Nat /\ f[i] \in S /\ f[j] \in S
    BY <1>3
  <2>2. f[i] # f[j]
    BY <1>1, <1>3
  <2>3. f[j] \in L[f[i]]
    BY <1>2, <2>1, <2>2
  <2> QED
    BY <1>1, <1>3, <2>1, <2>3
<1>6. \A x \in S : \E i \in 1 .. n : f[i] = x
  <2>1. TAKE x \in S
  <2>0. PICK c : c = Cardinality(L[x])
    OBVIOUS
  <2>1a. c \in 0 .. n - 1 /\ n \in Nat
    BY <1>1, <2>0
  <2>2. PICK k : k = c + 1
    OBVIOUS
  <2>3. k \in 1 .. n /\ Cardinality(L[x]) = k - 1
    <3>1. k \in 1 .. n /\ c = k - 1
      BY <2>1a, <2>2
    <3> QED
      BY <2>0, <3>1
  <2>4. f[k] \in S /\ Cardinality(L[f[k]]) = k - 1
    BY <1>3, <2>3
  <2>5. x \in L[f[k]] \/ f[k] \in L[x] \/ x = f[k]
    <3>1. x < f[k] \/ f[k] < x \/ x = f[k]
      <4>1. x \in Nat /\ f[k] \in Nat
        BY <2>4
      <4> QED
        BY <4>1
    <3> QED
      BY <1>2, <2>4, <3>1
  <2>6. x \in L[f[k]] => Cardinality(L[x]) < Cardinality(L[f[k]])
    BY <1>1, <2>4
  <2>7. f[k] \in L[x] => Cardinality(L[f[k]]) < Cardinality(L[x])
    BY <1>1, <2>4
  <2>8. k \in Nat
    BY <2>3, <1>1
  <2>9. x = f[k]
    BY <2>3, <2>4, <2>5, <2>6, <2>7, <2>8
  <2> QED
    BY <2>3, <2>9
<1> QED
  BY <1>1, <1>2, <1>3, <1>4, <1>5, <1>6 DEF f, n

-----------------------------------------------------------------------------
(* The helpers of the passes                                               *)

\* What leaves the arrays leaves gaps that close: the events that stay keep
\* their order, and those in front of the first gap their place.
LEMMA Kicked ==
  ASSUME NEW T, NEW list \in Seq(T), NEW bad
  PROVE  LET r == KickOutOfArray(list, bad)
         IN  /\ r \in Seq(T) /\ Len(r) <= Len(list)
             /\ \E f : Picks(f, r, list, bad)
             /\ \A x \in 1 .. Len(list) : (\A y \in 1 .. x : y \notin bad) => x <= Len(r) /\ r[x] = list[x]
<1> DEFINE S == DOMAIN list \ bad
           f == Ascending(S)
           n == Cardinality(S)
           r == KickOutOfArray(list, bad)
<1>1. PICK m \in Nat : m = Len(list) /\ DOMAIN list = 1 .. m /\ \A k \in 1 .. m : list[k] \in T
  OBVIOUS
<1>2. IsFiniteSet(1 .. m) /\ Cardinality(1 .. m) = m
  <2>1. 1 \in Int /\ m \in Int
    OBVIOUS
  <2>2. IsFiniteSet(1 .. m) /\ Cardinality(1 .. m) = IF 1 > m THEN 0 ELSE m - 1 + 1
    BY <2>1, FS_Interval
  <2> QED
    BY <2>2
<1>3. S \in SUBSET (1 .. m) /\ S \in SUBSET Nat /\ \A x \in 1 .. m : x \in S <=> x \notin bad
  BY <1>1
<1>4. IsFiniteSet(S) /\ n <= m
  <2> HIDE DEF S
  <2> QED
    BY <1>2, <1>3, FS_Subset
<1>5. /\ n \in Nat /\ f \in [1 .. n -> S]
      /\ \A i, j \in 1 .. n : i < j => f[i] < f[j]
      /\ \A x \in S : \E i \in 1 .. n : f[i] = x
      /\ \A i \in 1 .. n : Cardinality({y \in S : y < f[i]}) = i - 1
  <2> HIDE DEF S
  <2> QED
    BY <1>3, <1>4, Ascends
<1>6. r = [k \in 1 .. n |-> list[f[k]]]
  <2>1. DOMAIN f = 1 .. n
    BY <1>5
  <2>2. r = [k \in DOMAIN f |-> list[f[k]]]
    BY DEF KickOutOfArray
  <2> HIDE DEF r, f, n
  <2> QED
    BY <2>1, <2>2
<1> HIDE DEF S, f, n, r
<1>7. \A k \in 1 .. n : f[k] \in 1 .. m /\ f[k] \notin bad
  BY <1>3, <1>5
<1>8. r \in Seq(T) /\ Len(r) = n /\ \A k \in 1 .. n : r[k] = list[f[k]]
  BY <1>1, <1>5, <1>6, <1>7
<1>9. ASSUME NEW k \in 1 .. n PROVE k <= f[k]
  <2> DEFINE B == {y \in S : y < f[k]}
  <2>1. f[k] \in 1 .. m /\ f[k] - 1 \in Nat /\ k \in Nat
    BY <1>5, <1>7
  <2>2. IsFiniteSet(1 .. f[k] - 1) /\ Cardinality(1 .. f[k] - 1) = f[k] - 1
    <3>1. 1 \in Int /\ f[k] - 1 \in Int
      BY <2>1
    <3>2. IsFiniteSet(1 .. f[k] - 1) /\ Cardinality(1 .. f[k] - 1) = IF 1 > f[k] - 1 THEN 0 ELSE f[k] - 1 - 1 + 1
      BY <3>1, FS_Interval
    <3> QED
      BY <2>1, <3>2
  <2>3. B \in SUBSET (1 .. f[k] - 1)
    <3>1. ASSUME NEW y \in S, y < f[k] PROVE y \in 1 .. f[k] - 1
      <4>1. y \in 1 .. m /\ f[k] \in Nat
        BY <1>3, <2>1
      <4> QED
        BY <3>1, <4>1
    <3> QED
      BY <3>1
  <2>4. Cardinality(B) = k - 1
    BY <1>5
  <2>5. Cardinality(B) <= Cardinality(1 .. f[k] - 1)
    <3> HIDE DEF B
    <3> QED
      BY <2>2, <2>3, FS_Subset
  <2> QED
    BY <2>1, <2>2, <2>4, <2>5
<1>10. ASSUME NEW x \in 1 .. m, \A y \in 1 .. x : y \notin bad PROVE x \in 1 .. n /\ f[x] = x
  <2>1. x \in S /\ x \in Nat
    BY <1>3, <1>10
  <2>2. PICK i \in 1 .. n : f[i] = x
    BY <1>5, <2>1
  <2>3. {y \in S : y < x} = 1 .. x - 1
    <3>1. ASSUME NEW y \in S, y < x PROVE y \in 1 .. x - 1
      BY <1>3, <3>1, <2>1
    <3>2. ASSUME NEW y \in 1 .. x - 1 PROVE y \in S /\ y < x
      BY <1>3, <1>10, <2>1
    <3> QED
      BY <3>1, <3>2
  <2>4. Cardinality(1 .. x - 1) = x - 1
    <3>1. 1 \in Int /\ x - 1 \in Int
      BY <2>1
    <3>2. Cardinality(1 .. x - 1) = IF 1 > x - 1 THEN 0 ELSE x - 1 - 1 + 1
      BY <3>1, FS_Interval
    <3> QED
      BY <3>2
  <2>5. x - 1 = i - 1
    BY <1>5, <2>2, <2>3, <2>4
  <2>6. i \in Nat
    BY <1>5
  <2> QED
    BY <2>1, <2>2, <2>5, <2>6
<1>11. f \in [1 .. Len(r) -> 1 .. Len(list)]
  BY <1>1, <1>5, <1>7, <1>8
<1>12. /\ \A k \in 1 .. Len(r) : r[k] = list[f[k]] /\ f[k] \notin bad /\ k <= f[k]
       /\ \A i, j \in 1 .. Len(r) : i < j => f[i] < f[j]
       /\ \A x \in 1 .. Len(list) : x \notin bad => \E i \in 1 .. Len(r) : f[i] = x
  BY <1>1, <1>3, <1>5, <1>7, <1>8, <1>9
<1>14. \A x \in 1 .. Len(list) : (\A y \in 1 .. x : y \notin bad) => x <= Len(r) /\ r[x] = list[x]
  BY <1>1, <1>8, <1>10
<1>13. r \in Seq(T) /\ Len(r) <= Len(list)
  BY <1>1, <1>4, <1>8
<1>15. Picks(f, r, list, bad)
  BY <1>11, <1>12 DEF Picks
<1> HIDE DEF f
<1> QED
  BY <1>13, <1>14, <1>15 DEF r

\* A list in the order of the curve stays so when events leave it; the first
\* stays the first if it stays.
LEMMA StaysSorted ==
  ASSUME NEW list \in Seq(Event), NEW bad, Sorted(list)
  PROVE  LET r == KickOutOfArray(list, bad)
         IN  /\ r \in Seq(Event) /\ Len(r) <= Len(list) /\ Sorted(r)
             /\ \A k \in 1 .. Len(r) : \E x \in 1 .. Len(list) :
                  /\ r[k] = list[x] /\ (x = Len(list) => k = Len(r))
             /\ list # <<>> /\ 1 \notin bad => r # <<>>
<1> DEFINE r == KickOutOfArray(list, bad)
<1>0. PICK f : Picks(f, r, list, bad)
  BY Kicked
<1>1. /\ f \in [1 .. Len(r) -> 1 .. Len(list)]
      /\ \A k \in 1 .. Len(r) : r[k] = list[f[k]] /\ f[k] \notin bad /\ k <= f[k]
      /\ \A i, j \in 1 .. Len(r) : i < j => f[i] < f[j]
      /\ \A x \in 1 .. Len(list) : x \notin bad => \E i \in 1 .. Len(r) : f[i] = x
  BY <1>0 DEF Picks
<1>2. r \in Seq(Event) /\ Len(r) <= Len(list)
  BY Kicked
<1> HIDE DEF r
<1>3. Len(r) \in Nat /\ Len(list) \in Nat
  BY <1>2
<1>4. Sorted(r)
  <2>1. SUFFICES ASSUME NEW i \in 1 .. Len(r), NEW j \in 1 .. Len(r), i < j PROVE Ahead(r[i], r[j])
    BY DEF Sorted
  <2>2. f[i] \in 1 .. Len(list) /\ f[j] \in 1 .. Len(list) /\ f[i] < f[j]
    BY <1>1, <2>1
  <2>3. Ahead(list[f[i]], list[f[j]])
    BY <2>2 DEF Sorted
  <2> QED
    BY <1>1, <2>3
<1>5. ASSUME NEW k \in 1 .. Len(r)
      PROVE  \E x \in 1 .. Len(list) : r[k] = list[x] /\ (x = Len(list) => k = Len(r))
  <2>1. f[k] \in 1 .. Len(list) /\ r[k] = list[f[k]]
    BY <1>1
  <2>2. ASSUME f[k] = Len(list), k # Len(r) PROVE FALSE
    <3>1. Len(r) \in 1 .. Len(r) /\ k < Len(r)
      BY <1>3, <2>2
    <3>2. f[k] < f[Len(r)] /\ f[Len(r)] \in 1 .. Len(list)
      BY <1>1, <3>1
    <3> QED
      BY <1>3, <2>2, <3>2
  <2> QED
    BY <2>1, <2>2
<1>6. ASSUME list # <<>>, 1 \notin bad PROVE r # <<>>
  <2>1. 1 \in 1 .. Len(list)
    <3>1. Len(list) # 0
      BY <1>6, EmptySeq
    <3> QED
      BY <1>3, <3>1
  <2>2. \E i \in 1 .. Len(r) : f[i] = 1
    BY <1>1, <1>6, <2>1
  <2>3. Len(r) # 0
    BY <1>3, <2>2
  <2> QED
    BY <2>3
<1> QED
  BY <1>2, <1>4, <1>5, <1>6 DEF r

\* Sorted by their starts, events that do not overlap are in the order of
\* the curve, and none gets lost.
LEMMA Sorts ==
  ASSUME NEW list \in Seq(Event),
         \A i, j \in 1 .. Len(list) : i # j => Ahead(list[i], list[j]) \/ Ahead(list[j], list[i])
  PROVE  LET r == EventArraySort(list)
         IN  /\ r \in Seq(Event) /\ Len(r) = Len(list) /\ Sorted(r)
             /\ \A k \in 1 .. Len(r) : \E x \in 1 .. Len(list) : r[k] = list[x]
<1> DEFINE r == EventArraySort(list)
           S == DOMAIN list
           L == [k \in S |-> {j \in S : list[j].s < list[k].s \/ (list[j].s = list[k].s /\ j < k)}]
<1>1. PICK m \in Nat : m = Len(list) /\ S = 1 .. m /\ \A k \in 1 .. m : list[k].s \in Nat /\ list[k] \in Event
  <2>1. \A k \in 1 .. Len(list) : list[k] \in Event
    OBVIOUS
  <2>2. \A x \in Event : x.s \in Nat
    BY SizesAssumption DEF Event, Pos
  <2> QED
    BY <2>1, <2>2
<1>2. \A j, k \in S : j \in L[k] <=> list[j].s < list[k].s \/ (list[j].s = list[k].s /\ j < k)
  OBVIOUS
<1>3. L \in [S -> SUBSET S]
  OBVIOUS
<1>4. \A n \in S : r[n] = list[CHOOSE k \in S : Cardinality(L[k]) = n - 1]
  <2>1. \A k \in S : L[k] = {j \in DOMAIN list : list[j].s < list[k].s \/ (list[j].s = list[k].s /\ j < k)}
    OBVIOUS
  <2>2. \A n \in S : r[n] = list[CHOOSE k \in S : Cardinality({j \in DOMAIN list : list[j].s < list[k].s \/ (list[j].s = list[k].s /\ j < k)}) = n - 1]
    BY DEF EventArraySort
  <2>3. TAKE n \in S
  <2>4. \A k : (k \in S /\ Cardinality({j \in DOMAIN list : list[j].s < list[k].s \/ (list[j].s = list[k].s /\ j < k)}) = n - 1)
               <=> (k \in S /\ Cardinality(L[k]) = n - 1)
    BY <2>1, Zenon
  <2> HIDE DEF L, r
  <2> QED
    BY <2>2, <2>4
<1>5. r = [n \in S |-> r[n]]
  BY DEF EventArraySort
<1> HIDE DEF L, r, S
<1>6. /\ Cardinality(S) = m
      /\ \A x, y \in S : x \in L[y] => Cardinality(L[x]) < Cardinality(L[y])
      /\ \A k \in 1 .. m : \E x \in S : Cardinality(L[x]) = k - 1
  <2>1. IsFiniteSet(S) /\ Cardinality(S) = m
    <3>1. 1 \in Int /\ m \in Int
      OBVIOUS
    <3>2. IsFiniteSet(1 .. m) /\ Cardinality(1 .. m) = IF 1 > m THEN 0 ELSE m - 1 + 1
      BY <3>1, FS_Interval
    <3> QED
      BY <1>1, <3>2
  <2>2. \A x \in S : x \notin L[x]
    BY <1>1, <1>2
  <2>3. ASSUME NEW x \in S, NEW y \in S, x \in L[y] PROVE L[x] \subseteq L[y]
    <3>1. ASSUME NEW z \in L[x] PROVE z \in L[y]
      <4>1. z \in S
        BY <1>3, <3>1
      <4>2. z \in 1 .. m /\ x \in 1 .. m /\ y \in 1 .. m
        BY <1>1, <4>1
      <4>3. list[z].s \in Nat /\ list[x].s \in Nat /\ list[y].s \in Nat
        BY <1>1, <4>2
      <4>4. list[z].s < list[x].s \/ (list[z].s = list[x].s /\ z < x)
        BY <1>2, <3>1, <4>1
      <4>5. list[x].s < list[y].s \/ (list[x].s = list[y].s /\ x < y)
        BY <1>2, <2>3
      <4>6. list[z].s < list[y].s \/ (list[z].s = list[y].s /\ z < y)
        BY <4>2, <4>3, <4>4, <4>5
      <4> QED
        BY <1>2, <4>1, <4>6
    <3> QED
      BY <3>1
  <2>4. ASSUME NEW x \in S, NEW y \in S, x # y PROVE x \in L[y] \/ y \in L[x]
    <3>1. x \in 1 .. m /\ y \in 1 .. m
      BY <1>1
    <3>2. list[x].s \in Nat /\ list[y].s \in Nat
      BY <1>1, <3>1
    <3>3. \/ list[x].s < list[y].s \/ (list[x].s = list[y].s /\ x < y)
          \/ list[y].s < list[x].s \/ (list[y].s = list[x].s /\ y < x)
      BY <3>1, <3>2, <2>4
    <3> QED
      BY <1>2, <3>3
  <2>5. \A x, y \in S : x # y => (x \in L[y] /\ L[x] \subseteq L[y]) \/ (y \in L[x] /\ L[y] \subseteq L[x])
    BY <2>3, <2>4
  <2> QED
    BY <1>3, <2>1, <2>2, <2>5, Ranked
<1> DEFINE c(n) == CHOOSE k \in S : Cardinality(L[k]) = n - 1
<1>7. \A n \in 1 .. m : c(n) \in S /\ Cardinality(L[c(n)]) = n - 1 /\ r[n] = list[c(n)]
  <2>1. TAKE n \in 1 .. m
  <2>2. \E x \in S : Cardinality(L[x]) = n - 1
    BY <1>6
  <2>3. c(n) \in S /\ Cardinality(L[c(n)]) = n - 1
    BY <2>2
  <2>4. r[n] = list[c(n)]
    BY <1>1, <1>4
  <2> QED
    BY <2>3, <2>4
<1> HIDE DEF c
<1>8. r \in Seq(Event) /\ Len(r) = m
  <2>1. \A n \in 1 .. m : r[n] \in Event
    BY <1>1, <1>7
  <2> QED
    BY <1>1, <1>5, <2>1
<1>9. Sorted(r)
  <2>1. SUFFICES ASSUME NEW i \in 1 .. m, NEW j \in 1 .. m, i < j PROVE Ahead(r[i], r[j])
    BY <1>8 DEF Sorted
  <2>2. c(i) \in 1 .. m /\ c(j) \in 1 .. m /\ i \in Nat /\ j \in Nat
    BY <1>1, <1>7, SMTT(40)
  <2>3. c(i) # c(j)
    BY <1>7, <2>1, <2>2, SMTT(40)
  <2>4. Ahead(list[c(i)], list[c(j)]) \/ Ahead(list[c(j)], list[c(i)])
    BY <1>1, <2>2, <2>3
  <2>5. ASSUME Ahead(list[c(j)], list[c(i)]) PROVE FALSE
    <3>1. list[c(j)].s < list[c(i)].s
      BY <2>5 DEF Ahead
    <3>2. c(j) \in L[c(i)]
      BY <1>2, <1>7, <3>1
    <3>3. j - 1 < i - 1
      BY <1>6, <1>7, <3>2
    <3> QED
      BY <2>1, <2>2, <3>3
  <2> QED
    BY <1>7, <2>4, <2>5
<1>10. \A k \in 1 .. Len(r) : \E x \in 1 .. Len(list) : r[k] = list[x]
  BY <1>1, <1>7, <1>8
<1> QED
  BY <1>1, <1>8, <1>9, <1>10 DEF r

LEMMA OfTwo ==
  ASSUME NEW a \in Int, NEW b \in Int
  PROVE  /\ Max({a, b}) \in {a, b} /\ a <= Max({a, b}) /\ b <= Max({a, b})
         /\ Min({a, b}) \in {a, b} /\ Min({a, b}) <= a /\ Min({a, b}) <= b
<1>1. \E x \in {a, b} : \A y \in {a, b} : x >= y
  <2>1. CASE a >= b
    BY <2>1
  <2>2. CASE b >= a
    BY <2>2
  <2> QED
    BY <2>1, <2>2
<1>2. \E x \in {a, b} : \A y \in {a, b} : x <= y
  <2>1. CASE a >= b
    BY <2>1
  <2>2. CASE b >= a
    BY <2>2
  <2> QED
    BY <2>1, <2>2
<1>3. Max({a, b}) \in {a, b} /\ \A y \in {a, b} : Max({a, b}) >= y
  BY <1>1 DEF Max
<1>4. Min({a, b}) \in {a, b} /\ \A y \in {a, b} : Min({a, b}) <= y
  BY <1>2 DEF Min
<1> QED
  BY <1>3, <1>4

\* The groups of points are apart and in order; the first samples of all are
\* on the curve, and, unless the arrays are full, a saturation with its tail
\* lies in one of them, which is wide enough to stay.
LEMMA Grouped ==
  ASSUME points \subseteq Pos, points # {}, tails \subseteq 0 .. N, TailRuns
  PROVE  /\ Groups \in Seq((0 .. N) \X (0 .. N)) /\ Len(Groups) \in 1 .. MaxEvents
         /\ \A k \in 1 .. Len(Groups) : Groups[k][1] \in Pos /\ Groups[k][1] <= Groups[k][2]
         /\ \A i, j \in 1 .. Len(Groups) : i < j => Groups[i][1] < Groups[j][1] /\ Groups[i][2] < Groups[j][1]
         /\ Len(Groups) < MaxEvents =>
              \A p \in tails : \E k \in 1 .. Len(Groups) : /\ p \in Groups[k][1] .. Groups[k][2]
                                                           /\ ~(Groups[k][2] - Groups[k][1] < MinWidth)
<1>0. N \in Nat /\ EventDis \in Nat /\ EventDis > 0 /\ MaxEvents \in Nat /\ MaxEvents > 0 /\ MinWidth \in Nat /\ N > 0
  BY SizesAssumption
<1> DEFINE filled == Filled
           starts == {p \in filled : filled \cap (p - EventDis .. p - 1) = {}}
           within(p) == {q \in filled : q >= p /\ starts \cap (p + 1 .. q) = {}}
           n == Cardinality(starts)
           f == Ascending(starts)
           K == Min({MaxEvents, n})
<1>1. /\ filled \subseteq 0 .. N /\ 0 \in filled /\ tails \subseteq filled
      /\ N \in filled => N \in tails
  <2> DEFINE all == points \cup tails
             least == Min(all)
  <2>1. all \in SUBSET Nat /\ all # {} /\ all \subseteq 0 .. N
    BY <1>0 DEF Pos
  <2>2. least \in all /\ \A x \in all : least <= x
    <3> HIDE DEF all
    <3> QED
      BY <2>1, Least
  <2>3. PICK x \in points : x \in 0 .. N - 1
    BY DEF Pos
  <2>4. filled = all \cup 0 .. least
    BY DEF Filled
  <2> HIDE DEF least
  <2>5. least \in 0 .. N - 1
    BY <1>0, <2>1, <2>2, <2>3
  <2> HIDE DEF filled
  <2>6. filled \subseteq 0 .. N /\ 0 \in filled
    BY <1>0, <2>1, <2>4, <2>5
  <2>7. tails \subseteq filled
    BY <2>4
  <2>8. N \in filled => N \in tails
    <3>1. N \notin points
      BY <1>0 DEF Pos
    <3>2. N \notin 0 .. least
      BY <1>0, <2>5
    <3> QED
      BY <2>4, <3>1, <3>2
  <2> QED
    BY <2>6, <2>7, <2>8
<1>2. Groups = [k \in 1 .. Min({MaxEvents, Len(f)}) |-> <<f[k], Max(within(f[k]))>>]
  BY DEF Groups
<1>3. starts \subseteq filled /\ \A x \in filled : x \in starts <=> filled \cap (x - EventDis .. x - 1) = {}
  OBVIOUS
<1>4. \A p : within(p) = {q \in filled : q >= p /\ starts \cap (p + 1 .. q) = {}}
  OBVIOUS
<1> HIDE DEF filled
<1>5. starts \subseteq 0 .. N - 1 /\ 0 \in starts
  <2> HIDE DEF starts
  <2>1. 0 \in starts
    <3>1. filled \cap (0 - EventDis .. 0 - 1) = {}
      BY <1>0, <1>1
    <3> QED
      BY <1>1, <1>3, <3>1
  <2>2. SUFFICES ASSUME N \in starts PROVE FALSE
    <3>1. ASSUME NEW x \in starts PROVE x \in 0 .. N - 1
      <4>1. x \in 0 .. N /\ x # N
        BY <1>1, <1>3, <2>2, <3>1
      <4> QED
        BY <1>0, <4>1
    <3> QED
      BY <2>1, <3>1
  <2>3. N \in tails /\ filled \cap (N - EventDis .. N - 1) = {}
    BY <1>1, <1>3, <2>2
  <2>4. PICK lo \in 0 .. N, hi \in 0 .. N : N \in lo .. hi /\ lo .. hi \subseteq tails /\ lo + MinWidth <= hi
    BY <2>3 DEF TailRuns
  <2>5. MinWidth > 0
    BY SizesAssumption
  <2>6. N - 1 \in lo .. hi /\ N - 1 \in N - EventDis .. N - 1
    BY <1>0, <2>4, <2>5
  <2>7. N - 1 \in filled
    BY <1>1, <2>4, <2>6
  <2> QED
    BY <2>3, <2>6, <2>7
<1>6. /\ n \in Nat /\ n > 0 /\ f \in [1 .. n -> starts] /\ Len(f) = n
      /\ \A i, j \in 1 .. n : i < j => f[i] < f[j]
      /\ \A x \in starts : \E i \in 1 .. n : f[i] = x
  <2> HIDE DEF starts
  <2>1. IsFiniteSet(0 .. N - 1)
    <3>1. 0 \in Int /\ N - 1 \in Int
      BY <1>0
    <3> QED
      BY <3>1, FS_Interval
  <2>2. IsFiniteSet(starts) /\ starts \in SUBSET Nat
    <3>1. IsFiniteSet(starts)
      BY <1>5, <2>1, FS_Subset
    <3> QED
      BY <1>0, <1>5, <3>1
  <2>3. /\ n \in Nat /\ f \in [1 .. n -> starts]
        /\ \A i, j \in 1 .. n : i < j => f[i] < f[j]
        /\ \A x \in starts : \E i \in 1 .. n : f[i] = x
    BY <2>2, Ascends
  <2> HIDE DEF n, f
  <2>4. PICK i \in 1 .. n : f[i] = 0
    BY <1>5, <2>3
  <2>5. n > 0
    BY <2>3, <2>4
  <2>6. Len(f) = n
    BY <2>3
  <2> QED
    BY <2>3, <2>5, <2>6
<1> HIDE DEF starts, n, f
<1>7. K \in Nat /\ 1 <= K /\ K <= n /\ K <= MaxEvents /\ (K = n \/ K = MaxEvents)
  <2>1. MaxEvents \in Int /\ n \in Int
    BY <1>0, <1>6
  <2>2. K \in {MaxEvents, n} /\ K <= MaxEvents /\ K <= n
    BY <2>1, OfTwo
  <2> HIDE DEF K
  <2> QED
    BY <1>0, <1>6, <2>2
<1>8. Groups = [k \in 1 .. K |-> <<f[k], Max(within(f[k]))>>]
  BY <1>2, <1>6
<1> HIDE DEF K
<1>9. ASSUME NEW p \in starts
      PROVE  /\ Max(within(p)) \in filled /\ p <= Max(within(p))
             /\ starts \cap (p + 1 .. Max(within(p))) = {}
             /\ \A q \in filled : q >= p /\ starts \cap (p + 1 .. q) = {} => q <= Max(within(p))
  <2> DEFINE W == within(p)
  <2>1. p \in filled /\ p \in Nat
    BY <1>0, <1>3, <1>5
  <2>2. p + 1 .. p = {}
    BY <2>1
  <2>3. p >= p
    BY <2>1
  <2>4. p \in W
    BY <2>1, <2>2, <2>3
  <2>5. W \subseteq 0 .. N
    BY <1>1
  <2>6. \A q : q \in W <=> q \in filled /\ q >= p /\ starts \cap (p + 1 .. q) = {}
    OBVIOUS
  <2> HIDE DEF W
  <2>7. Max(W) \in W /\ \A x \in W : x <= Max(W)
    BY <1>0, <2>4, <2>5, Greatest
  <2>8. Max(W) >= p => p <= Max(W)
    <3>1. Max(W) \in 0 .. N
      BY <2>5, <2>7
    <3> QED
      BY <1>0, <2>1, <3>1
  <2>9. /\ Max(W) \in filled /\ p <= Max(W) /\ starts \cap (p + 1 .. Max(W)) = {}
        /\ \A q \in filled : q >= p /\ starts \cap (p + 1 .. q) = {} => q <= Max(W)
    BY <2>6, <2>7, <2>8
  <2> QED
    BY <2>9 DEF W
<1> DEFINE last == [k \in 1 .. K |-> Max(within(f[k]))]
<1>10. Groups = [k \in 1 .. K |-> <<f[k], last[k]>>]
  BY <1>8
<1>11. \A k \in 1 .. K : /\ f[k] \in starts /\ f[k] \in 0 .. N - 1 /\ last[k] \in 0 .. N /\ f[k] <= last[k]
                         /\ starts \cap (f[k] + 1 .. last[k]) = {}
                         /\ \A q \in filled : q >= f[k] /\ starts \cap (f[k] + 1 .. q) = {} => q <= last[k]
  <2>1. TAKE k \in 1 .. K
  <2>2. f[k] \in starts /\ f[k] \in 0 .. N - 1
    <3>1. k \in 1 .. n
      BY <1>6, <1>7
    <3>2. f[k] \in starts
      BY <1>6, <3>1
    <3> QED
      BY <1>5, <3>2
  <2>3. last[k] = Max(within(f[k]))
    OBVIOUS
  <2> HIDE DEF last, within
  <2> QED
    BY <1>1, <1>9, <2>2, <2>3
<1> HIDE DEF last, within
<1>12. Groups \in Seq((0 .. N) \X (0 .. N)) /\ Len(Groups) = K
  <2>1. \A k \in 1 .. K : <<f[k], last[k]>> \in (0 .. N) \X (0 .. N)
    <3>1. 0 .. N - 1 \subseteq 0 .. N
      BY <1>0
    <3> QED
      BY <1>11, <3>1
  <2> QED
    BY <1>7, <1>10, <2>1
<1>13. \A k \in 1 .. K : Groups[k][1] = f[k] /\ Groups[k][2] = last[k]
  BY <1>10
<1>14. \A i, j \in 1 .. K : i < j => f[i] < f[j] /\ last[i] < f[j]
  <2>1. SUFFICES ASSUME NEW i \in 1 .. K, NEW j \in 1 .. K, i < j PROVE f[i] < f[j] /\ last[i] < f[j]
    OBVIOUS
  <2>2. f[i] < f[j]
    BY <1>6, <1>7, <2>1
  <2>3. f[j] \in starts /\ starts \cap (f[i] + 1 .. last[i]) = {}
    BY <1>11
  <2>4. f[i] \in Nat /\ f[j] \in Nat /\ last[i] \in Nat
    BY <1>0, <1>11
  <2> QED
    BY <2>2, <2>3, <2>4
<1>15. ASSUME K < MaxEvents, NEW p \in tails
       PROVE  \E k \in 1 .. K : p \in f[k] .. last[k] /\ ~(last[k] - f[k] < MinWidth)
  <2>1. PICK lo \in 0 .. N, hi \in 0 .. N : p \in lo .. hi /\ lo .. hi \subseteq tails /\ lo + MinWidth <= hi
    BY DEF TailRuns
  <2> DEFINE before == {x \in starts : x <= lo}
  <2>2. before \in SUBSET (0 .. N) /\ 0 \in before
    <3>1. \A x \in before : x \in starts
      OBVIOUS
    <3>2. \A x \in starts : x \in 0 .. N
      BY <1>0, <1>5
    <3>3. 0 \in before
      BY <1>0, <1>5
    <3> HIDE DEF before
    <3> QED
      BY <3>1, <3>2, <3>3
  <2>3. \A x \in starts : x <= lo => x \in before
    OBVIOUS
  <2>4. PICK s \in starts : s <= lo /\ \A x \in starts : x <= lo => x <= s
    <3>1. \A x \in before : x \in starts /\ x <= lo
      OBVIOUS
    <3> HIDE DEF before
    <3>2. Max(before) \in before /\ \A x \in before : x <= Max(before)
      BY <1>0, <2>2, Greatest
    <3> QED
      BY <2>3, <3>1, <3>2
  <2>5. PICK k \in 1 .. K : f[k] = s
    BY <1>6, <1>7, <1>15
  <2>6. s \in 0 .. N - 1 /\ lo \in Nat /\ hi \in Nat /\ lo <= hi /\ s <= lo /\ s \in Nat
    BY <1>0, <1>5, <2>1, <2>4
  <2>7. starts \cap (s + 1 .. hi) = {}
    <3>1. SUFFICES ASSUME NEW x \in starts, x \in s + 1 .. hi PROVE FALSE
      OBVIOUS
    <3>2. x \in Nat /\ s < x /\ x <= hi
      BY <2>6, <3>1
    <3>3. ~(x <= lo)
      BY <2>4, <2>6, <3>2
    <3>4. x - 1 \in lo .. hi /\ x - 1 \in x - EventDis .. x - 1
      BY <1>0, <2>6, <3>2, <3>3
    <3>5. x - 1 \in filled
      BY <1>1, <2>1, <3>4
    <3>6. filled \cap (x - EventDis .. x - 1) = {}
      BY <1>3
    <3> QED
      BY <3>4, <3>5, <3>6
  <2>8. hi \in filled /\ hi >= s
    <3>1. hi \in lo .. hi
      BY <2>6
    <3> QED
      BY <1>1, <2>1, <2>6, <3>1
  <2>9. hi <= last[k] /\ last[k] \in 0 .. N
    BY <1>11, <2>5, <2>7, <2>8
  <2> QED
    BY <1>0, <2>1, <2>5, <2>6, <2>9
<1> QED
  BY <1>0, <1>7, <1>11, <1>12, <1>13, <1>14, <1>15, SMTT(40) DEF Pos

-----------------------------------------------------------------------------
(* The passes of the search                                                *)

LEMMA Sizes ==
  /\ MaxPieces \in Nat /\ N \in Nat /\ M \in Nat /\ EventDis \in Nat /\ MinWidth \in Nat /\ MaxCount \in Nat /\ MaxEvents \in Nat
  /\ TailLen \in Nat /\ ConcatPoint \in 0 .. N - 1 /\ Gap \in Nat
  /\ N > 0 /\ M > 0 /\ MinWidth > 0 /\ MaxEvents > 0 /\ Gap > 0 /\ MinWidth <= MaxCount /\ N > 2 * M
BY SizesAssumption, GapAssumption DEF Pos

LEMMA OnCurve ==
  ASSUME Typed
  PROVE  conf \in [Settings -> BOOLEAN] /\ delta \in [Pos -> {-1, 0, 1, 2}] /\ sat \subseteq Pos
<1> DEFINE m == [conf |-> conf, delta |-> delta, sat |-> sat]
<1>1. m \in [conf : [Settings -> BOOLEAN], delta : [Pos -> {-1, 0, 1, 2}], sat : SUBSET Pos]
  BY SizesAssumption DEF Typed
<1>2. m.conf = conf /\ m.delta = delta /\ m.sat = sat
  OBVIOUS
<1> QED
  BY <1>1, <1>2

\* The search leaves the numbers of the report alone.
LEMMA SearchQuiet ==
  ASSUME EventInv, UNCHANGED <<sums, report>>, pc # "free", pc' \notin {"coefs", "group", "free"}
  PROVE  Counted' /\ GroupsOK' /\ Sections' /\ Losses' /\ Reported'
<1>1. /\ il' = il /\ egs' = egs /\ egNum' = egNum /\ gi' = gi /\ lastG' = lastG /\ lastE' = lastE
      /\ filtered' = filtered /\ report' = report
  BY DEF sums
<1>2. Counted'
  BY <1>1 DEF EventInv, Counted
<1>3. GroupsOK' /\ Sections' /\ Losses'
  BY DEF GroupsOK, Sections, Losses
<1>4. report' = <<>>
  BY <1>1 DEF EventInv, Reported
<1>5. OneEnd' /\ NumbersOfTheirEvents'
  BY <1>4 DEF OneEnd, NumbersOfTheirEvents, SectionOfItsEvent, LossOfItsEvent
<1> QED
  BY <1>2, <1>3, <1>4, <1>5 DEF Reported

\* Before the list is made, nothing is asked of it.
LEMMA NoListYet ==
  ASSUME pc' \in {"sat", "find", "filter", "wild"}
  PROVE  ListOK' /\ EndsOK' /\ SatIndicesFresh' /\ SaturationKept'
BY DEF ListOK, EndsOK, SatIndicesFresh, SaturationKept, Searching, Reporting

LEMMA StartKeeps ==
  ASSUME EventInv, Start, UNCHANGED <<sums, report>>
  PROVE  EventInv'
<1>1. PICK m \in Inputs :
        /\ conf' = m.conf /\ delta' = m.delta /\ sat' = m.sat
        /\ scan' = [i |-> IF m.conf.concat THEN ConcatPoint ELSE 0, last |-> FALSE, start |-> 0, top |-> 0]
  BY DEF Start
<1>2. /\ pc = "idle" /\ pc' = "sat" /\ tails' = {} /\ points' = points /\ ev' = ev /\ satEv' = satEv /\ oob' = oob
  BY DEF Start
<1>3. [conf |-> conf', delta |-> delta', sat |-> sat'] \in Inputs
  <2>1. m \in [conf : [Settings -> BOOLEAN], delta : [Pos -> {-1, 0, 1, 2}], sat : SUBSET Pos]
    BY SizesAssumption
  <2>2. m = [conf |-> m.conf, delta |-> m.delta, sat |-> m.sat]
    BY <2>1
  <2> QED
    BY <1>1, <2>2
<1>4. scan' \in [i : Nat, last : BOOLEAN, start : Nat, top : Nat] /\ scan'.last = FALSE
  <2>1. ConcatPoint \in Nat /\ 0 \in Nat /\ FALSE \in BOOLEAN
    BY Sizes
  <2> QED
    BY <1>1, <2>1
<1>5. Typed'
  BY <1>2, <1>3, <1>4 DEF EventInv, Typed, Passes
<1>6. Scanned'
  BY <1>2, <1>4 DEF Scanned
<1>7. TailRuns' /\ EmptyOnlyIfNothingFound'
  BY <1>2 DEF TailRuns, EmptyOnlyIfNothingFound, EventInv
<1> QED
  BY <1>2, <1>5, <1>6, <1>7, SearchQuiet, NoListYet DEF EventInv

\* A plateau ends, at the latest behind the last sample.
LEMMA PlateauEnds ==
  ASSUME Typed, NEW i \in 0 .. N - 1
  PROVE  PlateauEnd(i) \in i + 1 .. N
<1> DEFINE S == {j \in i + 1 .. N : j \notin sat}
<1>1. N \in S
  BY Sizes, OnCurve DEF Pos
<1>2. S \in SUBSET Nat /\ \A j : j \in S <=> j \in i + 1 .. N /\ j \notin sat
  BY Sizes
<1> HIDE DEF S
<1>3. PICK m \in S : \A x \in S : m <= x
  BY <1>1, <1>2, Smallest
<1>4. i + 1 .. m - 1 \subseteq sat
  <2>1. SUFFICES ASSUME NEW x \in i + 1 .. m - 1, x \notin sat PROVE FALSE
    OBVIOUS
  <2>2. m \in i + 1 .. N /\ i \in Nat
    BY <1>2, Sizes
  <2>3. x \in i + 1 .. N /\ ~(m <= x)
    BY <2>2, Sizes
  <2> QED
    BY <1>2, <1>3, <2>1, <2>3
<1> QED
  BY <1>2, <1>3, <1>4 DEF PlateauEnd

LEMMA SatPlateauKeeps ==
  ASSUME EventInv, SatPlateau, UNCHANGED <<sums, report>>
  PROVE  EventInv'
<1>1. /\ pc = "sat" /\ pc' = pc /\ tails' = tails /\ points' = points /\ ev' = ev /\ satEv' = satEv /\ oob' = oob
      /\ conf' = conf /\ delta' = delta /\ sat' = sat /\ scan.i < N
  BY DEF SatPlateau, curve
<1>2. Typed /\ Scanned /\ TailRuns /\ EmptyOnlyIfNothingFound
  BY DEF EventInv
<1>3. scan \in [i : Nat, last : BOOLEAN, start : Nat, top : Nat]
  BY <1>2 DEF Typed
<1>4. PICK j : j = PlateauEnd(scan.i)
  OBVIOUS
<1>5. j \in scan.i + 1 .. N /\ scan.i \in Nat
  BY <1>1, <1>2, <1>3, <1>4, PlateauEnds, Sizes
<1>6. \/ /\ scan' = [i |-> j + 1, last |-> TRUE, start |-> scan.i, top |-> j]
         /\ j - scan.i >= MaxCount
      \/ scan' = [scan EXCEPT !.i = j + 1]
  BY <1>4 DEF SatPlateau
<1>7. /\ scan' \in [i : Nat, last : BOOLEAN, start : Nat, top : Nat]
      /\ scan'.last => scan'.start + MaxCount <= scan'.top /\ scan'.top <= N
  <2>1. CASE scan' = [i |-> j + 1, last |-> TRUE, start |-> scan.i, top |-> j] /\ j - scan.i >= MaxCount
    <3>1. j \in Nat /\ j + 1 \in Nat /\ scan.i + MaxCount <= j /\ j <= N
      BY <1>5, <2>1, Sizes
    <3> QED
      BY <1>5, <2>1, <3>1
  <2>2. CASE scan' = [scan EXCEPT !.i = j + 1]
    <3>1. j + 1 \in Nat
      BY <1>5, Sizes
    <3>2. scan'.last = scan.last /\ scan'.start = scan.start /\ scan'.top = scan.top
      BY <1>3, <2>2
    <3>3. scan' \in [i : Nat, last : BOOLEAN, start : Nat, top : Nat]
      BY <1>3, <2>2, <3>1
    <3> QED
      BY <1>1, <1>2, <3>2, <3>3 DEF Scanned
  <2> QED
    BY <1>6, <2>1, <2>2
<1>8. Typed'
  BY <1>1, <1>2, <1>7 DEF Typed
<1>9. Scanned'
  BY <1>1, <1>7 DEF Scanned
<1>10. TailRuns' /\ EmptyOnlyIfNothingFound'
  BY <1>1, <1>2 DEF TailRuns, EmptyOnlyIfNothingFound
<1> QED
  BY <1>1, <1>8, <1>9, <1>10, SearchQuiet, NoListYet DEF EventInv

LEMMA SatTailKeeps ==
  ASSUME EventInv, SatTail, UNCHANGED <<sums, report>>
  PROVE  EventInv'
<1>1. /\ pc = "sat" /\ pc' = pc /\ points' = points /\ ev' = ev /\ satEv' = satEv /\ oob' = oob
      /\ conf' = conf /\ delta' = delta /\ sat' = sat
  BY DEF SatTail, curve
<1>2. Typed /\ Scanned /\ TailRuns /\ EmptyOnlyIfNothingFound
  BY DEF EventInv
<1>3. scan \in [i : Nat, last : BOOLEAN, start : Nat, top : Nat] /\ tails \subseteq 0 .. N
  BY <1>2 DEF Typed
<1>4. CASE ~scan.last
  <2>1. scan' = [scan EXCEPT !.i = @ + 1] /\ tails' = tails
    BY <1>4 DEF SatTail
  <2>2. scan.i + 1 \in Nat
    BY <1>3
  <2>3. scan' \in [i : Nat, last : BOOLEAN, start : Nat, top : Nat] /\ scan'.last = scan.last
    BY <1>3, <2>1, <2>2
  <2>4. Typed'
    BY <1>1, <1>2, <2>1, <2>3 DEF Typed
  <2>5. Scanned'
    BY <1>1, <1>4, <2>3 DEF Scanned
  <2>6. TailRuns' /\ EmptyOnlyIfNothingFound'
    BY <1>1, <1>2, <2>1 DEF TailRuns, EmptyOnlyIfNothingFound
  <2> QED
    BY <1>1, <2>4, <2>5, <2>6, SearchQuiet, NoListYet DEF EventInv
<1>5. CASE scan.last
  <2>1. PICK te \in scan.top .. Min({scan.top + TailLen, N}) :
          /\ tails' = tails \cup (scan.start .. te)
          /\ scan' = [scan EXCEPT !.i = te + 1, !.last = FALSE]
    BY <1>5 DEF SatTail
  <2>2. scan.start \in Nat /\ scan.top \in Nat /\ scan.start + MaxCount <= scan.top
    BY <1>1, <1>2, <1>3, <1>5 DEF Scanned
  <2>3. te \in 0 .. N /\ scan.start \in 0 .. N /\ scan.start + MinWidth <= te /\ te + 1 \in Nat
    <3>1. scan.top + TailLen \in Int /\ N \in Int
      BY <2>2, Sizes
    <3>2. Min({scan.top + TailLen, N}) \in Int /\ Min({scan.top + TailLen, N}) <= N
      BY <3>1, OfTwo
    <3> QED
      BY <2>1, <2>2, <3>2, Sizes
  <2>4. scan' \in [i : Nat, last : BOOLEAN, start : Nat, top : Nat] /\ scan'.last = FALSE
    BY <1>3, <2>1, <2>3
  <2>5. tails' \subseteq 0 .. N
    BY <1>3, <2>1, <2>3, Sizes
  <2>6. Typed'
    BY <1>1, <1>2, <2>4, <2>5 DEF Typed
  <2>7. Scanned'
    BY <1>1, <2>4 DEF Scanned
  <2>8. TailRuns'
    <3>1. SUFFICES ASSUME NEW p \in tails'
                   PROVE  \E lo, hi \in 0 .. N : p \in lo .. hi /\ lo .. hi \subseteq tails' /\ lo + MinWidth <= hi
      BY DEF TailRuns
    <3>2. CASE p \in tails
      <4>1. PICK lo \in 0 .. N, hi \in 0 .. N : p \in lo .. hi /\ lo .. hi \subseteq tails /\ lo + MinWidth <= hi
        BY <1>2, <3>2 DEF TailRuns
      <4>2. lo .. hi \subseteq tails'
        BY <2>1, <4>1
      <4> QED
        BY <4>1, <4>2
    <3>3. CASE p \in scan.start .. te
      <4>1. scan.start .. te \subseteq tails'
        BY <2>1
      <4> QED
        BY <2>3, <3>3, <4>1
    <3> QED
      BY <2>1, <3>1, <3>2, <3>3
  <2>9. EmptyOnlyIfNothingFound'
    BY <1>1, <1>2 DEF EmptyOnlyIfNothingFound
  <2> QED
    BY <1>1, <2>6, <2>7, <2>8, <2>9, SearchQuiet, NoListYet DEF EventInv
<1> QED
  BY <1>4, <1>5

LEMMA SatDoneKeeps ==
  ASSUME EventInv, SatDone, UNCHANGED <<sums, report>>
  PROVE  EventInv'
<1>1. /\ pc = "sat" /\ pc' = "find" /\ points' = points /\ ev' = ev /\ satEv' = satEv /\ oob' = oob
      /\ conf' = conf /\ delta' = delta /\ sat' = sat /\ scan' = scan /\ tails' = tails
  BY DEF SatDone, curve
<1>2. Typed'
  BY <1>1 DEF EventInv, Typed, Passes
<1>3. Scanned' /\ TailRuns' /\ EmptyOnlyIfNothingFound'
  BY <1>1 DEF Scanned, TailRuns, EmptyOnlyIfNothingFound, EventInv
<1> QED
  BY <1>1, <1>2, <1>3, SearchQuiet, NoListYet DEF EventInv

\* Points found between two samples lie between them, moved by the width.
LEMMA PointsOnCurve ==
  ASSUME NEW from \in Nat, NEW to \in Int, to + M <= N - 1, NEW back \in Backs(from, to)
  PROVE  FoundPoints(from, to, back) \subseteq Pos
<1>1. back \in [Refined(from, to) -> 0 .. M] /\ Refined(from, to) \subseteq from .. to
  BY DEF Backs, Refined
<1>2. ASSUME NEW i \in from .. to PROVE i + M \in Pos
  BY Sizes DEF Pos
<1>3. ASSUME NEW i \in Refined(from, to), NEW x \in Max({0, i - back[i]}) + M .. i + M PROVE x \in Pos
  <2>1. i \in from .. to /\ back[i] \in 0 .. M
    BY <1>1
  <2>2. i \in Int /\ i - back[i] \in Int /\ M \in Nat
    BY <2>1, Sizes
  <2>3. Max({0, i - back[i]}) \in Int /\ 0 <= Max({0, i - back[i]})
    <3>1. PICK b \in Int : b = i - back[i]
      BY <2>2
    <3>2. 0 \in Int
      OBVIOUS
    <3>3. Max({0, b}) \in {0, b} /\ 0 <= Max({0, b})
      BY <3>2, OfTwo
    <3> QED
      BY <3>1, <3>3
  <2> HIDE DEF Pos
  <2>4. x \in 0 .. N - 1
    BY <2>1, <2>2, <2>3, Sizes
  <2> QED
    BY <2>4 DEF Pos
<1>4. DOMAIN back = Refined(from, to)
  BY <1>1
<1>5. ASSUME NEW x \in FoundPoints(from, to, back) PROVE x \in Pos
  <2>1. \/ \E i \in from .. to : x = i + M
        \/ \E i \in Refined(from, to) : x \in Max({0, i - back[i]}) + M .. i + M
    BY <1>4 DEF FoundPoints
  <2> QED
    BY <1>2, <1>3, <2>1
<1> QED
  BY <1>5

LEMMA FindLargeKeeps ==
  ASSUME EventInv, FindLarge, UNCHANGED <<sums, report>>
  PROVE  EventInv'
<1> DEFINE end == N - 1 - 2 * M
           lowEnd == IF conf.concat THEN ConcatPoint - M - 1 ELSE 0
           lowFrom == IF conf.concat THEN 0 ELSE 1
<1>1. /\ pc = "find" /\ ev' = ev /\ satEv' = satEv /\ scan' = scan /\ tails' = tails
      /\ conf' = conf /\ delta' = delta /\ sat' = sat
  BY DEF FindLarge, curve
<1>2. Typed /\ TailRuns
  BY DEF EventInv
<1>3. /\ (pc' = "wild" /\ oob' = "unset") \/ (pc' = "filter" /\ oob' = oob)
  BY DEF FindLarge, Wild
<1>4. points' \subseteq Pos
  <2>1. PICK bh \in Backs(FromPoint, end), bl \in Backs(lowFrom, lowEnd) :
          points' = FoundPoints(FromPoint, end, bh) \cup FoundPoints(lowFrom, lowEnd, bl)
    BY DEF FindLarge
  <2>2. FromPoint \in Nat /\ end \in Int /\ end + M <= N - 1
    BY Sizes DEF FromPoint
  <2>3. lowFrom \in Nat /\ lowEnd \in Int /\ lowEnd + M <= N - 1
    BY Sizes
  <2> HIDE DEF end, lowEnd, lowFrom
  <2>4. FoundPoints(FromPoint, end, bh) \subseteq Pos
    BY <2>2, PointsOnCurve
  <2>5. FoundPoints(lowFrom, lowEnd, bl) \subseteq Pos
    BY <2>3, PointsOnCurve
  <2> QED
    BY <2>1, <2>4, <2>5
<1>5. oob = "none"
  BY <1>1, <1>2 DEF Typed
<1>6. Typed'
  BY <1>1, <1>2, <1>3, <1>4, <1>5 DEF Typed, Passes, Causes
<1>7. Scanned' /\ EmptyOnlyIfNothingFound'
  BY <1>3, <1>5 DEF Scanned, EmptyOnlyIfNothingFound
<1>8. TailRuns'
  BY <1>1, <1>2 DEF TailRuns
<1> QED
  BY <1>1, <1>3, <1>6, <1>7, <1>8, SearchQuiet, NoListYet DEF EventInv

LEMMA FindSkippedKeeps ==
  ASSUME EventInv, FindSkipped, UNCHANGED <<sums, report>>
  PROVE  EventInv'
<1>1. /\ pc = "find" /\ pc' = "wild" /\ oob' = "unallocated"
      /\ points' = points /\ ev' = ev /\ satEv' = satEv
      /\ conf' = conf /\ delta' = delta /\ sat' = sat /\ scan' = scan /\ tails' = tails
  BY DEF FindSkipped, Wild, curve
<1>2. Typed'
  BY <1>1 DEF EventInv, Typed, Passes, Causes
<1>3. Scanned' /\ TailRuns' /\ EmptyOnlyIfNothingFound'
  BY <1>1 DEF Scanned, TailRuns, EmptyOnlyIfNothingFound, EventInv
<1> QED
  BY <1>1, <1>2, <1>3, SearchQuiet, NoListYet DEF EventInv

LEMMA EventPointsFilterKeeps ==
  ASSUME EventInv, EventPointsFilter, UNCHANGED <<sums, report>>
  PROVE  EventInv'
<1>1. /\ pc = "filter" /\ pc' = "mark1" /\ oob' = oob /\ points' = points /\ satEv' = satEv
      /\ conf' = conf /\ delta' = delta /\ sat' = sat /\ scan' = scan /\ tails' = tails
  BY DEF EventPointsFilter, curve
<1>2. Typed /\ TailRuns /\ EmptyOnlyIfNothingFound
  BY DEF EventInv
<1>3. Groups' = Groups
  BY <1>1 DEF Groups, Filled
<1>4. /\ ev' \in Seq(Event) /\ Len(ev') <= MaxEvents /\ Sorted(ev') /\ Lasting(ev')
      /\ points # {} => ev' # <<>>
      /\ \A k \in 1 .. Len(ev') : ev'[k].t \in Kinds
      /\ ev' # <<>> /\ Len(Groups) < MaxEvents =>
           \A p \in tails : \E k \in DOMAIN ev' : p \in ev'[k].s .. ev'[k].e
  <2>1. CASE points = {}
    <3>1. ev' = <<>>
      BY <2>1 DEF EventPointsFilter
    <3>2. <<>> \in Seq(Event) /\ Len(<<>>) = 0
      OBVIOUS
    <3> QED
      BY <2>1, <3>1, <3>2, Sizes DEF Sorted, Lasting
  <2>2. CASE points # {}
    <3> DEFINE narrow(all) == {k \in DOMAIN all : k > 1 /\ all[k][2] - all[k][1] < MinWidth}
               T == (0 .. N) \X (0 .. N)
    <3>1. PICK all : all = Groups
      OBVIOUS
    <3>2. PICK bad : bad = narrow(all)
      OBVIOUS
    <3>3. PICK g : g = KickOutOfArray(all, bad)
      OBVIOUS
    <3>4. PICK t \in [DOMAIN g -> {"reflect", "nonreflect"}] :
            ev' = [k \in DOMAIN g |-> [s |-> g[k][1], e |-> g[k][2], t |-> t[k]]]
      BY <2>2, <3>1, <3>2, <3>3 DEF EventPointsFilter
    <3>5. /\ all \in Seq(T) /\ Len(all) \in 1 .. MaxEvents
          /\ \A k \in 1 .. Len(all) : all[k][1] \in Pos /\ all[k][1] <= all[k][2]
          /\ \A i, j \in 1 .. Len(all) : i < j => all[i][1] < all[j][1] /\ all[i][2] < all[j][1]
          /\ Len(all) < MaxEvents =>
               \A p \in tails : \E k \in 1 .. Len(all) : /\ p \in all[k][1] .. all[k][2]
                                                         /\ ~(all[k][2] - all[k][1] < MinWidth)
      <4>1. points \subseteq Pos /\ tails \subseteq 0 .. N /\ TailRuns
        BY <1>2 DEF Typed
      <4> QED
        BY <2>2, <3>1, <4>1, Grouped
    <3>6. \A k \in 1 .. Len(all) : k \in bad <=> k > 1 /\ all[k][2] - all[k][1] < MinWidth
      BY <3>2, <3>5
    <3>7a. PICK f : Picks(f, g, all, bad)
      <4> HIDE DEF T
      <4>1. all \in Seq(T)
        BY <3>5
      <4>2. \E f : Picks(f, KickOutOfArray(all, bad), all, bad)
        BY <4>1, Kicked
      <4> QED
        BY <3>3, <4>2
    <3>7. /\ f \in [1 .. Len(g) -> 1 .. Len(all)]
          /\ \A k \in 1 .. Len(g) : g[k] = all[f[k]] /\ f[k] \notin bad /\ k <= f[k]
          /\ \A i, j \in 1 .. Len(g) : i < j => f[i] < f[j]
          /\ \A x \in 1 .. Len(all) : x \notin bad => \E i \in 1 .. Len(g) : f[i] = x
      BY <3>7a DEF Picks
    <3>8. g \in Seq(T) /\ Len(g) <= Len(all)
      BY <3>3, <3>5, Kicked
    <3> HIDE DEF narrow, T
    <3>9. DOMAIN g = 1 .. Len(g) /\ Len(g) \in Nat
      BY <3>8
    <3>10. \A k \in 1 .. Len(g) : g[k][1] \in Pos /\ g[k][2] \in 0 .. N /\ g[k][1] <= g[k][2]
      <4>1. TAKE k \in 1 .. Len(g)
      <4>2. f[k] \in 1 .. Len(all) /\ g[k] = all[f[k]]
        BY <3>7
      <4>3. all[f[k]] \in T
        BY <3>5, <4>2
      <4> QED
        BY <3>5, <4>2, <4>3 DEF T
    <3>11. /\ Len(ev') = Len(g) /\ DOMAIN ev' = 1 .. Len(g)
           /\ \A k \in 1 .. Len(g) : ev'[k].s = g[k][1] /\ ev'[k].e = g[k][2] /\ ev'[k].t = t[k]
           /\ ev' \in Seq(Event)
      <4>1. \A k \in 1 .. Len(g) : t[k] \in {"reflect", "nonreflect"}
        BY <3>4, <3>9
      <4>2. \A k \in 1 .. Len(g) : [s |-> g[k][1], e |-> g[k][2], t |-> t[k]] \in Event
        BY <3>10, <4>1 DEF Event, Types
      <4>3. ev' = [k \in 1 .. Len(g) |-> [s |-> g[k][1], e |-> g[k][2], t |-> t[k]]]
        BY <3>4, <3>9
      <4> QED
        BY <3>9, <4>2, <4>3
    <3>12. Sorted(ev')
      <4>1. SUFFICES ASSUME NEW i \in 1 .. Len(g), NEW j \in 1 .. Len(g), i < j PROVE Ahead(ev'[i], ev'[j])
        BY <3>11 DEF Sorted
      <4>2. f[i] \in 1 .. Len(all) /\ f[j] \in 1 .. Len(all) /\ f[i] < f[j]
        BY <3>7, <4>1
      <4>3. g[i][1] < g[j][1] /\ g[i][2] < g[j][1]
        BY <3>5, <3>7, <4>2
      <4>4. g[j][1] \in Int /\ g[i][2] \in Int
        BY <3>10, Sizes, SMTT(40) DEF Pos
      <4> QED
        BY <3>11, <4>3, <4>4 DEF Ahead
    <3>13. Lasting(ev')
      BY <3>10, <3>11 DEF Lasting
    <3>14. \A k \in 1 .. Len(ev') : ev'[k].t \in Kinds
      BY <3>4, <3>9, <3>11 DEF Kinds
    <3>15. ev' # <<>>
      <4>1. 1 \in 1 .. Len(all) /\ 1 \notin bad
        BY <3>5, <3>6
      <4>2. \E i \in 1 .. Len(g) : f[i] = 1
        BY <3>7, <4>1
      <4>3. Len(ev') # 0
        BY <3>9, <3>11, <4>2
      <4> QED
        BY <4>3
    <3>16. ASSUME Len(Groups) < MaxEvents, NEW p \in tails
           PROVE  \E k \in DOMAIN ev' : p \in ev'[k].s .. ev'[k].e
      <4>1. PICK k \in 1 .. Len(all) : /\ p \in all[k][1] .. all[k][2]
                                       /\ ~(all[k][2] - all[k][1] < MinWidth)
        BY <3>1, <3>5, <3>16
      <4>2. k \notin bad
        BY <3>6, <4>1
      <4>3. PICK i \in 1 .. Len(g) : f[i] = k
        BY <3>7, <4>2
      <4>4. g[i] = all[k]
        BY <3>7, <4>3
      <4> QED
        BY <3>11, <4>1, <4>4
    <3>17. Len(ev') <= MaxEvents
      BY <3>5, <3>8, <3>9, <3>11, Sizes
    <3> QED
      BY <3>11, <3>12, <3>13, <3>14, <3>15, <3>16, <3>17
  <2> QED
    BY <2>1, <2>2
<1>5. Typed'
  BY <1>1, <1>2, <1>4 DEF Typed, Passes, Searching
<1>6. Scanned' /\ TailRuns'
  BY <1>1, <1>2 DEF Scanned, TailRuns
<1>7. ListOK'
  BY <1>1, <1>4 DEF ListOK, Reporting
<1>8. EndsOK'
  BY <1>1, <1>4 DEF EndsOK, Reporting, Indices
<1>9. SatIndicesFresh' /\ EmptyOnlyIfNothingFound'
  BY <1>1, <1>2 DEF SatIndicesFresh, EmptyOnlyIfNothingFound
<1>10. SaturationKept'
  BY <1>1, <1>3, <1>4 DEF SaturationKept
<1> QED
  BY <1>1, <1>5, <1>6, <1>7, <1>8, <1>9, <1>10, SearchQuiet DEF EventInv

LEMMA MarkKeeps ==
  ASSUME EventInv, Mark("mark1", "split") \/ Mark("mark2", "tail") \/ Mark("mark3", "end"), UNCHANGED <<sums, report>>
  PROVE  EventInv'
<1>1. /\ <<pc, pc'>> \in {<<"mark1", "split">>, <<"mark2", "tail">>, <<"mark3", "end">>}
      /\ satEv' = Ascending(Saturated(ev)) /\ scan' = [scan EXCEPT !.i = 1, !.top = Len(ev)]
      /\ oob' = oob /\ points' = points /\ ev' = ev /\ tails' = tails
      /\ conf' = conf /\ delta' = delta /\ sat' = sat
  BY DEF Mark, FindSaturateEvents, curve
<1>2. pc \in {"mark1", "mark2", "mark3"} /\ pc' \in {"split", "tail", "end"}
  BY <1>1
<1>3. Typed /\ TailRuns /\ ListOK /\ EndsOK /\ EmptyOnlyIfNothingFound
  BY DEF EventInv
<1>4. Len(ev) \in Nat /\ Len(ev) <= MaxEvents /\ DOMAIN ev = 1 .. Len(ev)
  BY <1>2, <1>3 DEF Typed
<1>5. Saturated(ev) \subseteq 1 .. Len(ev) /\ Saturated(ev)' = Saturated(ev)
  BY <1>1, <1>4 DEF Saturated
<1>6. satEv' \in Seq(Slots) /\ ToSet(satEv') = Saturated(ev)
  <2> DEFINE S == Saturated(ev)
  <2>1. PICK m \in Nat : m = Len(ev)
    BY <1>4
  <2>2. IsFiniteSet(1 .. m)
    <3>1. 1 \in Int /\ m \in Int
      OBVIOUS
    <3> QED
      BY <3>1, FS_Interval
  <2>3. S \in SUBSET (1 .. m)
    BY <1>5, <2>1
  <2> HIDE DEF S
  <2>4. IsFiniteSet(S) /\ S \in SUBSET Nat
    <3>1. IsFiniteSet(S)
      BY <2>2, <2>3, FS_Subset
    <3> QED
      BY <2>3, <3>1
  <2>5. PICK n \in Nat : satEv' \in [1 .. n -> S] /\ \A x \in S : \E i \in 1 .. n : satEv'[i] = x
    <3>1. satEv' = Ascending(S)
      BY <1>1 DEF S
    <3> QED
      BY <2>4, <3>1, Ascends
  <2>6. S \subseteq Slots
    BY <1>4, <2>1, <2>3, Sizes DEF Slots
  <2>7. DOMAIN satEv' = 1 .. n /\ satEv' \in Seq(Slots)
    <3>1. satEv' \in [1 .. n -> Slots]
      BY <2>5, <2>6
    <3> QED
      BY <3>1, SeqDef
  <2>8. ToSet(satEv') = S
    BY <2>5, <2>7 DEF ToSet
  <2> QED
    BY <2>7, <2>8 DEF S
<1>7. /\ scan' \in [i : Nat, last : BOOLEAN, start : Nat, top : Nat]
      /\ scan'.i = 1 /\ scan'.top = Len(ev)
  <2>1. scan \in [i : Nat, last : BOOLEAN, start : Nat, top : Nat]
    BY <1>3 DEF Typed
  <2> QED
    BY <1>1, <1>4, <2>1
<1>8. Typed'
  BY <1>1, <1>2, <1>3, <1>6, <1>7 DEF Typed, Passes, Searching
<1>9. Scanned'
  BY <1>1, <1>2, <1>4, <1>7 DEF Scanned
<1>10. TailRuns' /\ EmptyOnlyIfNothingFound'
  BY <1>1, <1>3 DEF TailRuns, EmptyOnlyIfNothingFound
<1>11. ListOK'
  <2>1. CASE pc = "mark1" /\ pc' = "split"
    <3>1. Sorted(ev) /\ Lasting(ev)
      BY <1>3, <2>1 DEF ListOK, Searching
    <3>2. \A i, j \in 1 .. Len(ev) : i # j => Ahead(ev[i], ev[j]) \/ Ahead(ev[j], ev[i])
      <4>1. \A i, j \in 1 .. Len(ev) : i # j => i < j \/ j < i
        BY <1>4
      <4> QED
        BY <3>1, <4>1 DEF Sorted
    <3> QED
      BY <1>1, <2>1, <3>1, <3>2 DEF ListOK, Indices, Reporting, Searching
  <2>2. CASE pc = "mark2" /\ pc' = "tail"
    <3>1. Sorted(ev) /\ Lasting(ev)
      BY <1>3, <2>2 DEF ListOK, Searching
    <3> QED
      BY <1>1, <2>2, <3>1 DEF ListOK, Reporting
  <2>3. CASE pc = "mark3" /\ pc' = "end"
    BY <1>1, <1>3, <2>3 DEF ListOK, Searching, Reporting, Indices
  <2> QED
    BY <1>1, <2>1, <2>2, <2>3
<1>12. EndsOK'
  BY <1>1, <1>2, <1>3 DEF EndsOK, Searching, Reporting, Indices
<1>13. SatIndicesFresh'
  BY <1>1, <1>5, <1>6 DEF SatIndicesFresh
<1>14. SaturationKept'
  BY <1>2 DEF SaturationKept
<1> QED
  BY <1>2, <1>8, <1>9, <1>10, <1>11, <1>12, <1>13, <1>14, SearchQuiet DEF EventInv

\* The pieces of an event lie in it, one behind the other.
LEMMA PiecesFit ==
  ASSUME NEW x \in Event, NEW p \in Pieces(x)
  PROVE  /\ p \in Seq(Event) /\ Len(p) >= 2
         /\ \A k \in 1 .. Len(p) : p[k] \in Event /\ p[k].s <= p[k].e /\ p[k].t = x.t
         /\ \A j, k \in 1 .. Len(p) : j < k => Ahead(p[j], p[k])
         /\ \A k \in 1 .. Len(p), y \in Event : /\ Ahead(x, y) => Ahead(p[k], y)
                                                /\ Ahead(y, x) => Ahead(y, p[k])
<1> DEFINE part == {y \in [s : x.s .. x.e, e : x.s .. x.e, t : {x.t}] : y.s + 2 <= y.e}
<1>1. PICK n \in 2 .. MaxPieces :
        p \in [1 .. n -> part] /\ \A k \in 1 .. n : \A j \in 1 .. k - 1 : p[j].e <= p[k].s + 1
  BY DEF Pieces
<1>2. x.s \in 0 .. N - 1 /\ x.e \in 0 .. N /\ x.t \in Types
  BY DEF Event, Pos
<1>3. ASSUME NEW y \in part
      PROVE  /\ y \in [s : x.s .. x.e, e : x.s .. x.e, t : {x.t}]
             /\ y.s \in x.s .. x.e /\ y.e \in x.s .. x.e /\ y.t = x.t /\ y.s + 2 <= y.e
  OBVIOUS
<1>4. ASSUME NEW y \in part PROVE y \in Event
  <2>1. y \in [s : x.s .. x.e, e : x.s .. x.e, t : {x.t}]
        /\ y.s \in 0 .. N - 1 /\ y.e \in 0 .. N /\ y.t \in Types
    BY <1>2, <1>3, Sizes
  <2> QED
    BY <2>1 DEF Event, Pos
<1> HIDE DEF part
<1>5. n \in Nat /\ n >= 2 /\ Len(p) = n /\ p \in Seq(Event) /\ \A k \in 1 .. n : p[k] \in part
  BY <1>1, <1>4, Sizes
<1>6. \A k \in 1 .. Len(p) : p[k] \in Event /\ p[k].s <= p[k].e /\ p[k].t = x.t
  <2> SUFFICES ASSUME NEW k \in 1 .. n PROVE p[k] \in Event /\ p[k].s <= p[k].e /\ p[k].t = x.t
    BY <1>5
  <2>1. p[k] \in part
    BY <1>5
  <2> QED
    BY <1>2, <1>3, <1>4, <2>1
<1>7. ASSUME NEW j \in 1 .. Len(p), NEW k \in 1 .. Len(p), j < k PROVE Ahead(p[j], p[k])
  <2>1. p[j].e <= p[k].s + 1
    BY <1>1, <1>5, <1>7
  <2>2. p[j] \in part /\ p[k] \in part
    BY <1>5
  <2>3. p[j].s \in Nat /\ p[j].e \in Nat /\ p[k].s \in Nat /\ p[j].s + 2 <= p[j].e
    BY <1>2, <1>3, <2>2
  <2> QED
    BY <2>1, <2>3 DEF Ahead
<1>8. ASSUME NEW k \in 1 .. Len(p), NEW y \in Event
      PROVE  (Ahead(x, y) => Ahead(p[k], y)) /\ (Ahead(y, x) => Ahead(y, p[k]))
  <2>1. y.s \in Nat /\ y.e \in Nat
    BY Sizes DEF Event, Pos
  <2>2. p[k].s \in x.s .. x.e /\ p[k].e \in x.s .. x.e /\ p[k].s + 2 <= p[k].e
    BY <1>3, <1>5, <1>8
  <2>3. x.s \in Nat /\ x.e \in Nat
    BY <1>2, Sizes
  <2>4. Ahead(x, y) => Ahead(p[k], y)
    <3>1. p[k].s \in Nat /\ p[k].e \in Nat /\ p[k].e <= x.e /\ p[k].s + 2 <= p[k].e
      BY <2>2, <2>3
    <3>2. ASSUME x.e <= y.s + 1 PROVE p[k].s < y.s /\ p[k].e <= y.s + 1
      BY <2>1, <2>3, <3>1, <3>2
    <3> QED
      BY <3>2 DEF Ahead
  <2>5. Ahead(y, x) => Ahead(y, p[k])
    <3>1. p[k].s \in Nat /\ x.s <= p[k].s
      BY <2>2, <2>3
    <3>2. ASSUME y.s < x.s, y.e <= x.s + 1 PROVE y.s < p[k].s /\ y.e <= p[k].s + 1
      BY <2>1, <2>3, <3>1, <3>2
    <3> QED
      BY <3>2 DEF Ahead
  <2> QED
    BY <2>4, <2>5
<1> QED
  BY <1>5, <1>6, <1>7, <1>8

LEMMA SplitEventKeeps ==
  ASSUME EventInv, SplitEvent, UNCHANGED <<sums, report>>
  PROVE  EventInv'
<1>1. /\ pc = "split" /\ scan.i <= scan.top /\ scan' = [scan EXCEPT !.i = @ + 1]
      /\ points' = points /\ satEv' = satEv /\ tails' = tails
      /\ conf' = conf /\ delta' = delta /\ sat' = sat
  BY DEF SplitEvent, curve
<1>2. Typed /\ Scanned /\ TailRuns /\ ListOK /\ EndsOK /\ EmptyOnlyIfNothingFound
  BY DEF EventInv
<1>3. /\ scan \in [i : Nat, last : BOOLEAN, start : Nat, top : Nat]
      /\ scan.i >= 1 /\ scan.top <= Len(ev) /\ oob = "none"
      /\ ev \in Seq(Event) /\ Len(ev) \in Nat /\ Len(ev) <= MaxEvents
  BY <1>1, <1>2 DEF Typed, Scanned
<1>4. /\ scan' \in [i : Nat, last : BOOLEAN, start : Nat, top : Nat]
      /\ scan'.i = scan.i + 1 /\ scan'.top = scan.top
  <2>1. scan.i + 1 \in Nat
    BY <1>3
  <2> QED
    BY <1>1, <1>3, <2>1
<1>5. PICK i \in 1 .. Len(ev) : i = scan.i
  BY <1>1, <1>3
<1>6. /\ Lasting(ev) /\ (Len(ev) = scan.top => Sorted(ev))
      /\ \A k, j \in 1 .. Len(ev) : k # j => Ahead(ev[k], ev[j]) \/ Ahead(ev[j], ev[k])
      /\ \A k \in 1 .. Len(ev) : ev[k].t \in Kinds
      /\ points # {} => ev # <<>>
  BY <1>1, <1>2 DEF ListOK, EndsOK, Indices, Searching
<1>7. CASE pc' = pc /\ ev' = ev /\ oob' = oob
  <2>1. Typed'
    BY <1>1, <1>2, <1>4, <1>7 DEF Typed
  <2>2. Scanned'
    BY <1>1, <1>3, <1>4, <1>7 DEF Scanned
  <2>3. TailRuns' /\ EmptyOnlyIfNothingFound'
    BY <1>1, <1>2, <1>7 DEF TailRuns, EmptyOnlyIfNothingFound
  <2>4. ListOK'
    BY <1>1, <1>4, <1>6, <1>7 DEF ListOK, Indices, Searching, Reporting
  <2>5. EndsOK' /\ SatIndicesFresh' /\ SaturationKept'
    BY <1>1, <1>2, <1>7 DEF EndsOK, Indices, Reporting, SatIndicesFresh, SaturationKept
  <2> QED
    BY <1>1, <1>7, <2>1, <2>2, <2>3, <2>4, <2>5, SearchQuiet DEF EventInv
<1>8. ASSUME NEW p \in Pieces(ev[i]), ev' = [ev EXCEPT ![i] = p[1]] \o Tail(p),
             \/ Len(ev') > MaxEvents /\ pc' = "wild" /\ oob' = "full"
             \/ Len(ev') <= MaxEvents /\ pc' = pc /\ oob' = oob
      PROVE  EventInv'
  <2> DEFINE n == Len(ev)
             m == Len(p) - 1
  <2>1. /\ p \in Seq(Event) /\ Len(p) >= 2
        /\ \A k \in 1 .. Len(p) : p[k] \in Event /\ p[k].s <= p[k].e /\ p[k].t = ev[i].t
        /\ \A j, k \in 1 .. Len(p) : j < k => Ahead(p[j], p[k])
        /\ \A k \in 1 .. Len(p), y \in Event : /\ Ahead(ev[i], y) => Ahead(p[k], y)
                                               /\ Ahead(y, ev[i]) => Ahead(y, p[k])
    <3>1. ev[i] \in Event
      BY <1>3
    <3> QED
      BY <3>1, PiecesFit
  <2>2. PICK more : more = [ev EXCEPT ![i] = p[1]]
    OBVIOUS
  <2>3. more \in Seq(Event) /\ Len(more) = n /\ more[i] = p[1] /\ \A k \in 1 .. n : k # i => more[k] = ev[k]
    BY <1>3, <2>1, <2>2
  <2>4. PICK rest : rest = Tail(p)
    OBVIOUS
  <2>5. rest \in Seq(Event) /\ Len(rest) = m /\ m \in Nat /\ m >= 1 /\ \A k \in 1 .. m : rest[k] = p[k + 1]
    BY <2>1, <2>4
  <2>6. n \in Nat /\ i \in 1 .. n /\ n <= MaxEvents /\ \A k \in 1 .. n : ev[k] \in Event
    BY <1>3
  <2> HIDE DEF n, m
  <2>7. ev' \in Seq(Event) /\ Len(ev') = n + m
        /\ \A k \in 1 .. n + m : ev'[k] = IF k <= n THEN more[k] ELSE rest[k - n]
    <3>1. PICK list : list = more \o rest
      OBVIOUS
    <3>2. ev' = list
      BY <1>8, <2>2, <2>4, <3>1
    <3>3. list \in Seq(Event) /\ Len(list) = n + m
          /\ \A k \in 1 .. n + m : list[k] = IF k <= n THEN more[k] ELSE rest[k - n]
      <4>1. /\ more \o rest \in Seq(Event)
            /\ Len(more \o rest) = Len(more) + Len(rest)
            /\ \A k \in 1 .. Len(more) + Len(rest) :
                  (more \o rest)[k] = IF k <= Len(more) THEN more[k] ELSE rest[k - Len(more)]
        BY <2>3, <2>5, ConcatProperties
      <4> QED
        BY <2>3, <2>5, <3>1, <4>1
    <3> QED
      BY <3>2, <3>3
  <2>8. \A k \in 1 .. n + m : ev'[k] = IF k <= n THEN more[k] ELSE rest[k - n]
    BY <2>7
  <2>9. ASSUME NEW k \in 1 .. n + m
        PROVE  \/ k > n /\ k - n + 1 \in 1 .. Len(p) /\ ev'[k] = p[k - n + 1]
               \/ k = i /\ 1 \in 1 .. Len(p) /\ ev'[k] = p[1]
               \/ k \in 1 .. n /\ k # i /\ ev'[k] = ev[k]
    <3>1. CASE k <= n
      BY <2>1, <2>3, <2>6, <2>8, <3>1
    <3>2. CASE k > n
      <4>1. k - n \in 1 .. m /\ k - n + 1 \in 1 .. Len(p)
        BY <2>5, <2>6, <3>2 DEF m
      <4>2. ev'[k] = rest[k - n]
        BY <2>6, <2>8, <3>2
      <4> QED
        BY <2>5, <3>2, <4>1, <4>2
    <3> QED
      BY <2>6, <3>1, <3>2
  <2>10. Typed'
    <3>1. pc' # "wild" => Len(ev') <= MaxEvents
      BY <1>8
    <3>2. pc' \in Passes /\ oob' \in Causes /\ (pc' = "wild" <=> oob' # "none")
      BY <1>1, <1>3, <1>8 DEF Passes, Searching, Causes
    <3>3. pc' \notin {"idle", "sat", "find", "filter"}
      BY <1>1, <1>8
    <3> QED
      BY <1>1, <1>2, <1>4, <2>7, <3>1, <3>2, <3>3 DEF Typed
  <2>11. Scanned'
    <3>1. scan'.i >= 1 /\ scan'.top <= Len(ev')
      BY <1>3, <1>4, <2>5, <2>6, <2>7 DEF n
    <3>2. pc' # "sat"
      BY <1>1, <1>8
    <3> QED
      BY <3>1, <3>2 DEF Scanned
  <2>12. TailRuns' /\ EmptyOnlyIfNothingFound'
    BY <1>1, <1>2, <1>3, <1>8 DEF TailRuns, EmptyOnlyIfNothingFound
  <2>13. ASSUME NEW k \in 1 .. n + m, NEW j \in 1 .. n + m, k # j
         PROVE  Ahead(ev'[k], ev'[j]) \/ Ahead(ev'[j], ev'[k])
    <3>1. \A l \in 1 .. n : l # i => Ahead(ev[l], ev[i]) \/ Ahead(ev[i], ev[l])
      BY <1>6, <2>6 DEF n
    <3>2. \A l, q \in 1 .. n : l # q => Ahead(ev[l], ev[q]) \/ Ahead(ev[q], ev[l])
      BY <1>6 DEF n
    <3>3. \A l \in 1 .. n, q \in 1 .. Len(p) : l # i => Ahead(p[q], ev[l]) \/ Ahead(ev[l], p[q])
      <4> SUFFICES ASSUME NEW l \in 1 .. n, NEW q \in 1 .. Len(p), l # i
                   PROVE  Ahead(p[q], ev[l]) \/ Ahead(ev[l], p[q])
        OBVIOUS
      <4>1. ev[l] \in Event
        BY <2>6
      <4>2. (Ahead(ev[i], ev[l]) => Ahead(p[q], ev[l])) /\ (Ahead(ev[l], ev[i]) => Ahead(ev[l], p[q]))
        BY <2>1, <4>1
      <4> QED
        BY <3>1, <4>2
    <3>4. \A l, q \in 1 .. Len(p) : l # q => Ahead(p[l], p[q]) \/ Ahead(p[q], p[l])
      BY <2>1
    <3>5. CASE ~(k \in 1 .. n /\ k # i) /\ ~(j \in 1 .. n /\ j # i)
      <4>1. PICK l \in 1 .. Len(p) : ev'[k] = p[l] /\ (k = i => l = 1) /\ (k # i => l = k - n + 1 /\ k > n)
        <5>1. CASE k = i
          <6>1. ~(k > n)
            BY <2>6, <5>1
          <6>2. 1 \in 1 .. Len(p) /\ ev'[k] = p[1]
            BY <2>9, <3>5, <6>1
          <6> QED
            BY <5>1, <6>2
        <5>2. CASE k # i
          <6>1. k > n /\ k - n + 1 \in 1 .. Len(p) /\ ev'[k] = p[k - n + 1]
            BY <2>9, <3>5, <5>2
          <6> QED
            BY <5>2, <6>1
        <5> QED
          BY <5>1, <5>2
      <4>2. PICK q \in 1 .. Len(p) : ev'[j] = p[q] /\ (j = i => q = 1) /\ (j # i => q = j - n + 1 /\ j > n)
        <5>1. CASE j = i
          <6>1. ~(j > n)
            BY <2>6, <5>1
          <6>2. 1 \in 1 .. Len(p) /\ ev'[j] = p[1]
            BY <2>9, <3>5, <6>1
          <6> QED
            BY <5>1, <6>2
        <5>2. CASE j # i
          <6>1. j > n /\ j - n + 1 \in 1 .. Len(p) /\ ev'[j] = p[j - n + 1]
            BY <2>9, <3>5, <5>2
          <6> QED
            BY <5>2, <6>1
        <5> QED
          BY <5>1, <5>2
      <4>3. l # q
        BY <2>6, <2>13, <4>1, <4>2
      <4> QED
        BY <3>4, <4>1, <4>2, <4>3
    <3>6. CASE (k \in 1 .. n /\ k # i) /\ ~(j \in 1 .. n /\ j # i)
      <4>1. PICK q \in 1 .. Len(p) : ev'[j] = p[q]
        BY <2>9, <3>6
      <4>2. ev'[k] = ev[k]
        BY <2>6, <2>9, <3>6
      <4> QED
        BY <3>3, <3>6, <4>1, <4>2
    <3>7. CASE ~(k \in 1 .. n /\ k # i) /\ (j \in 1 .. n /\ j # i)
      <4>1. PICK q \in 1 .. Len(p) : ev'[k] = p[q]
        BY <2>9, <3>7
      <4>2. ev'[j] = ev[j]
        BY <2>6, <2>9, <3>7
      <4> QED
        BY <3>3, <3>7, <4>1, <4>2
    <3>8. CASE (k \in 1 .. n /\ k # i) /\ (j \in 1 .. n /\ j # i)
      <4>1. ev'[k] = ev[k] /\ ev'[j] = ev[j]
        BY <2>6, <2>9, <3>8
      <4> QED
        BY <2>13, <3>2, <3>8, <4>1
    <3> QED
      BY <3>5, <3>6, <3>7, <3>8, Zenon
  <2>14. \A k \in 1 .. n + m : ev'[k].s <= ev'[k].e /\ ev'[k].t \in Kinds
    <3>1. \A k \in 1 .. n : ev[k].s <= ev[k].e /\ ev[k].t \in Kinds
      BY <1>6 DEF Lasting, n
    <3>2. \A k \in 1 .. Len(p) : p[k].s <= p[k].e /\ p[k].t \in Kinds
      BY <2>1, <2>6, <3>1
    <3> QED
      BY <2>9, <3>1, <3>2
  <2>15. ListOK'
    <3>1. pc' = "split" => Lasting(ev') /\ Len(ev') # scan'.top
      <4>1. Lasting(ev')
        BY <2>7, <2>14 DEF Lasting
      <4>2. Len(ev') # scan'.top
        BY <1>3, <1>4, <2>5, <2>6, <2>7 DEF n
      <4> QED
        BY <4>1, <4>2
    <3>2. pc' \in {"split", "wild"}
      BY <1>1, <1>8
    <3>3. \A k, j \in Indices' : k # j => Ahead(ev'[k], ev'[j]) \/ Ahead(ev'[j], ev'[k])
      BY <2>7, <2>13 DEF Indices
    <3> QED
      BY <3>1, <3>2, <3>3 DEF ListOK, Searching, Reporting
  <2>16. EndsOK'
    <3>1. ev' # <<>>
      BY <2>5, <2>6, <2>7
    <3>2. pc' \in {"split", "wild"}
      BY <1>1, <1>8
    <3> QED
      BY <2>7, <2>14, <3>1, <3>2 DEF EndsOK, Indices, Reporting
  <2>17. SatIndicesFresh' /\ SaturationKept'
    BY <1>1, <1>8 DEF SatIndicesFresh, SaturationKept
  <2>18. Counted' /\ GroupsOK' /\ Sections' /\ Losses' /\ Reported'
    <3>1. pc # "free" /\ pc' \notin {"coefs", "group", "free"}
      BY <1>1, <1>8
    <3> QED
      BY <3>1, SearchQuiet
  <2> QED
    BY <2>10, <2>11, <2>12, <2>15, <2>16, <2>17, <2>18 DEF EventInv
<1> QED
  BY <1>5, <1>7, <1>8 DEF SplitEvent, Wild

LEMMA SplitDoneKeeps ==
  ASSUME EventInv, SplitDone, UNCHANGED <<sums, report>>
  PROVE  EventInv'
<1>1. /\ pc = "split" /\ pc' = "mark2" /\ scan' = scan /\ oob' = oob
      /\ ev' = (IF Len(ev) > scan.top THEN EventArraySort(ev) ELSE ev)
      /\ points' = points /\ satEv' = satEv /\ tails' = tails
      /\ conf' = conf /\ delta' = delta /\ sat' = sat
  BY DEF SplitDone, curve
<1>2. Typed /\ Scanned /\ TailRuns /\ ListOK /\ EndsOK /\ EmptyOnlyIfNothingFound
  BY DEF EventInv
<1>3. /\ ev \in Seq(Event) /\ Len(ev) \in Nat /\ Len(ev) <= MaxEvents /\ scan.top <= Len(ev) /\ scan.top \in Nat
  BY <1>1, <1>2 DEF Typed, Scanned
<1>4. /\ Lasting(ev) /\ (Len(ev) = scan.top => Sorted(ev))
      /\ \A k, j \in 1 .. Len(ev) : k # j => Ahead(ev[k], ev[j]) \/ Ahead(ev[j], ev[k])
      /\ \A k \in 1 .. Len(ev) : ev[k].t \in Kinds
      /\ points # {} => ev # <<>>
  BY <1>1, <1>2 DEF ListOK, EndsOK, Indices, Searching
<1>5. /\ ev' \in Seq(Event) /\ Len(ev') = Len(ev) /\ Sorted(ev')
      /\ \A k \in 1 .. Len(ev') : \E x \in 1 .. Len(ev) : ev'[k] = ev[x]
  <2>1. CASE Len(ev) > scan.top
    <3>1. ev' = EventArraySort(ev)
      BY <1>1, <2>1
    <3> QED
      BY <1>3, <1>4, <3>1, Sorts
  <2>2. CASE ~(Len(ev) > scan.top)
    <3>1. ev' = ev /\ Len(ev) = scan.top
      BY <1>1, <1>3, <2>2
    <3> QED
      BY <1>3, <1>4, <3>1
  <2> QED
    BY <2>1, <2>2
<1>6. Lasting(ev') /\ \A k \in 1 .. Len(ev') : ev'[k].t \in Kinds
  BY <1>4, <1>5 DEF Lasting
<1>7. points # {} => ev' # <<>>
  <2>1. ev # <<>> => Len(ev) # 0
    BY <1>3, EmptySeq
  <2> QED
    BY <1>4, <1>5, <2>1
<1>8. Typed'
  BY <1>1, <1>2, <1>3, <1>5, Sizes DEF Typed, Passes, Searching
<1>9. Scanned' /\ TailRuns' /\ EmptyOnlyIfNothingFound'
  BY <1>1, <1>2 DEF Scanned, TailRuns, EmptyOnlyIfNothingFound
<1>10. ListOK' /\ EndsOK'
  BY <1>1, <1>5, <1>6, <1>7 DEF ListOK, EndsOK, Indices, Reporting
<1>11. SatIndicesFresh' /\ SaturationKept'
  BY <1>1 DEF SatIndicesFresh, SaturationKept
<1> QED
  BY <1>1, <1>8, <1>9, <1>10, <1>11, SearchQuiet DEF EventInv

\* A pass that only drops events, and never the first.
LEMMA DroppingKeeps ==
  ASSUME EventInv, UNCHANGED <<sums, report>>, NEW bad, 1 \notin bad, ev' = KickOutOfArray(ev, bad),
         <<pc, pc'>> \in {<<"tail", "low">>, <<"low", "probable">>},
         UNCHANGED <<curve, scan, tails, points, satEv, endReflect, oob>>
  PROVE  EventInv'
<1>1. /\ scan' = scan /\ oob' = oob /\ points' = points /\ satEv' = satEv /\ tails' = tails
      /\ conf' = conf /\ delta' = delta /\ sat' = sat
  BY DEF curve
<1>2. pc \in {"tail", "low"} /\ pc' \in {"low", "probable"}
  OBVIOUS
<1>3. Typed /\ TailRuns /\ ListOK /\ EndsOK /\ EmptyOnlyIfNothingFound
  BY DEF EventInv
<1>4. ev \in Seq(Event) /\ Len(ev) <= MaxEvents /\ Len(ev) \in Nat
  BY <1>2, <1>3 DEF Typed
<1>5. /\ Sorted(ev) /\ Lasting(ev) /\ \A k \in 1 .. Len(ev) : ev[k].t \in Kinds
      /\ points # {} => ev # <<>>
  BY <1>2, <1>3 DEF ListOK, EndsOK, Indices, Searching
<1>6. /\ ev' \in Seq(Event) /\ Len(ev') <= Len(ev) /\ Sorted(ev')
      /\ \A k \in 1 .. Len(ev') : \E x \in 1 .. Len(ev) : ev'[k] = ev[x]
      /\ ev # <<>> => ev' # <<>>
  <2> DEFINE r == KickOutOfArray(ev, bad)
  <2>1. r \in Seq(Event) /\ Len(r) <= Len(ev) /\ Sorted(r) /\ (ev # <<>> => r # <<>>)
    BY <1>4, <1>5, StaysSorted
  <2>2. \A k \in 1 .. Len(r) : \E x \in 1 .. Len(ev) : r[k] = ev[x] /\ (x = Len(ev) => k = Len(r))
    BY <1>4, <1>5, StaysSorted
  <2>3. ev' = r
    OBVIOUS
  <2> HIDE DEF r
  <2> QED
    BY <2>1, <2>2, <2>3
<1>7. Lasting(ev') /\ \A k \in 1 .. Len(ev') : ev'[k].t \in Kinds
  BY <1>5, <1>6 DEF Lasting
<1>8. Typed'
  <2>1. Len(ev') <= MaxEvents
    BY <1>4, <1>6, Sizes
  <2>2. pc' \in Passes /\ pc' \notin {"wild", "idle", "sat", "find", "filter"} /\ pc # "wild"
    BY <1>2 DEF Passes, Searching
  <2> QED
    BY <1>1, <1>3, <1>6, <2>1, <2>2 DEF Typed
<1>9. Scanned' /\ TailRuns' /\ EmptyOnlyIfNothingFound'
  BY <1>1, <1>2, <1>3 DEF Scanned, TailRuns, EmptyOnlyIfNothingFound
<1>10. ListOK' /\ EndsOK'
  BY <1>1, <1>2, <1>5, <1>6, <1>7 DEF ListOK, EndsOK, Indices, Reporting
<1>11. SatIndicesFresh' /\ SaturationKept'
  BY <1>2 DEF SatIndicesFresh, SaturationKept
<1>12. pc # "free" /\ pc' \notin {"coefs", "group", "free"}
  BY <1>2
<1> QED
  BY <1>8, <1>9, <1>10, <1>11, <1>12, SearchQuiet DEF EventInv

LEMMA RemoveTailKeeps ==
  ASSUME EventInv, RemoveTailNonReflexEventPoint, UNCHANGED <<sums, report>>
  PROVE  EventInv'
<1>1. PICK bad \in IF conf.long \/ satEv = <<>> THEN {{}}
                   ELSE SUBSET {k \in DOMAIN ev : k > Last(satEv) /\ ev[k].t = "nonreflect"} :
        ev' = KickOutOfArray(ev, bad)
  BY DEF RemoveTailNonReflexEventPoint
<1>2. 1 \notin bad
  <2>1. CASE satEv = <<>>
    BY <1>1, <2>1
  <2>2. CASE satEv # <<>>
    <3>1. satEv \in Seq(Slots)
      BY DEF EventInv, Typed
    <3>2. Len(satEv) \in 1 .. Len(satEv)
      BY <2>2, <3>1, EmptySeq
    <3>3. Last(satEv) \in 1 .. MaxEvents
      <4>1. satEv[Len(satEv)] \in Slots
        BY <3>1, <3>2
      <4> QED
        BY <4>1 DEF Last, Slots
    <3> QED
      BY <1>1, <3>3, Sizes
  <2> QED
    BY <2>1, <2>2
<1> QED
  BY <1>1, <1>2, DroppingKeeps DEF RemoveTailNonReflexEventPoint

LEMMA RemoveLowKeeps ==
  ASSUME EventInv, RemoveLowLevelEventPoint, UNCHANGED <<sums, report>>
  PROVE  EventInv'
<1>1. PICK bad \in SUBSET LowCandidates : ev' = KickOutOfArray(ev, bad)
  BY DEF RemoveLowLevelEventPoint
<1>2. 1 \notin bad
  BY <1>1 DEF LowCandidates
<1> QED
  BY <1>1, <1>2, DroppingKeeps DEF RemoveLowLevelEventPoint

LEMMA FindProbableKeeps ==
  ASSUME EventInv, FindProbableEndEvent, UNCHANGED <<sums, report>>
  PROVE  EventInv'
<1>1. /\ pc = "probable" /\ scan' = scan /\ points' = points /\ satEv' = satEv /\ tails' = tails
      /\ conf' = conf /\ delta' = delta /\ sat' = sat
  BY DEF FindProbableEndEvent, curve
<1>2. Typed /\ TailRuns /\ ListOK /\ EndsOK /\ EmptyOnlyIfNothingFound
  BY DEF EventInv
<1>3. ev \in Seq(Event) /\ Len(ev) <= MaxEvents /\ Len(ev) \in Nat /\ oob = "none"
  BY <1>1, <1>2 DEF Typed
<1>4. /\ Sorted(ev) /\ Lasting(ev) /\ \A k \in 1 .. Len(ev) : ev[k].t \in Kinds
      /\ points # {} => ev # <<>>
  BY <1>1, <1>2 DEF ListOK, EndsOK, Indices, Searching
<1>5. CASE ev = <<>> /\ pc' = "wild" /\ oob' = "empty" /\ ev' = ev
  <2>1. Typed'
    BY <1>1, <1>2, <1>5 DEF Typed, Passes, Causes
  <2>2. Scanned' /\ TailRuns'
    BY <1>1, <1>2, <1>5 DEF Scanned, TailRuns
  <2>3. EmptyOnlyIfNothingFound'
    BY <1>1, <1>4, <1>5 DEF EmptyOnlyIfNothingFound
  <2> QED
    BY <1>1, <1>5, <2>1, <2>2, <2>3, NoListYet, SearchQuiet DEF EventInv
<1>6. CASE pc' = "mark3" /\ ev' = ev /\ oob' = oob
  <2>1. Typed'
    BY <1>1, <1>2, <1>6 DEF Typed, Passes, Searching
  <2>2. Scanned' /\ TailRuns' /\ EmptyOnlyIfNothingFound'
    BY <1>1, <1>2, <1>6 DEF Scanned, TailRuns, EmptyOnlyIfNothingFound
  <2>3. ListOK' /\ EndsOK'
    BY <1>1, <1>4, <1>6 DEF ListOK, EndsOK, Indices, Reporting, Lasting
  <2>4. SatIndicesFresh' /\ SaturationKept'
    BY <1>6 DEF SatIndicesFresh, SaturationKept
  <2> QED
    BY <1>1, <1>6, <2>1, <2>2, <2>3, <2>4, SearchQuiet DEF EventInv
<1>7. ASSUME conf.wide, ev # <<>>, NEW st \in {p \in Pos : 2 * p > 2 * Last(ev).e + 3 * M},
             NEW et \in {0} \cup (st .. N - 1), ev' = Append(ev, [s |-> st, e |-> et, t |-> "probable"]),
             \/ Len(ev) >= MaxEvents /\ pc' = "wild" /\ oob' = "full"
             \/ Len(ev) < MaxEvents /\ pc' = "mark3" /\ oob' = oob
      PROVE  EventInv'
  <2>1. PICK n \in Nat : n = Len(ev) /\ n > 0
    <3>1. Len(ev) # 0
      BY <1>3, <1>7, EmptySeq
    <3> QED
      BY <1>3, <3>1
  <2>2. PICK x : x = [s |-> st, e |-> et, t |-> "probable"]
    OBVIOUS
  <2>3. x \in Event /\ x.s = st /\ x.e = et /\ x.t = "probable"
    <3>1. st \in Pos /\ et \in 0 .. N
      BY <1>7, Sizes DEF Pos
    <3> QED
      BY <2>2, <3>1 DEF Event, Types
  <2>4. /\ ev' \in Seq(Event) /\ Len(ev') = n + 1 /\ ev'[n + 1] = x /\ \A k \in 1 .. n : ev'[k] = ev[k]
    BY <1>3, <1>7, <2>1, <2>2, <2>3
  <2>5. \A k \in 1 .. n : Ahead(ev[k], x)
    <3>1. \A k \in 1 .. n : ev[k] \in Event
      BY <1>3, <2>1
    <3>2. ev[n].s <= ev[n].e /\ ev[n].e < st
      <4>1. Last(ev) = ev[n] /\ n \in 1 .. n
        BY <2>1 DEF Last
      <4>2. ev[n].s <= ev[n].e /\ ev[n].e \in Nat
        BY <1>4, <2>1, <3>1, <4>1, Sizes DEF Lasting, Event
      <4>3. 2 * st > 2 * ev[n].e + 3 * M /\ st \in Nat
        BY <1>7, <4>1, Sizes DEF Pos
      <4> QED
        BY <4>2, <4>3, Sizes
    <3>3. \A k \in 1 .. n : ev[k].s \in Nat /\ ev[k].e \in Nat
      BY <3>1, Sizes DEF Event, Pos
    <3>4. ASSUME NEW k \in 1 .. n PROVE ev[k].s < st /\ ev[k].e <= st
      <4>1. st \in Nat /\ n \in 1 .. n
        BY <2>1, <1>7, Sizes DEF Pos
      <4>2. k = n \/ Ahead(ev[k], ev[n])
        BY <1>4, <2>1, <4>1 DEF Sorted
      <4> QED
        BY <3>2, <3>3, <4>1, <4>2 DEF Ahead
    <3>5. st \in Nat
      BY <1>7, Sizes DEF Pos
    <3>6. ASSUME NEW k \in 1 .. n PROVE ev[k].s < x.s /\ ev[k].e <= x.s + 1
      BY <2>3, <3>3, <3>4, <3>5
    <3> QED
      BY <3>6 DEF Ahead
  <2>6. Sorted(ev')
    <3>1. SUFFICES ASSUME NEW i \in 1 .. n + 1, NEW j \in 1 .. n + 1, i < j PROVE Ahead(ev'[i], ev'[j])
      BY <2>4 DEF Sorted
    <3>2. CASE j = n + 1
      BY <2>1, <2>4, <2>5, <3>1, <3>2
    <3>3. CASE j # n + 1
      BY <1>4, <2>1, <2>4, <3>1, <3>3 DEF Sorted
    <3> QED
      BY <3>2, <3>3
  <2>7. \A k \in 1 .. n + 1 : /\ ev'[k].t \in Kinds
                              /\ \/ ev'[k].s <= ev'[k].e
                                 \/ k = n + 1 /\ ev'[k].e = 0 /\ ev'[k].t = "probable"
    <3>1. \A k \in 1 .. n : ev'[k].t \in Kinds /\ ev'[k].s <= ev'[k].e
      BY <1>4, <2>1, <2>4 DEF Lasting
    <3>2. x.t \in Kinds /\ (x.s <= x.e \/ x.e = 0)
      BY <1>7, <2>3, Sizes DEF Kinds, Pos
    <3> QED
      BY <2>1, <2>3, <2>4, <3>1, <3>2
  <2>8. pc' \in {"wild", "mark3"}
    BY <1>7
  <2>9. Typed'
    <3>1. (pc' # "wild" => Len(ev') <= MaxEvents)
      <4>1. n < MaxEvents \/ pc' = "wild"
        BY <1>7, <2>1
      <4> QED
        BY <1>3, <2>1, <2>4, <4>1, Sizes, SMTT(40)
    <3>2. pc' \in Passes /\ oob' \in Causes /\ (pc' = "wild" <=> oob' # "none")
      BY <1>3, <1>7 DEF Passes, Searching, Causes
    <3> QED
      BY <1>1, <1>2, <2>4, <2>8, <3>1, <3>2 DEF Typed
  <2>10. Scanned' /\ TailRuns'
    BY <1>1, <1>2, <2>8 DEF Scanned, TailRuns
  <2>11. EmptyOnlyIfNothingFound'
    BY <1>3, <1>7 DEF EmptyOnlyIfNothingFound
  <2>12. ListOK'
    <3>1. conf'.wide
      BY <1>1, <1>7
    <3> QED
      BY <2>4, <2>6, <2>7, <2>8, <3>1 DEF ListOK, Indices, Reporting, Searching
  <2>13. EndsOK'
    <3>1. ev' # <<>>
      BY <2>1, <2>4
    <3> QED
      BY <2>4, <2>7, <2>8, <3>1 DEF EndsOK, Indices, Reporting
  <2>14. SatIndicesFresh' /\ SaturationKept'
    BY <2>8 DEF SatIndicesFresh, SaturationKept
  <2>15. Counted' /\ GroupsOK' /\ Sections' /\ Losses' /\ Reported'
    <3>1. pc # "free" /\ pc' \notin {"coefs", "group", "free"}
      BY <1>1, <2>8
    <3> QED
      BY <3>1, SearchQuiet
  <2> QED
    BY <2>9, <2>10, <2>11, <2>12, <2>13, <2>14, <2>15 DEF EventInv
<1> QED
  BY <1>5, <1>6, <1>7 DEF FindProbableEndEvent, Wild

\* No ghost is in front of the second event.
LEMMA GhostsBehindFirst ==
  ASSUME Typed
  PROVE  1 \notin GhostCandidates
<1>1. CASE satEv = <<>>
  BY <1>1 DEF GhostCandidates
<1>2. CASE satEv # <<>>
  <2>1. satEv \in Seq(Slots)
    BY DEF Typed
  <2>2. PICK n \in Nat : n = Len(satEv) /\ n > 0 /\ \A i \in 1 .. n : satEv[i] \in Slots
    <3>1. Len(satEv) # 0 /\ Len(satEv) \in Nat
      BY <1>2, <2>1, EmptySeq
    <3>2. \A i \in 1 .. Len(satEv) : satEv[i] \in Slots
      BY <2>1
    <3> QED
      BY <3>1, <3>2
  <2>3. \A i \in 1 .. n : satEv[i] \in Nat /\ satEv[i] >= 1
    BY <2>2, Sizes DEF Slots
  <2>4. Last(satEv) \in Nat /\ Last(satEv) >= 1 /\ (n > 1 => satEv[n - 1] \in Nat /\ satEv[n - 1] >= 1)
    <3>1. n \in 1 .. n /\ (n > 1 => n - 1 \in 1 .. n)
      BY <2>2
    <3>2. Last(satEv) = satEv[n]
      BY <2>2 DEF Last
    <3> QED
      BY <2>3, <3>1, <3>2
  <2>5. PICK low : low = IF Len(satEv) > 1 /\ satEv[Len(satEv) - 1] > 1 THEN satEv[Len(satEv) - 1] ELSE Last(satEv)
    OBVIOUS
  <2>6. low \in Nat /\ low >= 1
    BY <2>2, <2>4, <2>5
  <2>7. GhostCandidates \subseteq {k \in DOMAIN ev : k > low /\ ev[k].t = "reflect"}
    BY <2>5 DEF GhostCandidates
  <2>8. ~(1 > low)
    BY <2>6
  <2> QED
    BY <2>7, <2>8
<1> QED
  BY <1>1, <1>2

\* SetEndEvent changes the types of the first and the last event only.
LEMMA EndSet ==
  ASSUME NEW list \in Seq(Event), list # <<>>
  PROVE  LET r == SetEndEvent(list)
         IN  /\ r \in Seq(Event) /\ Len(r) = Len(list) /\ Len(list) > 0
             /\ \A k \in 1 .. Len(list) : /\ r[k].s = list[k].s /\ r[k].e = list[k].e
                                          /\ r[k].t = IF k = 1 THEN "start"
                                                      ELSE IF k = Len(list) THEN "end" ELSE list[k].t
<1>1. PICK n \in Nat : n = Len(list) /\ n > 0 /\ DOMAIN list = 1 .. n /\ \A k \in 1 .. n : list[k] \in Event
  <2>1. Len(list) # 0 /\ Len(list) \in Nat
    BY EmptySeq
  <2> QED
    BY <2>1
<1>2. PICK a : a = [list EXCEPT ![n].t = "end"]
  OBVIOUS
<1>3. PICK r : r = [a EXCEPT ![1].t = "start"]
  OBVIOUS
<1>4. SetEndEvent(list) = r
  BY <1>1, <1>2, <1>3 DEF SetEndEvent
<1>5. "end" \in Types /\ "start" \in Types
  BY DEF Types
<1>6. \A x \in Event, t \in Types : /\ [x EXCEPT !.t = t] \in Event
                                    /\ [x EXCEPT !.t = t].s = x.s /\ [x EXCEPT !.t = t].e = x.e
                                    /\ [x EXCEPT !.t = t].t = t
  BY DEF Event
<1>7. PICK x : x = [list[n] EXCEPT !.t = "end"]
  OBVIOUS
<1>8. x \in Event /\ x.s = list[n].s /\ x.e = list[n].e /\ x.t = "end"
  BY <1>1, <1>5, <1>6, <1>7
<1>9. a \in Seq(Event) /\ Len(a) = n /\ a[n] = x /\ \A k \in 1 .. n : k # n => a[k] = list[k]
  <2>1. a = [list EXCEPT ![n] = x]
    BY <1>2, <1>7
  <2> QED
    BY <1>1, <1>8, <2>1
<1>10. \A k \in 1 .. n : a[k] \in Event
  BY <1>9
<1>11. PICK y : y = [a[1] EXCEPT !.t = "start"]
  OBVIOUS
<1>12. y \in Event /\ y.s = a[1].s /\ y.e = a[1].e /\ y.t = "start"
  <2>1. a[1] \in Event
    BY <1>1, <1>10
  <2> QED
    BY <1>5, <1>6, <1>11, <2>1
<1>13. r \in Seq(Event) /\ Len(r) = n /\ r[1] = y /\ \A k \in 1 .. n : k # 1 => r[k] = a[k]
  <2>1. r = [a EXCEPT ![1] = y]
    BY <1>3, <1>11
  <2> QED
    BY <1>1, <1>9, <1>12, <2>1
<1>14. ASSUME NEW k \in 1 .. n
       PROVE  /\ r[k].s = list[k].s /\ r[k].e = list[k].e
              /\ r[k].t = IF k = 1 THEN "start" ELSE IF k = n THEN "end" ELSE list[k].t
  <2>1. CASE k = 1
    <3>1. a[1].s = list[1].s /\ a[1].e = list[1].e
      <4>1. 1 \in 1 .. n
        BY <1>1
      <4>2. CASE n = 1
        BY <1>8, <1>9, <4>2
      <4>3. CASE n # 1
        BY <1>9, <4>1, <4>3
      <4> QED
        BY <4>2, <4>3
    <3> QED
      BY <1>12, <1>13, <2>1, <3>1
  <2>2. CASE k # 1 /\ k = n
    BY <1>8, <1>9, <1>13, <2>2
  <2>3. CASE k # 1 /\ k # n
    BY <1>9, <1>13, <2>3
  <2> QED
    BY <2>1, <2>2, <2>3
<1> QED
  BY <1>1, <1>4, <1>13, <1>14

LEMMA FindEndKeeps ==
  ASSUME EventInv, FindEndEventPoint, UNCHANGED <<sums, report>>
  PROVE  EventInv'
<1>1. /\ pc = "end" /\ scan' = scan /\ points' = points /\ satEv' = satEv /\ tails' = tails
      /\ conf' = conf /\ delta' = delta /\ sat' = sat
  BY DEF FindEndEventPoint, curve
<1>2. Typed /\ TailRuns /\ ListOK /\ EndsOK
  BY DEF EventInv
<1>3. ev \in Seq(Event) /\ Len(ev) <= MaxEvents /\ Len(ev) \in Nat /\ oob = "none"
  BY <1>1, <1>2 DEF Typed
<1>4. /\ Sorted(ev) /\ \A k \in 1 .. Len(ev) : ev[k].t \in Kinds
      /\ \A k \in 1 .. Len(ev) : ev[k].s <= ev[k].e \/ (k = Len(ev) /\ conf.wide /\ ev[k].e = 0)
      /\ points # {} => ev # <<>>
  <2>1. Sorted(ev) /\ \A k \in 1 .. Len(ev) : ev[k].s <= ev[k].e \/ (k = Len(ev) /\ conf.wide /\ ev[k].e = 0)
    BY <1>1, <1>2 DEF ListOK, Indices
  <2>2. (points # {} => ev # <<>>) /\ \A k \in 1 .. Len(ev) : ev[k].t \in Kinds
    BY <1>1, <1>2 DEF EndsOK, Indices, Searching
  <2> QED
    BY <2>1, <2>2
<1>5. PICK ghosts \in SUBSET GhostCandidates :
        /\ ev' = SetEndEvent(KickOutOfArray(ev, ghosts))
        /\ \/ KickOutOfArray(ev, ghosts) = <<>> /\ Wild("empty")
           \/ KickOutOfArray(ev, ghosts) # <<>> /\ pc' = "report" /\ oob' = oob
  BY DEF FindEndEventPoint
<1>6. PICK list : list = KickOutOfArray(ev, ghosts)
  OBVIOUS
<1>7. 1 \notin ghosts
  BY <1>2, <1>5, GhostsBehindFirst
<1>8. /\ list \in Seq(Event) /\ Len(list) <= Len(ev) /\ Sorted(list)
      /\ \A k \in 1 .. Len(list) : \E x \in 1 .. Len(ev) : list[k] = ev[x] /\ (x = Len(ev) => k = Len(list))
      /\ ev # <<>> => list # <<>>
  <2> DEFINE r == KickOutOfArray(ev, ghosts)
  <2>1. r \in Seq(Event) /\ Len(r) <= Len(ev) /\ Sorted(r) /\ (ev # <<>> => r # <<>>)
    BY <1>3, <1>4, <1>7, StaysSorted
  <2>2. \A k \in 1 .. Len(r) : \E x \in 1 .. Len(ev) : r[k] = ev[x] /\ (x = Len(ev) => k = Len(r))
    BY <1>3, <1>4, StaysSorted
  <2>3. list = r
    BY <1>6
  <2> HIDE DEF r
  <2> QED
    BY <2>1, <2>2, <2>3
<1>9. CASE list = <<>>
  <2>1. pc' = "wild" /\ oob' = "empty" /\ ev' = <<>> /\ points = {}
    <3>1. pc' = "wild" /\ oob' = "empty" /\ ev' = SetEndEvent(<<>>)
      BY <1>5, <1>6, <1>9 DEF Wild
    <3>2. SetEndEvent(<<>>) = <<>>
      BY DEF SetEndEvent
    <3>3. points = {}
      BY <1>4, <1>8, <1>9
    <3> QED
      BY <3>1, <3>2, <3>3
  <2>2. Typed'
    <3>1. <<>> \in Seq(Event) /\ Len(<<>>) = 0
      OBVIOUS
    <3> QED
      BY <1>1, <1>2, <2>1, <3>1, Sizes DEF Typed, Passes, Causes
  <2>3. Scanned' /\ TailRuns' /\ EmptyOnlyIfNothingFound'
    BY <1>1, <1>2, <2>1 DEF Scanned, TailRuns, EmptyOnlyIfNothingFound
  <2> QED
    BY <1>1, <2>1, <2>2, <2>3, NoListYet, SearchQuiet DEF EventInv
<1>10. CASE list # <<>>
  <2>1. pc' = "report" /\ oob' = oob /\ ev' = SetEndEvent(list)
    BY <1>5, <1>6, <1>10
  <2>2. PICK n \in Nat : n = Len(list) /\ n > 0
    <3>1. Len(list) # 0
      BY <1>8, <1>10, EmptySeq
    <3> QED
      BY <1>8, <3>1
  <2>3. /\ ev' \in Seq(Event) /\ Len(ev') = n
        /\ \A k \in 1 .. n : /\ ev'[k].s = list[k].s /\ ev'[k].e = list[k].e
                             /\ ev'[k].t = IF k = 1 THEN "start" ELSE IF k = n THEN "end" ELSE list[k].t
    BY <1>8, <1>10, <2>1, <2>2, EndSet
  <2>4. Sorted(ev')
    BY <1>8, <2>2, <2>3 DEF Sorted, Ahead
  <2>5. \A k \in 1 .. n : ev'[k].s <= ev'[k].e \/ (k = n /\ conf.wide /\ ev'[k].e = 0)
    <3>1. \A k \in 1 .. n : list[k].s <= list[k].e \/ (k = n /\ conf.wide /\ list[k].e = 0)
      BY <1>4, <1>8, <2>2
    <3> QED
      BY <2>3, <3>1
  <2>6. \A k \in 1 .. n : list[k].t \in Kinds
    BY <1>4, <1>8, <2>2
  <2>7. Typed'
    <3>1. Len(ev') <= MaxEvents
      BY <1>3, <1>8, <2>2, <2>3, Sizes
    <3> QED
      BY <1>1, <1>2, <2>1, <2>3, <3>1 DEF Typed, Passes, Reporting
  <2>8. Scanned' /\ TailRuns' /\ EmptyOnlyIfNothingFound'
    BY <1>1, <1>2, <1>3, <2>1 DEF Scanned, TailRuns, EmptyOnlyIfNothingFound
  <2>9. ListOK'
    BY <1>1, <2>1, <2>3, <2>4, <2>5 DEF ListOK, Indices, Searching
  <2>10. EndsOK'
    <3>1. ev'[1].t = "start" /\ (n > 1 => ev'[n].t = "end")
      BY <2>2, <2>3
    <3>2. \A k \in 2 .. n - 1 : ev'[k].t \in Kinds
      BY <2>2, <2>3, <2>6
    <3> QED
      BY <2>1, <2>2, <2>3, <3>1, <3>2 DEF EndsOK, Searching
  <2>11. SatIndicesFresh' /\ SaturationKept'
    BY <2>1 DEF SatIndicesFresh, SaturationKept
  <2> QED
    BY <1>1, <2>1, <2>7, <2>8, <2>9, <2>10, <2>11, SearchQuiet DEF EventInv
<1> QED
  BY <1>9, <1>10

-----------------------------------------------------------------------------
(* The report                                                              *)

\* The report leaves what the search made, but for events it filters out.
LEMMA ReportQuiet ==
  ASSUME EventInv, UNCHANGED <<curve, scan, tails, points, satEv, endReflect, oob>>,
         pc \in Reporting, pc' \in Reporting
  PROVE  Scanned' /\ TailRuns' /\ SatIndicesFresh' /\ SaturationKept' /\ EmptyOnlyIfNothingFound'
<1>1. tails' = tails /\ points' = points /\ oob' = oob
  OBVIOUS
<1>2. pc' \notin {"sat", "split", "tail", "end", "mark1"}
  BY DEF Reporting
<1> QED
  BY <1>1, <1>2 DEF EventInv, Scanned, TailRuns, SatIndicesFresh, SaturationKept, EmptyOnlyIfNothingFound

LEMMA SameList ==
  ASSUME EventInv, UNCHANGED <<curve, scan, tails, points, satEv, endReflect, oob>>, ev' = ev,
         pc \in Reporting, pc' \in Reporting
  PROVE  Typed' /\ ListOK' /\ EndsOK'
<1>1. /\ conf' = conf /\ delta' = delta /\ sat' = sat /\ scan' = scan /\ tails' = tails /\ points' = points
      /\ satEv' = satEv /\ oob' = oob
  BY DEF curve
<1>2. pc # "wild" /\ pc' # "wild" /\ pc' \in Passes /\ pc' \notin {"idle", "sat", "find", "filter"}
  BY DEF Reporting, Passes
<1>3. Typed'
  BY <1>1, <1>2 DEF EventInv, Typed
<1>4. pc' \notin Searching /\ pc' \notin {"split", "mark3", "end"}
  BY DEF Searching, Reporting
<1>5. ListOK' /\ EndsOK'
  BY <1>1, <1>4 DEF EventInv, ListOK, EndsOK, Indices
<1> QED
  BY <1>3, <1>5

\* Nothing is reported before the list is filled in.
LEMMA NothingReported ==
  ASSUME EventInv, pc # "free", report' = report
  PROVE  Reported'
<1>1. report' = <<>>
  BY DEF EventInv, Reported
<1> QED
  BY <1>1 DEF Reported, OneEnd, NumbersOfTheirEvents, SectionOfItsEvent, LossOfItsEvent

LEMMA ReportStartKeeps ==
  ASSUME EventInv, ReportStart
  PROVE  EventInv'
<1>1. /\ pc = "report" /\ pc' = "coefs" /\ il' = Blank /\ lastG' = 1 /\ lastE' = 1
      /\ UNCHANGED <<curve, scan, tails, points, satEv, endReflect, oob>> /\ ev' = ev
      /\ egs' = egs /\ egNum' = egNum /\ gi' = gi /\ filtered' = filtered /\ report' = report
  BY DEF ReportStart
<1>2. pc \in Reporting /\ pc' \in Reporting
  BY <1>1 DEF Reporting
<1>3. \A i \in Slots : il'[i] = None
  BY <1>1 DEF Blank
<1>4. Counted'
  <2>1. None \in Seq(Nat)
    BY DEF None
  <2>2. il' \in [Slots -> Seq(Nat)]
    BY <1>1, <2>1 DEF Blank
  <2>3. 1 \in Slots /\ 1 \in 1 .. MaxEvents + 1
    BY Sizes DEF Slots
  <2> QED
    BY <1>1, <2>2, <2>3 DEF EventInv, Counted
<1>5. Sections'
  <2>1. \A i \in Slots : ~(i < 1)
    BY Sizes DEF Slots
  <2> QED
    BY <1>1, <2>1 DEF Sections
<1>6. Losses'
  BY <1>3 DEF Losses
<1>7. GroupsOK'
  BY <1>1 DEF GroupsOK
<1>8. Scanned' /\ TailRuns' /\ SatIndicesFresh' /\ SaturationKept' /\ EmptyOnlyIfNothingFound'
  BY <1>1, <1>2, ReportQuiet
<1>9. Typed' /\ ListOK' /\ EndsOK'
  BY <1>1, <1>2, SameList
<1>10. Reported'
  BY <1>1, NothingReported
<1> QED
  BY <1>4, <1>5, <1>6, <1>7, <1>8, <1>9, <1>10 DEF EventInv

\* The groups start at the first event and in ascending order.
LEMMA GroupsStart ==
  ASSUME Typed, Counted, Len(ev) > 0, Len(ev) <= MaxEvents, NEW coef, InitEventGroupStart(coef)
  PROVE  /\ egNum' \in 1 .. Len(ev) /\ egs' \in [Slots -> 0 .. MaxEvents]
         /\ \A j \in 1 .. egNum' : egs'[j] \in 1 .. Len(ev) /\ egs'[j] >= j
         /\ \A i, j \in 1 .. egNum' : i < j => egs'[i] < egs'[j]
<1>1. PICK m \in Nat : m = Len(ev) /\ m > 0 /\ m <= MaxEvents
  <2>1. Len(ev) \in Nat
    BY DEF Typed
  <2> QED
    BY <2>1
<1>2. PICK S : S = {1} \cup {i \in 2 .. m : coef[i - 1] # None}
  OBVIOUS
<1>3. PICK f : f = Ascending(S)
  OBVIOUS
<1>4. S \in SUBSET (1 .. m) /\ S \in SUBSET Nat /\ 1 \in S
  BY <1>1, <1>2
<1>5. IsFiniteSet(1 .. m) /\ Cardinality(1 .. m) = m
  <2>1. 1 \in Int /\ m \in Int
    OBVIOUS
  <2>2. IsFiniteSet(1 .. m) /\ Cardinality(1 .. m) = IF 1 > m THEN 0 ELSE m - 1 + 1
    BY <2>1, FS_Interval
  <2> QED
    BY <1>1, <2>2
<1>6. IsFiniteSet(S) /\ Cardinality(S) <= m
  BY <1>4, <1>5, FS_Subset
<1>7. PICK n \in Nat : /\ n = Cardinality(S) /\ f \in [1 .. n -> S]
                       /\ \A i, j \in 1 .. n : i < j => f[i] < f[j]
                       /\ \A x \in S : \E i \in 1 .. n : f[i] = x
                       /\ \A i \in 1 .. n : Cardinality({y \in S : y < f[i]}) = i - 1
  BY <1>3, <1>4, <1>6, Ascends
<1>8. Len(f) = n /\ n <= m /\ n >= 1
  <2>1. PICK i \in 1 .. n : f[i] = 1
    BY <1>4, <1>7
  <2>2. n >= 1
    BY <1>7, <2>1
  <2> QED
    BY <1>6, <1>7, <2>2
<1>9. ASSUME NEW k \in 1 .. n PROVE f[k] \in 1 .. m /\ f[k] >= k
  <2> DEFINE B == {y \in S : y < f[k]}
  <2>1. f[k] \in S
    BY <1>7
  <2>2. f[k] \in 1 .. m /\ k \in Nat
    <3>1. k \in Nat
      OBVIOUS
    <3>2. f[k] \in 1 .. m
      BY <1>4, <2>1
    <3> QED
      BY <3>1, <3>2
  <2>3. PICK b \in Nat : b = f[k] - 1
    BY <2>2
  <2>4. IsFiniteSet(1 .. b) /\ Cardinality(1 .. b) = b
    <3>1. 1 \in Int /\ b \in Int
      OBVIOUS
    <3>2. IsFiniteSet(1 .. b) /\ Cardinality(1 .. b) = IF 1 > b THEN 0 ELSE b - 1 + 1
      BY <3>1, FS_Interval
    <3> QED
      BY <3>2
  <2>5. B \in SUBSET (1 .. b)
    <3>1. ASSUME NEW y \in S, y < f[k] PROVE y \in 1 .. b
      <4>1. y \in 1 .. m
        BY <1>4
      <4> QED
        BY <2>2, <2>3, <3>1, <4>1
    <3> QED
      BY <3>1
  <2>6. Cardinality(B) = k - 1
    BY <1>7
  <2>7. Cardinality(B) <= Cardinality(1 .. b)
    <3> HIDE DEF B
    <3> QED
      BY <2>4, <2>5, FS_Subset
  <2> QED
    BY <2>2, <2>3, <2>4, <2>6, <2>7
<1>10. egNum' = Len(f) /\ egs' = [k \in Slots |-> IF k <= Len(f) THEN f[k] ELSE egs[k]]
  BY <1>1, <1>2, <1>3 DEF InitEventGroupStart
<1>11. \A k \in 1 .. n : k \in Slots /\ egs'[k] = f[k]
  BY <1>1, <1>8, <1>10, Sizes DEF Slots
<1>12. egs' \in [Slots -> 0 .. MaxEvents]
  <2>1. ASSUME NEW k \in Slots PROVE (IF k <= n THEN f[k] ELSE egs[k]) \in 0 .. MaxEvents
    <3>1. CASE k <= n
      <4>1. k \in 1 .. n
        BY <3>1, Sizes DEF Slots
      <4>2. f[k] \in 1 .. m
        BY <1>9, <4>1
      <4> QED
        BY <1>1, <3>1, <4>2, Sizes
    <3>2. CASE ~(k <= n)
      BY <3>2 DEF Counted
    <3> QED
      BY <3>1, <3>2
  <2> QED
    BY <1>8, <1>10, <2>1
<1>13. \A i, j \in 1 .. n : i < j => egs'[i] < egs'[j]
  BY <1>7, <1>11
<1>14. \A j \in 1 .. n : egs'[j] \in 1 .. m /\ egs'[j] >= j
  BY <1>9, <1>11
<1>15. egNum' = n /\ n \in 1 .. m
  BY <1>8, <1>10
<1> HIDE DEF Typed, Counted
<1> QED
  BY <1>1, <1>12, <1>13, <1>14, <1>15

LEMMA CoefsKeeps ==
  ASSUME EventInv, Coefs
  PROVE  EventInv'
<1>1. /\ pc = "coefs" /\ pc' = "group" /\ gi' = lastG
      /\ UNCHANGED <<curve, scan, tails, points, satEv, endReflect, oob>> /\ ev' = ev
      /\ il' = il /\ lastG' = lastG /\ lastE' = lastE /\ filtered' = filtered /\ report' = report
  BY DEF Coefs
<1>2. pc \in Reporting /\ pc' \in Reporting
  BY <1>1 DEF Reporting
<1>3. Typed /\ Counted /\ EndsOK /\ Sections /\ Losses
  BY DEF EventInv
<1>4. Len(ev) > 0 /\ Len(ev) <= MaxEvents /\ Len(ev) \in Nat
  BY <1>1, <1>3 DEF EndsOK, Reporting, Typed
<1>5. /\ ac' = [i \in Slots |-> IF i \in lastE .. Len(ev) THEN CalculateFiberSectionAttenCoef(i) ELSE ac[i]]
      /\ InitEventGroupStart(ac')
  BY DEF Coefs
<1>6. /\ egNum' \in 1 .. Len(ev) /\ egs' \in [Slots -> 0 .. MaxEvents]
      /\ \A j \in 1 .. egNum' : egs'[j] \in 1 .. Len(ev) /\ egs'[j] >= j
      /\ \A i, j \in 1 .. egNum' : i < j => egs'[i] < egs'[j]
  BY <1>3, <1>4, <1>5, GroupsStart
<1>7. lastG \in 1 .. MaxEvents /\ lastE \in 1 .. MaxEvents + 1
  BY <1>3 DEF Counted, Slots
<1>8. Counted'
  <2>1. egNum' \in 0 .. MaxEvents /\ gi' \in 1 .. MaxEvents + 1
    BY <1>1, <1>4, <1>6, <1>7, Sizes
  <2> QED
    BY <1>1, <1>3, <1>6, <2>1 DEF Counted
<1>9. GroupsOK'
  BY <1>1, <1>6 DEF GroupsOK, Indices
<1>10. Sections'
  <2>1. SUFFICES ASSUME ~filtered.late, NEW i \in Slots, i < Len(ev)
                 PROVE  ac'[i] \in {None, <<ev[i].e, ev[i + 1].s>>}
    BY <1>1 DEF Sections
  <2>2. CASE i \in lastE .. Len(ev)
    BY <1>5, <2>2 DEF CalculateFiberSectionAttenCoef
  <2>3. CASE i \notin lastE .. Len(ev)
    <3>1. i < lastE
      BY <1>4, <1>7, <2>1, <2>3, Sizes DEF Slots
    <3>2. ac'[i] = ac[i]
      BY <1>5, <2>3
    <3>3. ac[i] \in {None, <<ev[i].e, ev[i + 1].s>>}
      BY <1>1, <1>3, <2>1, <3>1 DEF Sections
    <3> QED
      BY <3>2, <3>3
  <2> QED
    BY <2>2, <2>3
<1>11. Losses'
  <2>1. SUFFICES ASSUME ~filtered.late, NEW i \in Slots, i \notin filtered.at, il[i] # None
                 PROVE  /\ i <= Len(ev) /\ il[i] = <<ev[i].s>>
                        /\ \A j \in gi' .. egNum' : i <= egs'[j]
    BY <1>1 DEF Losses
  <2>2. i <= Len(ev) /\ il[i] = <<ev[i].s>> /\ i <= lastG
    BY <1>1, <1>3, <2>1 DEF Losses
  <2>3. ASSUME NEW j \in gi' .. egNum' PROVE i <= egs'[j]
    <3>1. j \in 1 .. egNum' /\ lastG <= j
      BY <1>1, <1>6, <1>7, Sizes
    <3>2. egs'[j] \in Nat /\ egs'[j] >= j
      BY <1>4, <1>6, <3>1
    <3> QED
      BY <1>7, <2>2, <3>1, <3>2, Sizes DEF Slots
  <2> QED
    BY <2>2, <2>3
<1>12. Scanned' /\ TailRuns' /\ SatIndicesFresh' /\ SaturationKept' /\ EmptyOnlyIfNothingFound'
  BY <1>1, <1>2, ReportQuiet
<1>13. Typed' /\ ListOK' /\ EndsOK'
  BY <1>1, <1>2, SameList
<1>14. Reported'
  BY <1>1, NothingReported
<1> QED
  BY <1>8, <1>9, <1>10, <1>11, <1>12, <1>13, <1>14 DEF EventInv

\* What the filtering out of a group leaves: the events in front of it, with
\* their places, and the last one.
LEMMA GroupLeaves ==
  ASSUME NEW list \in Seq(Event), NEW s \in Nat, NEW e \in Nat, 1 < s, s <= e, e < Len(list), Sorted(list),
         NEW bad, \A x \in 1 .. Len(list) : x \in bad <=> s <= x /\ x <= e
  PROVE  LET r == KickOutOfArray(list, bad)
         IN  /\ r \in Seq(Event) /\ s - 1 <= Len(r) /\ Len(r) <= Len(list) /\ Sorted(r) /\ Len(r) > 1
             /\ \A k \in 1 .. s - 1 : r[k] = list[k]
             /\ r[Len(r)] = list[Len(list)]
             /\ \A k \in 1 .. Len(r) : \E x \in 1 .. Len(list) :
                  r[k] = list[x] /\ k <= x /\ (x = Len(list) => k = Len(r))
<1> DEFINE r == KickOutOfArray(list, bad)
<1>1. PICK m \in Nat : m = Len(list)
  OBVIOUS
<1>2. r \in Seq(Event) /\ Len(r) <= Len(list)
  BY Kicked
<1>3. \E f \in [1 .. Len(r) -> 1 .. Len(list)] :
        /\ \A k \in 1 .. Len(r) : r[k] = list[f[k]] /\ f[k] \notin bad /\ k <= f[k]
        /\ \A i, j \in 1 .. Len(r) : i < j => f[i] < f[j]
        /\ \A x \in 1 .. Len(list) : x \notin bad => \E i \in 1 .. Len(r) : f[i] = x
  <2>1. PICK f : Picks(f, r, list, bad)
    BY Kicked
  <2> QED
    BY <2>1 DEF Picks
<1>15. \A x \in 1 .. Len(list) : (\A y \in 1 .. x : y \notin bad) => x <= Len(r) /\ r[x] = list[x]
  BY Kicked
<1>4. Sorted(r)
  BY StaysSorted
<1>5. \A x \in 1 .. m : x \notin bad <=> x < s \/ x > e
  BY <1>1
<1> HIDE DEF r
<1>6. PICK n \in Nat : n = Len(r) /\ n <= m
  BY <1>1, <1>2
<1>7. PICK f \in [1 .. n -> 1 .. m] :
        /\ \A k \in 1 .. n : r[k] = list[f[k]] /\ f[k] \notin bad /\ k <= f[k]
        /\ \A i, j \in 1 .. n : i < j => f[i] < f[j]
        /\ \A x \in 1 .. m : x \notin bad => \E i \in 1 .. n : f[i] = x
  BY <1>1, <1>3, <1>6
<1>8. ASSUME NEW k \in 1 .. s - 1 PROVE k \in 1 .. n /\ r[k] = list[k]
  <2>1. k \in 1 .. m /\ \A y \in 1 .. k : y \in 1 .. m /\ y < s
    BY <1>1
  <2>2. \A y \in 1 .. k : y \notin bad
    BY <1>5, <2>1
  <2>3. k <= n /\ r[k] = list[k]
    BY <1>1, <1>6, <1>15, <2>1, <2>2
  <2>4. k \in 1 .. n
    BY <2>1, <2>3
  <2> QED
    BY <2>3, <2>4
<1>9. s - 1 \in 1 .. n /\ 1 \in 1 .. s - 1
  <2>1. s - 1 \in 1 .. s - 1 /\ 1 \in 1 .. s - 1
    OBVIOUS
  <2> QED
    BY <1>8, <2>1
<1>10. PICK i \in 1 .. n : f[i] = m
  <2>1. m \in 1 .. m /\ m \notin bad
    BY <1>1, <1>5
  <2> QED
    BY <1>7, <2>1
<1>11. i = n
  <2>1. SUFFICES ASSUME i < n PROVE FALSE
    BY <1>10
  <2>2. n \in 1 .. n
    BY <1>10, <2>1
  <2>3. f[n] \in 1 .. m /\ f[i] < f[n]
    BY <1>7, <2>1, <2>2
  <2> QED
    BY <1>10, <2>3
<1>12. r[n] = list[m] /\ n \in 1 .. n
  BY <1>7, <1>10, <1>11
<1>13. n > 1
  <2>1. 1 \in 1 .. m /\ 1 \notin bad
    BY <1>1, <1>5
  <2>2. PICK j \in 1 .. n : f[j] = 1
    BY <1>7, <2>1
  <2>3. j # n
    BY <1>1, <1>10, <1>11, <2>2
  <2> QED
    BY <2>2, <2>3
<1>14. ASSUME NEW k \in 1 .. n
       PROVE  \E x \in 1 .. m : r[k] = list[x] /\ k <= x /\ (x = m => k = n)
  <2>1. f[k] \in 1 .. m /\ r[k] = list[f[k]] /\ k <= f[k]
    BY <1>7
  <2>2. f[k] = m => k = n
    <3>1. k \in Nat /\ n \in Nat /\ (k = n \/ k < n)
      OBVIOUS
    <3>2. k < n => f[k] < f[n]
      BY <1>7, <1>12
    <3>3. f[n] = m
      BY <1>10, <1>11
    <3> QED
      BY <3>1, <3>2, <3>3
  <2> QED
    BY <2>1, <2>2
<1> QED
  BY <1>1, <1>2, <1>4, <1>6, <1>8, <1>9, <1>12, <1>13, <1>14 DEF r

\* The loss computed for a group is that of its first event.
LEMMA LossComputed ==
  ASSUME EventInv, pc = "group", gi <= egNum, CalculateEventPoint_IL_RL(gi)
  PROVE  /\ il' \in [Slots -> Seq(Nat)]
         /\ \A i \in Slots : il'[i] = il[i] \/ (Middle(gi) /\ i = egs[gi] /\ il'[i] = <<ev[i].s>>)
<1>1. Typed /\ Counted /\ GroupsOK
  BY DEF EventInv
<1>2. il \in [Slots -> Seq(Nat)] /\ gi \in 1 .. egNum /\ egNum \in Nat
  BY <1>1, Sizes DEF Counted
<1>3. egs[gi] \in 1 .. Len(ev) /\ egs[gi] \in Slots
  <2>1. egs[gi] \in 1 .. Len(ev)
    BY <1>1, <1>2 DEF GroupsOK, Indices
  <2>2. Len(ev) \in Nat /\ Len(ev) <= MaxEvents
    BY <1>1 DEF Typed
  <2> QED
    BY <2>1, <2>2, Sizes DEF Slots
<1>4. PICK v : v = <<ev[egs[gi]].s>>
  OBVIOUS
<1>5. v \in Seq(Nat)
  <2>1. ev[egs[gi]] \in Event
    BY <1>1, <1>3 DEF Typed
  <2>2. ev[egs[gi]].s \in Nat
    BY <2>1, Sizes DEF Event, Pos
  <2> QED
    BY <1>4, <2>2
<1>6. il' = IF Middle(gi) THEN [il EXCEPT ![egs[gi]] = v] ELSE il
  BY <1>4 DEF CalculateEventPoint_IL_RL
<1>7. CASE Middle(gi)
  BY <1>2, <1>3, <1>4, <1>5, <1>6, <1>7
<1>8. CASE ~Middle(gi)
  BY <1>2, <1>6, <1>8
<1> QED
  BY <1>7, <1>8

LEMMA GroupStepKeeps ==
  ASSUME EventInv, GroupStep
  PROVE  EventInv'
<1>1. /\ pc = "group" /\ gi <= egNum /\ CalculateEventPoint_IL_RL(gi)
      /\ UNCHANGED <<curve, scan, tails, points, satEv, endReflect, oob>>
      /\ ac' = ac /\ egs' = egs /\ egNum' = egNum /\ report' = report
  BY DEF GroupStep
<1>2. Typed /\ Counted /\ ListOK /\ EndsOK /\ GroupsOK /\ Sections /\ Losses
  BY DEF EventInv
<1>3. /\ ev \in Seq(Event) /\ Len(ev) \in Nat /\ Len(ev) <= MaxEvents
      /\ Sorted(ev) /\ \A k \in 1 .. Len(ev) : ev[k].s <= ev[k].e \/ (k = Len(ev) /\ conf.wide /\ ev[k].e = 0)
      /\ ev[1].t = "start" /\ (Len(ev) > 1 => ev[Len(ev)].t = "end")
      /\ \A k \in 2 .. Len(ev) - 1 : ev[k].t \in Kinds
  BY <1>1, <1>2 DEF Typed, ListOK, EndsOK, Reporting, Indices
<1>4. /\ egNum \in Nat /\ egNum <= MaxEvents /\ gi \in 1 .. egNum
      /\ \A j \in 1 .. egNum : egs[j] \in 1 .. Len(ev) /\ egs[j] >= j
      /\ \A i, j \in 1 .. egNum : i < j => egs[i] < egs[j]
      /\ egs \in [Slots -> 0 .. MaxEvents] /\ filtered \in [at : SUBSET Nat, late : BOOLEAN]
  BY <1>1, <1>2, Sizes DEF Counted, GroupsOK, Indices
<1>5. /\ il' \in [Slots -> Seq(Nat)]
      /\ \A i \in Slots : il'[i] = il[i] \/ (Middle(gi) /\ i = egs[gi] /\ il'[i] = <<ev[i].s>>)
  BY <1>1, LossComputed
<1>6. ~filtered.late => \A i \in Slots : i \notin filtered.at /\ il[i] # None =>
                          i <= Len(ev) /\ il[i] = <<ev[i].s>> /\ \A j \in gi .. egNum : i <= egs[j]
  BY <1>1, <1>2 DEF Losses
<1>7. Reported'
  BY <1>1, NothingReported
<1>8. CASE gi' = gi + 1 /\ UNCHANGED <<pc, ev, lastG, lastE, filtered>>
  <2>1. pc' = "group" /\ ev' = ev /\ lastG' = lastG /\ lastE' = lastE /\ filtered' = filtered
    BY <1>1, <1>8
  <2>2. pc \in Reporting /\ pc' \in Reporting
    BY <1>1, <2>1 DEF Reporting
  <2>3. Counted'
    <3>1. gi' \in 1 .. MaxEvents + 1
      BY <1>4, <1>8, Sizes
    <3> QED
      BY <1>1, <1>2, <1>5, <2>1, <3>1 DEF Counted
  <2>4. GroupsOK'
    BY <1>1, <1>4, <2>1 DEF GroupsOK, Indices
  <2>5. Sections'
    BY <1>1, <1>2, <2>1 DEF Sections
  <2>6. Losses'
    <3>1. SUFFICES ASSUME ~filtered.late, NEW i \in Slots, i \notin filtered.at, il'[i] # None
                   PROVE  /\ i <= Len(ev) /\ il'[i] = <<ev[i].s>>
                          /\ \A j \in gi + 1 .. egNum : i <= egs[j]
      BY <1>1, <1>8, <2>1 DEF Losses
    <3>2. CASE il'[i] = il[i]
      <4>1. i <= Len(ev) /\ il[i] = <<ev[i].s>> /\ \A j \in gi .. egNum : i <= egs[j]
        BY <1>6, <3>1, <3>2
      <4>2. \A j \in gi + 1 .. egNum : j \in gi .. egNum
        BY <1>4
      <4> QED
        BY <3>2, <4>1, <4>2
    <3>3. CASE i = egs[gi] /\ il'[i] = <<ev[i].s>>
      <4>1. i \in 1 .. Len(ev)
        BY <1>4, <3>3
      <4>2. ASSUME NEW j \in gi + 1 .. egNum PROVE i <= egs[j]
        <5>1. j \in 1 .. egNum /\ gi < j
          BY <1>4
        <5>2. egs[gi] < egs[j] /\ egs[gi] \in Nat /\ egs[j] \in Nat
          BY <1>3, <1>4, <5>1
        <5> QED
          BY <3>3, <5>2
      <4> QED
        BY <1>3, <3>3, <4>1, <4>2
    <3> QED
      BY <1>5, <3>2, <3>3
  <2>7. Scanned' /\ TailRuns' /\ SatIndicesFresh' /\ SaturationKept' /\ EmptyOnlyIfNothingFound'
    BY <1>1, <2>2, ReportQuiet
  <2>8. Typed' /\ ListOK' /\ EndsOK'
    BY <1>1, <2>1, <2>2, SameList
  <2> QED
    BY <1>7, <2>3, <2>4, <2>5, <2>6, <2>7, <2>8 DEF EventInv
<1>9. CASE Middle(gi) /\ Filter(gi)
  <2>1. PICK g \in Nat : g = gi /\ 1 < g /\ g < egNum /\ g \in 1 .. egNum /\ g + 1 \in 1 .. egNum /\ g - 1 \in 1 .. egNum
    BY <1>4, <1>9 DEF Middle
  <2>2. PICK s \in Nat : s = egs[g]
    BY <1>3, <1>4, <2>1
  <2>3. PICK e \in Nat : e = egs[g + 1] - 1 /\ s <= e /\ e < Len(ev)
    <3>1. egs[g + 1] \in 1 .. Len(ev) /\ egs[g] < egs[g + 1]
      BY <1>4, <2>1
    <3> QED
      BY <1>3, <2>2, <3>1
  <2>4. g <= s /\ 1 < s
    <3>1. egs[g] >= g
      BY <1>4, <2>1
    <3> QED
      BY <2>1, <2>2, <3>1
  <2>5. /\ ev' = KickOutOfArray(ev, s .. e)
        /\ filtered' = [at |-> filtered.at \cup {s}, late |-> filtered.late \/ s > g]
        /\ lastG' = g - 1 /\ pc' = "coefs" /\ gi' = gi
        /\ lastE' \in IF egs[s - 1] = 0 THEN 1 .. Len(ev) + 1 ELSE {egs[s - 1]}
    BY <1>9, <2>1, <2>2, <2>3 DEF Filter, GroupEnd
  <2>6. /\ ev' \in Seq(Event) /\ s - 1 <= Len(ev') /\ Len(ev') <= Len(ev) /\ Sorted(ev') /\ Len(ev') > 1
        /\ \A k \in 1 .. s - 1 : ev'[k] = ev[k]
        /\ ev'[Len(ev')] = ev[Len(ev)]
        /\ \A k \in 1 .. Len(ev') : \E x \in 1 .. Len(ev) :
             ev'[k] = ev[x] /\ k <= x /\ (x = Len(ev) => k = Len(ev'))
    <3>0. PICK bad : bad = s .. e
      OBVIOUS
    <3> DEFINE r == KickOutOfArray(ev, bad)
    <3>1. /\ ev \in Seq(Event) /\ s \in Nat /\ e \in Nat /\ 1 < s /\ s <= e /\ e < Len(ev) /\ Sorted(ev)
          /\ \A x \in 1 .. Len(ev) : x \in bad <=> s <= x /\ x <= e
      BY <1>3, <2>3, <2>4, <3>0
    <3>2. /\ r \in Seq(Event) /\ s - 1 <= Len(r) /\ Len(r) <= Len(ev) /\ Sorted(r) /\ Len(r) > 1
          /\ \A k \in 1 .. s - 1 : r[k] = ev[k]
          /\ r[Len(r)] = ev[Len(ev)]
          /\ \A k \in 1 .. Len(r) : \E x \in 1 .. Len(ev) :
               r[k] = ev[x] /\ k <= x /\ (x = Len(ev) => k = Len(r))
      BY <3>1, GroupLeaves, SMTT(40)
    <3>3. ev' = r
      BY <2>5, <3>0
    <3> HIDE DEF r
    <3> QED
      BY <3>2, <3>3
  <2>7. PICK n \in Nat : n = Len(ev') /\ s - 1 <= n /\ n <= Len(ev) /\ n > 1
    BY <2>6
  <2>8. /\ pc \in Reporting /\ pc' \in Reporting
    BY <1>1, <2>5 DEF Reporting
  <2>9. Scanned' /\ TailRuns' /\ SatIndicesFresh' /\ SaturationKept' /\ EmptyOnlyIfNothingFound'
    BY <1>1, <2>8, ReportQuiet
  <2>10. /\ conf' = conf /\ delta' = delta /\ sat' = sat /\ scan' = scan /\ tails' = tails /\ points' = points
         /\ satEv' = satEv /\ oob' = oob
    BY <1>1 DEF curve
  <2>11. Typed'
    <3>1. Len(ev') <= MaxEvents
      BY <1>3, <2>7, Sizes
    <3>2. pc' \in Passes /\ pc' \notin {"wild", "idle", "sat", "find", "filter"} /\ pc # "wild"
      BY <1>1, <2>5 DEF Passes, Reporting
    <3> QED
      BY <1>2, <2>6, <2>10, <3>1, <3>2 DEF Typed
  <2>12. Counted'
    <3>1. lastG' \in Slots /\ s - 1 \in Slots
      <4>1. s <= Len(ev)
        BY <1>3, <2>3
      <4> QED
        BY <1>3, <1>4, <2>1, <2>4, <2>5, <4>1, Sizes DEF Slots
    <3>2. lastE' \in 1 .. MaxEvents + 1
      <4>1. egs[s - 1] \in 0 .. MaxEvents
        BY <1>4, <3>1
      <4>2. CASE egs[s - 1] = 0
        BY <1>3, <2>5, <4>2, Sizes
      <4>3. CASE egs[s - 1] # 0
        BY <2>5, <4>1, <4>3, Sizes
      <4> QED
        BY <4>2, <4>3
    <3>3. filtered' \in [at : SUBSET Nat, late : BOOLEAN]
      <4>1. filtered.at \cup {s} \in SUBSET Nat /\ (filtered.late \/ s > g) \in BOOLEAN
        BY <1>4
      <4> QED
        BY <2>5, <4>1
    <3> QED
      BY <1>1, <1>2, <1>5, <2>5, <3>1, <3>2, <3>3 DEF Counted
  <2>13. GroupsOK'
    BY <2>5 DEF GroupsOK
  <2>14. ListOK'
    <3>1. \A k \in 1 .. n : ev'[k].s <= ev'[k].e \/ (k = n /\ conf.wide /\ ev'[k].e = 0)
      BY <1>3, <2>6, <2>7
    <3> QED
      BY <2>5, <2>6, <2>7, <2>10, <3>1 DEF ListOK, Indices, Searching
  <2>15. EndsOK'
    <3>1. ev'[1].t = "start"
      <4>1. 1 \in 1 .. s - 1
        BY <2>4
      <4> QED
        BY <1>3, <2>6, <4>1
    <3>2. ev'[n].t = "end"
      BY <1>3, <2>6, <2>7
    <3>3. ASSUME NEW k \in 2 .. n - 1 PROVE ev'[k].t \in Kinds
      <4>1. k \in 1 .. n /\ k # n /\ k > 1
        BY <2>7
      <4>2. PICK x \in 1 .. Len(ev) : ev'[k] = ev[x] /\ k <= x /\ (x = Len(ev) => k = n)
        BY <2>6, <2>7, <4>1
      <4>3. x \in 2 .. Len(ev) - 1
        BY <1>3, <4>1, <4>2
      <4> QED
        BY <1>3, <4>2, <4>3
    <3> QED
      BY <2>5, <2>7, <3>1, <3>2, <3>3 DEF EndsOK, Searching
  <2>16. ASSUME ~filtered'.late
         PROVE  ~filtered.late /\ s = g /\ lastE' = g - 1 /\ filtered'.at = filtered.at \cup {s}
    <3>1. filtered'.late = (filtered.late \/ s > g) /\ filtered'.at = filtered.at \cup {s}
      BY <2>5
    <3>2. ~filtered.late /\ ~(s > g)
      BY <2>16, <3>1
    <3>3. s = g
      BY <2>4, <3>2
    <3>4. egs[g - 1] >= g - 1 /\ egs[g - 1] < egs[g] /\ egs[g - 1] \in Nat
      <4>1. g - 1 < g
        BY <2>1
      <4> QED
        BY <1>3, <1>4, <2>1, <4>1
    <3>5. egs[g - 1] = g - 1 /\ egs[s - 1] # 0
      BY <2>1, <2>2, <3>3, <3>4
    <3>6. lastE' = egs[s - 1]
      BY <2>5, <3>5
    <3> QED
      BY <3>1, <3>2, <3>3, <3>5, <3>6
  <2>17. Sections'
    <3>1. SUFFICES ASSUME ~filtered'.late, NEW i \in Slots, i < Len(ev'), i < lastE'
                   PROVE  ac[i] \in {None, <<ev'[i].e, ev'[i + 1].s>>}
      BY <1>1, <2>5 DEF Sections
    <3>2. i \in Nat /\ i >= 1 /\ i < g - 1 /\ s = g /\ ~filtered.late
      BY <2>16, <3>1, Sizes DEF Slots
    <3>3. i \in 1 .. s - 1 /\ i + 1 \in 1 .. s - 1 /\ i < Len(ev)
      BY <1>3, <2>1, <2>7, <3>2
    <3>4. ev'[i] = ev[i] /\ ev'[i + 1] = ev[i + 1]
      BY <2>6, <3>3
    <3>5. ac[i] \in {None, <<ev[i].e, ev[i + 1].s>>}
      BY <1>1, <1>2, <3>2, <3>3 DEF Sections
    <3> QED
      BY <3>4, <3>5
  <2>18. Losses'
    <3>1. SUFFICES ASSUME ~filtered'.late, NEW i \in Slots, i \notin filtered'.at, il'[i] # None
                   PROVE  i <= Len(ev') /\ il'[i] = <<ev'[i].s>> /\ i <= lastG'
      BY <2>5 DEF Losses
    <3>2. ~filtered.late /\ s = g /\ i \notin filtered.at /\ i # s
      BY <2>16, <3>1
    <3>3. il'[i] = il[i]
      BY <1>5, <2>1, <2>2, <3>2
    <3>4. il[i] = <<ev[i].s>> /\ i <= egs[g]
      <4>1. g \in gi .. egNum
        BY <2>1, <1>4
      <4> QED
        BY <1>6, <3>1, <3>2, <3>3, <4>1
    <3>5. i \in 1 .. s - 1
      BY <2>2, <3>2, <3>4, Sizes DEF Slots
    <3>6. ev'[i] = ev[i]
      BY <2>6, <3>5
    <3>7. i <= Len(ev') /\ i <= lastG'
      BY <2>5, <2>7, <3>2, <3>5
    <3> QED
      BY <3>3, <3>4, <3>6, <3>7
  <2> QED
    BY <1>7, <2>9, <2>11, <2>12, <2>13, <2>14, <2>15, <2>17, <2>18 DEF EventInv
<1> QED
  BY <1>8, <1>9 DEF GroupStep

LEMMA FillKeeps ==
  ASSUME EventInv, Fill
  PROVE  EventInv'
<1>1. /\ pc = "group" /\ pc' = "free"
      /\ UNCHANGED <<curve, scan, tails, points, satEv, endReflect, oob>> /\ ev' = ev
      /\ il' = il /\ egs' = egs /\ egNum' = egNum /\ gi' = gi /\ lastG' = lastG /\ lastE' = lastE
      /\ filtered' = filtered
      /\ report' = [i \in DOMAIN ev |->
                      [s |-> ev[i].s, e |-> ev[i].e, t |-> ev[i].t, ac |-> IF i = 1 THEN None ELSE ac[i - 1],
                       il |-> il[i], rl |-> NormalizeAC_RL(i)]]
  BY DEF Fill, sums
<1>2. pc \in Reporting /\ pc' \in Reporting
  BY <1>1 DEF Reporting
<1>3. Typed /\ Counted /\ EndsOK /\ Sections /\ Losses
  BY DEF EventInv
<1>4. PICK n \in Nat : n = Len(ev) /\ DOMAIN ev = 1 .. n /\ n > 0 /\ n <= MaxEvents
  BY <1>1, <1>3 DEF Typed, EndsOK, Reporting
<1>5. ev[1].t = "start" /\ (n > 1 => ev[n].t = "end") /\ \A k \in 2 .. n - 1 : ev[k].t \in Kinds
  BY <1>1, <1>3, <1>4 DEF EndsOK, Reporting
<1>6. /\ DOMAIN report' = 1 .. n /\ Len(report') = n
      /\ \A i \in 1 .. n : /\ report'[i].s = ev[i].s /\ report'[i].e = ev[i].e /\ report'[i].t = ev[i].t
                           /\ report'[i].ac = (IF i = 1 THEN None ELSE ac[i - 1]) /\ report'[i].il = il[i]
  BY <1>1, <1>4
<1>7. Counted'
  BY <1>1, <1>3 DEF Counted
<1>8. GroupsOK' /\ Sections' /\ Losses'
  BY <1>1 DEF GroupsOK, Sections, Losses
<1>9. OneEnd'
  <2>1. SUFFICES ASSUME NEW i \in 1 .. n
                 PROVE  (report'[i].t = "start" <=> i = 1) /\ (report'[i].t = "end" <=> i = n /\ i > 1)
    BY <1>6 DEF OneEnd
  <2>2. CASE i = 1
    BY <1>5, <1>6, <2>2
  <2>3. CASE i > 1 /\ i = n
    BY <1>5, <1>6, <2>3
  <2>4. CASE i > 1 /\ i < n
    <3>1. i \in 2 .. n - 1
      BY <1>4, <2>4
    <3>2. report'[i].t \in Kinds
      BY <1>5, <1>6, <3>1
    <3> QED
      BY <2>4, <3>2 DEF Kinds
  <2> QED
    BY <1>4, <2>2, <2>3, <2>4
<1>10. NumbersOfTheirEvents'
  <2>1. SectionOfItsEvent'
    <3>1. SUFFICES ASSUME ~filtered.late, NEW i \in 1 .. n, report'[i].ac # None
                   PROVE  report'[i].ac = <<report'[i - 1].e, report'[i].s>>
      BY <1>1, <1>6 DEF SectionOfItsEvent
    <3>2. i # 1 /\ report'[i].ac = ac[i - 1]
      BY <1>6, <3>1
    <3>3. PICK k \in Nat : k = i - 1 /\ k + 1 = i /\ k \in 1 .. n /\ k < n /\ k \in Slots
      BY <1>4, <3>2, Sizes DEF Slots
    <3>4. ac[k] \in {None, <<ev[k].e, ev[k + 1].s>>}
      BY <1>1, <1>3, <1>4, <3>1, <3>3 DEF Sections
    <3>5. ac[k] = <<ev[k].e, ev[i].s>>
      BY <3>1, <3>2, <3>3, <3>4
    <3>6. report'[k].e = ev[k].e /\ report'[i].s = ev[i].s
      BY <1>6, <3>3
    <3> QED
      BY <3>2, <3>3, <3>5, <3>6
  <2>2. LossOfItsEvent'
    <3>1. SUFFICES ASSUME ~filtered.late, NEW i \in 1 .. n, i \notin filtered.at
                   PROVE  report'[i].il \in {None, <<report'[i].s>>}
      BY <1>1, <1>6 DEF LossOfItsEvent
    <3>2. i \in Slots
      BY <1>4, Sizes DEF Slots
    <3>3. il[i] = None \/ il[i] = <<ev[i].s>>
      BY <1>1, <1>3, <3>1, <3>2 DEF Losses
    <3> QED
      BY <1>6, <3>3
  <2> QED
    BY <2>1, <2>2 DEF NumbersOfTheirEvents
<1>11. Reported'
  BY <1>1, <1>9, <1>10 DEF Reported
<1>12. Scanned' /\ TailRuns' /\ SatIndicesFresh' /\ SaturationKept' /\ EmptyOnlyIfNothingFound'
  BY <1>1, <1>2, ReportQuiet
<1>13. Typed' /\ ListOK' /\ EndsOK'
  BY <1>1, <1>2, SameList
<1> QED
  BY <1>7, <1>8, <1>11, <1>12, <1>13 DEF EventInv

\* What Init and FreeEventMem set: nothing found, nothing counted.
Cleared ==
  /\ pc = "idle" /\ tails = {} /\ points = {} /\ ev = <<>> /\ satEv = <<>> /\ il = Blank
  /\ egs = [k \in Slots |-> 0] /\ egNum = 0 /\ gi = 1 /\ lastG = 1 /\ lastE = 1
  /\ filtered = [at |-> {}, late |-> FALSE] /\ report = <<>> /\ oob = "none"
  /\ [conf |-> conf, delta |-> delta, sat |-> sat] \in Inputs
  /\ scan \in [i : Nat, last : BOOLEAN, start : Nat, top : Nat]

LEMMA ClearedOK == Cleared => EventInv
<1> SUFFICES ASSUME Cleared PROVE EventInv
  OBVIOUS
<1>1. Typed
  <2>1. <<>> \in Seq(Event) /\ <<>> \in Seq(Slots) /\ Len(<<>>) = 0
    OBVIOUS
  <2> QED
    BY <2>1, Sizes DEF Cleared, Typed, Passes, Causes
<1>2. Counted
  <2>1. Blank \in [Slots -> Seq(Nat)]
    <3>1. None \in Seq(Nat)
      BY DEF None
    <3> QED
      BY <3>1 DEF Blank
  <2>2. 1 \in Slots /\ 1 \in 1 .. MaxEvents + 1 /\ 0 \in 0 .. MaxEvents
    BY Sizes DEF Slots
  <2>3. [k \in Slots |-> 0] \in [Slots -> 0 .. MaxEvents] /\ [at |-> {}, late |-> FALSE] \in [at : SUBSET Nat, late : BOOLEAN]
    BY <2>2
  <2> QED
    BY <2>1, <2>2, <2>3 DEF Cleared, Counted
<1>3. Scanned /\ TailRuns /\ ListOK /\ EndsOK
  BY DEF Cleared, Scanned, TailRuns, ListOK, EndsOK, Searching, Reporting
<1>4. SatIndicesFresh /\ SaturationKept /\ EmptyOnlyIfNothingFound
  BY DEF Cleared, SatIndicesFresh, SaturationKept, EmptyOnlyIfNothingFound
<1>5. GroupsOK /\ Sections /\ Losses
  BY DEF Cleared, GroupsOK, Sections, Losses
<1>6. Reported
  BY DEF Cleared, Reported, OneEnd, NumbersOfTheirEvents, SectionOfItsEvent, LossOfItsEvent
<1> QED
  BY <1>1, <1>2, <1>3, <1>4, <1>5, <1>6 DEF EventInv

LEMMA ClearedNext == Cleared' => EventInv'
BY ClearedOK, PTL

LEMMA FreeKeeps ==
  ASSUME EventInv, FreeEventMem
  PROVE  EventInv'
<1>1. conf' = conf /\ delta' = delta /\ sat' = sat /\ scan' = scan /\ oob' = oob /\ pc # "wild"
  BY DEF FreeEventMem, curve
<1>2. /\ [conf |-> conf', delta |-> delta', sat |-> sat'] \in Inputs
      /\ scan' \in [i : Nat, last : BOOLEAN, start : Nat, top : Nat] /\ oob' = "none"
  BY <1>1 DEF EventInv, Typed
<1>3. Blank' = Blank /\ Slots' = Slots
  BY DEF Blank, Slots
<1>4. Cleared'
  BY <1>2, <1>3 DEF FreeEventMem, Cleared
<1> QED
  BY <1>4, ClearedNext

LEMMA InitOK ==
  ASSUME Init
  PROVE  EventInv
<1>1. PICK m \in Inputs : conf = m.conf /\ delta = m.delta /\ sat = m.sat
  BY DEF Init, FindInit
<1>2. [conf |-> conf, delta |-> delta, sat |-> sat] \in Inputs
  <2>1. m \in [conf : [Settings -> BOOLEAN], delta : [Pos -> {-1, 0, 1, 2}], sat : SUBSET Pos]
    BY SizesAssumption
  <2>2. m = [conf |-> m.conf, delta |-> m.delta, sat |-> m.sat]
    BY <2>1
  <2> QED
    BY <1>1, <2>2
<1>3. scan = [i |-> 0, last |-> FALSE, start |-> 0, top |-> 0]
  BY DEF Init, FindInit
<1>4. scan \in [i : Nat, last : BOOLEAN, start : Nat, top : Nat]
  BY <1>3
<1>5. Cleared
  BY <1>2, <1>4 DEF Init, FindInit, Cleared
<1> QED
  BY <1>5, ClearedOK

LEMMA StutterKeeps ==
  ASSUME EventInv, UNCHANGED vars
  PROVE  EventInv'
<1>1. /\ pc' = pc /\ conf' = conf /\ sat' = sat /\ delta' = delta /\ scan' = scan /\ tails' = tails
      /\ points' = points /\ ev' = ev /\ satEv' = satEv /\ oob' = oob
      /\ ac' = ac /\ il' = il /\ egs' = egs /\ egNum' = egNum /\ gi' = gi /\ lastG' = lastG /\ lastE' = lastE
      /\ filtered' = filtered /\ report' = report
  BY DEF vars, findVars, sums
<1>2. Typed' /\ Counted' /\ Scanned' /\ TailRuns'
  BY <1>1 DEF EventInv, Typed, Counted, Scanned, TailRuns
<1>3. ListOK' /\ EndsOK'
  BY <1>1 DEF EventInv, ListOK, EndsOK, Indices
<1>4. SatIndicesFresh' /\ EmptyOnlyIfNothingFound'
  BY <1>1 DEF EventInv, SatIndicesFresh, EmptyOnlyIfNothingFound, Saturated
<1>5. SaturationKept'
  <2>1. Groups' = Groups
    BY <1>1 DEF Groups, Filled
  <2> QED
    BY <1>1, <2>1 DEF EventInv, SaturationKept
<1>6. GroupsOK' /\ Sections' /\ Losses'
  BY <1>1 DEF EventInv, GroupsOK, Sections, Losses, Indices
<1>7. Reported'
  BY <1>1 DEF EventInv, Reported, OneEnd, NumbersOfTheirEvents, SectionOfItsEvent, LossOfItsEvent
<1> QED
  BY <1>2, <1>3, <1>4, <1>5, <1>6, <1>7 DEF EventInv

-----------------------------------------------------------------------------
(* The theorems                                                            *)

\* The invariant holds of the search and the report, whatever the curve, the
\* thresholds and the sizes (ProcessFinalData, AnalyseMeasureResult).
THEOREM EventInvariant == Spec => []EventInv
<1>1. Init => EventInv
  BY InitOK
<1>2. EventInv /\ [Next]_vars => EventInv'
  <2> SUFFICES ASSUME EventInv, [Next]_vars PROVE EventInv'
    OBVIOUS
  <2>1. CASE UNCHANGED vars
    BY <2>1, StutterKeeps
  <2>2. CASE FindNext /\ UNCHANGED <<sums, report>>
    BY <2>2, StartKeeps, SatPlateauKeeps, SatTailKeeps, SatDoneKeeps, FindLargeKeeps, FindSkippedKeeps,
       EventPointsFilterKeeps, MarkKeeps, SplitEventKeeps, SplitDoneKeeps, RemoveTailKeeps, RemoveLowKeeps,
       FindProbableKeeps, FindEndKeeps DEF FindNext
  <2>3. CASE AnalyseMeasureResult
    BY <2>3, ReportStartKeeps, CoefsKeeps, GroupStepKeeps, FillKeeps DEF AnalyseMeasureResult
  <2>4. CASE FreeEventMem
    BY <2>4, FreeKeeps
  <2> QED
    BY <2>1, <2>2, <2>3, <2>4 DEF Next
<1> QED
  BY <1>1, <1>2, PTL DEF Spec

\* The arrays hold at most MAX_EVENT_NUM events, but for the step that writes
\* behind their end and ends the analysis, and their indices are indices of
\* them.
THEOREM EventTypes == Spec => []TypeOK
<1>1. EventInv => TypeOK
  <2> SUFFICES ASSUME EventInv PROVE TypeOK
    OBVIOUS
  <2>1. \A i \in DOMAIN ev : ev[i] \in Event
    BY DEF EventInv, Typed
  <2>2. \A i \in DOMAIN satEv : satEv[i] \in Slots
    BY DEF EventInv, Typed
  <2> QED
    BY <2>1, <2>2 DEF EventInv, Typed, Counted, TypeOK
<1> QED
  BY <1>1, EventInvariant, PTL

\* No pass makes events change places, nor overlap by more than the one sample
\* that two pieces of an event may share: SplitFinalEvents, which appends,
\* sorts before the list is used again.
THEOREM EventsStayOrdered == Spec => []Ordered
<1>1. EventInv => Ordered
  <2> SUFFICES ASSUME EventInv, pc \notin {"split", "wild"}, NEW k \in DOMAIN ev
               PROVE  /\ ev[k].s <= ev[k].e \/ (k = Len(ev) /\ conf.wide /\ ev[k].e = 0)
                      /\ k < Len(ev) => ev[k].e <= ev[k + 1].s + 1 /\ ev[k].s < ev[k + 1].s
    BY DEF Ordered
  <2>1. Typed /\ ListOK
    BY DEF EventInv
  <2>2. Len(ev) \in Nat /\ DOMAIN ev = 1 .. Len(ev)
    BY <2>1 DEF Typed
  <2>3. pc \in (Searching \ {"split", "mark3", "end"}) \cup {"mark3", "end"} \cup Reporting
    <3>1. pc \notin {"idle", "sat", "find", "filter"}
      <4>1. ev # <<>>
        BY <2>2
      <4> QED
        BY <2>1, <4>1 DEF Typed
    <3> QED
      BY <2>1, <3>1 DEF Typed, Passes, Searching, Reporting
  <2>4. Sorted(ev) /\ (ev[k].s <= ev[k].e \/ (k = Len(ev) /\ conf.wide /\ ev[k].e = 0))
    BY <2>1, <2>2, <2>3 DEF ListOK, Lasting, Indices
  <2>5. k < Len(ev) => Ahead(ev[k], ev[k + 1])
    <3>1. k < Len(ev) => k + 1 \in 1 .. Len(ev) /\ k < k + 1
      BY <2>2
    <3> QED
      BY <2>2, <2>4, <3>1 DEF Sorted
  <2> QED
    BY <2>4, <2>5 DEF Ahead
<1> QED
  BY <1>1, EventInvariant, PTL

\* FindSaturateEvents was called since the list changed wherever its indices
\* are used (RemoveTailNonReflexEventPoint, FindEndEventPoint).
THEOREM IndicesStayFresh == Spec => []SatIndicesFresh
<1>1. EventInv => SatIndicesFresh
  BY DEF EventInv
<1> QED
  BY <1>1, EventInvariant, PTL

\* A saturation found (GetCurveSaturatePoint) is in an event of the list that
\* EventPointsFilter makes, unless the list is full.
THEOREM SaturationsAreKept == Spec => []SaturationKept
<1>1. EventInv => SaturationKept
  BY DEF EventInv
<1> QED
  BY <1>1, EventInvariant, PTL

\* The passes use the last event of an empty list only where nothing was found
\* on the curve at all: none of them removes every event.
THEOREM ListStaysFilled == Spec => []EmptyOnlyIfNothingFound
<1>1. EventInv => EmptyOnlyIfNothingFound
  BY DEF EventInv
<1> QED
  BY <1>1, EventInvariant, PTL

\* The report has one start, its first event, and one end, its last, however
\* many groups AnalyseMeasureResult filters out behind SetEndEvent.
THEOREM ReportHasOneEnd == Spec => []OneEnd
<1>1. EventInv => OneEnd
  BY DEF EventInv, Reported
<1> QED
  BY <1>1, EventInvariant, PTL

\* The coefficients and losses of the report stand with the events they were
\* computed for, but for the restarts that SectionOfItsEvent and
\* LossOfItsEvent name (AnalyseMeasureResult, CalculateEventPoint_IL_RL).
THEOREM NumbersStandWithEvents == Spec => []NumbersOfTheirEvents
<1>1. EventInv => NumbersOfTheirEvents
  BY DEF EventInv, Reported
<1> QED
  BY <1>1, EventInvariant, PTL
=============================================================================
