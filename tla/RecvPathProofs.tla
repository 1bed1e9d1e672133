--------------------------- MODULE RecvPathProofs ---------------------------
(***************************************************************************)
(* For every size of the ring, minimal frame, tag and stream, and every    *)
(* cut of the stream into reads: the ring's blocks stay inside it, the     *)
(* bytes in the buffers are the last received, a good frame that no frame  *)
(* with a wrong length claims is handed on, and only a frame that says it  *)
(* is more than half the ring stops the reading.                           *)
(***************************************************************************)
EXTENDS RecvPath, SequenceTheorems, WellFoundedInduction, TLAPS

Item == [kind : {"good", "badtail", "badlen", "wronglen", "noise"}, len : Nat, said : Int, at : Nat]

\* The items of the stream lie one behind the other.
End(k) == stream[k].at + stream[k].len - 1
Stream ==
  /\ stream \in Seq(Item) /\ Total \in Nat /\ received \in 0 .. Total
  /\ \A k \in 1 .. Len(stream) :
       /\ stream[k].at >= 1 /\ stream[k].len >= 1 /\ End(k) <= Total
       /\ stream[k].kind # "noise" => stream[k].len >= MinFrame
       /\ stream[k].kind # "wronglen" => stream[k].said = stream[k].len
  /\ \A j, k \in 1 .. Len(stream) : j < k => End(j) < stream[k].at

\* A ring with its blocks inside it and apart, holding the last bytes received.
RingShape(r) ==
  /\ r \in [len : Nat, ixa : Nat, a : Seq(Nat), b : Seq(Nat)]
  /\ r.ixa + Len(r.a) <= r.len /\ Len(r.b) <= r.ixa
LastBytes(a, b, n) ==
  /\ Len(a) + Len(b) <= n
  /\ \A i \in 1 .. Len(a) : a[i] = n - (Len(a) + Len(b)) + i
  /\ \A i \in 1 .. Len(b) : b[i] = n - Len(b) + i
Holds(r, n) == LastBytes(r.a, r.b, n)

-----------------------------------------------------------------------------
(* The stream                                                              *)

\* A set of naturals has a least element: Junk's CHOOSE finds one.
LEMMA Smallest ==
  ASSUME NEW S, S \subseteq Nat, S # {}
  PROVE  \E i \in S : \A j \in S : i <= j
<1>1. \E i \in S : \A j \in S : ~(<<j, i>> \in OpToRel(<, Nat))
  BY NatLessThanWellFounded, WFMin
<1>2. \A i, j \in S : <<j, i>> \in OpToRel(<, Nat) <=> j < i
  BY DEF OpToRel
<1>3. \E i \in S : \A j \in S : ~(j < i)
  BY <1>1, <1>2, Zenon
<1> QED
  BY <1>3

\* Items begin and end at different places.
LEMMA Apart ==
  ASSUME Stream, NEW j \in 1 .. Len(stream), NEW k \in 1 .. Len(stream)
  PROVE  /\ j = k \/ End(j) < stream[k].at \/ End(k) < stream[j].at
         /\ stream[j].at \in Nat /\ stream[j].len \in Nat /\ stream[j].said \in Int /\ End(j) \in Nat
         /\ 1 <= stream[j].at /\ stream[j].at <= End(j) /\ End(j) = stream[j].at + stream[j].len - 1
<1>1. j < k \/ j = k \/ k < j
  OBVIOUS
<1>2. stream[j] \in Item
  BY DEF Stream
<1>3. /\ stream[j].at \in Nat /\ stream[j].len \in Nat /\ stream[j].at >= 1 /\ stream[j].len >= 1
      /\ stream[j].said \in Int
  BY <1>2 DEF Item, Stream
<1> QED
  BY <1>1, <1>3 DEF Stream, End

\* Bytes begin with the head of one item only.
LEMMA SameHead ==
  ASSUME Stream, NEW s, NEW j \in Heads, NEW k \in Heads, IsHead(s, 1, j), IsHead(s, 1, k)
  PROVE  j = k
<1>1. 0 \in 0 .. Tag - 1 /\ j \in 1 .. Len(stream) /\ k \in 1 .. Len(stream)
  BY RecvPathAssumption DEF Heads, Stream
<1>2. stream[j].at + 0 = stream[k].at + 0
  BY <1>1 DEF IsHead
<1> QED
  BY <1>1, <1>2, Apart

\* What glink_FindFrame says of bytes that begin with the head of item k.
LEMMA FrameFound ==
  ASSUME Stream, NEW s, NEW k \in Heads, IsHead(s, 1, k)
  PROVE  FindFrame(s) =
           IF stream[k].kind = "badlen" THEN [ret |-> -2, n |-> Tag]
           ELSE IF Len(s) < stream[k].said THEN [ret |-> -3, n |-> stream[k].said - Len(s)]
           ELSE [ret |-> IF stream[k].said >= Tag /\ TailAt(s, stream[k].said) THEN 0 ELSE -2,
                 n |-> stream[k].said]
<1>1. HeadAt(s, 1)
  BY DEF HeadAt
<1>2. (CHOOSE j \in Heads : IsHead(s, 1, j)) = k
  BY SameHead
<1> QED
  BY <1>1, <1>2 DEF FindFrame

\* What it says of bytes that begin with no head: there is none among those to go.
LEMMA JunkFound ==
  ASSUME NEW s, Len(s) \in Nat, Len(s) >= MinFrame, ~HeadAt(s, 1)
  PROVE  /\ FindFrame(s) = [ret |-> -2, n |-> Junk(s)] /\ Junk(s) \in 0 .. Len(s) - Tag
         /\ \A i \in 1 .. Junk(s) : ~HeadAt(s, i)
<1> DEFINE at == {i \in 0 .. Len(s) - Tag - 1 : HeadAt(s, i + 1)}
<1>1. FindFrame(s) = [ret |-> -2, n |-> Junk(s)]
  BY DEF FindFrame
<1>2. CASE at = {}
  <2>1. Junk(s) = Len(s) - Tag
    BY <1>2 DEF Junk
  <2>2. ASSUME NEW i \in 1 .. Junk(s) PROVE ~HeadAt(s, i)
    <3>1. i - 1 \in 0 .. Len(s) - Tag - 1 /\ (i - 1) + 1 = i
      BY <2>1, RecvPathAssumption
    <3> QED
      BY <1>2, <3>1
  <2> QED
    BY <1>1, <2>1, <2>2, RecvPathAssumption
<1>3. CASE at # {}
  <2>1. \E i \in at : \A j \in at : i <= j
    <3>1. at \subseteq Nat
      BY RecvPathAssumption
    <3> QED
      BY <1>3, <3>1, Smallest
  <2>2. Junk(s) = CHOOSE i \in at : \A j \in at : i <= j
    BY <1>3 DEF Junk
  <2>3. Junk(s) \in at /\ \A j \in at : Junk(s) <= j
    BY <2>1, <2>2
  <2>4. ASSUME NEW i \in 1 .. Junk(s) PROVE ~HeadAt(s, i)
    <3>1. i - 1 \in 0 .. Len(s) - Tag - 1 /\ (i - 1) + 1 = i /\ ~(Junk(s) <= i - 1)
      BY <2>3, RecvPathAssumption
    <3> QED
      BY <2>3, <3>1
  <2> QED
    BY <1>1, <2>3, <2>4, RecvPathAssumption
<1> QED
  BY <1>2, <1>3

-----------------------------------------------------------------------------
(* The ring                                                                *)

\* What RingShape says, for the lengths and the empty blocks.
LEMMA Lengths ==
  ASSUME NEW r, RingShape(r)
  PROVE  /\ r \in [len : Nat, ixa : Nat, a : Seq(Nat), b : Seq(Nat)]
         /\ Len(r.a) \in Nat /\ Len(r.b) \in Nat /\ Used(r) = Len(r.a) + Len(r.b) /\ Used(r) \in Nat
         /\ (r.a = <<>> <=> Len(r.a) = 0) /\ (r.b = <<>> <=> Len(r.b) = 0)
         /\ r.ixa + Len(r.a) <= r.len /\ Len(r.b) <= r.ixa
BY DEF RingShape, Used

\* The elements of a concatenation.
LEMMA Joined ==
  ASSUME NEW s \in Seq(Nat), NEW t \in Seq(Nat)
  PROVE  /\ s \o t \in Seq(Nat) /\ Len(s \o t) = Len(s) + Len(t)
         /\ \A i \in 1 .. Len(s) : (s \o t)[i] = s[i]
         /\ \A i \in Len(s) + 1 .. Len(s) + Len(t) : (s \o t)[i] = t[i - Len(s)]
OBVIOUS

\* A place for n bytes as Reserve finds it.
Fits(r, at, n) ==
  \/ r.b # <<>> /\ at = Len(r.b) /\ at + n <= r.ixa
  \/ r.b = <<>> /\ at = r.ixa + Len(r.a) /\ at + n <= r.len
  \/ r.b = <<>> /\ at = 0 /\ n <= r.ixa /\ 2 * r.ixa + Len(r.a) > r.len

\* Every length up to the one offered fits where Reserve offers it.
LEMMA ReserveFits ==
  ASSUME NEW r, RingShape(r), NEW size \in Nat
  PROVE  /\ Reserve(r, size).n \in Int /\ Reserve(r, size).at \in Nat
         /\ \A n \in 1 .. Reserve(r, size).n : n <= size /\ Fits(r, Reserve(r, size).at, n)
<1>2. CASE r.b # <<>>
  <2>1. Reserve(r, size) = [at |-> Len(r.b), n |-> Least(size, r.ixa - Len(r.b))]
    BY <1>2 DEF Reserve
  <2> QED
    BY <1>2, <2>1 DEF Least, Fits, RingShape
<1>3. CASE r.b = <<>> /\ r.ixa <= r.len - r.ixa - Len(r.a)
  <2>1. Reserve(r, size) = [at |-> r.ixa + Len(r.a), n |-> Least(size, r.len - r.ixa - Len(r.a))]
    BY <1>3 DEF Reserve
  <2> QED
    BY <1>3, <2>1 DEF Least, Fits, RingShape
<1>4. CASE r.b = <<>> /\ ~(r.ixa <= r.len - r.ixa - Len(r.a))
  <2>1. Reserve(r, size) = [at |-> 0, n |-> Least(size, r.ixa)]
    BY <1>4 DEF Reserve
  <2> QED
    BY <1>4, <2>1 DEF Least, Fits, RingShape
<1> QED
  BY <1>2, <1>3, <1>4

\* Bytes received behind those of a block.
LEMMA GrowFirst ==
  ASSUME NEW a \in Seq(Nat), NEW s \in Seq(Nat), NEW m \in Nat, LastBytes(a, <<>>, m),
         \A i \in 1 .. Len(s) : s[i] = m + i
  PROVE  LastBytes(a \o s, <<>>, m + Len(s))
<1>1. Len(a) \in Nat /\ Len(s) \in Nat /\ Len(<<>>) = 0
  OBVIOUS
<1>2. Len(a \o s) = Len(a) + Len(s) /\ Len(a) <= m
  BY <1>1 DEF LastBytes
<1>3. ASSUME NEW i \in 1 .. Len(a) + Len(s)
      PROVE  (a \o s)[i] = m + Len(s) - (Len(a) + Len(s)) + i
  <2>1. CASE i \in 1 .. Len(a)
    BY <1>1, <1>2, <2>1 DEF LastBytes
  <2>2. CASE i \in Len(a) + 1 .. Len(a) + Len(s)
    <3>1. (a \o s)[i] = s[i - Len(a)] /\ i - Len(a) \in 1 .. Len(s)
      BY <1>1, <2>2
    <3> QED
      BY <1>1, <1>2, <2>2, <3>1
  <2> QED
    BY <1>1, <2>1, <2>2
<1> QED
  BY <1>1, <1>2, <1>3 DEF LastBytes

\* Bytes received behind those of the second block.
LEMMA GrowSecond ==
  ASSUME NEW a \in Seq(Nat), NEW b \in Seq(Nat), NEW s \in Seq(Nat), NEW m \in Nat, LastBytes(a, b, m),
         \A i \in 1 .. Len(s) : s[i] = m + i
  PROVE  LastBytes(a, b \o s, m + Len(s))
<1>1. Len(a) \in Nat /\ Len(b) \in Nat /\ Len(s) \in Nat
  OBVIOUS
<1>2. Len(b \o s) = Len(b) + Len(s) /\ Len(a) + Len(b) <= m
  BY <1>1 DEF LastBytes
<1>3. ASSUME NEW i \in 1 .. Len(b) + Len(s)
      PROVE  (b \o s)[i] = m + Len(s) - (Len(b) + Len(s)) + i
  <2>1. CASE i \in 1 .. Len(b)
    BY <1>1, <1>2, <2>1 DEF LastBytes
  <2>2. CASE i \in Len(b) + 1 .. Len(b) + Len(s)
    <3>1. (b \o s)[i] = s[i - Len(b)] /\ i - Len(b) \in 1 .. Len(s)
      BY <1>1, <2>2
    <3> QED
      BY <1>1, <1>2, <2>2, <3>1
  <2> QED
    BY <1>1, <2>1, <2>2
<1>4. \A i \in 1 .. Len(a) : a[i] = m + Len(s) - (Len(a) + (Len(b) + Len(s))) + i
  BY <1>1, <1>2 DEF LastBytes
<1> QED
  BY <1>1, <1>2, <1>3, <1>4 DEF LastBytes

\* A read goes into one block and puts the bytes behind the last ones.
Behind(s, m) == \A i \in 1 .. Len(s) : s[i] = m + i
Grown(r, c, s, m) ==
  /\ RingShape(c) /\ Holds(c, m + Len(s)) /\ c.len = r.len
  /\ \/ r.b = <<>> /\ c.b = <<>> /\ c.a = r.a \o s /\ (r.ixa = 0 => c.ixa = 0)
     \/ /\ r.a # <<>> /\ c.a = r.a /\ c.ixa = r.ixa /\ c.b = r.b \o s
        /\ r.b = <<>> => 2 * r.ixa + Len(r.a) > r.len

\* Commit of bytes read puts them behind the last ones, in a place that fits.
LEMMA CommitKeeps ==
  ASSUME NEW r, RingShape(r), NEW m \in Nat, Holds(r, m), r.b # <<>> => r.a # <<>>,
         NEW at \in Nat, NEW s \in Seq(Nat), Fits(r, at, Len(s)), Len(s) >= 1, Behind(s, m),
         NEW c, c = Commit(r, at, s)
  PROVE  Grown(r, c, s, m)
<1>0. \A i \in 1 .. Len(s) : s[i] = m + i
  BY DEF Behind
<1>1. /\ r \in [len : Nat, ixa : Nat, a : Seq(Nat), b : Seq(Nat)]
      /\ r.a \in Seq(Nat) /\ r.b \in Seq(Nat) /\ r.ixa \in Nat /\ r.len \in Nat
      /\ r.ixa + Len(r.a) <= r.len /\ Len(r.b) <= r.ixa
  BY DEF RingShape
<1>2. /\ c \in [len : Nat, ixa : Nat, a : Seq(Nat), b : Seq(Nat)] /\ c.len = r.len
      /\ Used(r) = 0 => c.ixa = at /\ c.a = s /\ c.b = r.b
      /\ Used(r) # 0 /\ at = r.ixa + Len(r.a) => c.ixa = r.ixa /\ c.a = r.a \o s /\ c.b = r.b
      /\ Used(r) # 0 /\ at # r.ixa + Len(r.a) => c.ixa = r.ixa /\ c.a = r.a /\ c.b = r.b \o s
  <2>1. r.a \o s \in Seq(Nat) /\ r.b \o s \in Seq(Nat)
    BY <1>1, Joined
  <2>2. c = Commit(r, at, s)
    OBVIOUS
  <2> QED
    BY <1>1, <2>1, <2>2 DEF Commit
<1>3. CASE Used(r) = 0
  <2>1. r.a = <<>> /\ r.b = <<>> /\ Len(r.a) = 0
    BY <1>1, <1>3 DEF Used
  <2>2. c.ixa = at /\ c.a = s /\ c.b = <<>> /\ s = r.a \o s
    BY <1>2, <1>3, <2>1
  <2>3. at + Len(s) <= r.len /\ (r.ixa = 0 => at = 0)
    BY <1>1, <2>1 DEF Fits
  <2>4. RingShape(c)
    BY <1>2, <2>2, <2>3 DEF RingShape
  <2>5. Holds(c, m + Len(s))
    BY <1>0, <1>1, <2>1, <2>2, GrowFirst DEF Holds
  <2> QED
    BY <1>2, <2>1, <2>2, <2>3, <2>4, <2>5 DEF Grown
<1>4. CASE Used(r) # 0 /\ r.b = <<>> /\ at = r.ixa + Len(r.a)
  <2>1. c.ixa = r.ixa /\ c.a = r.a \o s /\ c.b = <<>>
    BY <1>2, <1>4
  <2>2. r.ixa + Len(r.a) + Len(s) <= r.len
    BY <1>1, <1>4 DEF Fits
  <2>3. Len(r.a \o s) = Len(r.a) + Len(s)
    BY <1>1
  <2>4. RingShape(c)
    BY <1>1, <1>2, <2>1, <2>2, <2>3 DEF RingShape
  <2>5. Holds(c, m + Len(s))
    BY <1>0, <1>1, <1>4, <2>1, GrowFirst DEF Holds
  <2> QED
    BY <1>2, <1>4, <2>1, <2>4, <2>5 DEF Grown
<1>5. CASE Used(r) # 0 /\ ~(r.b = <<>> /\ at = r.ixa + Len(r.a))
  <2>1. at # r.ixa + Len(r.a) /\ Len(r.b) + Len(s) <= r.ixa
    BY <1>1, <1>5 DEF Fits
  <2>2. r.a # <<>> /\ (r.b = <<>> => 2 * r.ixa + Len(r.a) > r.len)
    BY <1>1, <1>5 DEF Fits, Used
  <2>3. c.ixa = r.ixa /\ c.a = r.a /\ c.b = r.b \o s
    BY <1>2, <1>5, <2>1
  <2>4. Len(r.b \o s) = Len(r.b) + Len(s)
    BY <1>1
  <2>5. RingShape(c)
    BY <1>1, <1>2, <2>1, <2>3, <2>4 DEF RingShape
  <2>6. Holds(c, m + Len(s))
    BY <1>0, <1>1, <2>3, GrowSecond DEF Holds
  <2> QED
    BY <1>2, <2>2, <2>3, <2>5, <2>6 DEF Grown
<1> QED
  BY <1>3, <1>4, <1>5

\* The fields of a ring changed by EXCEPT.
LEMMA Updated ==
  ASSUME NEW r \in [len : Nat, ixa : Nat, a : Seq(Nat), b : Seq(Nat)],
         NEW i \in Nat, NEW s \in Seq(Nat), NEW t \in Seq(Nat),
         NEW u, u = [r EXCEPT !.ixa = i, !.a = s, !.b = t]
  PROVE  /\ u \in [len : Nat, ixa : Nat, a : Seq(Nat), b : Seq(Nat)]
         /\ u.len = r.len /\ u.ixa = i /\ u.a = s /\ u.b = t
OBVIOUS

\* The same when the second block stays.
LEMMA Updated2 ==
  ASSUME NEW r \in [len : Nat, ixa : Nat, a : Seq(Nat), b : Seq(Nat)],
         NEW i \in Nat, NEW s \in Seq(Nat), NEW u, u = [r EXCEPT !.ixa = i, !.a = s]
  PROVE  /\ u \in [len : Nat, ixa : Nat, a : Seq(Nat), b : Seq(Nat)]
         /\ u.len = r.len /\ u.ixa = i /\ u.a = s /\ u.b = r.b
OBVIOUS

\* A ring with nothing in it, back at its beginning.
LEMMA EmptyRing ==
  ASSUME NEW r \in [len : Nat, ixa : Nat, a : Seq(Nat), b : Seq(Nat)], r.ixa = 0, r.a = <<>>, r.b = <<>>
  PROVE  r = Ring(r.len)
<1>1. Ring(r.len) \in [len : Nat, ixa : Nat, a : Seq(Nat), b : Seq(Nat)]
  BY DEF Ring
<1> QED
  BY <1>1 DEF Ring

\* Bytes taken from the front of the only block.
LEMMA DecommitKeeps ==
  ASSUME NEW r, RingShape(r), NEW m \in Nat, Holds(r, m), r.b = <<>>, NEW n \in 0 .. Len(r.a),
         NEW d, d = DecommitBlock(r, n)
  PROVE  /\ RingShape(d) /\ Holds(d, m) /\ d.len = r.len /\ d.b = <<>> /\ Used(d) = Used(r) - n
         /\ n = Len(r.a) => d = Ring(r.len)
<1>1. /\ r \in [len : Nat, ixa : Nat, a : Seq(Nat), b : Seq(Nat)]
      /\ r.a \in Seq(Nat) /\ r.ixa \in Nat /\ r.len \in Nat /\ r.ixa + Len(r.a) <= r.len
      /\ Len(r.a) \in Nat /\ Used(r) = Len(r.a) /\ r.b = <<>>
  BY DEF RingShape, Used
<1>2. Len(r.a) <= m /\ \A i \in 1 .. Len(r.a) : r.a[i] = m - Len(r.a) + i
  BY <1>1 DEF Holds, LastBytes
<1>3. CASE n = Len(r.a)
  <2>1. d = [r EXCEPT !.ixa = 0, !.a = r.b, !.b = <<>>]
    BY <1>1, <1>3 DEF DecommitBlock
  <2>2. /\ d \in [len : Nat, ixa : Nat, a : Seq(Nat), b : Seq(Nat)]
        /\ d.len = r.len /\ d.ixa = 0 /\ d.a = <<>> /\ d.b = <<>>
    <3>1. d = [r EXCEPT !.ixa = 0, !.a = <<>>, !.b = <<>>]
      BY <1>1, <2>1, Zenon
    <3>2. 0 \in Nat /\ <<>> \in Seq(Nat)
      OBVIOUS
    <3> QED
      BY <1>1, <3>1, <3>2, Updated, Zenon
  <2>3. d = Ring(r.len)
    BY <2>2, EmptyRing
  <2>4. RingShape(d) /\ Used(d) = Used(r) - n
    <3>1. Len(d.a) = 0 /\ Len(d.b) = 0
      BY <2>2
    <3>2. RingShape(d)
      BY <1>1, <2>2, <3>1 DEF RingShape
    <3>3. Used(d) = 0 + 0
      BY <3>1, Zenon DEF Used
    <3>4. Used(d) = 0
      BY <3>3
    <3>5. Used(r) - n = 0
      BY <1>1, <1>3
    <3> QED
      BY <3>2, <3>4, <3>5
  <2>5. LastBytes(<<>>, <<>>, m)
    BY DEF LastBytes
  <2>6. Holds(d, m)
    BY <2>2, <2>5, Zenon DEF Holds
  <2> QED
    BY <2>2, <2>3, <2>4, <2>6
<1>4. CASE n < Len(r.a)
  <2> DEFINE t == SubSeq(r.a, n + 1, Len(r.a))
  <2>1. t \in Seq(Nat) /\ Len(t) = Len(r.a) - n /\ \A i \in 1 .. Len(t) : t[i] = r.a[n + i]
    <3>1. n + 1 \in Int /\ Len(r.a) \in Int /\ \A i \in n + 1 .. Len(r.a) : r.a[i] \in Nat
      BY <1>1
    <3>2. /\ t \in Seq(Nat) /\ Len(t) = (IF n + 1 <= Len(r.a) THEN Len(r.a) - (n + 1) + 1 ELSE 0)
          /\ \A i \in 1 .. Len(r.a) - (n + 1) + 1 : t[i] = r.a[(n + 1) + i - 1]
      BY <3>1, SubSeqProperties
    <3> HIDE DEF t
    <3> QED
      BY <1>1, <1>4, <3>2
  <2> HIDE DEF t
  <2>2. /\ d \in [len : Nat, ixa : Nat, a : Seq(Nat), b : Seq(Nat)]
        /\ d.len = r.len /\ d.ixa = r.ixa + n /\ d.a = t /\ d.b = <<>>
    <3>1. d = [r EXCEPT !.ixa = r.ixa + n, !.a = t]
      BY <1>1, <1>4 DEF DecommitBlock, t
    <3>2. r.ixa + n \in Nat
      BY <1>1
    <3> QED
      BY <1>1, <2>1, <3>1, <3>2, Updated2, Zenon
  <2>3. ASSUME NEW i \in 1 .. Len(t) PROVE t[i] = m - Len(t) + i
    <3>1. n + i \in 1 .. Len(r.a)
      BY <1>1, <1>4, <2>1
    <3> QED
      BY <1>1, <1>2, <2>1, <3>1
  <2>4. LastBytes(t, <<>>, m)
    BY <1>1, <1>2, <2>1, <2>3 DEF LastBytes
  <2>5. Holds(d, m)
    BY <2>2, <2>4, Zenon DEF Holds
  <2>6. RingShape(d) /\ Used(d) = Used(r) - n
    BY <1>1, <1>4, <2>1, <2>2 DEF RingShape, Used
  <2> QED
    BY <1>4, <2>2, <2>5, <2>6
<1> QED
  BY <1>1, <1>3, <1>4

\* The two blocks joined to one.
LEMMA JoinKeeps ==
  ASSUME NEW r, RingShape(r), NEW m \in Nat, Holds(r, m), r.b # <<>> => r.a # <<>>,
         NEW u, u = UnContiguous(r)
  PROVE  /\ RingShape(u) /\ Holds(u, m) /\ u.len = r.len /\ u.b = <<>> /\ Len(u.a) = Used(r)
         /\ Used(u) = Used(r) /\ (r.b # <<>> => u.ixa = 0) /\ (r.b = <<>> => u = r)
<1>1. /\ r \in [len : Nat, ixa : Nat, a : Seq(Nat), b : Seq(Nat)]
      /\ r.a \in Seq(Nat) /\ r.b \in Seq(Nat) /\ r.ixa \in Nat /\ r.len \in Nat
      /\ r.ixa + Len(r.a) <= r.len /\ Len(r.b) <= r.ixa
      /\ Len(r.a) \in Nat /\ Len(r.b) \in Nat /\ Used(r) = Len(r.a) + Len(r.b)
  BY DEF RingShape, Used
<1>2. CASE r.b = <<>>
  <2>1. u = r
    BY <1>2 DEF UnContiguous
  <2> QED
    BY <1>1, <1>2, <2>1
<1>3. CASE r.b # <<>>
  <2>1. r.a \o r.b \in Seq(Nat) /\ Len(r.a \o r.b) = Len(r.a) + Len(r.b)
    BY <1>1, Joined
  <2>2. u = [r EXCEPT !.ixa = 0, !.a = r.a \o r.b, !.b = <<>>]
    BY <1>1, <1>3 DEF UnContiguous
  <2>3. /\ u \in [len : Nat, ixa : Nat, a : Seq(Nat), b : Seq(Nat)]
        /\ u.len = r.len /\ u.ixa = 0 /\ u.a = r.a \o r.b /\ u.b = <<>>
    <3>1. 0 \in Nat /\ <<>> \in Seq(Nat)
      OBVIOUS
    <3> QED
      BY <1>1, <2>1, <2>2, <3>1, Updated, ZenonT(40)
  <2>4. /\ Len(r.a) + Len(r.b) <= m
        /\ \A i \in 1 .. Len(r.a) : r.a[i] = m - (Len(r.a) + Len(r.b)) + i
        /\ \A i \in 1 .. Len(r.b) : r.b[i] = m - Len(r.b) + i
    BY DEF Holds, LastBytes
  <2>5. ASSUME NEW i \in 1 .. Len(r.a) + Len(r.b)
        PROVE  (r.a \o r.b)[i] = m - (Len(r.a) + Len(r.b)) + i
    <3>1. CASE i \in 1 .. Len(r.a)
      <4>1. (r.a \o r.b)[i] = r.a[i]
        BY <1>1, <3>1, Joined
      <4> QED
        BY <2>4, <3>1, <4>1, Zenon
    <3>2. CASE i \in Len(r.a) + 1 .. Len(r.a) + Len(r.b)
      <4>1. (r.a \o r.b)[i] = r.b[i - Len(r.a)] /\ i - Len(r.a) \in 1 .. Len(r.b)
        BY <1>1, <3>2, Joined
      <4> QED
        BY <1>1, <2>4, <4>1
    <3> QED
      BY <1>1, <3>1, <3>2
  <2>6. LastBytes(r.a \o r.b, <<>>, m)
    BY <1>1, <2>1, <2>4, <2>5 DEF LastBytes
  <2>7. Holds(u, m)
    BY <2>3, <2>6, Zenon DEF Holds
  <2>8. RingShape(u) /\ Used(u) = Used(r) /\ Len(u.a) = Used(r)
    BY <1>1, <2>1, <2>3 DEF RingShape, Used
  <2> QED
    BY <1>3, <2>3, <2>7, <2>8
<1> QED
  BY <1>2, <1>3

-----------------------------------------------------------------------------
(* The inductive invariant of epFUI_OnRecv                                 *)

\* Whose first bytes s is, and that frame is to be taken by its length.
Begins(s, k) == k \in Heads /\ IsHead(s, 1, k) /\ stream[k].kind # "badlen"

\* The ring's first block begins an incomplete frame that the ring can hold.
Waits(more) ==
  /\ Len(bb.a) >= MinFrame
  /\ \E k \in Heads : Begins(bb.a, k) /\ Len(bb.a) + more < stream[k].said /\ stream[k].said <= BufLen

Filling == enable_lbb /\ lbyte > 0
Swapped == enable_lbb /\ lbyte = 0

\* The ring alone.
RingAlone ==
  /\ bb.len = BufLen /\ lbb = Ring(0)
  /\ morebyte # MinFrame => bb.ixa = 0 /\ bb.b = <<>>
  /\ bb.b # <<>> =>
       /\ bb.a # <<>> /\ 2 * bb.ixa + Len(bb.a) > BufLen
       /\ Len(bb.a) >= MinFrame => Waits(0)
       /\ Len(bb.a) < MinFrame => Used(bb) < 2 * MinFrame
  /\ step \in {"end", "event"} =>
       \/ Used(bb) < MinFrame
       \/ Waits(Len(bb.b))
       \/ bb.ixa = 0 /\ bb.b = <<>> /\ Len(bb.a) < 2 * MinFrame

\* A large frame is being received: the ring is empty meanwhile.
LargeFilling ==
  /\ step \in {"end", "event"} /\ bb = Ring(BufLen)
  /\ lbb.ixa = 0 /\ lbb.b = <<>> /\ Len(lbb.a) + lbyte = lbb.len /\ Len(lbb.a) >= MinFrame
  /\ \E k \in Heads : Begins(lbb.a, k) /\ stream[k].said = lbb.len

\* It is there, in the ring's place, until it has been looked at.
LargeThere ==
  /\ step \in {"again", "end"} /\ lbb = Ring(BufLen) /\ bb.b = <<>>
  /\ \/ bb.a = <<>>
     \/ /\ step = "again" /\ Len(bb.a) >= MinFrame
        /\ \E k \in Heads : Begins(bb.a, k) /\ stream[k].said = Len(bb.a)

Buffers ==
  /\ RingShape(bb) /\ RingShape(lbb) /\ enable_lbb \in BOOLEAN
  /\ lbyte \in Nat /\ morebyte \in {FirstRead, MinFrame}
  /\ step \in {"event", "again", "end", "spin", "down"}
  /\ IF Filling THEN Holds(lbb, received) ELSE Holds(bb, received)
  /\ enable_lbb => received > 0
  /\ ~enable_lbb => RingAlone
  /\ Filling => LargeFilling
  /\ Swapped => LargeThere

\* What has left the buffers has been handed on, is no good frame, or was claimed
\* by a frame with a wrong length.
Cursor == IF Filling THEN received - Used(lbb) ELSE received - Used(bb)
Handed ==
  /\ delivered \in Seq(Seq(Nat))
  /\ \A i \in 1 .. Len(delivered) :
       \E k \in 1 .. Len(stream) :
         /\ Handable(k) /\ delivered[i] = Bytes(stream[k])
         /\ stream[k].said > 0 => stream[k].at <= Cursor
  /\ \A i, j \in 1 .. Len(delivered) :
       i < j /\ delivered[i] # <<>> /\ delivered[j] # <<>> => delivered[i][1] < delivered[j][1]
  /\ \A k \in 1 .. Len(stream) :
       Good(k) /\ Clear(k) /\ stream[k].at <= Cursor => End(k) <= Cursor /\ HandedOn(k)

IInv == Stream /\ Buffers /\ Handed

-----------------------------------------------------------------------------
(* What the invariant says of the buffers and the stream                   *)

\* The first block of the ring holds the bytes behind those that have left.
LEMMA FrontBytes ==
  ASSUME Buffers, received \in Nat, ~Filling
  PROVE  /\ Cursor \in Nat /\ Cursor = received - Used(bb)
         /\ \A i \in 1 .. Len(bb.a) : bb.a[i] = Cursor + i
<1>1. RingShape(bb) /\ Holds(bb, received)
  BY DEF Buffers
<1>2. Cursor = received - Used(bb) /\ Used(bb) = Len(bb.a) + Len(bb.b)
  BY Zenon DEF Cursor, Used
<1>3. bb \in [len : Nat, ixa : Nat, a : Seq(Nat), b : Seq(Nat)] /\ Len(bb.a) \in Nat /\ Len(bb.b) \in Nat
  BY <1>1 DEF RingShape
<1>4. /\ Len(bb.a) + Len(bb.b) <= received
      /\ \A i \in 1 .. Len(bb.a) : bb.a[i] = received - (Len(bb.a) + Len(bb.b)) + i
  BY <1>1 DEF Holds, LastBytes
<1>5. Cursor = received - (Len(bb.a) + Len(bb.b))
  BY <1>2, Zenon
<1>6. \A i \in 1 .. Len(bb.a) : bb.a[i] = Cursor + i
  BY <1>4, <1>5, Zenon
<1> QED
  BY <1>2, <1>3, <1>4, <1>5, <1>6

\* A head in front is that of the item that begins there.
LEMMA HeadPlace ==
  ASSUME Stream, Buffers, ~Filling, Len(bb.a) \in Nat, Len(bb.a) >= MinFrame,
         NEW k \in Heads, IsHead(bb.a, 1, k)
  PROVE  stream[k].at = Cursor + 1
<1>1. 0 \in 0 .. Tag - 1 /\ 1 \in 1 .. Len(bb.a) /\ k \in 1 .. Len(stream) /\ received \in Nat
  BY RecvPathAssumption DEF Heads, Stream
<1>2. bb.a[1] = Cursor + 1 /\ Cursor \in Nat
  BY <1>1, FrontBytes
<1>3. bb.a[1 + 0] = stream[k].at + 0
  BY <1>1 DEF IsHead
<1>4. stream[k].at \in Nat
  BY <1>1, Apart
<1> QED
  BY <1>2, <1>3, <1>4

\* While the first block begins a frame that waits for more, that is what is found.
LEMMA Waited ==
  ASSUME Stream, NEW more \in Nat, Waits(more), Len(bb.a) \in Nat
  PROVE  Found.ret = -3
<1>1. PICK k \in Heads : Begins(bb.a, k) /\ Len(bb.a) + more < stream[k].said
  BY DEF Waits
<1>2. k \in 1 .. Len(stream) /\ IsHead(bb.a, 1, k) /\ stream[k].kind # "badlen"
  BY <1>1 DEF Begins, Heads
<1>3. stream[k].said \in Int
  BY <1>2, Apart
<1>4. Len(bb.a) < stream[k].said
  BY <1>1, <1>3
<1>5. FindFrame(bb.a) = [ret |-> -3, n |-> stream[k].said - Len(bb.a)]
  BY <1>2, <1>4, FrameFound
<1> QED
  BY <1>5 DEF Found

\* A frame waits on while the first block stays.
LEMMA WaitsOn ==
  ASSUME NEW more, Waits(more), bb'.a = bb.a, stream' = stream
  PROVE  Waits(more)'
BY DEF Waits, Begins, Heads, IsHead

\* Reading leaves the stream as it is.
LEMMA StreamStays ==
  ASSUME Stream, stream' = stream, received' \in 0 .. Total
  PROVE  Stream' /\ Total' = Total
BY DEF Stream, End, Total

\* Bytes that begin no good frame, or one that is claimed, may go.
LEMMA HandedPasses ==
  ASSUME Stream, Handed, stream' = stream, delivered' = delivered,
         Cursor \in Nat, Cursor' \in Nat, Cursor <= Cursor',
         \A k \in 1 .. Len(stream) :
           Good(k) /\ Clear(k) => ~(Cursor < stream[k].at /\ stream[k].at <= Cursor')
  PROVE  Handed'
<1>1. ASSUME NEW k \in 1 .. Len(stream)
      PROVE  /\ stream[k].at \in Nat /\ End(k) \in Nat /\ End(k)' = End(k) /\ Good(k)' = Good(k)
             /\ Handable(k)' = Handable(k) /\ HandedOn(k)' = HandedOn(k)
  BY Apart DEF End, Good, Handable, HandedOn, Bytes
<1>2. ASSUME NEW k \in 1 .. Len(stream) PROVE Clear(k)' = Clear(k)
  BY DEF Clear
<1>3. ASSUME NEW i \in 1 .. Len(delivered)
      PROVE  \E k \in 1 .. Len(stream) :
               /\ Handable(k) /\ delivered[i] = Bytes(stream[k])
               /\ stream[k].said > 0 => stream[k].at <= Cursor'
  <2>1. PICK k \in 1 .. Len(stream) :
          /\ Handable(k) /\ delivered[i] = Bytes(stream[k])
          /\ stream[k].said > 0 => stream[k].at <= Cursor
    BY DEF Handed
  <2>2. stream[k].said > 0 => stream[k].at <= Cursor'
    BY <1>1, <2>1
  <2> QED
    BY <2>1, <2>2
<1>4. ASSUME NEW k \in 1 .. Len(stream), Good(k), Clear(k), stream[k].at <= Cursor'
      PROVE  End(k) <= Cursor' /\ HandedOn(k)
  <2>1. stream[k].at <= Cursor
    BY <1>1, <1>4
  <2>2. End(k) <= Cursor /\ HandedOn(k)
    BY <1>4, <2>1 DEF Handed
  <2> QED
    BY <1>1, <2>2
<1>5. \A i \in 1 .. Len(delivered) : \E k \in 1 .. Len(stream) :
        Handable(k)' /\ delivered[i] = Bytes(stream[k]) /\ (stream[k].said > 0 => stream[k].at <= Cursor')
  BY <1>1, <1>3
<1>6. \A k \in 1 .. Len(stream) :
        Good(k)' /\ Clear(k)' /\ stream[k].at <= Cursor' => End(k)' <= Cursor' /\ HandedOn(k)'
  BY <1>1, <1>2, <1>4
<1> QED
  BY <1>5, <1>6 DEF Handed

\* Nothing has left the buffers, nothing has been handed on.
LEMMA HandedStays ==
  ASSUME Stream, Handed, stream' = stream, delivered' = delivered, Cursor \in Nat, Cursor' = Cursor
  PROVE  Handed'
<1>1. ASSUME NEW k \in 1 .. Len(stream) PROVE ~(Cursor < stream[k].at /\ stream[k].at <= Cursor)
  BY Apart
<1> QED
  BY <1>1, HandedPasses

-----------------------------------------------------------------------------
(* The initial state and the steps                                         *)

\* A fresh connection: two empty buffers, no byte received.
THEOREM InitIInv == Init => IInv
<1> SUFFICES ASSUME Init PROVE IInv
  OBVIOUS
<1>1. stream = <<>> /\ received = 0 /\ Total = 0 /\ Len(stream) = 0
  BY DEF Init, Total
<1>2. Stream
  BY <1>1 DEF Stream
<1>3. /\ bb = Ring(BufLen) /\ lbb = Ring(0) /\ enable_lbb = FALSE /\ lbyte = 0
      /\ morebyte = FirstRead /\ step = "event" /\ delivered = <<>> /\ ~Filling /\ ~Swapped
  BY DEF Init, Filling, Swapped
<1>4. BufLen \in Nat /\ FirstRead \in Nat /\ 0 < MinFrame
  BY RecvPathAssumption
<1>5. /\ bb.len = BufLen /\ bb.ixa = 0 /\ bb.a = <<>> /\ bb.b = <<>>
      /\ bb \in [len : Nat, ixa : Nat, a : Seq(Nat), b : Seq(Nat)]
  BY <1>3, <1>4 DEF Ring
<1>6. RingShape(bb) /\ Used(bb) = 0 /\ Holds(bb, 0)
  BY <1>4, <1>5 DEF RingShape, Used, Holds, LastBytes
<1>7. RingShape(lbb)
  BY <1>3 DEF Ring, RingShape
<1>8. RingAlone
  BY <1>3, <1>4, <1>5, <1>6 DEF RingAlone
<1>9. Buffers
  BY <1>1, <1>3, <1>6, <1>7, <1>8 DEF Buffers
<1>10. Cursor = 0 /\ Len(delivered) = 0
  BY <1>1, <1>3, <1>6 DEF Cursor
<1>11. Handed
  BY <1>1, <1>3, <1>10 DEF Handed
<1> QED
  BY <1>2, <1>9, <1>11 DEF IInv

\* Before the first read nothing is held.
LEMMA Untouched ==
  ASSUME IInv, received = 0
  PROVE  /\ ~enable_lbb /\ ~Filling /\ Cursor = 0
         /\ bb.a = <<>> /\ bb.b = <<>> /\ Used(bb) = 0
<1>1. ~enable_lbb /\ ~Filling /\ RingShape(bb) /\ Holds(bb, 0)
  BY DEF IInv, Buffers, Filling
<1>2. bb \in [len : Nat, ixa : Nat, a : Seq(Nat), b : Seq(Nat)]
  BY <1>1 DEF RingShape
<1>3. Len(bb.a) + Len(bb.b) <= 0
  BY <1>1 DEF Holds, LastBytes
<1>4. bb.a = <<>> /\ bb.b = <<>> /\ Len(bb.a) = 0 /\ Len(bb.b) = 0
  BY <1>2, <1>3
<1>5. Used(bb) = 0 + 0
  BY <1>4, Zenon DEF Used
<1>6. Used(bb) = 0
  BY <1>5
<1>7. Cursor = 0 - 0
  BY <1>1, <1>6, Zenon DEF Cursor
<1> QED
  BY <1>1, <1>4, <1>6, <1>7

\* The peer sends an item behind the others.
LEMMA SendPreserves ==
  ASSUME IInv, NEW kind \in {"good", "badtail", "badlen", "wronglen", "noise"},
         NEW len \in Nat, NEW said \in Int,
         len >= 1, kind # "noise" => len >= MinFrame, kind # "wronglen" => said = len, Send(kind, len, said)
  PROVE  IInv'
<1> DEFINE item == [kind |-> kind, len |-> len, said |-> said, at |-> Total + 1]
<1>1. /\ stream' = Append(stream, item) /\ received = 0 /\ received' = received
      /\ UNCHANGED <<app, step, delivered>>
  BY DEF Send
<1>2. Total \in Nat /\ stream \in Seq(Item) /\ item \in Item /\ Len(stream) \in Nat
  BY DEF IInv, Stream, Item
<1>3. /\ stream' \in Seq(Item) /\ Len(stream') = Len(stream) + 1 /\ stream' # <<>>
      /\ \A k \in 1 .. Len(stream) : stream'[k] = stream[k]
      /\ stream'[Len(stream) + 1] = item
  BY <1>1, <1>2
<1> HIDE DEF item
<1>4. Total' = Total + len
  <2>1. Last(stream') = item
    BY <1>2, <1>3 DEF Last
  <2>2. Total' = item.at + item.len - 1
    BY <1>3, <2>1 DEF Total
  <2> QED
    BY <1>2, <2>2 DEF item
<1>5. item.at = Total + 1 /\ item.len = len /\ item.said = said /\ item.kind = kind
  BY DEF item
<1>6. ASSUME NEW k \in 1 .. Len(stream')
      PROVE  /\ stream'[k].at >= 1 /\ stream'[k].len >= 1 /\ End(k)' <= Total'
             /\ stream'[k].kind # "noise" => stream'[k].len >= MinFrame
             /\ stream'[k].kind # "wronglen" => stream'[k].said = stream'[k].len
             /\ \A j \in 1 .. Len(stream') : j < k => End(j)' < stream'[k].at
  <2>1. CASE k \in 1 .. Len(stream)
    <3>1. stream'[k] = stream[k] /\ End(k)' = End(k)
      BY <1>3, <2>1 DEF End
    <3>2. \A j \in 1 .. Len(stream') : j < k => j \in 1 .. Len(stream) /\ End(j)' = End(j)
      BY <1>2, <1>3, <2>1 DEF End
    <3>3. /\ stream[k].at >= 1 /\ stream[k].len >= 1 /\ End(k) <= Total /\ End(k) \in Nat
          /\ stream[k].kind # "noise" => stream[k].len >= MinFrame
          /\ stream[k].kind # "wronglen" => stream[k].said = stream[k].len
          /\ \A j \in 1 .. Len(stream) : j < k => End(j) < stream[k].at
      BY <2>1, Apart DEF IInv, Stream
    <3> QED
      BY <1>2, <1>4, <3>1, <3>2, <3>3
  <2>2. CASE k = Len(stream) + 1
    <3>1. stream'[k] = item
      BY <1>3, <2>2
    <3>2. End(k)' = item.at + item.len - 1
      BY <3>1 DEF End
    <3>3. ASSUME NEW j \in 1 .. Len(stream'), j < k PROVE End(j)' < item.at
      <4>1. j \in 1 .. Len(stream)
        BY <1>2, <1>3, <2>2, <3>3
      <4>2. End(j)' = End(j)
        BY <1>3, <4>1 DEF End
      <4>3. End(j) <= Total /\ End(j) \in Nat
        BY <4>1, Apart DEF IInv, Stream
      <4> QED
        BY <1>2, <1>5, <4>2, <4>3
    <3> QED
      BY <1>2, <1>4, <1>5, <3>1, <3>2, <3>3
  <2> QED
    BY <1>2, <1>3, <2>1, <2>2
<1>7. Stream'
  BY <1>1, <1>2, <1>3, <1>4, <1>6 DEF Stream
<1>8. /\ ~enable_lbb /\ ~Filling /\ Cursor = 0
      /\ bb.a = <<>> /\ bb.b = <<>> /\ Used(bb) = 0
  BY <1>1, Untouched
<1>9. /\ bb' = bb /\ lbb' = lbb /\ enable_lbb' = enable_lbb /\ lbyte' = lbyte
      /\ morebyte' = morebyte /\ step' = step /\ delivered' = delivered /\ received' = 0
  BY <1>1 DEF app
<1>10. RingAlone'
  <2>1. RingAlone /\ 0 < MinFrame
    BY <1>8, RecvPathAssumption DEF IInv, Buffers
  <2>2. Used(bb)' = Used(bb)
    BY <1>9, Zenon DEF Used
  <2>3. Used(bb)' < MinFrame
    BY <1>8, <2>1, <2>2
  <2> QED
    BY <1>8, <1>9, <2>1, <2>3 DEF RingAlone
<1>11. Buffers'
  BY <1>1, <1>8, <1>9, <1>10 DEF IInv, Buffers, Filling, Swapped, Holds, RingShape
<1>12. Handed'
  <2>1. Cursor' = 0
    BY <1>1, <1>8, <1>9 DEF Cursor, Filling, Used
  <2>2. Handed /\ delivered' = delivered
    BY <1>9 DEF IInv
  <2>3. ASSUME NEW i \in 1 .. Len(delivered)
        PROVE  \E k \in 1 .. Len(stream') :
                 /\ Handable(k)' /\ delivered[i] = Bytes(stream'[k])
                 /\ stream'[k].said > 0 => stream'[k].at <= 0
    <3>1. PICK k \in 1 .. Len(stream) :
            /\ Handable(k) /\ delivered[i] = Bytes(stream[k])
            /\ stream[k].said > 0 => stream[k].at <= 0
      BY <1>8, <2>2, <2>3 DEF Handed
    <3>2. k \in 1 .. Len(stream') /\ stream'[k] = stream[k]
      BY <1>2, <1>3
    <3>3. Handable(k)'
      BY <3>1, <3>2 DEF Handable
    <3> QED
      BY <3>1, <3>2, <3>3
  <2>4. ASSUME NEW k \in 1 .. Len(stream') PROVE ~(stream'[k].at <= 0)
    <3>1. stream'[k].at >= 1 /\ stream'[k] \in Item
      BY <1>3, <1>6
    <3> QED
      BY <3>1 DEF Item
  <2>5. \A i \in 1 .. Len(delivered') : \E k \in 1 .. Len(stream') :
          /\ Handable(k)' /\ delivered'[i] = Bytes(stream'[k])
          /\ stream'[k].said > 0 => stream'[k].at <= Cursor'
    BY <2>1, <2>2, <2>3
  <2>6. \A k \in 1 .. Len(stream') :
          Good(k)' /\ Clear(k)' /\ stream'[k].at <= Cursor' => End(k)' <= Cursor' /\ HandedOn(k)'
    BY <2>1, <2>4
  <2> QED
    BY <2>2, <2>5, <2>6 DEF Handed, Bytes
<1> QED
  BY <1>7, <1>11, <1>12 DEF IInv

\* While a large frame is received there is room for the rest of it.
LEMMA LargeRoom ==
  ASSUME IInv, Filling
  PROVE  /\ Reserve(lbb, lbyte).at = Len(lbb.a) /\ Reserve(lbb, lbyte).n = lbyte /\ lbyte \in Nat \ {0}
         /\ lbb \in [len : Nat, ixa : Nat, a : Seq(Nat), b : Seq(Nat)] /\ Len(lbb.a) \in Nat
         /\ LargeFilling /\ RingShape(lbb) /\ Holds(lbb, received) /\ enable_lbb /\ ~Swapped
<1>1. /\ LargeFilling /\ RingShape(lbb) /\ Holds(lbb, received) /\ enable_lbb /\ ~Swapped
      /\ lbyte \in Nat \ {0}
  BY DEF IInv, Buffers, Filling, Swapped
<1>2. lbb \in [len : Nat, ixa : Nat, a : Seq(Nat), b : Seq(Nat)] /\ Len(lbb.a) \in Nat
  BY <1>1 DEF RingShape
<1>3. lbb.ixa = 0 /\ lbb.b = <<>> /\ Len(lbb.a) + lbyte = lbb.len
  BY <1>1 DEF LargeFilling
<1>4. lbb.len - lbb.ixa - Len(lbb.a) = lbyte /\ lbb.ixa <= lbyte /\ lbb.ixa + Len(lbb.a) = Len(lbb.a)
  BY <1>1, <1>2, <1>3
<1>5. Reserve(lbb, lbyte) = [at |-> Len(lbb.a), n |-> Least(lbyte, lbyte)]
  BY <1>3, <1>4, Zenon DEF Reserve
<1>6. Least(lbyte, lbyte) = lbyte
  BY DEF Least
<1> QED
  BY <1>1, <1>2, <1>5, <1>6

\* The buffers hold no more bytes than were received.
LEMMA CursorNat ==
  ASSUME IInv
  PROVE  Cursor \in Nat
<1>1. received \in Nat /\ Buffers
  BY DEF IInv, Stream
<1>2. CASE Filling
  <2>1. Cursor = received - (Len(lbb.a) + Len(lbb.b))
    BY <1>2, Zenon DEF Cursor, Used
  <2>2. /\ lbb \in [len : Nat, ixa : Nat, a : Seq(Nat), b : Seq(Nat)]
        /\ Len(lbb.a) \in Nat /\ Len(lbb.b) \in Nat
    BY <1>2, LargeRoom, Lengths
  <2>3. Len(lbb.a) + Len(lbb.b) <= received
    BY <1>2, LargeRoom DEF Holds, LastBytes
  <2>4. received - (Len(lbb.a) + Len(lbb.b)) \in Nat
    BY <1>1, <2>2, <2>3
  <2> QED
    BY <2>1, <2>4, Zenon
<1>3. CASE ~Filling
  BY <1>1, <1>3, FrontBytes
<1> QED
  BY <1>2, <1>3

\* A call that finds no room.
LEMMA RecvNoRoomPreserves ==
  ASSUME IInv, RecvNoRoom
  PROVE  IInv'
<1>1. /\ step = "event" /\ step' = "again" /\ UNCHANGED <<stream, received, delivered>>
      /\ bb' = bb /\ lbb' = lbb /\ enable_lbb' = enable_lbb /\ lbyte' = lbyte /\ morebyte' = morebyte
  BY DEF RecvNoRoom, app
<1>2. ~Filling
  <2> SUFFICES ASSUME Filling PROVE FALSE
    OBVIOUS
  <2>1. Reserve(lbb, lbyte).n = 0
    BY DEF RecvNoRoom, Filling
  <2> QED
    BY <2>1, LargeRoom
<1>3. ~enable_lbb
  BY <1>1, <1>2 DEF IInv, Buffers, Filling, Swapped, LargeThere
<1>4. Stream'
  BY <1>1, StreamStays DEF IInv, Stream
<1>5. RingAlone'
  <2>1. ASSUME NEW more, Waits(more) PROVE Waits(more)'
    BY <1>1, <2>1, WaitsOn
  <2>2. RingAlone /\ Used(bb)' = Used(bb)
    BY <1>1, <1>3 DEF IInv, Buffers, Used
  <2> QED
    BY <1>1, <2>1, <2>2 DEF RingAlone
<1>6. Buffers'
  BY <1>1, <1>3, <1>5 DEF IInv, Buffers, Filling, Swapped, RingShape, Holds
<1>7. Handed'
  <2>1. Cursor \in Nat
    BY <1>2, FrontBytes DEF IInv, Stream
  <2>2. Cursor' = Cursor
    BY <1>1 DEF Cursor, Filling, Used
  <2> QED
    BY <1>1, <2>1, <2>2, HandedStays DEF IInv
<1> QED
  BY <1>4, <1>6, <1>7 DEF IInv

\* n bytes read: those behind the last one received.
LEMMA Read ==
  ASSUME received \in Nat, NEW n \in Nat
  PROVE  Arrived(n) \in Seq(Nat) /\ Len(Arrived(n)) = n /\ \A i \in 1 .. n : Arrived(n)[i] = received + i
BY DEF Arrived

\* A read into the ring.
LEMMA RecvRingPreserves ==
  ASSUME IInv, RecvRing
  PROVE  IInv'
<1> DEFINE room == Reserve(bb, morebyte)
<1>1. PICK n \in 1 .. Least(Unread, room.n) :
        bb' = Commit(bb, room.at, Arrived(n)) /\ received' = received + n
  BY DEF RecvRing
<1>2. /\ step = "event" /\ ~enable_lbb /\ step' = "again" /\ stream' = stream /\ delivered' = delivered
      /\ lbb' = lbb /\ enable_lbb' = enable_lbb /\ lbyte' = lbyte /\ morebyte' = morebyte
  BY DEF RecvRing
<1>3. /\ RingShape(bb) /\ Holds(bb, received) /\ RingAlone /\ ~Filling /\ morebyte \in {FirstRead, MinFrame}
      /\ Stream /\ Handed /\ received \in Nat /\ Total \in Nat /\ received <= Total
  BY <1>2 DEF IInv, Buffers, Filling, Stream
<1>4. FirstRead \in Nat /\ MinFrame \in Nat /\ BufLen \in Nat /\ BufLen >= 3 * MinFrame /\ 0 < MinFrame
  BY RecvPathAssumption
<1>5. room.n \in Int /\ room.at \in Nat /\ \A i \in 1 .. room.n : i <= morebyte /\ Fits(bb, room.at, i)
  BY <1>3, <1>4, ReserveFits
<1>6. n \in Nat /\ n >= 1 /\ n <= Total - received /\ n <= room.n
  BY <1>1, <1>3, <1>5 DEF Least, Unread
<1>7. n <= morebyte /\ Fits(bb, room.at, n)
  BY <1>5, <1>6
<1> HIDE DEF room
<1>8. /\ Arrived(n) \in Seq(Nat) /\ Len(Arrived(n)) = n
      /\ \A i \in 1 .. n : Arrived(n)[i] = received + i
  BY <1>3, <1>6, Read
<1>9. bb.b # <<>> => bb.a # <<>>
  BY <1>3 DEF RingAlone
<1>10. /\ RingShape(bb') /\ Holds(bb', received + n) /\ bb'.len = bb.len
       /\ \/ /\ bb.b = <<>> /\ bb'.b = <<>> /\ bb'.a = bb.a \o Arrived(n) /\ (bb.ixa = 0 => bb'.ixa = 0)
          \/ /\ bb.a # <<>> /\ bb'.a = bb.a /\ bb'.ixa = bb.ixa /\ bb'.b = bb.b \o Arrived(n)
             /\ bb.b = <<>> => 2 * bb.ixa + Len(bb.a) > bb.len
  <2> DEFINE s == Arrived(n)
  <2>1. bb' = Commit(bb, room.at, s) /\ s \in Seq(Nat) /\ Len(s) = n
    BY <1>1, <1>8
  <2>2. Fits(bb, room.at, Len(s)) /\ Len(s) >= 1 /\ Behind(s, received)
    BY <1>6, <1>7, <1>8 DEF Behind
  <2> HIDE DEF s
  <2>3. Grown(bb, bb', s, received)
    BY <1>3, <1>5, <1>9, <2>1, <2>2, CommitKeeps, Zenon
  <2> QED
    BY <2>1, <2>3, Zenon DEF s, Grown
<1>11. /\ bb \in [len : Nat, ixa : Nat, a : Seq(Nat), b : Seq(Nat)]
       /\ Len(bb.a) \in Nat /\ Len(bb.b) \in Nat /\ bb.ixa \in Nat
       /\ bb.ixa + Len(bb.a) <= bb.len /\ bb.len = BufLen
       /\ bb' \in [len : Nat, ixa : Nat, a : Seq(Nat), b : Seq(Nat)]
       /\ (bb.b = <<>> <=> Len(bb.b) = 0)
  BY <1>3, <1>10, Lengths DEF RingAlone
<1>12. Used(bb') = Used(bb) + n /\ Used(bb) = Len(bb.a) + Len(bb.b)
  <2>1. Used(bb) = Len(bb.a) + Len(bb.b) /\ Used(bb') = Len(bb'.a) + Len(bb'.b)
    BY Zenon DEF Used
  <2>2. CASE bb.b = <<>> /\ bb'.b = <<>> /\ bb'.a = bb.a \o Arrived(n)
    <3>1. Len(bb'.a) = Len(bb.a) + n /\ Len(bb'.b) = 0 /\ Len(bb.b) = 0
      <4>1. bb.a \in Seq(Nat) /\ Len(bb.b) = 0
        BY <1>11, <2>2
      <4>2. Len(bb.a \o Arrived(n)) = Len(bb.a) + Len(Arrived(n))
        BY <1>8, <4>1, Joined
      <4> QED
        BY <1>8, <2>2, <4>1, <4>2
    <3> QED
      BY <1>6, <1>11, <2>1, <3>1
  <2>3. CASE bb'.a = bb.a /\ bb'.b = bb.b \o Arrived(n)
    <3>1. Len(bb'.b) = Len(bb.b) + n /\ Len(bb'.a) = Len(bb.a)
      <4>1. bb.b \in Seq(Nat)
        BY <1>11
      <4>2. Len(bb.b \o Arrived(n)) = Len(bb.b) + Len(Arrived(n))
        BY <1>8, <4>1, Joined
      <4> QED
        BY <1>8, <2>3, <4>2
    <3> QED
      BY <1>6, <1>11, <2>1, <3>1
  <2> QED
    BY <1>10, <2>2, <2>3
<1>13. Stream'
  <2>1. received' \in 0 .. Total
    BY <1>1, <1>3, <1>6
  <2> QED
    BY <1>2, <1>3, <2>1, StreamStays
<1>14. RingAlone'
  <2>1. bb'.len = BufLen /\ lbb' = Ring(0) /\ step' = "again"
    BY <1>2, <1>3, <1>10 DEF RingAlone
  <2>2. morebyte' # MinFrame => bb'.ixa = 0 /\ bb'.b = <<>>
    <3> SUFFICES ASSUME morebyte # MinFrame PROVE bb'.ixa = 0 /\ bb'.b = <<>>
      BY <1>2
    <3>1. bb.ixa = 0 /\ bb.b = <<>>
      BY <1>3 DEF RingAlone
    <3> QED
      BY <1>10, <1>11, <3>1
  <2>3. ASSUME bb'.b # <<>>
        PROVE  /\ bb'.a # <<>> /\ 2 * bb'.ixa + Len(bb'.a) > BufLen
               /\ Len(bb'.a) >= MinFrame => Waits(0)'
               /\ Len(bb'.a) < MinFrame => Used(bb)' < 2 * MinFrame
    <3>1. /\ bb.a # <<>> /\ bb'.a = bb.a /\ bb'.ixa = bb.ixa
          /\ bb.b = <<>> => 2 * bb.ixa + Len(bb.a) > BufLen
      BY <1>10, <1>11, <2>3
    <3>2. 2 * bb.ixa + Len(bb.a) > BufLen
      BY <1>3, <3>1 DEF RingAlone
    <3>3. ASSUME Len(bb.a) >= MinFrame PROVE Waits(0)
      <4>1. CASE bb.b # <<>>
        BY <1>3, <3>3, <4>1 DEF RingAlone
      <4>2. CASE bb.b = <<>>
        <5>1. Used(bb) < MinFrame \/ Waits(Len(bb.b)) \/ (bb.ixa = 0 /\ Len(bb.a) < 2 * MinFrame)
          BY <1>2, <1>3 DEF RingAlone
        <5>2. Len(bb.b) = 0 /\ Len(bb.a) \in Nat /\ Used(bb) = Len(bb.a) + Len(bb.b)
          BY <1>11, <1>12, <4>2, Zenon
        <5>3. ~(Used(bb) < MinFrame)
          BY <1>4, <3>3, <5>2
        <5>4. ASSUME bb.ixa = 0, Len(bb.a) < 2 * MinFrame PROVE FALSE
          BY <1>4, <3>2, <5>2, <5>4
        <5> QED
          BY <5>1, <5>2, <5>3, <5>4
      <4> QED
        BY <4>1, <4>2
    <3>4. ASSUME Len(bb.a) < MinFrame PROVE Used(bb') < 2 * MinFrame
      <4>1. morebyte = MinFrame
        BY <1>2, <2>2, <2>3
      <4>2. Used(bb) < MinFrame \/ Waits(Len(bb.b)) \/ (bb.ixa = 0 /\ Len(bb.a) < 2 * MinFrame)
        BY <1>2, <1>3 DEF RingAlone
      <4>3. ~Waits(Len(bb.b)) /\ ~(bb.ixa = 0 /\ Len(bb.a) < 2 * MinFrame)
        BY <1>4, <1>11, <3>2, <3>4 DEF Waits
      <4> QED
        BY <1>4, <1>6, <1>7, <1>11, <1>12, <4>1, <4>2, <4>3, SMTT(30)
    <3>5. Waits(0) => Waits(0)'
      BY <1>2, <3>1, WaitsOn
    <3> QED
      BY <3>1, <3>2, <3>3, <3>4, <3>5
  <2> QED
    BY <2>1, <2>2, <2>3 DEF RingAlone
<1>15. Buffers'
  BY <1>1, <1>2, <1>3, <1>6, <1>10, <1>14 DEF IInv, Buffers, Filling, Swapped, RingShape, Holds
<1>16. Handed'
  <2>1. Cursor \in Nat /\ Cursor = received - Used(bb)
    BY <1>3, FrontBytes DEF IInv
  <2>2. Cursor' = received' - Used(bb')
    BY <1>2, Zenon DEF Cursor, Filling, Used
  <2>3. Cursor' = Cursor
    BY <1>1, <1>3, <1>6, <1>11, <1>12, <2>1, <2>2
  <2> QED
    BY <1>2, <1>3, <2>1, <2>3, HandedStays
<1> QED
  BY <1>13, <1>15, <1>16 DEF IInv

\* Bytes appended to a head leave it a head.
LEMMA StillBegins ==
  ASSUME NEW s \in Seq(Nat), NEW t \in Seq(Nat), Len(s) >= MinFrame, NEW k, Begins(s, k)
  PROVE  Begins(s \o t, k)
<1>1. \A j \in 0 .. Tag - 1 : (s \o t)[1 + j] = s[1 + j]
  <2> SUFFICES ASSUME NEW j \in 0 .. Tag - 1 PROVE (s \o t)[1 + j] = s[1 + j]
    OBVIOUS
  <2>1. 1 + j \in 1 .. Len(s)
    BY RecvPathAssumption
  <2> QED
    BY <2>1, Joined
<1> QED
  BY <1>1 DEF Begins, IsHead

\* A read into the large buffer, which takes the ring's place when it is full.
LEMMA RecvLargePreserves ==
  ASSUME IInv, RecvLarge
  PROVE  IInv'
<1> DEFINE room == Reserve(lbb, lbyte)
<1>1. PICK n \in 1 .. Least(Unread, room.n) :
        /\ received' = received + n /\ lbyte' = lbyte - n
        /\ IF lbyte' > 0
           THEN lbb' = Commit(lbb, room.at, Arrived(n)) /\ step' = "event" /\ bb' = bb
           ELSE bb' = Commit(lbb, room.at, Arrived(n)) /\ lbb' = bb /\ step' = "again"
  BY DEF RecvLarge
<1>2. /\ step = "event" /\ enable_lbb /\ stream' = stream /\ delivered' = delivered
      /\ enable_lbb' = enable_lbb /\ morebyte' = morebyte
  BY DEF RecvLarge
<1>3. Filling
  BY <1>2 DEF IInv, Buffers, Filling, Swapped, LargeThere
<1>4. /\ room.at = Len(lbb.a) /\ room.n = lbyte /\ lbyte \in Nat \ {0}
      /\ lbb \in [len : Nat, ixa : Nat, a : Seq(Nat), b : Seq(Nat)] /\ Len(lbb.a) \in Nat
      /\ LargeFilling /\ RingShape(lbb) /\ Holds(lbb, received)
  BY <1>3, LargeRoom
<1>5. /\ bb = Ring(BufLen) /\ lbb.ixa = 0 /\ lbb.b = <<>> /\ Len(lbb.a) + lbyte = lbb.len
      /\ Len(lbb.a) >= MinFrame
  BY <1>4 DEF LargeFilling
<1>6. Stream /\ Handed /\ received \in Nat /\ Total \in Nat /\ received <= Total
  BY DEF IInv, Stream
<1>7. n \in Nat /\ n >= 1 /\ n <= Total - received /\ n <= lbyte /\ lbyte - n \in Nat
  BY <1>1, <1>4, <1>6 DEF Least, Unread
<1> HIDE DEF room
<1> DEFINE s == Arrived(n)  filled == Commit(lbb, room.at, s)
<1>8. s \in Seq(Nat) /\ Len(s) = n /\ Behind(s, received)
  BY <1>6, <1>7, Read DEF Behind
<1> HIDE DEF s
<1>9. Fits(lbb, room.at, Len(s)) /\ Len(s) >= 1 /\ room.at \in Nat
  BY <1>4, <1>5, <1>7, <1>8 DEF Fits
<1>10. Grown(lbb, filled, s, received)
  <2>1. lbb.b # <<>> => lbb.a # <<>>
    BY <1>5
  <2> QED
    BY <1>4, <1>6, <1>8, <1>9, <2>1, CommitKeeps, Zenon
<1> HIDE DEF filled
<1>11. /\ RingShape(filled) /\ Holds(filled, received + Len(s)) /\ filled.len = lbb.len
       /\ filled.b = <<>> /\ filled.a = lbb.a \o s /\ filled.ixa = 0
  <2>1. ~(lbb.b = <<>> => 2 * lbb.ixa + Len(lbb.a) > lbb.len)
    BY <1>4, <1>5
  <2> QED
    BY <1>5, <1>10, <2>1 DEF Grown
<1>12. received' = received + Len(s) /\ Holds(filled, received')
  BY <1>1, <1>8, <1>11
<1>13. lbb.a \in Seq(Nat) /\ Len(filled.a) = Len(lbb.a) + n
  <2>1. lbb.a \in Seq(Nat)
    BY <1>4
  <2> QED
    BY <1>8, <1>11, <2>1, Joined
<1>14. PICK k \in Heads : Begins(lbb.a, k) /\ stream[k].said = lbb.len
  BY <1>4 DEF LargeFilling
<1>15. k \in Heads' /\ Begins(filled.a, k) /\ stream'[k].said = lbb.len /\ Heads' = Heads
  <2>1. Begins(filled.a, k)
    BY <1>5, <1>8, <1>11, <1>13, <1>14, StillBegins
  <2> QED
    BY <1>2, <1>14, <2>1 DEF Heads
<1>16. Stream'
  <2>1. received' \in 0 .. Total
    BY <1>1, <1>6, <1>7
  <2> QED
    BY <1>2, <1>6, <2>1, StreamStays
<1>17. RingShape(bb) /\ bb.b = <<>> /\ bb.a = <<>> /\ RingShape(lbb) /\ morebyte \in {FirstRead, MinFrame}
  BY <1>5 DEF IInv, Buffers, Ring
<1>18. Used(filled) = Used(lbb) + n /\ Used(lbb) = Len(lbb.a)
  <2>1. Used(filled) = Len(filled.a) + Len(<<>>) /\ Used(lbb) = Len(lbb.a) + Len(<<>>)
    BY <1>5, <1>11, Zenon DEF Used
  <2> QED
    BY <1>4, <1>7, <1>13, <2>1
<1>19. Cursor = received - Used(lbb) /\ Cursor \in Nat
  <2>1. Cursor = received - Used(lbb)
    BY <1>3, Zenon DEF Cursor
  <2>2. Len(lbb.a) <= received
    BY <1>4, <1>5, <1>6 DEF Holds, LastBytes
  <2> QED
    BY <1>4, <1>6, <1>18, <2>1, <2>2
<1>20. CASE lbyte' > 0
  <2>1. lbb' = filled /\ step' = "event" /\ bb' = bb
    BY <1>1, <1>20 DEF filled, s
  <2>2. Filling' /\ ~Swapped' /\ lbyte' \in Nat
    BY <1>1, <1>2, <1>7, <1>20 DEF Filling, Swapped
  <2>3. LargeFilling'
    <3>1. Len(lbb'.a) + lbyte' = lbb'.len /\ Len(lbb'.a) >= MinFrame
      <4>1. Len(lbb'.a) = Len(lbb.a) + n /\ lbb'.len = lbb.len /\ lbyte' = lbyte - n
        BY <1>1, <1>11, <1>13, <2>1
      <4> QED
        BY <1>4, <1>5, <1>7, <4>1, RecvPathAssumption
    <3>2. lbb'.ixa = 0 /\ lbb'.b = <<>> /\ bb' = Ring(BufLen)
      BY <1>5, <1>11, <2>1
    <3>3. k \in Heads' /\ Begins(lbb.a, k)' /\ stream'[k].said = lbb'.len
      <4>1. Begins(lbb'.a, k)
        BY <1>15, <2>1
      <4>2. Begins(lbb.a, k)'
        BY <1>2, <1>15, <4>1 DEF Begins, IsHead
      <4> QED
        BY <1>11, <1>15, <2>1, <4>2
    <3> QED
      BY <2>1, <3>1, <3>2, <3>3 DEF LargeFilling
  <2>4. Buffers'
    <3>1. RingShape(bb)' /\ RingShape(lbb)' /\ Holds(lbb, received)'
      BY <1>11, <1>12, <1>17, <2>1, Zenon DEF RingShape, Holds
    <3>2. received' > 0
      BY <1>1, <1>6, <1>7
    <3> QED
      BY <1>2, <1>17, <2>1, <2>2, <2>3, <3>1, <3>2 DEF Buffers
  <2>5. Handed'
    <3>1. Cursor' = received' - Used(filled)
      BY <2>1, <2>2, Zenon DEF Cursor, Used
    <3>2. Cursor' = Cursor
      BY <1>1, <1>4, <1>6, <1>7, <1>18, <1>19, <3>1
    <3> QED
      BY <1>2, <1>6, <1>19, <3>2, HandedStays
  <2> QED
    BY <1>16, <2>4, <2>5 DEF IInv
<1>21. CASE ~(lbyte' > 0)
  <2>1. bb' = filled /\ lbb' = bb /\ step' = "again"
    BY <1>1, <1>21 DEF filled, s
  <2>2. Swapped' /\ ~Filling' /\ lbyte' = 0 /\ n = lbyte
    BY <1>1, <1>2, <1>4, <1>7, <1>21 DEF Filling, Swapped
  <2>3. LargeThere'
    <3>1. Len(bb'.a) = lbb.len /\ Len(bb'.a) >= MinFrame
      <4>1. Len(bb'.a) = Len(lbb.a) + n
        BY <1>13, <2>1
      <4> QED
        BY <1>4, <1>5, <1>7, <2>2, <4>1, RecvPathAssumption
    <3>2. bb'.b = <<>> /\ lbb' = Ring(BufLen)
      BY <1>5, <1>11, <2>1
    <3>3. k \in Heads' /\ Begins(bb.a, k)' /\ stream'[k].said = Len(bb'.a)
      <4>1. Begins(bb'.a, k)
        BY <1>15, <2>1
      <4>2. Begins(bb.a, k)'
        BY <1>2, <1>15, <4>1 DEF Begins, IsHead
      <4> QED
        BY <1>15, <3>1, <4>2
    <3> QED
      BY <2>1, <3>1, <3>2, <3>3 DEF LargeThere
  <2>4. Buffers'
    <3>1. RingShape(bb)' /\ RingShape(lbb)' /\ Holds(bb, received)'
      BY <1>11, <1>12, <1>17, <2>1, Zenon DEF RingShape, Holds
    <3>2. received' > 0
      BY <1>1, <1>6, <1>7
    <3> QED
      BY <1>2, <1>17, <2>1, <2>2, <2>3, <3>1, <3>2 DEF Buffers
  <2>5. Handed'
    <3>1. Cursor' = received' - Used(filled)
      BY <2>1, <2>2, Zenon DEF Cursor, Used
    <3>2. Cursor' = Cursor
      BY <1>1, <1>4, <1>6, <1>7, <1>18, <1>19, <3>1
    <3> QED
      BY <1>2, <1>6, <1>19, <3>2, HandedStays
  <2> QED
    BY <1>16, <2>4, <2>5 DEF IInv
<1> QED
  BY <1>20, <1>21

\* The ring alone, with nothing of a large frame about.
LEMMA Alone ==
  ASSUME IInv, ~enable_lbb
  PROVE  /\ RingAlone /\ ~Filling /\ ~Swapped /\ Stream /\ Handed /\ RingShape(bb) /\ RingShape(lbb)
         /\ Holds(bb, received) /\ received \in Nat /\ morebyte \in {FirstRead, MinFrame} /\ lbyte \in Nat
         /\ bb \in [len : Nat, ixa : Nat, a : Seq(Nat), b : Seq(Nat)] /\ bb.len = BufLen
         /\ Len(bb.a) \in Nat /\ Len(bb.b) \in Nat /\ Used(bb) = Len(bb.a) + Len(bb.b)
         /\ (bb.a = <<>> <=> Len(bb.a) = 0) /\ (bb.b = <<>> <=> Len(bb.b) = 0)
         /\ bb.ixa + Len(bb.a) <= BufLen /\ Len(bb.b) <= bb.ixa /\ bb.ixa \in Nat
         /\ Cursor = received - Used(bb) /\ Cursor \in Nat
<1>1. /\ RingAlone /\ ~Filling /\ ~Swapped /\ Stream /\ Handed /\ RingShape(bb) /\ RingShape(lbb)
      /\ Holds(bb, received) /\ received \in Nat /\ morebyte \in {FirstRead, MinFrame} /\ lbyte \in Nat
  BY DEF IInv, Buffers, Filling, Swapped, Stream
<1>2. bb.len = BufLen
  BY <1>1 DEF RingAlone
<1>3. Cursor = received - Used(bb) /\ Cursor \in Nat
  BY <1>1, FrontBytes DEF IInv
<1>4. /\ bb \in [len : Nat, ixa : Nat, a : Seq(Nat), b : Seq(Nat)]
      /\ Len(bb.a) \in Nat /\ Len(bb.b) \in Nat /\ Used(bb) = Len(bb.a) + Len(bb.b)
      /\ (bb.a = <<>> <=> Len(bb.a) = 0) /\ (bb.b = <<>> <=> Len(bb.b) = 0)
      /\ bb.ixa + Len(bb.a) <= bb.len /\ Len(bb.b) <= bb.ixa
  BY <1>1, Lengths
<1>5. bb.ixa \in Nat /\ bb.ixa + Len(bb.a) <= BufLen
  BY <1>2, <1>4
<1> QED
  BY <1>1, <1>2, <1>3, <1>4, <1>5

\* A large frame is all there.
LEMMA There ==
  ASSUME IInv, Swapped
  PROVE  /\ LargeThere /\ ~Filling /\ enable_lbb /\ lbyte = 0 /\ Stream /\ Handed
         /\ RingShape(bb) /\ RingShape(lbb) /\ Holds(bb, received)
         /\ received \in Nat /\ received > 0 /\ morebyte \in {FirstRead, MinFrame}
         /\ bb \in [len : Nat, ixa : Nat, a : Seq(Nat), b : Seq(Nat)] /\ bb.b = <<>>
         /\ Len(bb.a) \in Nat /\ Used(bb) = Len(bb.a)
         /\ Cursor = received - Used(bb) /\ Cursor \in Nat
<1>1. /\ LargeThere /\ ~Filling /\ enable_lbb /\ lbyte = 0 /\ Stream /\ Handed
      /\ RingShape(bb) /\ RingShape(lbb) /\ Holds(bb, received)
      /\ received \in Nat /\ received > 0 /\ morebyte \in {FirstRead, MinFrame}
  BY DEF IInv, Buffers, Filling, Swapped, Stream
<1>2. bb.b = <<>>
  BY <1>1 DEF LargeThere
<1>3. Cursor = received - Used(bb) /\ Cursor \in Nat
  BY <1>1, FrontBytes DEF IInv
<1>4. /\ bb \in [len : Nat, ixa : Nat, a : Seq(Nat), b : Seq(Nat)] /\ Len(bb.a) \in Nat
      /\ Used(bb) = Len(bb.a) + Len(bb.b) /\ Len(bb.b) = 0
  BY <1>1, <1>2, Lengths
<1>5. Used(bb) = Len(bb.a)
  BY <1>4
<1> QED
  BY <1>1, <1>2, <1>3, <1>4, <1>5

\* Too few bytes to look at: the blocks are joined if they would do together.
LEMMA TooFewPreserves ==
  ASSUME IInv, TooFew
  PROVE  IInv'
<1>1. /\ step = "again" /\ Len(bb.a) < MinFrame /\ step' = "end"
      /\ bb' = (IF Used(bb) >= MinFrame THEN UnContiguous(bb) ELSE bb)
      /\ stream' = stream /\ received' = received /\ lbb' = lbb /\ enable_lbb' = enable_lbb
      /\ lbyte' = lbyte /\ morebyte' = morebyte /\ delivered' = delivered
  BY DEF TooFew
<1>2. Stream /\ Handed /\ received \in 0 .. Total /\ enable_lbb \in BOOLEAN /\ lbyte \in Nat
  BY DEF IInv, Stream, Buffers
<1>3. ~Filling
  BY <1>1 DEF IInv, Buffers, LargeFilling
<1>4. MinFrame \in Nat /\ 0 < MinFrame
  BY RecvPathAssumption
<1>5. Stream'
  BY <1>1, <1>2, StreamStays
<1>6. CASE enable_lbb
  <2>1. Swapped
    BY <1>2, <1>3, <1>6 DEF Filling, Swapped
  <2>2. bb.a = <<>> /\ bb.b = <<>> /\ lbb = Ring(BufLen)
    BY <1>1, <1>4, <2>1, There DEF LargeThere
  <2>3. Used(bb) = 0
    BY <2>1, <2>2, There
  <2>4. bb' = bb
    BY <1>1, <1>4, <2>3
  <2>5. ~Filling' /\ Swapped' /\ LargeThere'
    BY <1>1, <2>1, <2>2, <2>4 DEF Filling, Swapped, LargeThere
  <2>6. Buffers'
    BY <1>1, <1>6, <2>1, <2>4, <2>5, There DEF IInv, Buffers, RingShape, Holds
  <2>7. Cursor' = Cursor
    BY <1>1, <1>3, <2>4, <2>5, Zenon DEF Cursor, Used
  <2> QED
    BY <1>1, <1>2, <1>5, <2>1, <2>6, <2>7, There, HandedStays DEF IInv
<1>7. CASE ~enable_lbb
  <2>1. bb.b # <<>> => bb.a # <<>> /\ Used(bb) < 2 * MinFrame
    BY <1>1, <1>7, Alone DEF RingAlone
  <2>2. /\ RingShape(bb') /\ Holds(bb', received) /\ bb'.len = BufLen /\ Used(bb') = Used(bb)
        /\ bb'.b # <<>> => bb' = bb
        /\ morebyte' # MinFrame => bb'.ixa = 0 /\ bb'.b = <<>>
    <3>1. morebyte # MinFrame => bb.ixa = 0 /\ bb.b = <<>>
      BY <1>7, Alone DEF RingAlone
    <3> DEFINE u == UnContiguous(bb)
    <3>2. /\ RingShape(u) /\ Holds(u, received) /\ u.len = bb.len /\ u.b = <<>>
          /\ Used(u) = Used(bb) /\ (bb.b # <<>> => u.ixa = 0) /\ (bb.b = <<>> => u = bb)
      BY <1>7, <2>1, Alone, JoinKeeps
    <3>3. bb' = u \/ bb' = bb
      BY <1>1
    <3> HIDE DEF u
    <3>4. bb.len = BufLen /\ RingShape(bb) /\ Holds(bb, received)
      BY <1>7, Alone
    <3> QED
      BY <1>1, <3>1, <3>2, <3>3, <3>4
  <2>3. \/ Used(bb') < MinFrame
        \/ bb'.ixa = 0 /\ bb'.b = <<>> /\ Len(bb'.a) < 2 * MinFrame
    <3> SUFFICES ASSUME Used(bb) >= MinFrame
                 PROVE  bb'.ixa = 0 /\ bb'.b = <<>> /\ Len(bb'.a) < 2 * MinFrame
      BY <1>4, <1>7, <2>2, Alone
    <3>1. bb.b # <<>>
      BY <1>1, <1>4, <1>7, Alone
    <3>2. /\ UnContiguous(bb).b = <<>> /\ UnContiguous(bb).ixa = 0
          /\ Len(UnContiguous(bb).a) = Used(bb)
      BY <1>7, <2>1, <3>1, Alone, JoinKeeps
    <3>3. bb' = UnContiguous(bb)
      BY <1>1
    <3> QED
      BY <2>1, <3>1, <3>2, <3>3, Zenon
  <2>4. RingAlone'
    <3>1. lbb = Ring(0)
      BY <1>7, Alone DEF RingAlone
    <3>2. ASSUME bb'.b # <<>>
          PROVE  /\ bb'.a # <<>> /\ 2 * bb'.ixa + Len(bb'.a) > BufLen
                 /\ ~(Len(bb'.a) >= MinFrame)
                 /\ Len(bb'.a) < MinFrame => Used(bb') < 2 * MinFrame
      <4>1. bb' = bb
        BY <2>2, <3>2
      <4>2. 2 * bb.ixa + Len(bb.a) > BufLen
        BY <1>7, <3>2, <4>1, Alone DEF RingAlone
      <4>3. ~(Len(bb.a) >= MinFrame)
        BY <1>1, <1>4, <1>7, Alone
      <4> QED
        BY <2>1, <3>2, <4>1, <4>2, <4>3
    <3>3. Used(bb)' = Used(bb')
      BY DEF Used
    <3> QED
      BY <1>1, <2>2, <2>3, <3>1, <3>2, <3>3 DEF RingAlone
  <2>5. ~Filling' /\ ~Swapped' /\ ~enable_lbb'
    BY <1>1, <1>7 DEF Filling, Swapped
  <2>6. Buffers'
    <3>1. RingShape(bb)' /\ RingShape(lbb)' /\ Holds(bb, received)'
      BY <1>1, <1>7, <2>2, Alone DEF RingShape, Holds
    <3> QED
      BY <1>1, <1>2, <1>7, <2>4, <2>5, <3>1 DEF IInv, Buffers
  <2>7. Cursor' = Cursor
    <3>1. Cursor' = received - Used(bb')
      BY <1>1, <2>5, Zenon DEF Cursor, Used
    <3> QED
      BY <1>7, <2>2, <3>1, Alone
  <2> QED
    BY <1>1, <1>5, <1>7, <2>6, <2>7, Alone, HandedStays DEF IInv
<1> QED
  BY <1>2, <1>6, <1>7

\* The end of a call, which puts the ring back after a large frame.
LEMMA OnRecvEndPreserves ==
  ASSUME IInv, OnRecvEnd
  PROVE  IInv'
<1>1. /\ step = "end" /\ step' = "event" /\ stream' = stream /\ received' = received
      /\ lbyte' = lbyte /\ morebyte' = morebyte /\ delivered' = delivered
      /\ IF enable_lbb /\ lbyte <= 0
         THEN enable_lbb' = FALSE /\ bb' = lbb /\ lbb' = Ring(0)
         ELSE enable_lbb' = enable_lbb /\ bb' = bb /\ lbb' = lbb
  BY DEF OnRecvEnd
<1>2. Stream /\ Handed /\ received \in 0 .. Total /\ enable_lbb \in BOOLEAN /\ lbyte \in Nat
  BY DEF IInv, Stream, Buffers
<1>3. Stream'
  BY <1>1, <1>2, StreamStays
<1>4. MinFrame \in Nat /\ 0 < MinFrame /\ BufLen \in Nat
  BY RecvPathAssumption
<1>5. CASE Filling
  <2>1. ~(enable_lbb /\ lbyte <= 0)
    BY <1>2, <1>5 DEF Filling
  <2>2. enable_lbb' = enable_lbb /\ bb' = bb /\ lbb' = lbb
    BY <1>1, <2>1
  <2>3. Filling' /\ ~Swapped' /\ LargeFilling /\ enable_lbb
    BY <1>1, <1>5, <2>2, LargeRoom DEF Filling, Swapped
  <2>4. LargeFilling'
    BY <1>1, <2>2, <2>3 DEF LargeFilling, Begins, IsHead, Heads
  <2>5. Buffers'
    BY <1>1, <1>5, <2>2, <2>3, <2>4 DEF IInv, Buffers, RingShape, Holds
  <2>6. Cursor' = Cursor /\ Cursor \in Nat
    BY <1>1, <2>2, <2>3, CursorNat, Zenon DEF Cursor, Used, Filling
  <2> QED
    BY <1>1, <1>2, <1>3, <2>5, <2>6, HandedStays DEF IInv
<1>6. CASE Swapped
  <2>1. enable_lbb' = FALSE /\ bb' = lbb /\ lbb' = Ring(0)
    BY <1>1, <1>6 DEF Swapped
  <2>2. bb.a = <<>> /\ bb.b = <<>> /\ lbb = Ring(BufLen)
    BY <1>1, <1>6, There DEF LargeThere
  <2>3. ~Filling' /\ ~Swapped'
    BY <2>1 DEF Filling, Swapped
  <2>4. /\ bb'.len = BufLen /\ bb'.ixa = 0 /\ bb'.a = <<>> /\ bb'.b = <<>>
        /\ bb' \in [len : Nat, ixa : Nat, a : Seq(Nat), b : Seq(Nat)]
    BY <1>4, <2>1, <2>2 DEF Ring
  <2>5. RingShape(bb') /\ Used(bb') = 0 /\ LastBytes(<<>>, <<>>, received)
    BY <1>2, <1>4, <2>4 DEF RingShape, Used, LastBytes, Stream
  <2>6. RingAlone'
    <3>1. Used(bb)' < MinFrame
      BY <1>4, <2>5 DEF Used
    <3> QED
      BY <1>1, <2>1, <2>4, <3>1 DEF RingAlone
  <2>7. RingShape(lbb')
    BY <2>1 DEF Ring, RingShape
  <2>8. Buffers'
    <3>1. RingShape(bb)' /\ RingShape(lbb)' /\ Holds(bb, received)'
      BY <1>1, <2>4, <2>5, <2>7, Zenon DEF RingShape, Holds
    <3> QED
      BY <1>1, <1>2, <1>6, <2>1, <2>3, <2>6, <3>1, There DEF Buffers
  <2>9. Cursor' = Cursor
    <3>1. Cursor' = received - 0
      BY <1>1, <2>3, <2>5, Zenon DEF Cursor, Used
    <3>2. Cursor = received - 0
      BY <1>6, <2>2, There
    <3> QED
      BY <3>1, <3>2
  <2> QED
    BY <1>1, <1>3, <1>6, <2>8, <2>9, There, HandedStays DEF IInv
<1>7. CASE ~enable_lbb
  <2>1. enable_lbb' = enable_lbb /\ bb' = bb /\ lbb' = lbb
    BY <1>1, <1>7
  <2>2. ~Filling' /\ ~Swapped'
    BY <1>7, <2>1 DEF Filling, Swapped
  <2>3. RingAlone'
    <3>1. ASSUME NEW more, Waits(more) PROVE Waits(more)'
      BY <1>1, <2>1, <3>1, WaitsOn
    <3>2. RingAlone /\ Used(bb)' = Used(bb)
      BY <1>7, <2>1, Alone DEF Used
    <3> QED
      BY <1>1, <2>1, <3>1, <3>2 DEF RingAlone
  <2>4. Buffers'
    <3>1. RingShape(bb)' /\ RingShape(lbb)' /\ Holds(bb, received)'
      BY <1>1, <1>7, <2>1, Alone DEF RingShape, Holds
    <3> QED
      BY <1>1, <1>2, <1>7, <2>1, <2>2, <2>3, <3>1 DEF IInv, Buffers
  <2>5. Cursor' = Cursor
    BY <1>1, <1>7, <2>1, <2>2, Alone, Zenon DEF Cursor, Used
  <2> QED
    BY <1>1, <1>3, <1>7, <2>4, <2>5, Alone, HandedStays DEF IInv
<1> QED
  BY <1>2, <1>5, <1>6, <1>7 DEF Filling, Swapped

\* What the first block begins with when it is looked at.
LEMMA Looked ==
  ASSUME IInv, Looking
  PROVE  /\ ~Filling /\ Stream /\ Handed /\ received \in Nat /\ received \in 0 .. Total /\ step = "again"
         /\ enable_lbb \in BOOLEAN /\ (enable_lbb => Swapped)
         /\ bb \in [len : Nat, ixa : Nat, a : Seq(Nat), b : Seq(Nat)] /\ Len(bb.a) \in Nat
         /\ Len(bb.a) >= MinFrame /\ Buffers
<1>1. Stream /\ Handed /\ received \in Nat /\ received \in 0 .. Total /\ Buffers
  BY DEF IInv, Stream
<1>2. step = "again" /\ Len(bb.a) >= MinFrame
  BY DEF Looking
<1>3. ~Filling
  BY <1>1, <1>2 DEF Buffers, LargeFilling
<1>4. enable_lbb \in BOOLEAN /\ (enable_lbb => Swapped)
  BY <1>1, <1>3 DEF Buffers, Filling, Swapped
<1>5. bb \in [len : Nat, ixa : Nat, a : Seq(Nat), b : Seq(Nat)] /\ Len(bb.a) \in Nat
  BY <1>1 DEF Buffers, RingShape
<1> QED
  BY <1>1, <1>2, <1>3, <1>4, <1>5

\* What is found of a first block that begins with a head.
LEMMA FoundAtHead ==
  ASSUME Stream, Len(bb.a) \in Nat, NEW k \in Heads, IsHead(bb.a, 1, k)
  PROVE  /\ stream[k].said \in Int /\ k \in 1 .. Len(stream)
         /\ stream[k].kind = "badlen" => Found.ret = -2 /\ Found.n = Tag
         /\ stream[k].kind # "badlen" /\ Len(bb.a) < stream[k].said
              => Found.ret = -3 /\ Found.n = stream[k].said - Len(bb.a)
         /\ stream[k].kind # "badlen" /\ ~(Len(bb.a) < stream[k].said)
              => /\ Found.n = stream[k].said
                 /\ Found.ret = IF stream[k].said >= Tag /\ TailAt(bb.a, stream[k].said) THEN 0 ELSE -2
<1>1. stream[k].said \in Int /\ k \in 1 .. Len(stream)
  BY Apart DEF Heads
<1>2. FindFrame(bb.a) =
        IF stream[k].kind = "badlen" THEN [ret |-> -2, n |-> Tag]
        ELSE IF Len(bb.a) < stream[k].said THEN [ret |-> -3, n |-> stream[k].said - Len(bb.a)]
        ELSE [ret |-> IF stream[k].said >= Tag /\ TailAt(bb.a, stream[k].said) THEN 0 ELSE -2,
              n |-> stream[k].said]
  BY FrameFound
<1>3. CASE stream[k].kind = "badlen"
  <2>1. FindFrame(bb.a) = [ret |-> -2, n |-> Tag]
    BY <1>2, <1>3
  <2> QED
    BY <1>1, <1>3, <2>1 DEF Found
<1>4. CASE stream[k].kind # "badlen" /\ Len(bb.a) < stream[k].said
  <2>1. FindFrame(bb.a) = [ret |-> -3, n |-> stream[k].said - Len(bb.a)]
    BY <1>2, <1>4
  <2> QED
    BY <1>1, <1>4, <2>1 DEF Found
<1>5. CASE stream[k].kind # "badlen" /\ ~(Len(bb.a) < stream[k].said)
  <2>1. FindFrame(bb.a) =
          [ret |-> IF stream[k].said >= Tag /\ TailAt(bb.a, stream[k].said) THEN 0 ELSE -2,
           n |-> stream[k].said]
    BY <1>2, <1>5
  <2> QED
    BY <1>1, <1>5, <2>1 DEF Found
<1> QED
  BY <1>3, <1>4, <1>5

\* What is found of one that does not.
LEMMA FoundNoHead ==
  ASSUME Len(bb.a) \in Nat, Len(bb.a) >= MinFrame, ~HeadAt(bb.a, 1)
  PROVE  /\ Found.ret = -2 /\ Found.n \in 0 .. Len(bb.a) - Tag
         /\ \A i \in 1 .. Found.n : ~HeadAt(bb.a, i)
<1>1. /\ FindFrame(bb.a) = [ret |-> -2, n |-> Junk(bb.a)] /\ Junk(bb.a) \in 0 .. Len(bb.a) - Tag
      /\ \A i \in 1 .. Junk(bb.a) : ~HeadAt(bb.a, i)
  BY JunkFound
<1>2. Found.ret = -2 /\ Found.n = Junk(bb.a)
  BY <1>1 DEF Found
<1> QED
  BY <1>1, <1>2, Zenon

\* A large frame in the ring's place is whole.
LEMMA WholeThere ==
  ASSUME IInv, Looking, enable_lbb, NEW k \in Heads, IsHead(bb.a, 1, k)
  PROVE  stream[k].kind # "badlen" /\ stream[k].said = Len(bb.a)
<1>1. Stream /\ Swapped /\ bb.a # <<>> /\ Len(bb.a) \in Nat
  BY Looked, RecvPathAssumption
<1>2. PICK j \in Heads : Begins(bb.a, j) /\ stream[j].said = Len(bb.a)
  BY <1>1, There DEF LargeThere
<1>3. j = k
  BY <1>1, <1>2, SameHead DEF Begins
<1> QED
  BY <1>2, <1>3 DEF Begins

\* A large frame in the ring's place begins with its head.
LEMMA HeadThere ==
  ASSUME IInv, Looking, enable_lbb
  PROVE  HeadAt(bb.a, 1)
<1>1. Swapped /\ bb.a # <<>> /\ Len(bb.a) \in Nat
  BY Looked, RecvPathAssumption
<1> QED
  BY <1>1, There DEF LargeThere, Begins, HeadAt

\* An incomplete frame begins with a head, and is no large one just received.
LEMMA IncompleteFound ==
  ASSUME IInv, Looking, Found.ret = -3
  PROVE  /\ ~enable_lbb
         /\ \E k \in Heads : /\ Begins(bb.a, k) /\ stream[k].said \in Nat /\ Len(bb.a) < stream[k].said
                             /\ Found.n = stream[k].said - Len(bb.a)
<1>1. Stream /\ Len(bb.a) \in Nat /\ Len(bb.a) >= MinFrame
  BY Looked
<1>2. HeadAt(bb.a, 1)
  BY <1>1, FoundNoHead
<1>3. PICK k \in Heads : IsHead(bb.a, 1, k)
  BY <1>2 DEF HeadAt
<1>4. stream[k].said \in Nat /\ stream[k].kind # "badlen" /\ Len(bb.a) < stream[k].said
  <2>1. stream[k].said \in Int /\ stream[k].kind # "badlen" /\ Len(bb.a) < stream[k].said
    BY <1>1, <1>3, FoundAtHead
  <2> QED
    BY <1>1, <2>1
<1>5. Found.n = stream[k].said - Len(bb.a)
  BY <1>1, <1>3, <1>4, FoundAtHead
<1>6. ~enable_lbb
  BY <1>1, <1>3, <1>4, WholeThere
<1> QED
  BY <1>3, <1>4, <1>5, <1>6 DEF Begins

\* Anything but an incomplete frame is found in the only block.
LEMMA OneBlock ==
  ASSUME IInv, Looking, Found.ret # -3
  PROVE  bb.b = <<>>
<1>1. CASE enable_lbb
  BY <1>1, Looked, There
<1>2. CASE ~enable_lbb
  <2>1. RingAlone
    BY <1>2, Alone
  <2>2. bb.b # <<>> => Waits(0)
    BY <2>1, Looked DEF RingAlone
  <2>3. Waits(0) => Found.ret = -3
    BY Looked, Waited
  <2> QED
    BY <2>2, <2>3
<1> QED
  BY <1>1, <1>2, Looked

\* An incomplete frame: joined, moved to a large buffer, or waited for.
LEMMA IncompletePreserves ==
  ASSUME IInv, Incomplete
  PROVE  IInv'
<1> DEFINE want == Len(bb.a) + Found.n
           ring == IF want <= Used(bb) THEN UnContiguous(bb) ELSE bb
<1>1. /\ Looking /\ Found.ret = -3 /\ morebyte' = MinFrame
      /\ stream' = stream /\ received' = received /\ delivered' = delivered
      /\ IF Len(ring.a) >= want
         THEN bb' = ring /\ step' = "again" /\ UNCHANGED <<lbb, enable_lbb, lbyte>>
         ELSE /\ step' = "end"
              /\ IF want > BufLen
                 THEN /\ lbb' = Commit(Ring(want), 0, ring.a)
                      /\ bb' = DecommitBlock(ring, Len(ring.a))
                      /\ lbyte' = want - Len(ring.a)
                      /\ enable_lbb' = TRUE
                 ELSE bb' = ring /\ UNCHANGED <<lbb, enable_lbb, lbyte>>
  BY DEF Incomplete
<1>2. PICK k \in Heads : /\ Begins(bb.a, k) /\ stream[k].said \in Nat /\ Len(bb.a) < stream[k].said
                         /\ Found.n = stream[k].said - Len(bb.a)
  BY <1>1, IncompleteFound
<1>3. ~enable_lbb
  BY <1>1, IncompleteFound
<1>4. /\ RingAlone /\ ~Filling /\ ~Swapped /\ Stream /\ Handed /\ RingShape(bb) /\ RingShape(lbb)
      /\ Holds(bb, received) /\ received \in Nat /\ lbyte \in Nat
      /\ bb \in [len : Nat, ixa : Nat, a : Seq(Nat), b : Seq(Nat)] /\ bb.len = BufLen
      /\ Len(bb.a) \in Nat /\ Len(bb.b) \in Nat /\ Used(bb) = Len(bb.a) + Len(bb.b)
      /\ (bb.a = <<>> <=> Len(bb.a) = 0) /\ (bb.b = <<>> <=> Len(bb.b) = 0)
      /\ bb.ixa + Len(bb.a) <= BufLen /\ Len(bb.b) <= bb.ixa /\ bb.ixa \in Nat
      /\ Cursor = received - Used(bb) /\ Cursor \in Nat
  BY <1>3, Alone
<1>5. /\ Len(bb.a) >= MinFrame /\ MinFrame \in Nat /\ BufLen \in Nat /\ MinFrame > 0
      /\ received \in 0 .. Total /\ enable_lbb \in BOOLEAN
  BY <1>1, Looked, RecvPathAssumption
<1>6. want = stream[k].said /\ want \in Nat /\ Len(bb.a) < want
  <2>1. want = stream[k].said
    BY <1>2, <1>4
  <2> HIDE DEF want
  <2> QED
    BY <1>2, <2>1
<1> HIDE DEF want
<1>7. want \in Nat /\ Len(bb.a) \in Nat /\ Len(bb.a) < want
  BY <1>4, <1>6
<1>8. Stream'
  BY <1>1, <1>4, <1>5, StreamStays
<1>9. bb.b # <<>> => bb.a # <<>>
  BY <1>4, <1>5
<1>10. CASE want <= Used(bb)
  <2> DEFINE u == UnContiguous(bb)
  <2>1. /\ RingShape(u) /\ Holds(u, received) /\ u.len = bb.len /\ u.b = <<>> /\ Len(u.a) = Used(bb)
        /\ Used(u) = Used(bb) /\ (bb.b = <<>> => u = bb)
    BY <1>4, <1>9, JoinKeeps
  <2>2. ring = u
    BY <1>10
  <2> HIDE DEF u
  <2>3. Len(u.a) >= want
    BY <1>4, <1>6, <1>10, <2>1, <1>2
  <2>4. bb' = u /\ step' = "again" /\ lbb' = lbb /\ enable_lbb' = enable_lbb /\ lbyte' = lbyte
    BY <1>1, <2>2, <2>3
  <2>5. ~Filling' /\ ~Swapped' /\ ~enable_lbb'
    BY <1>3, <2>4 DEF Filling, Swapped
  <2>6. RingAlone'
    BY <1>1, <1>4, <2>1, <2>4 DEF RingAlone
  <2>7. Buffers'
    <3>1. RingShape(bb)' /\ RingShape(lbb)' /\ Holds(bb, received)'
      BY <1>1, <1>4, <2>1, <2>4, Zenon DEF RingShape, Holds
    <3> QED
      BY <1>1, <1>4, <1>5, <2>4, <2>5, <2>6, <3>1 DEF Buffers
  <2>8. Cursor' = Cursor
    BY <1>1, <1>4, <2>1, <2>4, <2>5, Zenon DEF Cursor, Used
  <2> QED
    BY <1>1, <1>4, <1>8, <2>7, <2>8, HandedStays DEF IInv
<1>11. CASE ~(want <= Used(bb))
  <2>1. ring = bb /\ ~(Len(bb.a) >= want)
    BY <1>2, <1>4, <1>6, <1>11
  <2> HIDE DEF ring
  <2>2. CASE ~(want > BufLen)
    <3>1. bb' = bb /\ step' = "end" /\ lbb' = lbb /\ enable_lbb' = enable_lbb /\ lbyte' = lbyte
      BY <1>1, <2>1, <2>2
    <3>2. ~Filling' /\ ~Swapped' /\ ~enable_lbb'
      BY <1>3, <3>1 DEF Filling, Swapped
    <3>3. Waits(Len(bb.b))
      <4>1. Len(bb.a) + Len(bb.b) < want /\ want <= BufLen
        BY <1>4, <1>5, <1>6, <1>11, <2>2
      <4> QED
        BY <1>2, <1>5, <1>6, <4>1 DEF Waits
    <3>4. Waits(Len(bb.b))' /\ (Waits(0) => Waits(0)')
      <4>1. ASSUME NEW m, Waits(m) PROVE Waits(m)'
        BY <1>1, <3>1, <4>1, WaitsOn
      <4>2. Waits(Len(bb.b))'
        BY <1>1, <3>1, <3>3 DEF Waits, Begins, Heads, IsHead
      <4> QED
        BY <4>1, <4>2
    <3>5. RingAlone'
      <4>1. Used(bb)' = Used(bb)
        BY <3>1, Zenon DEF Used
      <4> QED
        BY <1>1, <1>4, <3>1, <3>4, <4>1 DEF RingAlone
    <3>6. Buffers'
      <4>1. RingShape(bb)' /\ RingShape(lbb)' /\ Holds(bb, received)'
        BY <1>1, <1>4, <3>1, Zenon DEF RingShape, Holds
      <4> QED
        BY <1>1, <1>4, <1>5, <3>1, <3>2, <3>5, <4>1 DEF Buffers
    <3>7. Cursor' = Cursor
      BY <1>1, <1>4, <3>1, <3>2, Zenon DEF Cursor, Used
    <3> QED
      BY <1>1, <1>4, <1>8, <3>6, <3>7, HandedStays DEF IInv
  <2>3. CASE want > BufLen
    <3> DEFINE large == Commit(Ring(want), 0, bb.a)
    <3>1. /\ lbb' = large /\ bb' = DecommitBlock(bb, Len(bb.a)) /\ lbyte' = want - Len(bb.a)
          /\ enable_lbb' = TRUE /\ step' = "end"
      BY <1>1, <2>1, <2>3
    <3>2. bb.b = <<>>
      <4> SUFFICES ASSUME bb.b # <<>> PROVE FALSE
        OBVIOUS
      <4>1. PICK j \in Heads : Begins(bb.a, j) /\ stream[j].said <= BufLen
        BY <1>4, <1>5 DEF RingAlone, Waits
      <4>2. j = k
        BY <1>2, <1>4, <4>1, SameHead DEF Begins
      <4> QED
        BY <1>2, <1>5, <1>6, <2>3, <4>1, <4>2
    <3>3. bb' = Ring(BufLen)
      BY <1>4, <3>1, <3>2, DecommitKeeps
    <3>4. bb'.ixa = 0 /\ bb'.a = <<>> /\ bb'.b = <<>> /\ RingShape(bb')
      BY <1>5, <3>3 DEF Ring, RingShape
    <3>5. /\ large.len = want /\ large.ixa = 0 /\ large.a = bb.a /\ large.b = <<>>
          /\ large \in [len : Nat, ixa : Nat, a : Seq(Nat), b : Seq(Nat)]
      <4>1. /\ Ring(want) \in [len : Nat, ixa : Nat, a : Seq(Nat), b : Seq(Nat)]
            /\ Ring(want).len = want /\ Ring(want).b = <<>> /\ Used(Ring(want)) = 0
        BY <1>2, <1>6 DEF Ring, Used
      <4>2. large = [Ring(want) EXCEPT !.ixa = 0, !.a = bb.a]
        BY <4>1 DEF Commit
      <4>3. 0 \in Nat /\ bb.a \in Seq(Nat)
        BY <1>4
      <4> HIDE DEF large
      <4>4. /\ large \in [len : Nat, ixa : Nat, a : Seq(Nat), b : Seq(Nat)]
            /\ large.len = Ring(want).len /\ large.ixa = 0 /\ large.a = bb.a /\ large.b = Ring(want).b
        BY <4>1, <4>2, <4>3, Updated2, Zenon
      <4> QED
        BY <4>1, <4>4, Zenon
    <3> HIDE DEF large
    <3>6. RingShape(large) /\ Holds(large, received)
      <4>1. RingShape(large)
        <5>1. large.ixa + Len(large.a) <= large.len
          BY <1>7, <3>5
        <5>2. Len(large.b) <= large.ixa
          BY <3>5
        <5> QED
          BY <3>5, <5>1, <5>2 DEF RingShape
      <4>2. Holds(large, received)
        BY <1>4, <3>2, <3>5, Zenon DEF Holds
      <4> QED
        BY <4>1, <4>2
    <3>7. lbyte' \in Nat /\ lbyte' > 0 /\ Len(bb.a) + lbyte' = want
      <4>1. want - Len(bb.a) \in Nat /\ want - Len(bb.a) > 0 /\ Len(bb.a) + (want - Len(bb.a)) = want
        BY <1>7
      <4> QED
        BY <3>1, <4>1, Zenon
    <3>8. Filling' /\ ~Swapped' /\ enable_lbb'
      BY <3>1, <3>7 DEF Filling, Swapped
    <3>9. LargeFilling'
      <4>1. Begins(lbb.a, k)' /\ k \in Heads' /\ stream'[k].said = lbb'.len
        BY <1>1, <1>2, <1>6, <3>1, <3>5 DEF Begins, IsHead, Heads
      <4> QED
        BY <1>5, <3>1, <3>3, <3>5, <3>7, <4>1 DEF LargeFilling
    <3>10. Buffers'
      <4>1. RingShape(bb)' /\ RingShape(lbb)' /\ Holds(lbb, received)'
        BY <1>1, <3>1, <3>4, <3>6, Zenon DEF RingShape, Holds
      <4>2. received > 0
        BY <1>4, <1>5
      <4> QED
        BY <1>1, <3>1, <3>7, <3>8, <3>9, <4>1, <4>2 DEF Buffers
    <3>11. Cursor' = Cursor
      <4>1. Cursor' = received - (Len(bb.a) + Len(<<>>))
        BY <1>1, <3>1, <3>5, <3>8, Zenon DEF Cursor, Used
      <4>2. Cursor = received - (Len(bb.a) + Len(<<>>))
        BY <1>4, <3>2, Zenon
      <4> QED
        BY <4>1, <4>2
    <3> QED
      BY <1>1, <1>4, <1>8, <3>10, <3>11, HandedStays DEF IInv
  <2> QED
    BY <2>2, <2>3
<1> QED
  BY <1>10, <1>11

\* What ends with a tail where its length says is a good frame, or one with a
\* wrong length that takes a later frame's tail for its own.
LEMMA WholeFound ==
  ASSUME IInv, Looking, Found.ret = 0
  PROVE  \E k \in 1 .. Len(stream) :
           /\ Handable(k) /\ stream[k].at = Cursor + 1 /\ stream[k].said \in Nat /\ stream[k].said >= 1
           /\ Found.n = stream[k].said /\ stream[k].said <= Len(bb.a)
           /\ enable_lbb => stream[k].said = Len(bb.a)
<1>1. /\ Stream /\ Buffers /\ ~Filling /\ received \in Nat /\ Len(bb.a) \in Nat /\ Len(bb.a) >= MinFrame
  BY Looked
<1>2. HeadAt(bb.a, 1)
  BY <1>1, FoundNoHead
<1>3. PICK k \in Heads : IsHead(bb.a, 1, k)
  BY <1>2 DEF HeadAt
<1>4. k \in 1 .. Len(stream) /\ stream[k].said \in Int /\ stream[k].at = Cursor + 1
  BY <1>1, <1>3, FoundAtHead, HeadPlace
<1>5. /\ stream[k].kind # "badlen" /\ ~(Len(bb.a) < stream[k].said) /\ Found.n = stream[k].said
      /\ stream[k].said >= Tag /\ TailAt(bb.a, stream[k].said)
  BY <1>1, <1>3, FoundAtHead
<1>6. stream[k].said \in Nat /\ stream[k].said >= 1
  BY <1>4, <1>5, RecvPathAssumption
<1>7. Handable(k)
  <2>1. stream[k].kind \in {"good", "badtail", "badlen", "wronglen", "noise"} /\ stream[k].kind # "noise"
    <3>1. stream[k] \in Item /\ stream[k].kind # "noise"
      BY <1>1, <1>3, <1>4 DEF Stream, Heads
    <3> QED
      BY <3>1 DEF Item
  <2>2. ASSUME stream[k].kind = "badtail" PROVE FALSE
    <3>1. PICK j \in Heads : stream[j].kind # "badtail" /\ bb.a[stream[k].said] = stream[j].at + stream[j].len - 1
      BY <1>5 DEF TailAt
    <3>2. /\ j \in 1 .. Len(stream) /\ Cursor \in Nat /\ End(j) = stream[j].at + stream[j].len - 1
          /\ End(k) = stream[k].at + stream[k].len - 1 /\ End(k) \in Nat /\ End(j) \in Nat
      <4>1. j \in 1 .. Len(stream)
        BY DEF Heads
      <4>2. Cursor \in Nat
        BY <1>1, FrontBytes
      <4> QED
        BY <1>1, <1>4, <4>1, <4>2, Apart
    <3>3. bb.a[stream[k].said] = Cursor + stream[k].said
      <4>1. stream[k].said \in 1 .. Len(bb.a)
        BY <1>1, <1>5, <1>6
      <4>2. \A i \in 1 .. Len(bb.a) : bb.a[i] = Cursor + i
        BY <1>1, FrontBytes
      <4> QED
        BY <4>1, <4>2, Zenon
    <3>4. stream[k].said = stream[k].len
      BY <1>1, <1>4, <2>2 DEF Stream
    <3>5. End(j) = End(k)
      BY <1>4, <1>6, <3>1, <3>2, <3>3, <3>4
    <3>6. j = k
      BY <1>1, <1>4, <3>2, <3>5, Apart, SMTT(30)
    <3> QED
      BY <2>2, <3>1, <3>6
  <2> QED
    BY <1>5, <2>1, <2>2 DEF Handable
<1>8. stream[k].said <= Len(bb.a)
  BY <1>1, <1>5, <1>6
<1>9. enable_lbb => stream[k].said = Len(bb.a)
  BY <1>3, WholeThere
<1> QED
  BY <1>4, <1>5, <1>6, <1>7, <1>8, <1>9

\* The bytes a frame says are its own, as they lie in the buffer.
LEMMA WholeBytes ==
  ASSUME NEW s \in Seq(Nat), NEW k, NEW m \in Nat, stream[k].at = m + 1, stream[k].said \in Nat,
         stream[k].said <= Len(s), \A i \in 1 .. Len(s) : s[i] = m + i
  PROVE  SubSeq(s, 1, stream[k].said) = Bytes(stream[k]) /\ Bytes(stream[k]) \in Seq(Nat)
<1> DEFINE n == stream[k].said  w == SubSeq(s, 1, n)
<1>1. n \in Nat /\ n <= Len(s) /\ \A i \in 1 .. n : s[i] = m + i /\ s[i] \in Nat
  <2>1. n \in Nat /\ n <= Len(s)
    OBVIOUS
  <2> HIDE DEF n
  <2>2. ASSUME NEW i \in 1 .. n PROVE s[i] = m + i /\ s[i] \in Nat
    <3>1. i \in 1 .. Len(s)
      BY <2>1
    <3>2. s[i] = m + i
      BY <3>1
    <3>3. s[i] \in Nat
      BY <3>1
    <3> QED
      BY <3>2, <3>3
  <2> QED
    BY <2>1, <2>2
<1> HIDE DEF n
<1>2. w \in Seq(Nat) /\ Len(w) = n /\ \A i \in 1 .. n : w[i] = s[i]
  <2>1. 1 \in Int /\ n \in Int /\ \A i \in 1 .. n : s[i] \in Nat
    BY <1>1
  <2>2. /\ w \in Seq(Nat) /\ Len(w) = (IF 1 <= n THEN n - 1 + 1 ELSE 0)
        /\ \A i \in 1 .. n - 1 + 1 : w[i] = s[1 + i - 1]
    BY <2>1, SubSeqProperties
  <2> HIDE DEF w
  <2> QED
    BY <1>1, <2>2
<1> HIDE DEF w
<1>3. Bytes(stream[k]) = [i \in 1 .. n |-> m + 1 + i - 1]
  BY DEF Bytes, n
<1>4. w = [i \in 1 .. n |-> w[i]]
  BY <1>2
<1>5. ASSUME NEW i \in 1 .. n PROVE w[i] = m + 1 + i - 1
  <2>1. w[i] = m + i
    BY <1>1, <1>2
  <2> QED
    BY <1>1, <2>1
<1>6. w = Bytes(stream[k])
  BY <1>3, <1>4, <1>5
<1> QED
  BY <1>2, <1>6 DEF w, n

\* A good frame behind the one in front starts behind what that one takes with it,
\* unless it is claimed.
LEMMA OnlyTheFront ==
  ASSUME Stream, Cursor \in Nat, NEW k \in 1 .. Len(stream), stream[k].at = Cursor + 1, NEW n \in Nat,
         stream[k].kind = "wronglen" => stream[k].said < 1 \/ n <= stream[k].said,
         stream[k].kind # "wronglen" => n <= stream[k].len,
         NEW j \in 1 .. Len(stream), Clear(j), Cursor < stream[j].at, stream[j].at <= Cursor + n
  PROVE  j = k
<1> SUFFICES ASSUME j # k PROVE FALSE
  OBVIOUS
<1>1. /\ stream[j].at \in Nat /\ stream[k].at \in Nat /\ stream[k].said \in Int /\ stream[k].len \in Nat
      /\ End(j) \in Nat /\ End(k) \in Nat /\ stream[j].at <= End(j) /\ stream[k].at <= End(k)
      /\ End(k) = stream[k].at + stream[k].len - 1
      /\ End(j) < stream[k].at \/ End(k) < stream[j].at
  BY Apart
<1>2. End(k) < stream[j].at
  BY <1>1
<1>3. k < j
  <2> SUFFICES ASSUME j < k PROVE FALSE
    OBVIOUS
  <2>1. End(j) < stream[k].at
    BY DEF Stream
  <2> QED
    BY <1>1, <1>2, <2>1
<1>4. CASE stream[k].kind # "wronglen"
  BY <1>1, <1>2, <1>4, SMTT(30)
<1>5. CASE stream[k].kind = "wronglen"
  <2>1. k \in 1 .. j - 1
    BY <1>3
  <2>2. stream[k].said > 0 /\ stream[k].at + stream[k].said <= stream[j].at
    BY <1>5, <2>1 DEF Clear
  <2> QED
    BY <1>1, <1>5, <2>2, SMTT(30)
<1> QED
  BY <1>4, <1>5

\* The frame in front is handed on.
LEMMA HandedAppends ==
  ASSUME Stream, Handed, stream' = stream, Cursor \in Nat, Cursor' \in Nat, Cursor <= Cursor',
         NEW k \in 1 .. Len(stream), Handable(k), stream[k].at = Cursor + 1,
         NEW b \in Seq(Nat), b = Bytes(stream[k]), delivered' = Append(delivered, b),
         stream[k].said > 0 => stream[k].at <= Cursor',
         \A j \in 1 .. Len(stream) :
           Good(j) /\ Clear(j) /\ Cursor < stream[j].at /\ stream[j].at <= Cursor'
             => j = k /\ End(j) <= Cursor'
  PROVE  Handed'
<1>1. /\ delivered \in Seq(Seq(Nat)) /\ delivered' \in Seq(Seq(Nat)) /\ Len(delivered) \in Nat
      /\ Len(delivered') = Len(delivered) + 1 /\ delivered'[Len(delivered) + 1] = b
      /\ \A i \in 1 .. Len(delivered) : delivered'[i] = delivered[i]
  BY DEF Handed
<1>2. ASSUME NEW i \in 1 .. Len(delivered)
      PROVE  \E j \in 1 .. Len(stream) :
               /\ Handable(j) /\ delivered[i] = Bytes(stream[j])
               /\ stream[j].said > 0 => stream[j].at <= Cursor
  BY DEF Handed
<1>3. ASSUME NEW i \in 1 .. Len(delivered')
      PROVE  \E j \in 1 .. Len(stream) :
               /\ Handable(j) /\ delivered'[i] = Bytes(stream[j])
               /\ stream[j].said > 0 => stream[j].at <= Cursor'
  <2>1. CASE i \in 1 .. Len(delivered)
    <3>1. PICK j \in 1 .. Len(stream) :
            /\ Handable(j) /\ delivered[i] = Bytes(stream[j])
            /\ stream[j].said > 0 => stream[j].at <= Cursor
      BY <1>2, <2>1
    <3>2. stream[j].said > 0 => stream[j].at <= Cursor'
      BY <3>1, Apart
    <3> QED
      BY <1>1, <2>1, <3>1, <3>2
  <2>2. CASE i = Len(delivered) + 1
    BY <1>1, <2>2
  <2>3. i \in 1 .. Len(delivered) \/ i = Len(delivered) + 1
    BY <1>1
  <2> QED
    BY <2>1, <2>2, <2>3, Zenon
<1>4. \A j \in 1 .. Len(stream) :
        /\ stream[j].said > 0 => Bytes(stream[j])[1] = stream[j].at
        /\ ~(stream[j].said > 0) => Bytes(stream[j]) = <<>>
  <2> SUFFICES ASSUME NEW j \in 1 .. Len(stream)
               PROVE  /\ stream[j].said > 0 => Bytes(stream[j])[1] = stream[j].at
                      /\ ~(stream[j].said > 0) => Bytes(stream[j]) = <<>>
    OBVIOUS
  <2>1. stream[j].said \in Int /\ stream[j].at \in Nat
    BY Apart
  <2>2. ASSUME stream[j].said > 0 PROVE Bytes(stream[j])[1] = stream[j].at
    <3>1. 1 \in 1 .. stream[j].said
      BY <2>1, <2>2
    <3>2. Bytes(stream[j])[1] = stream[j].at + 1 - 1
      BY <3>1 DEF Bytes
    <3> QED
      BY <2>1, <3>2
  <2>3. ASSUME ~(stream[j].said > 0) PROVE Bytes(stream[j]) = <<>>
    <3>1. 1 .. stream[j].said = {}
      BY <2>1, <2>3
    <3>2. Bytes(stream[j]) = [i \in {} |-> stream[j].at + i - 1]
      BY <3>1 DEF Bytes
    <3> QED
      BY <3>2
  <2> QED
    BY <2>2, <2>3
<1>5. ASSUME NEW i \in 1 .. Len(delivered), delivered[i] # <<>>, b # <<>>
      PROVE  delivered[i][1] < b[1]
  <2>1. PICK j \in 1 .. Len(stream) :
          delivered[i] = Bytes(stream[j]) /\ (stream[j].said > 0 => stream[j].at <= Cursor)
    BY <1>2
  <2>2. delivered[i][1] = stream[j].at /\ stream[j].at <= Cursor
    BY <1>4, <1>5, <2>1
  <2>3. b[1] = stream[k].at
    BY <1>4, <1>5
  <2>4. stream[j].at \in Nat
    BY Apart
  <2> QED
    BY <2>2, <2>3, <2>4
<1>6. ASSUME NEW i \in 1 .. Len(delivered'), NEW j \in 1 .. Len(delivered'), i < j,
             delivered'[i] # <<>>, delivered'[j] # <<>>
      PROVE  delivered'[i][1] < delivered'[j][1]
  <2>1. i \in 1 .. Len(delivered)
    BY <1>1, <1>6
  <2>2. CASE j \in 1 .. Len(delivered)
    <3>1. \A m, n \in 1 .. Len(delivered) :
            m < n /\ delivered[m] # <<>> /\ delivered[n] # <<>> => delivered[m][1] < delivered[n][1]
      BY Zenon DEF Handed
    <3> QED
      BY <1>1, <1>6, <2>1, <2>2, <3>1
  <2>3. CASE j = Len(delivered) + 1
    BY <1>1, <1>5, <1>6, <2>1, <2>3
  <2> QED
    BY <1>1, <2>2, <2>3
<1>7. ASSUME NEW j \in 1 .. Len(stream), Good(j), Clear(j), stream[j].at <= Cursor'
      PROVE  End(j) <= Cursor' /\ \E i \in 1 .. Len(delivered') : delivered'[i] = Bytes(stream[j])
  <2>1. stream[j].at \in Nat /\ End(j) \in Nat
    BY Apart
  <2>2. CASE stream[j].at <= Cursor
    <3>1. End(j) <= Cursor /\ HandedOn(j)
      BY <1>7, <2>2 DEF Handed
    <3> QED
      BY <1>1, <2>1, <3>1, SMTT(30) DEF HandedOn
  <2>3. CASE Cursor < stream[j].at
    <3>1. j = k /\ End(j) <= Cursor'
      BY <1>7, <2>3
    <3>2. Len(delivered) + 1 \in 1 .. Len(delivered')
      BY <1>1
    <3> QED
      BY <1>1, <3>1, <3>2
  <2> QED
    BY <2>1, <2>2, <2>3, SMTT(30)
<1>8. \A j : Good(j)' = Good(j) /\ Handable(j)' = Handable(j) /\ End(j)' = End(j) /\ Clear(j)' = Clear(j)
  BY DEF Good, Handable, End, Clear
<1>9. \A i \in 1 .. Len(delivered') : \E j \in 1 .. Len(stream') :
        /\ Handable(j)' /\ delivered'[i] = Bytes(stream'[j])
        /\ stream'[j].said > 0 => stream'[j].at <= Cursor'
  BY <1>3, <1>8, Zenon
<1>10. \A j \in 1 .. Len(stream') : Good(j)' /\ Clear(j)' /\ stream'[j].at <= Cursor' =>
         End(j)' <= Cursor' /\ \E i \in 1 .. Len(delivered') : delivered'[i] = Bytes(stream'[j])
  BY <1>7, <1>8, Zenon
<1>11. \A j \in 1 .. Len(stream) : HandedOn(j)' <=> \E i \in 1 .. Len(delivered') : delivered'[i] = Bytes(stream'[j])
  BY DEF HandedOn, Bytes
<1>12. stream' = stream /\ \A j : Bytes(stream[j])' = Bytes(stream'[j])
  BY DEF Bytes
<1> QED
  BY <1>1, <1>6, <1>9, <1>10, <1>11, <1>12, Zenon DEF Handed

\* The first n bytes are taken out of the buffer, all of them if it holds a large frame.
LEMMA Released ==
  ASSUME IInv, Looking, bb.b = <<>>, NEW n \in 0 .. Len(bb.a), bb' = DecommitBlock(bb, n), morebyte' = MinFrame,
         stream' = stream, received' = received, lbb' = lbb, enable_lbb' = enable_lbb, lbyte' = lbyte,
         enable_lbb => n = Len(bb.a) /\ step' \in {"again", "end"},
         ~enable_lbb => step' \in {"again", "spin"}
  PROVE  Stream' /\ Buffers' /\ Cursor \in Nat /\ Cursor' = Cursor + n /\ Cursor' \in Nat /\ Cursor <= Cursor'
<1>1. /\ ~Filling /\ Stream /\ received \in Nat /\ received \in 0 .. Total
      /\ enable_lbb \in BOOLEAN /\ (enable_lbb => Swapped) /\ Buffers
      /\ bb \in [len : Nat, ixa : Nat, a : Seq(Nat), b : Seq(Nat)] /\ Len(bb.a) \in Nat
  BY Looked
<1>2. Cursor \in Nat /\ Cursor = received - Used(bb)
  BY <1>1, FrontBytes
<1>3. RingShape(bb) /\ RingShape(lbb) /\ Holds(bb, received) /\ lbyte \in Nat
  BY <1>1 DEF Buffers
<1>4. /\ RingShape(bb') /\ Holds(bb', received) /\ bb'.len = bb.len /\ bb'.b = <<>>
      /\ Used(bb') = Used(bb) - n /\ (n = Len(bb.a) => bb' = Ring(bb.len))
  BY <1>1, <1>3, DecommitKeeps, SMTT(30)
<1>5. Used(bb) \in Nat /\ Used(bb') \in Nat /\ n \in Nat
  <2>1. Used(bb) \in Nat /\ Used(bb') \in Nat
    BY <1>3, <1>4, Lengths
  <2> QED
    BY <1>1, <2>1
<1>6. ~Filling' /\ (Swapped' <=> Swapped) /\ (enable_lbb' => Swapped')
  BY <1>1 DEF Filling, Swapped
<1>7. Stream'
  BY <1>1, StreamStays
<1>8. ASSUME Swapped PROVE LargeThere'
  <2>1. enable_lbb /\ n = Len(bb.a) /\ step' \in {"again", "end"}
    BY <1>8 DEF Swapped
  <2>2. bb'.a = <<>>
    BY <1>4, <2>1 DEF Ring
  <2>3. lbb = Ring(BufLen)
    BY <1>8, There DEF LargeThere
  <2> QED
    BY <1>4, <2>1, <2>2, <2>3 DEF LargeThere
<1>9. ASSUME ~enable_lbb PROVE RingAlone'
  <2>1. RingAlone
    BY <1>9, Alone
  <2> QED
    BY <1>4, <1>9, <2>1 DEF RingAlone
<1>10. Buffers'
  <2>1. RingShape(bb)' /\ RingShape(lbb)' /\ Holds(bb, received)'
    BY <1>3, <1>4, Zenon DEF RingShape, Holds
  <2>2. enable_lbb' => received' > 0
    BY <1>1 DEF Buffers
  <2>3. step' \in {"event", "again", "end", "spin", "down"}
    BY <1>1
  <2> QED
    BY <1>1, <1>3, <1>6, <1>8, <1>9, <2>1, <2>2, <2>3 DEF Buffers
<1>11. Cursor' = received - Used(bb')
  BY <1>6, Zenon DEF Cursor, Used
<1>12. Cursor' = Cursor + n
  BY <1>1, <1>2, <1>4, <1>5, <1>11
<1> QED
  BY <1>2, <1>5, <1>7, <1>10, <1>12

\* A frame handed on and taken out of the buffer.
LEMMA DeliverPreserves ==
  ASSUME IInv, Deliver
  PROVE  IInv'
<1>1. /\ Looking /\ Found.ret = 0 /\ delivered' = Append(delivered, SubSeq(bb.a, 1, Found.n))
      /\ bb' = DecommitBlock(bb, Found.n) /\ morebyte' = MinFrame
      /\ step' = (IF enable_lbb THEN "end" ELSE "again")
      /\ stream' = stream /\ received' = received /\ lbb' = lbb /\ enable_lbb' = enable_lbb
      /\ lbyte' = lbyte
  BY DEF Deliver
<1>2. PICK k \in 1 .. Len(stream) :
        /\ Handable(k) /\ stream[k].at = Cursor + 1 /\ stream[k].said \in Nat /\ stream[k].said >= 1
        /\ Found.n = stream[k].said /\ stream[k].said <= Len(bb.a)
        /\ enable_lbb => stream[k].said = Len(bb.a)
  BY <1>1, WholeFound
<1>3. /\ ~Filling /\ Stream /\ Handed /\ received \in Nat /\ enable_lbb \in BOOLEAN /\ Buffers
      /\ bb.a \in Seq(Nat) /\ Len(bb.a) \in Nat
  BY <1>1, Looked
<1> DEFINE n == stream[k].said
<1>4. n \in 0 .. Len(bb.a) /\ bb' = DecommitBlock(bb, n) /\ n \in Nat /\ n >= 1
  BY <1>1, <1>2, <1>3
<1>5. enable_lbb => n = Len(bb.a)
  BY <1>2
<1>6. bb.b = <<>>
  BY <1>1, OneBlock
<1>7. Stream' /\ Buffers' /\ Cursor \in Nat /\ Cursor' = Cursor + n /\ Cursor' \in Nat /\ Cursor <= Cursor'
  <2>1. enable_lbb => n = Len(bb.a) /\ step' \in {"again", "end"}
    BY <1>1, <1>5
  <2>2. ~enable_lbb => step' \in {"again", "spin"}
    BY <1>1
  <2> HIDE DEF n
  <2> QED
    BY <1>1, <1>4, <1>6, <2>1, <2>2, Released
<1>8. /\ Bytes(stream[k]) \in Seq(Nat) /\ delivered' = Append(delivered, Bytes(stream[k]))
  <2>1. \A i \in 1 .. Len(bb.a) : bb.a[i] = Cursor + i
    BY <1>3, FrontBytes
  <2>2. SubSeq(bb.a, 1, stream[k].said) = Bytes(stream[k]) /\ Bytes(stream[k]) \in Seq(Nat)
    BY <1>2, <1>3, <1>7, <2>1, WholeBytes
  <2> QED
    BY <1>1, <1>2, <2>2
<1>9. ASSUME NEW j \in 1 .. Len(stream), Good(j), Clear(j), Cursor < stream[j].at, stream[j].at <= Cursor'
      PROVE  j = k /\ End(j) <= Cursor'
  <2>1. stream[k].kind # "wronglen" => n = stream[k].len
    BY <1>3 DEF Stream
  <2>2. /\ stream[k].kind = "wronglen" => stream[k].said < 1 \/ n <= stream[k].said
        /\ stream[k].kind # "wronglen" => n <= stream[k].len
    BY <1>4, <2>1
  <2>3. j = k
    <3>1. stream[j].at <= Cursor + n
      BY <1>7, <1>9
    <3> HIDE DEF n
    <3> QED
      BY <1>2, <1>3, <1>4, <1>7, <1>9, <2>2, <3>1, OnlyTheFront
  <2>4. stream[k].kind # "wronglen"
    BY <1>9, <2>3 DEF Good
  <2>5. End(k) = (Cursor + 1) + n - 1
    BY <1>2, <2>1, <2>4, Zenon DEF End
  <2> QED
    BY <1>4, <1>7, <2>3, <2>5
<1>10. stream[k].said > 0 => stream[k].at <= Cursor'
  BY <1>2, <1>4, <1>7
<1>11. Handed'
  <2> DEFINE b == Bytes(stream[k])
  <2>1. b \in Seq(Nat) /\ b = Bytes(stream[k]) /\ delivered' = Append(delivered, b)
    BY <1>8
  <2> HIDE DEF b
  <2> QED
    BY <1>1, <1>2, <1>3, <1>7, <1>9, <1>10, <2>1, HandedAppends
<1> QED
  BY <1>7, <1>11 DEF IInv

\* How many bytes a frame error takes out of the buffer.
Gone == IF Found.n < 0 THEN Len(bb.a) ELSE Found.n

\* What is dropped holds the beginning of no good frame, or of one that is claimed.
LEMMA DropFound ==
  ASSUME IInv, Looking, Found.ret = -2
  PROVE  /\ Gone \in 0 .. Len(bb.a) /\ (enable_lbb => Gone = Len(bb.a))
         /\ DecommitBlock(bb, Found.n) = DecommitBlock(bb, Gone)
         /\ \A j \in 1 .. Len(stream) :
              Good(j) /\ Clear(j) => ~(Cursor < stream[j].at /\ stream[j].at <= Cursor + Gone)
<1>1. /\ Stream /\ Buffers /\ ~Filling /\ received \in Nat /\ Len(bb.a) \in Nat /\ Len(bb.a) >= MinFrame
  BY Looked
<1>2. Tag \in Nat /\ Tag > 0 /\ MinFrame \in Nat /\ MinFrame > Tag
  BY RecvPathAssumption
<1>3. Cursor \in Nat /\ \A i \in 1 .. Len(bb.a) : bb.a[i] = Cursor + i
  BY <1>1, FrontBytes
<1>4. CASE ~HeadAt(bb.a, 1)
  <2>1. Found.n \in 0 .. Len(bb.a) - Tag /\ \A i \in 1 .. Found.n : ~HeadAt(bb.a, i)
    BY <1>1, <1>4, FoundNoHead
  <2>2. Gone = Found.n
    BY <1>1, <2>1 DEF Gone
  <2>3. ASSUME NEW j \in 1 .. Len(stream), Good(j), Cursor < stream[j].at, stream[j].at <= Cursor + Found.n
        PROVE  FALSE
    <3> DEFINE i == stream[j].at - Cursor
    <3>1. stream[j].at \in Nat
      BY <1>1, Apart
    <3>2. i \in 1 .. Found.n /\ stream[j].at = Cursor + i
      BY <1>3, <2>1, <2>3, <3>1
    <3> HIDE DEF i
    <3>3. ASSUME NEW m \in 0 .. Tag - 1 PROVE bb.a[i + m] = stream[j].at + m
      <4>1. i + m \in 1 .. Len(bb.a)
        BY <1>1, <1>2, <2>1, <3>2
      <4>2. bb.a[i + m] = Cursor + (i + m)
        BY <1>3, <4>1
      <4> QED
        BY <1>2, <1>3, <2>1, <3>2, <4>2
    <3>4. j \in Heads
      BY <2>3 DEF Heads, Good
    <3>5. HeadAt(bb.a, i)
      BY <3>3, <3>4 DEF HeadAt, IsHead
    <3> QED
      BY <2>1, <3>2, <3>5
  <2>4. ~enable_lbb
    BY <1>4, HeadThere
  <2> QED
    BY <1>1, <1>2, <2>1, <2>2, <2>3, <2>4
<1>5. CASE HeadAt(bb.a, 1)
  <2>1. PICK k \in Heads : IsHead(bb.a, 1, k)
    BY <1>5 DEF HeadAt
  <2>2. /\ k \in 1 .. Len(stream) /\ stream[k].at = Cursor + 1 /\ stream[k].len \in Nat
        /\ stream[k].said \in Int /\ End(k) = stream[k].at + stream[k].len - 1
        /\ stream[k].kind # "noise" /\ stream[k].len >= MinFrame
        /\ stream[k].kind # "wronglen" => stream[k].said = stream[k].len
    <3>1. k \in 1 .. Len(stream) /\ stream[k].at = Cursor + 1 /\ stream[k].kind # "noise"
      BY <1>1, <2>1, FoundAtHead, HeadPlace DEF Heads
    <3> QED
      BY <1>1, <3>1, Apart DEF Stream
  <2>3. CASE stream[k].kind = "badlen"
    <3>1. Found.n = Tag /\ Gone = Tag
      BY <1>1, <1>2, <2>1, <2>3, FoundAtHead DEF Gone
    <3>2. ~enable_lbb
      BY <2>1, <2>3, WholeThere
    <3>3. ASSUME NEW j \in 1 .. Len(stream), Good(j), Clear(j), Cursor < stream[j].at, stream[j].at <= Cursor + Tag
          PROVE  FALSE
      <4>1. j = k
        BY <1>1, <1>2, <1>3, <2>2, <2>3, <3>3, OnlyTheFront, SMTT(30)
      <4> QED
        BY <2>3, <3>3, <4>1 DEF Good
    <3> QED
      BY <1>1, <1>2, <3>1, <3>2, <3>3
  <2>4. CASE stream[k].kind # "badlen"
    <3>1. ~(Len(bb.a) < stream[k].said)
      BY <1>1, <2>1, <2>4, FoundAtHead
    <3>2. Found.n = stream[k].said /\ ~(stream[k].said >= Tag /\ TailAt(bb.a, stream[k].said))
      BY <1>1, <2>1, <2>4, <3>1, FoundAtHead
    <3>3. ~Good(k)
      <4> SUFFICES ASSUME Good(k) PROVE FALSE
        OBVIOUS
      <4>1. stream[k].kind # "badtail" /\ stream[k].said = stream[k].len
        BY <2>2 DEF Good
      <4>2. stream[k].said \in 1 .. Len(bb.a) /\ stream[k].said >= Tag
        BY <1>1, <1>2, <2>2, <3>1, <4>1
      <4>3. bb.a[stream[k].said] = Cursor + stream[k].said
        BY <1>3, <4>2, Zenon
      <4>4. Cursor + stream[k].said = stream[k].at + stream[k].len - 1
        BY <1>3, <2>2, <4>1
      <4>5. bb.a[stream[k].said] = stream[k].at + stream[k].len - 1
        BY <4>3, <4>4, Zenon
      <4> QED
        BY <2>1, <3>2, <4>1, <4>2, <4>5, Zenon DEF TailAt
    <3>4. Gone \in 0 .. Len(bb.a) /\ (Gone = stream[k].said \/ stream[k].said < 0)
      BY <1>1, <2>2, <3>1, <3>2 DEF Gone
    <3>5. enable_lbb => Gone = Len(bb.a)
      <4> SUFFICES ASSUME enable_lbb PROVE Gone = Len(bb.a)
        OBVIOUS
      <4>1. stream[k].said = Len(bb.a)
        BY <2>1, WholeThere
      <4> QED
        BY <1>1, <3>2, <4>1 DEF Gone
    <3>6. ASSUME NEW j \in 1 .. Len(stream), Good(j), Clear(j), Cursor < stream[j].at, stream[j].at <= Cursor + Gone
          PROVE  FALSE
      <4>1. /\ stream[k].kind = "wronglen" => stream[k].said < 1 \/ Gone <= stream[k].said
            /\ stream[k].kind # "wronglen" => Gone <= stream[k].len
        BY <1>1, <2>2, <3>4
      <4>2. Gone \in Nat
        BY <1>1, <3>4
      <4>3. j = k
        BY <1>1, <1>3, <2>2, <3>6, <4>1, <4>2, OnlyTheFront
      <4> QED
        BY <3>3, <3>6, <4>3
    <3>7. DecommitBlock(bb, Found.n) = DecommitBlock(bb, Gone)
      <4>1. CASE Found.n < 0
        <5>1. Gone = Len(bb.a) /\ Gone >= Len(bb.a)
          BY <1>1, <4>1 DEF Gone
        <5> QED
          BY <4>1, <5>1, Zenon DEF DecommitBlock
      <4>2. CASE ~(Found.n < 0)
        BY <4>2 DEF Gone
      <4> QED
        BY <4>1, <4>2
    <3> QED
      BY <3>4, <3>5, <3>6, <3>7
  <2> QED
    BY <2>3, <2>4
<1> QED
  BY <1>4, <1>5

\* Bytes dropped: noise before a head, a wrong tag, a frame with a wrong tail or length.
LEMMA DropPreserves ==
  ASSUME IInv, Drop
  PROVE  IInv'
<1>1. /\ Looking /\ Found.ret = -2
      /\ bb' = DecommitBlock(bb, Found.n) /\ morebyte' = MinFrame /\ step' = "again"
      /\ stream' = stream /\ received' = received /\ lbb' = lbb /\ enable_lbb' = enable_lbb
      /\ lbyte' = lbyte /\ delivered' = delivered
  BY DEF Drop
<1>2. /\ Gone \in 0 .. Len(bb.a) /\ (enable_lbb => Gone = Len(bb.a))
      /\ bb' = DecommitBlock(bb, Gone)
      /\ \A j \in 1 .. Len(stream) :
           Good(j) /\ Clear(j) => ~(Cursor < stream[j].at /\ stream[j].at <= Cursor + Gone)
  BY <1>1, DropFound
<1>3. Stream /\ Handed /\ bb.b = <<>>
  BY <1>1, Looked, OneBlock
<1>4. Stream' /\ Buffers' /\ Cursor \in Nat /\ Cursor' = Cursor + Gone /\ Cursor' \in Nat /\ Cursor <= Cursor'
  <2>1. enable_lbb => Gone = Len(bb.a) /\ step' \in {"again", "end"}
    BY <1>1, <1>2
  <2>2. ~enable_lbb => step' \in {"again", "spin"}
    BY <1>1
  <2> QED
    BY <1>1, <1>2, <1>3, <2>1, <2>2, Released
<1>5. Handed'
  <2>1. ASSUME NEW j \in 1 .. Len(stream), Good(j), Clear(j)
        PROVE  ~(Cursor < stream[j].at /\ stream[j].at <= Cursor')
    BY <1>2, <1>4, <2>1
  <2> QED
    BY <1>1, <1>3, <1>4, <2>1, HandedPasses
<1> QED
  BY <1>4, <1>5 DEF IInv

\* A frame that says less than a tag is one with a wrong length, in the ring.
LEMMA ShortFound ==
  ASSUME IInv, InFront
  PROVE  /\ ~enable_lbb
         /\ \E k \in 1 .. Len(stream) :
              /\ stream[k].kind = "wronglen" /\ Handable(k) /\ stream[k].at = Cursor + 1
              /\ stream[k].said \in Int /\ Found.n = stream[k].said
<1>1. Looking /\ Found.ret = -2 /\ HeadAt(bb.a, 1) /\ Found.n < Tag
  BY DEF InFront
<1>2. /\ Stream /\ Buffers /\ ~Filling /\ received \in Nat /\ Len(bb.a) \in Nat /\ Len(bb.a) >= MinFrame
  BY <1>1, Looked
<1>3. Tag \in Nat /\ MinFrame \in Nat /\ MinFrame > Tag
  BY RecvPathAssumption
<1>4. PICK k \in Heads : IsHead(bb.a, 1, k)
  BY <1>1 DEF HeadAt
<1>5. k \in 1 .. Len(stream) /\ stream[k].said \in Int /\ stream[k].at = Cursor + 1 /\ stream[k].kind # "noise"
  BY <1>2, <1>4, FoundAtHead, HeadPlace DEF Heads
<1>6. stream[k].kind # "badlen"
  BY <1>1, <1>2, <1>3, <1>4, FoundAtHead
<1>7. Found.n = stream[k].said
  BY <1>1, <1>2, <1>4, <1>6, FoundAtHead
<1>8. stream[k].kind = "wronglen"
  <2> SUFFICES ASSUME stream[k].kind # "wronglen" PROVE FALSE
    OBVIOUS
  <2>1. stream[k].said = stream[k].len /\ stream[k].len >= MinFrame /\ stream[k].len \in Nat
    BY <1>2, <1>5, Apart DEF Stream
  <2> QED
    BY <1>1, <1>3, <1>7, <2>1
<1>9. ~enable_lbb
  <2> SUFFICES ASSUME enable_lbb PROVE FALSE
    OBVIOUS
  <2>1. stream[k].said = Len(bb.a)
    BY <1>1, <1>4, WholeThere
  <2> QED
    BY <1>1, <1>2, <1>3, <1>7, <2>1
<1> QED
  BY <1>5, <1>7, <1>8, <1>9 DEF Handable

\* A frame that says less than a tag is handed on for a tail in front of it.
LEMMA TailInFrontPreserves ==
  ASSUME IInv, TailInFront
  PROVE  IInv'
<1>1. /\ InFront /\ delivered' = Append(delivered, SubSeq(bb.a, 1, Found.n))
      /\ bb' = DecommitBlock(bb, Found.n) /\ morebyte' = MinFrame
      /\ step' = (IF Found.n = 0 THEN "spin" ELSE "again")
      /\ stream' = stream /\ received' = received /\ lbb' = lbb /\ enable_lbb' = enable_lbb
      /\ lbyte' = lbyte
  BY DEF TailInFront
<1>2. Looking /\ Found.ret = -2
  BY <1>1 DEF InFront
<1>3. /\ Gone \in 0 .. Len(bb.a) /\ (enable_lbb => Gone = Len(bb.a))
      /\ bb' = DecommitBlock(bb, Gone)
      /\ \A j \in 1 .. Len(stream) :
           Good(j) /\ Clear(j) => ~(Cursor < stream[j].at /\ stream[j].at <= Cursor + Gone)
  BY <1>1, <1>2, DropFound
<1>4. /\ Stream /\ Handed /\ bb.b = <<>> /\ bb.a \in Seq(Nat) /\ Len(bb.a) \in Nat
      /\ ~Filling /\ received \in Nat /\ Buffers
  BY <1>2, Looked, OneBlock
<1>5. ~enable_lbb
  BY <1>1, ShortFound
<1>6. PICK k \in 1 .. Len(stream) :
        /\ stream[k].kind = "wronglen" /\ Handable(k) /\ stream[k].at = Cursor + 1
        /\ stream[k].said \in Int /\ Found.n = stream[k].said
  BY <1>1, ShortFound
<1>7. Stream' /\ Buffers' /\ Cursor \in Nat /\ Cursor' = Cursor + Gone /\ Cursor' \in Nat /\ Cursor <= Cursor'
  <2>1. ~enable_lbb => step' \in {"again", "spin"}
    BY <1>1
  <2> QED
    BY <1>1, <1>2, <1>3, <1>4, <1>5, <2>1, Released
<1>8. SubSeq(bb.a, 1, Found.n) = Bytes(stream[k]) /\ Bytes(stream[k]) \in Seq(Nat)
  <2>1. CASE stream[k].said \in Nat
    <3>1. \A i \in 1 .. Len(bb.a) : bb.a[i] = Cursor + i
      BY <1>4, FrontBytes
    <3>2. stream[k].said <= Len(bb.a)
      BY <1>3, <1>4, <1>6, <2>1 DEF Gone
    <3>3. SubSeq(bb.a, 1, stream[k].said) = Bytes(stream[k]) /\ Bytes(stream[k]) \in Seq(Nat)
      BY <1>4, <1>6, <1>7, <2>1, <3>1, <3>2, WholeBytes
    <3> QED
      BY <1>6, <3>3
  <2>2. CASE stream[k].said < 0
    <3>1. 1 .. stream[k].said = {}
      BY <1>6, <2>2
    <3>2. Bytes(stream[k]) = <<>>
      BY <3>1 DEF Bytes
    <3>3. SubSeq(bb.a, 1, stream[k].said) = <<>>
      BY <1>4, <1>6, <2>2
    <3> QED
      BY <1>6, <3>2, <3>3
  <2> QED
    BY <1>6, <2>1, <2>2
<1>9. stream[k].said > 0 => stream[k].at <= Cursor'
  BY <1>3, <1>4, <1>6, <1>7 DEF Gone
<1>10. \A j \in 1 .. Len(stream) :
         Good(j) /\ Clear(j) /\ Cursor < stream[j].at /\ stream[j].at <= Cursor'
           => j = k /\ End(j) <= Cursor'
  BY <1>3, <1>7
<1>11. Handed'
  <2> DEFINE b == Bytes(stream[k])
  <2>1. b \in Seq(Nat) /\ b = Bytes(stream[k]) /\ delivered' = Append(delivered, b)
    BY <1>1, <1>8
  <2> HIDE DEF b
  <2> QED
    BY <1>1, <1>4, <1>6, <1>7, <1>9, <1>10, <2>1, HandedAppends
<1> QED
  BY <1>7, <1>11 DEF IInv

\* The buffers of a process that has ended stay as they were.
LEMMA FaultPreserves ==
  ASSUME IInv, Fault
  PROVE  IInv'
<1>1. /\ InFront /\ step' = "down" /\ stream' = stream /\ received' = received /\ delivered' = delivered
      /\ bb' = bb /\ lbb' = lbb /\ enable_lbb' = enable_lbb /\ lbyte' = lbyte /\ morebyte' = morebyte
  BY DEF Fault, app
<1>2. ~enable_lbb
  BY <1>1, ShortFound
<1>3. Stream /\ Handed /\ Buffers /\ received \in 0 .. Total
  BY DEF IInv, Stream
<1>4. Stream'
  BY <1>1, <1>3, StreamStays
<1>5. RingAlone'
  <2>1. ASSUME NEW more, Waits(more) PROVE Waits(more)'
    BY <1>1, <2>1, WaitsOn
  <2>2. RingAlone /\ Used(bb)' = Used(bb)
    BY <1>1, <1>2, Alone DEF Used
  <2> QED
    BY <1>1, <2>1, <2>2 DEF RingAlone
<1>6. ~Filling' /\ ~Swapped' /\ ~enable_lbb'
  BY <1>1, <1>2 DEF Filling, Swapped
<1>7. Buffers'
  <2>1. RingShape(bb)' /\ RingShape(lbb)' /\ Holds(bb, received)'
    BY <1>1, <1>2, Alone, Zenon DEF RingShape, Holds
  <2> QED
    BY <1>1, <1>3, <1>5, <1>6, <2>1 DEF Buffers
<1>8. Cursor' = Cursor
  BY <1>1, <1>2, <1>6, Alone, Zenon DEF Cursor, Used
<1>9. Handed'
  BY <1>1, <1>2, <1>3, <1>8, Alone, HandedStays
<1> QED
  BY <1>4, <1>7, <1>9 DEF IInv

\* A step that changes nothing.
LEMMA StutterPreserves ==
  ASSUME IInv, UNCHANGED vars
  PROVE  IInv'
<1>1. /\ stream' = stream /\ received' = received /\ bb' = bb /\ lbb' = lbb /\ enable_lbb' = enable_lbb
      /\ lbyte' = lbyte /\ morebyte' = morebyte /\ step' = step /\ delivered' = delivered
  BY DEF vars, app
<1>2. Stream /\ Buffers /\ Handed /\ received \in 0 .. Total
  BY DEF IInv, Stream
<1>3. Stream'
  BY <1>1, <1>2, StreamStays
<1>4. Filling' = Filling /\ Swapped' = Swapped /\ Cursor' = Cursor /\ Used(bb)' = Used(bb)
  BY <1>1 DEF Filling, Swapped, Cursor, Used
<1>6. RingAlone => RingAlone'
  <2>1. ASSUME NEW more, Waits(more) PROVE Waits(more)'
    BY <1>1, <2>1, WaitsOn
  <2> QED
    BY <1>1, <1>4, <2>1 DEF RingAlone
<1>7. LargeFilling => LargeFilling'
  BY <1>1 DEF LargeFilling, Begins, Heads, IsHead
<1>8. LargeThere => LargeThere'
  BY <1>1 DEF LargeThere, Begins, Heads, IsHead
<1>9. Buffers'
  <2>1. RingShape(bb)' = RingShape(bb) /\ RingShape(lbb)' = RingShape(lbb)
    BY <1>1 DEF RingShape
  <2>2. Holds(bb, received)' = Holds(bb, received) /\ Holds(lbb, received)' = Holds(lbb, received)
    BY <1>1, Zenon DEF Holds
  <2> QED
    BY <1>1, <1>2, <1>4, <1>6, <1>7, <1>8, <2>1, <2>2 DEF Buffers
<1>10. Handed'
  BY <1>1, <1>2, <1>4, CursorNat, HandedStays
<1> QED
  BY <1>3, <1>9, <1>10 DEF IInv

-----------------------------------------------------------------------------
(* The theorems                                                            *)

\* Every step of the peer and of epFUI_OnRecv keeps the invariant.
THEOREM NextIInv == IInv /\ [Next]_vars => IInv'
<1> SUFFICES ASSUME IInv, [Next]_vars PROVE IInv'
  OBVIOUS
<1>1. CASE Peer
  <2>1. CASE \E kind \in {"good", "badtail", "badlen"}, len \in Lens : Send(kind, len, len)
    <3>1. PICK kind \in {"good", "badtail", "badlen"}, len \in Lens : Send(kind, len, len)
      BY <2>1
    <3>2. len \in Nat /\ len \in Int /\ len >= 1 /\ len >= MinFrame
      BY RecvPathAssumption
    <3> QED
      BY <3>1, <3>2, SendPreserves
  <2>2. CASE \E p \in Lies : Send("wronglen", p[1], p[2])
    <3>1. PICK p \in Lies : Send("wronglen", p[1], p[2])
      BY <2>2
    <3>2. p[1] \in Nat /\ p[1] >= 1 /\ p[1] >= MinFrame /\ p[2] \in Int
      BY RecvPathAssumption
    <3> QED
      BY <3>1, <3>2, SendPreserves
  <2>3. CASE \E len \in Noise : Send("noise", len, len)
    <3>1. PICK len \in Noise : Send("noise", len, len)
      BY <2>3
    <3>2. len \in Nat /\ len \in Int /\ len >= 1
      BY RecvPathAssumption
    <3> QED
      BY <3>1, <3>2, SendPreserves
  <2> QED
    BY <1>1, <2>1, <2>2, <2>3 DEF Peer
<1>2. CASE epFUI_OnRecv
  BY <1>2, RecvNoRoomPreserves, RecvRingPreserves, RecvLargePreserves, TooFewPreserves, DeliverPreserves, DropPreserves,
     TailInFrontPreserves, FaultPreserves, IncompletePreserves, OnRecvEndPreserves DEF epFUI_OnRecv
<1>3. CASE UNCHANGED vars
  BY <1>3, StutterPreserves
<1> QED
  BY <1>1, <1>2, <1>3 DEF Next

\* The inductive invariant holds of every reachable state.
THEOREM Invariance == Spec => []IInv
BY InitIInv, NextIInv, PTL DEF Spec

\* The variables keep their shapes, and a ring's two blocks lie inside it and
\* apart: bipbuffer's reserve, commit, join and decommit never let them meet.
THEOREM TypeCorrect == Spec => []TypeOK
<1>1. IInv => TypeOK
  <2> SUFFICES ASSUME IInv PROVE TypeOK
    OBVIOUS
  <2>1. received \in 0 .. Total /\ Buffers
    BY DEF IInv, Stream
  <2>2. ASSUME NEW r, RingShape(r)
        PROVE  Positions(r) /\ r.ixa + Len(r.a) <= r.len /\ (r.b # <<>> => Len(r.b) <= r.ixa)
    BY <2>2 DEF RingShape, Positions
  <2> QED
    BY <2>1, <2>2 DEF TypeOK, Buffers
<1> QED
  BY <1>1, Invariance, PTL

\* The two blocks, read one behind the other, are the last bytes received.
LEMMA InOrder ==
  ASSUME NEW a \in Seq(Nat), NEW b \in Seq(Nat), NEW n \in Nat, LastBytes(a, b, n)
  PROVE  /\ Len(a \o b) = Len(a) + Len(b)
         /\ \A i \in 1 .. Len(a \o b) : (a \o b)[i] = n - Len(a \o b) + i
<1>1. Len(a) \in Nat /\ Len(b) \in Nat /\ Len(a \o b) = Len(a) + Len(b)
  BY Joined
<1>2. ASSUME NEW i \in 1 .. Len(a) + Len(b) PROVE (a \o b)[i] = n - (Len(a) + Len(b)) + i
  <2>1. CASE i \in 1 .. Len(a)
    <3>1. (a \o b)[i] = a[i]
      BY <2>1, Joined
    <3>2. a[i] = n - (Len(a) + Len(b)) + i
      BY <2>1 DEF LastBytes
    <3> QED
      BY <3>1, <3>2, Zenon
  <2>2. CASE i \in Len(a) + 1 .. Len(a) + Len(b)
    <3>1. (a \o b)[i] = b[i - Len(a)] /\ i - Len(a) \in 1 .. Len(b)
      BY <1>1, <2>2, Joined
    <3>2. b[i - Len(a)] = n - Len(b) + (i - Len(a))
      BY <3>1 DEF LastBytes
    <3> QED
      BY <1>1, <2>2, <3>1, <3>2
  <2> QED
    BY <1>1, <2>1, <2>2
<1> QED
  BY <1>1, <1>2

\* The bytes waiting, whichever buffer they are in, end with the last received.
LEMMA WaitingIs ==
  ASSUME IInv
  PROVE  /\ Consumed = Cursor
         /\ \A i \in 1 .. Len(Waiting) : Waiting[i] = received - Len(Waiting) + i
<1>1. received \in Nat /\ Buffers
  BY DEF IInv, Stream
<1>2. CASE Filling
  <2>1. /\ RingShape(lbb) /\ Holds(lbb, received) /\ LargeFilling
        /\ lbb \in [len : Nat, ixa : Nat, a : Seq(Nat), b : Seq(Nat)]
    BY <1>2, LargeRoom
  <2>2. bb.a = <<>> /\ bb.b = <<>> /\ lbb.b = <<>>
    BY <2>1 DEF LargeFilling, Ring
  <2>3. lbb.a \in Seq(Nat) /\ <<>> \in Seq(Nat)
    BY <2>1
  <2>4. Waiting = lbb.a \o <<>> \o <<>>
    BY <1>2, <2>2, Zenon DEF Waiting, Filling
  <2>5. Waiting = lbb.a \o <<>>
    BY <2>3, <2>4
  <2>6. LastBytes(lbb.a, <<>>, received)
    BY <2>1, <2>2, Zenon DEF Holds
  <2>7. /\ Len(Waiting) = Len(lbb.a) + Len(<<>>)
        /\ \A i \in 1 .. Len(Waiting) : Waiting[i] = received - Len(Waiting) + i
    BY <1>1, <2>3, <2>5, <2>6, InOrder, Zenon
  <2>8. Consumed = Cursor
    BY <1>2, <2>2, <2>7, Zenon DEF Consumed, Cursor, Used
  <2> QED
    BY <2>7, <2>8
<1>3. CASE ~Filling
  <2>1. /\ RingShape(bb) /\ Holds(bb, received)
    BY <1>1, <1>3 DEF Buffers
  <2>2. bb.a \in Seq(Nat) /\ bb.b \in Seq(Nat)
    BY <2>1 DEF RingShape
  <2>3. Waiting = bb.a \o bb.b
    BY <1>3, Zenon DEF Waiting, Filling
  <2>4. LastBytes(bb.a, bb.b, received)
    BY <2>1, Zenon DEF Holds
  <2>5. /\ Len(Waiting) = Len(bb.a) + Len(bb.b)
        /\ \A i \in 1 .. Len(Waiting) : Waiting[i] = received - Len(Waiting) + i
    BY <1>1, <2>2, <2>3, <2>4, InOrder, Zenon
  <2>6. Consumed = Cursor
    BY <1>3, <2>5, Zenon DEF Consumed, Cursor, Used
  <2> QED
    BY <2>5, <2>6
<1> QED
  BY <1>2, <1>3

\* The buffers lose, repeat and reorder no byte: not when the ring wraps, not
\* when its blocks are joined, not when a large frame moves out and back.
THEOREM OrderKept == Spec => []BytesInOrder
<1>1. IInv => BytesInOrder
  BY WaitingIs DEF BytesInOrder
<1> QED
  BY <1>1, Invariance, PTL

\* However the stream is cut into reads, what is handed to tms_Analyse is frames
\* by their own word of their length, in order and none twice; and a good frame
\* that leaves the buffers has been handed on whole, unless a frame with a wrong
\* length before it claims it or has a length of 0 or less.
THEOREM UnclaimedHandedOn == Spec => []DeliveredInOrder
<1>1. IInv => DeliveredInOrder
  <2> SUFFICES ASSUME IInv PROVE DeliveredInOrder
    OBVIOUS
  <2>1. Handed /\ Consumed = Cursor
    BY WaitingIs DEF IInv
  <2> QED
    BY <2>1 DEF Handed, DeliveredInOrder
<1> QED
  BY <1>1, Invariance, PTL

\* Between calls of epFUI_OnRecv the ring is back in its place.
THEOREM RingPutBack == Spec => []RingBack
<1>1. IInv => RingBack
  <2> SUFFICES ASSUME IInv, step = "event", ~enable_lbb PROVE bb.len = BufLen /\ lbb.len = 0
    BY DEF RingBack
  <2>1. RingAlone
    BY Alone
  <2> QED
    BY <2>1 DEF RingAlone, Ring
<1> QED
  BY <1>1, Invariance, PTL

\* A connection stops reading only on a frame of more than half the ring.
THEOREM OnlyLongSticks == Spec => []StuckOnlyOnLong
<1>1. IInv => StuckOnlyOnLong
  <2> SUFFICES ASSUME IInv, Stuck
               PROVE  \E k \in Heads : IsHead(bb.a, 1, k) /\ 2 * stream[k].said > BufLen
    BY DEF StuckOnlyOnLong
  <2>1. step = "event" /\ ~enable_lbb /\ Reserve(bb, morebyte).n = 0
    BY DEF Stuck, RingFull
  <2>2. /\ RingAlone /\ Stream /\ morebyte \in {FirstRead, MinFrame}
        /\ bb \in [len : Nat, ixa : Nat, a : Seq(Nat), b : Seq(Nat)] /\ bb.len = BufLen
        /\ Len(bb.a) \in Nat /\ Len(bb.b) \in Nat /\ Used(bb) = Len(bb.a) + Len(bb.b)
        /\ (bb.b = <<>> <=> Len(bb.b) = 0)
        /\ bb.ixa + Len(bb.a) <= BufLen /\ Len(bb.b) <= bb.ixa /\ bb.ixa \in Nat
    BY <2>1, Alone
  <2>3. /\ MinFrame \in Nat /\ BufLen \in Nat /\ BufLen >= 3 * MinFrame /\ MinFrame > 0
        /\ morebyte \in Nat /\ morebyte > 0
    BY <2>2, RecvPathAssumption
  <2>4. /\ bb.b = <<>> => bb.ixa = 0 /\ Len(bb.a) = BufLen
        /\ bb.b # <<>> => bb.ixa = Len(bb.b) /\ 2 * bb.ixa + Len(bb.a) > BufLen
    <3>1. CASE bb.b # <<>>
      <4>1. Reserve(bb, morebyte) = [at |-> Len(bb.b), n |-> Least(morebyte, bb.ixa - Len(bb.b))]
        BY <3>1 DEF Reserve
      <4>2. bb.ixa = Len(bb.b)
        BY <2>1, <2>2, <2>3, <4>1 DEF Least
      <4>3. 2 * bb.ixa + Len(bb.a) > BufLen
        BY <2>2, <3>1 DEF RingAlone
      <4> QED
        BY <3>1, <4>2, <4>3
    <3>2. CASE bb.b = <<>> /\ bb.ixa <= bb.len - bb.ixa - Len(bb.a)
      <4>1. Reserve(bb, morebyte) =
              [at |-> bb.ixa + Len(bb.a), n |-> Least(morebyte, bb.len - bb.ixa - Len(bb.a))]
        BY <3>2 DEF Reserve
      <4> QED
        BY <2>1, <2>2, <2>3, <3>2, <4>1 DEF Least
    <3>3. CASE bb.b = <<>> /\ ~(bb.ixa <= bb.len - bb.ixa - Len(bb.a))
      <4>1. Reserve(bb, morebyte) = [at |-> 0, n |-> Least(morebyte, bb.ixa)]
        BY <3>3 DEF Reserve
      <4> QED
        BY <2>1, <2>2, <2>3, <3>3, <4>1 DEF Least
    <3> QED
      BY <3>1, <3>2, <3>3
  <2>5. Waits(Len(bb.b))
    <3>1. \/ Used(bb) < MinFrame
          \/ Waits(Len(bb.b))
          \/ bb.ixa = 0 /\ bb.b = <<>> /\ Len(bb.a) < 2 * MinFrame
      BY <2>1, <2>2 DEF RingAlone
    <3> QED
      BY <2>2, <2>3, <2>4, <3>1
  <2>6. PICK k \in Heads : Begins(bb.a, k) /\ Len(bb.a) + Len(bb.b) < stream[k].said /\ stream[k].said <= BufLen
    BY <2>5 DEF Waits
  <2>7. stream[k].said \in Int
    BY <2>2, <2>6, FoundAtHead DEF Begins
  <2>8. 2 * stream[k].said > BufLen
    BY <2>2, <2>3, <2>4, <2>6, <2>7, SMTT(30)
  <2> QED
    BY <2>6, <2>8 DEF Begins
<1> QED
  BY <1>1, Invariance, PTL
=============================================================================
