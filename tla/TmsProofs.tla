----------------------------- MODULE TmsProofs -----------------------------
(***************************************************************************)
(* For any number of connections, descriptors, application threads and     *)
(* commands: what the command server sends goes to the host it is for,     *)
(* frame after whole frame, in network order, and its acknowledgements     *)
(* name the commands they answer.                                          *)
(***************************************************************************)
EXTENDS TmsServer, FiniteSetTheorems, SequenceTheorems, TLAPS

-----------------------------------------------------------------------------
(* The steps of a thread                                                   *)

PartNames == {"tag", "base", "data", "rest", "tail"}
Whats     == Senders \cup {"ack", "time"}
SendSteps == [do : {"send"}, what : Whats, part : PartNames, whole : BOOLEAN]
OtherSteps == [do : {"lock", "check", "convert", "call", "copy",
                     "InitSocketStruct", "FreeSocketStruct", "ep_DelConNode"}]
Steps == SendSteps \cup OtherSteps

\* After the head of p: pieces of a frame follow each other, up to its tail.
Going(p) ==
  /\ \A i \in 1 .. Len(p) : p[i].do = "send" /\ p[i].part # "tail" =>
       /\ i + 1 \in 1 .. Len(p) /\ p[i + 1].do = "send" /\ p[i + 1].part \in After[p[i].part]
  /\ \A i \in 2 .. Len(p) : p[i].do = "send" /\ p[i].part # "tag" =>
       p[i - 1].do = "send" /\ p[i - 1].part # "tail"

\* p begins a frame with its tag.
Begins(p) == p # <<>> /\ p[1].do = "send" => p[1].part = "tag"

\* The order of the loop's steps over one command.
Place == [tag |-> 1, base |-> 2, data |-> 3, rest |-> 3, tail |-> 4]
Rank(s) ==
  IF s.do = "send" THEN IF s.what = "ack" THEN Place[s.part] ELSE 6 + Place[s.part]
  ELSE IF s.do = "convert" THEN 5 ELSE IF s.do = "call" THEN 6 ELSE IF s.do = "copy" THEN 11
  ELSE IF s.do = "ep_DelConNode" THEN 13 ELSE 12
Rising(p) == \A i, j \in 1 .. Len(p) : i < j => Rank(p[i]) < Rank(p[j])

Has(p, what) == \E i \in 1 .. Len(p) : p[i].do = what
AckDue(p)    == \E i \in 1 .. Len(p) : p[i].do = "send" /\ p[i].what = "ack" /\ p[i].part = "data"

\* What the loop and the application threads may have before them.
LoopSteps(p) == \A i \in 1 .. Len(p) :
  p[i].do \notin {"lock", "check"} /\ (p[i].do = "send" => p[i].whole /\ p[i].what \in {"ack", "time"} /\ p[i].part # "rest")
AppSteps(p) == \A i \in 1 .. Len(p) :
  p[i].do \in {"lock", "check", "send"} /\ (p[i].do = "send" => p[i].what \in Senders)

-----------------------------------------------------------------------------
(* The inductive invariant                                                 *)

PieceData == [cmd : Nat \X Nat, order : {"net", "host"}, said : Nat, held : Nat]
Pieces == [part : PartNames, what : Whats, to : Conns \cup {0}, data : PieceData \cup {<<>>}]

StepsOK ==
  /\ prog \in [Threads -> Seq(Steps)]
  /\ wire \in [Conns -> [Threads -> Seq(Pieces)]]
  /\ asked \in [Conns -> Seq(Nat \X Nat)]
  /\ nodes \in Seq(Conns)
  /\ setting \in Settings
  /\ \A t \in Threads : Going(prog[t])
  /\ Rising(prog[Loop]) /\ LoopSteps(prog[Loop])
  /\ \A t \in Apps : AppSteps(prog[t])

\* A connection not accepted yet has not been sent anything, and an open one
\* was accepted.
Untouched ==
  /\ \A f \in Fds : desc[f] # 0 => peer[desc[f]] # "none"
  /\ \A c \in Conns : peer[c] = "none" => asked[c] = <<>> /\ \A t \in Threads : wire[c][t] = <<>>

\* A context of an open connection has its descriptor; the loop's descriptor
\* stands for no other connection while the loop is busy.
Contexts ==
  /\ \A t \in Threads : ctx[t].to # 0 =>
       peer[ctx[t].to] # "none" /\ (Open(ctx[t].to) => On(ctx[t].fd) = ctx[t].to)
  /\ ~Idle(Loop) => ctx[Loop].to # 0 /\ On(ctx[Loop].fd) \in {0, ctx[Loop].to}

Strangers ==
  \A c \in Conns : \A t \in Threads : \A i \in 1 .. Len(wire[c][t]) : LET p == wire[c][t][i] IN
    p.to # c => t # Loop /\ (p.to = 0 \/ (~Open(p.to) /\ peer[p.to] # "none"))

\* The parts that may come next from t for the host of c.
Expects(sent, c, part) ==
  \/ part = "tag" /\ \A j \in 1 .. Len(sent) : sent[j].to # c
  \/ \E j \in 1 .. Len(sent) : /\ sent[j].to = c /\ \A k \in j + 1 .. Len(sent) : sent[k].to # c
                               /\ part \in After[sent[j].part]
\* The part t sends next if c's host is the one it sends for.
Wanted(t, c) ==
  IF ctx[t].to = c /\ prog[t] # <<>> /\ prog[t][1].do = "send" THEN prog[t][1].part ELSE "tag"
InFrame == \A c \in Conns, t \in Threads : Open(c) => Expects(wire[c][t], c, Wanted(t, c))

\* WholeFrames, of one sequence of pieces.
Whole(sent, c) == \A i \in 1 .. Len(sent) : sent[i].to = c =>
  \/ sent[i].part = "tag" /\ \A j \in 1 .. i - 1 : sent[j].to # c
  \/ \E j \in 1 .. i - 1 : /\ sent[j].to = c /\ \A k \in j + 1 .. i - 1 : sent[k].to # c
                         /\ sent[i].part \in After[sent[j].part]
AllWhole == \A c \in Conns, t \in Threads : Whole(wire[c][t], c)

\* What the frame's data are like at the steps the loop has left.
Treated ==
  /\ rcv.cmd \in Nat \X Nat /\ rcv.head \in {"net", "host"} /\ rcv.data.ok
  /\ AckDue(prog[Loop]) \/ Has(prog[Loop], "copy") => rcv.head = "net"
  /\ Has(prog[Loop], "convert") => rcv.data = Payload(Parts(NameOf(rcv.cmd)), "net")
  /\ Has(prog[Loop], "call") /\ ~Has(prog[Loop], "convert") => Range(rcv.data.order) \subseteq {"host"}

Orders ==
  /\ seen \subseteq {"host"} /\ pgb = "host"
  /\ \A c \in Conns, t \in Threads : \A i \in 1 .. Len(wire[c][t]) : LET p == wire[c][t][i] IN
       p.part \in {"data", "rest"} =>
         p.data \in PieceData /\ p.data.order = "net" /\ (p.data.said = p.data.held \/ p.data.said > 8)

\* The acknowledgements on c name the commands asked for; the loop may owe one.
AnsweredOn(c) ==
  /\ \A i \in Acks(c) : /\ Nth(c, i) \in DOMAIN asked[c] /\ wire[c][Loop][i].data.cmd = asked[c][Nth(c, i)]
                        /\ wire[c][Loop][i].data.order = "net"
  /\ Open(c) => IF AckDue(prog[Loop]) /\ ctx[Loop].to = c
                THEN Len(asked[c]) = Cardinality(Acks(c)) + 1 /\ asked[c][Len(asked[c])] = rcv.cmd
                ELSE Len(asked[c]) = Cardinality(Acks(c))
Answered == \A c \in Conns : AnsweredOn(c)

TmsInv ==
  TypeOK /\ StepsOK /\ Untouched /\ Contexts /\ Strangers /\ InFrame /\ AllWhole /\ Treated /\ Orders
  /\ Answered

-----------------------------------------------------------------------------
(* The programs of the loop and of the application threads                  *)

\* A program of whole frames; for the loop, its steps' ranks rise within R.
Framed(p) == p \in Seq(Steps) /\ Going(p) /\ Begins(p)
Made(p, R) ==
  /\ Framed(p) /\ Rising(p) /\ LoopSteps(p)
  /\ \A i \in 1 .. Len(p) : Rank(p[i]) \in R
Els(p) == {p[i] : i \in 1 .. Len(p)}
Both(p, q) == p \o q

LEMMA BothParts ==
  ASSUME NEW p \in Seq(Steps), NEW q \in Seq(Steps)
  PROVE  /\ Both(p, q) \in Seq(Steps) /\ Len(Both(p, q)) = Len(p) + Len(q)
         /\ \A i \in 1 .. Len(p) : Both(p, q)[i] = p[i]
         /\ \A i \in 1 .. Len(q) : Both(p, q)[Len(p) + i] = q[i]
         /\ Len(p) \in Nat /\ Len(q) \in Nat
<1>1. Len(p) \in Nat /\ Len(q) \in Nat
  OBVIOUS
<1>2. /\ p \o q \in Seq(Steps) /\ Len(p \o q) = Len(p) + Len(q)
      /\ \A i \in 1 .. Len(p) + Len(q) : (p \o q)[i] = IF i <= Len(p) THEN p[i] ELSE q[i - Len(p)]
  BY ConcatProperties
<1>3. \A i \in 1 .. Len(p) : (p \o q)[i] = p[i]
  BY <1>1, <1>2
<1>4. ASSUME NEW i \in 1 .. Len(q) PROVE (p \o q)[Len(p) + i] = q[i]
  <2>1. Len(p) + i \in 1 .. Len(p) + Len(q) /\ ~(Len(p) + i <= Len(p)) /\ (Len(p) + i) - Len(p) = i
    BY <1>1
  <2> QED
    BY <1>2, <2>1
<1> QED
  BY <1>1, <1>2, <1>3, <1>4 DEF Both

LEMMA BothFramed ==
  ASSUME NEW p, NEW q, Framed(p), Framed(q)
  PROVE  LET b == Both(p, q) IN
         /\ Framed(b)
         /\ \A i \in 1 .. Len(b) : \/ i \in 1 .. Len(p) /\ b[i] = p[i]
                                   \/ i - Len(p) \in 1 .. Len(q) /\ b[i] = q[i - Len(p)]
<1> DEFINE b == Both(p, q)
           m == Len(p)
           n == Len(q)
<1>1. p \in Seq(Steps) /\ q \in Seq(Steps)
  BY DEF Framed
<1>2. /\ b \in Seq(Steps) /\ Len(b) = m + n /\ m \in Nat /\ n \in Nat
      /\ \A i \in 1 .. m : b[i] = p[i]
      /\ \A i \in 1 .. n : b[m + i] = q[i]
  BY <1>1, BothParts
<1> HIDE DEF b, m, n
<1>3. ASSUME NEW i \in 1 .. Len(b)
      PROVE  \/ i \in 1 .. m /\ b[i] = p[i]
             \/ i - m \in 1 .. n /\ b[i] = q[i - m]
  <2>1. i \in 1 .. m \/ (i - m \in 1 .. n /\ m + (i - m) = i)
    BY <1>2
  <2> QED
    BY <1>2, <2>1
<1>5. Going(b)
  <2>1. ASSUME NEW i \in 1 .. Len(b), b[i].do = "send", b[i].part # "tail"
        PROVE  i + 1 \in 1 .. Len(b) /\ b[i + 1].do = "send" /\ b[i + 1].part \in After[b[i].part]
    <3>1. CASE i \in 1 .. m /\ b[i] = p[i]
      <4>1. i + 1 \in 1 .. m /\ p[i + 1].do = "send" /\ p[i + 1].part \in After[p[i].part]
        BY <2>1, <3>1 DEF Framed, Going, m
      <4> QED
        BY <1>2, <3>1, <4>1
    <3>2. CASE i - m \in 1 .. n /\ b[i] = q[i - m]
      <4>1. (i - m) + 1 \in 1 .. n /\ q[(i - m) + 1].do = "send" /\ q[(i - m) + 1].part \in After[q[i - m].part]
        BY <2>1, <3>2 DEF Framed, Going, n
      <4>2. m + ((i - m) + 1) = i + 1 /\ i + 1 \in 1 .. Len(b)
        BY <1>2, <4>1
      <4> QED
        BY <1>2, <3>2, <4>1, <4>2
    <3> QED
      BY <1>3, <3>1, <3>2
  <2>2. ASSUME NEW i \in 2 .. Len(b), b[i].do = "send", b[i].part # "tag"
        PROVE  b[i - 1].do = "send" /\ b[i - 1].part # "tail"
    <3>1. CASE i \in 1 .. m /\ b[i] = p[i]
      <4>1. i \in 2 .. m /\ i - 1 \in 1 .. m
        BY <1>2, <3>1
      <4>2. p[i - 1].do = "send" /\ p[i - 1].part # "tail"
        BY <2>2, <3>1, <4>1 DEF Framed, Going, m
      <4> QED
        BY <1>2, <4>1, <4>2
    <3>2. CASE i - m \in 1 .. n /\ b[i] = q[i - m]
      <4>1. i - m # 1
        BY <2>2, <3>2 DEF Framed, Begins, n
      <4>2. i - m \in 2 .. n /\ (i - m) - 1 \in 1 .. n /\ m + ((i - m) - 1) = i - 1
        BY <1>2, <3>2, <4>1
      <4>3. q[(i - m) - 1].do = "send" /\ q[(i - m) - 1].part # "tail"
        BY <2>2, <3>2, <4>2 DEF Framed, Going, n
      <4> QED
        BY <1>2, <4>2, <4>3
    <3> QED
      BY <1>2, <1>3, <3>1, <3>2
  <2> QED
    BY <2>1, <2>2 DEF Going
<1>6. Begins(b)
  <2>1. SUFFICES ASSUME b # <<>>, b[1].do = "send" PROVE b[1].part = "tag"
    BY DEF Begins
  <2>2. 1 \in 1 .. Len(b)
    BY <1>2, <2>1
  <2>3. CASE 1 \in 1 .. m /\ b[1] = p[1]
    BY <2>1, <2>3 DEF Framed, Begins, m
  <2>4. CASE 1 - m \in 1 .. n /\ b[1] = q[1 - m]
    <3>1. m = 0 /\ 1 - m = 1 /\ n # 0
      BY <1>2, <2>4
    <3> QED
      BY <2>1, <2>4, <3>1 DEF Framed, Begins, n
  <2> QED
    BY <1>3, <2>2, <2>3, <2>4
<1>7. Framed(b)
  BY <1>2, <1>5, <1>6 DEF Framed
<1>8. \A i \in 1 .. Len(b) : \/ i \in 1 .. m /\ b[i] = p[i]
                             \/ i - m \in 1 .. n /\ b[i] = q[i - m]
  BY <1>3
<1> USE DEF b, m, n
<1> QED
  BY <1>7, <1>8, Zenon

LEMMA BothMade ==
  ASSUME NEW p, NEW q, NEW R \in SUBSET Nat, NEW Q \in SUBSET Nat, Made(p, R), Made(q, Q), \A x \in R, y \in Q : x < y
  PROVE  Made(Both(p, q), R \cup Q) /\ Els(Both(p, q)) = Els(p) \cup Els(q)
<1> DEFINE b == Both(p, q)
           m == Len(p)
           n == Len(q)
<1>1. p \in Seq(Steps) /\ q \in Seq(Steps)
  BY DEF Made, Framed
<1>2. /\ b \in Seq(Steps) /\ Len(b) = m + n /\ m \in Nat /\ n \in Nat
      /\ \A i \in 1 .. m : b[i] = p[i]
      /\ \A i \in 1 .. n : b[m + i] = q[i]
  BY <1>1, BothParts
<1> HIDE DEF b, m, n
<1>3. ASSUME NEW i \in 1 .. Len(b)
      PROVE  (i \in 1 .. m /\ b[i] = p[i]) \/ (i - m \in 1 .. n /\ b[i] = q[i - m])
  <2>1. i \in 1 .. m \/ (i - m \in 1 .. n /\ m + (i - m) = i)
    BY <1>2
  <2> QED
    BY <1>2, <2>1
<1>4. Els(b) = Els(p) \cup Els(q)
  <2>1. \A i \in 1 .. m : i \in 1 .. Len(b)
    BY <1>2
  <2>2. \A i \in 1 .. n : m + i \in 1 .. Len(b)
    BY <1>2
  <2>3. Els(b) \subseteq Els(p) \cup Els(q)
    BY <1>3 DEF Els, m, n
  <2>4. Els(p) \subseteq Els(b)
    BY <1>2, <2>1 DEF Els, m
  <2>5. Els(q) \subseteq Els(b)
    BY <1>2, <2>2 DEF Els, n
  <2> QED
    BY <2>3, <2>4, <2>5
<1>5. Framed(b)
  BY BothFramed DEF Made, b
<1>7. Rising(b) /\ \A i \in 1 .. Len(b) : Rank(b[i]) \in R \cup Q
  <2>1. \A i \in 1 .. m : Rank(p[i]) \in R
    BY DEF Made, m
  <2>2. \A i \in 1 .. n : Rank(q[i]) \in Q
    BY DEF Made, n
  <2>3. ASSUME NEW i \in 1 .. Len(b), NEW j \in 1 .. Len(b), i < j PROVE Rank(b[i]) < Rank(b[j])
    <3>1. CASE i \in 1 .. m /\ b[i] = p[i] /\ j \in 1 .. m /\ b[j] = p[j]
      BY <2>3, <3>1 DEF Made, Rising, m
    <3>2. CASE i \in 1 .. m /\ b[i] = p[i] /\ j - m \in 1 .. n /\ b[j] = q[j - m]
      BY <2>1, <2>2, <3>2
    <3>3. CASE i - m \in 1 .. n /\ b[i] = q[i - m] /\ j - m \in 1 .. n /\ b[j] = q[j - m]
      <4>1. i - m < j - m
        BY <1>2, <2>3
      <4> QED
        BY <3>3, <4>1 DEF Made, Rising, n
    <3>4. ~(i - m \in 1 .. n /\ j \in 1 .. m)
      BY <1>2, <2>3
    <3> QED
      BY <1>3, <3>1, <3>2, <3>3, <3>4
  <2>4. \A i \in 1 .. Len(b) : Rank(b[i]) \in R \cup Q
    BY <1>3, <2>1, <2>2
  <2> QED
    BY <2>3, <2>4 DEF Rising
<1>8. LoopSteps(b)
  BY <1>3 DEF Made, LoopSteps, m, n
<1>9. Made(b, R \cup Q)
  BY <1>5, <1>7, <1>8 DEF Made
<1> QED
  BY <1>4, <1>9 DEF b

LEMMA NothingMade == Made(<<>>, {}) /\ Els(<<>>) = {}
<1>1. <<>> \in Seq(Steps) /\ Len(<<>>) = 0
  OBVIOUS
<1>2. 1 .. 0 = {} /\ 2 .. 0 = {}
  OBVIOUS
<1> QED
  BY <1>1, <1>2 DEF Made, Framed, Going, Begins, Rising, LoopSteps, Els

LEMMA StepMade ==
  ASSUME NEW what \in {"convert", "call", "copy", "InitSocketStruct", "FreeSocketStruct", "ep_DelConNode"}
  PROVE  Made(<<Do(what)>>, {Rank(Do(what))}) /\ Els(<<Do(what)>>) = {Do(what)}
<1> DEFINE p == <<Do(what)>>
<1>1. Do(what) \in Steps /\ Do(what).do = what
  BY DEF Do, Steps, OtherSteps
<1>2. p \in Seq(Steps) /\ Len(p) = 1 /\ p[1] = Do(what) /\ p[1].do # "send" /\ p[1].do \notin {"lock", "check"}
  BY <1>1
<1> HIDE DEF p
<1>3. \A i \in 1 .. Len(p) : i = 1 /\ i \notin 2 .. Len(p)
  BY <1>2
<1>4. \A i, j \in 1 .. Len(p) : ~(i < j)
  BY <1>2
<1>5. Made(p, {Rank(Do(what))})
  BY <1>2, <1>3, <1>4 DEF Made, Framed, Going, Begins, Rising, LoopSteps
<1>6. Els(p) = {Do(what)}
  BY <1>2, <1>3 DEF Els
<1> QED
  BY <1>5, <1>6 DEF p

LEMMA FrameSent ==
  ASSUME NEW what \in Whats
  PROVE  LET p == glink_Send(what) IN
         /\ Framed(p) /\ Len(p) = 4 /\ p[3] = Piece(what, "data", TRUE)
         /\ p[1].part = "tag" /\ p[2].part = "base" /\ p[3].part = "data" /\ p[4].part = "tail"
         /\ \A i \in 1 .. Len(p) : i \in {1, 2, 3, 4} /\ p[i].do = "send" /\ p[i].what = what /\ p[i].whole
<1> DEFINE p == glink_Send(what)
<1>1. \A x \in PartNames : /\ Piece(what, x, TRUE) \in Steps /\ Piece(what, x, TRUE).do = "send"
                          /\ Piece(what, x, TRUE).what = what /\ Piece(what, x, TRUE).part = x
                          /\ Piece(what, x, TRUE).whole
  BY DEF Piece, Steps, SendSteps, Whats
<1> DEFINE s1 == Piece(what, "tag", TRUE)
           s2 == Piece(what, "base", TRUE)
           s3 == Piece(what, "data", TRUE)
           s4 == Piece(what, "tail", TRUE)
<1>a. {"tag", "base", "data", "tail"} \subseteq PartNames
  BY DEF PartNames
<1>b. s1 \in Steps /\ s2 \in Steps /\ s3 \in Steps /\ s4 \in Steps
  BY <1>1, <1>a
<1>c. /\ s1.part = "tag" /\ s2.part = "base" /\ s3.part = "data" /\ s4.part = "tail"
      /\ \A s \in {s1, s2, s3, s4} : s.do = "send" /\ s.what = what /\ s.whole
  <2>1. \A s \in {s1, s2, s3, s4} : \E x \in PartNames : s = Piece(what, x, TRUE)
    BY <1>a
  <2>2. ASSUME NEW s \in {s1, s2, s3, s4} PROVE s.do = "send" /\ s.what = what /\ s.whole
    <3>1. PICK x \in PartNames : s = Piece(what, x, TRUE)
      BY <2>1
    <3> QED
      BY <1>1, <3>1, Zenon
  <2> QED
    BY <1>1, <1>a, <2>2
<1>d. p = <<s1, s2, s3, s4>>
  BY DEF glink_Send
<1> HIDE DEF s1, s2, s3, s4, p
<1>2. p \in Seq(Steps) /\ Len(p) = 4 /\ p[1] = s1 /\ p[2] = s2 /\ p[3] = s3 /\ p[4] = s4
  BY <1>b, <1>d
<1>3. \A i \in 1 .. Len(p) : i \in {1, 2, 3, 4} /\ p[i].do = "send" /\ p[i].what = what /\ p[i].whole
  <2>1. \A i \in 1 .. Len(p) : i \in {1, 2, 3, 4}
    BY <1>2
  <2> QED
    BY <1>2, <1>c, <2>1
<1>e. p[1].part = "tag" /\ p[2].part = "base" /\ p[3].part = "data" /\ p[4].part = "tail"
  BY <1>2, <1>c
<1>4. Going(p) /\ Begins(p)
  <2>1. "base" \in After["tag"] /\ "data" \in After["base"] /\ "tail" \in After["data"]
    BY DEF After
  <2>2. \A i \in 1 .. Len(p) : i # 4 => i + 1 \in 1 .. Len(p)
    BY <1>2
  <2>3. \A i \in 2 .. Len(p) : i - 1 \in {1, 2, 3} /\ i - 1 \in 1 .. Len(p)
    BY <1>2
  <2>4. ASSUME NEW i \in 1 .. Len(p), p[i].part # "tail"
        PROVE  i + 1 \in 1 .. Len(p) /\ p[i + 1].part \in After[p[i].part]
    <3>1. i \in {1, 2, 3}
      BY <1>3, <1>e, <2>4
    <3>2. p[i + 1].part \in After[p[i].part]
      BY <1>e, <2>1, <3>1
    <3> QED
      BY <2>2, <3>1, <3>2
  <2>5. ASSUME NEW i \in 2 .. Len(p) PROVE p[i - 1].do = "send" /\ p[i - 1].part # "tail"
    <3>1. p[i - 1].part # "tail"
      BY <1>e, <2>3
    <3> QED
      BY <1>3, <2>3, <3>1
  <2>6. Going(p)
    BY <1>3, <2>4, <2>5 DEF Going
  <2>7. Begins(p)
    BY <1>e DEF Begins
  <2> QED
    BY <2>6, <2>7
<1> QED
  BY <1>2, <1>3, <1>e, <1>4 DEF Framed, p, s3

LEMMA FrameMade ==
  ASSUME NEW what \in {"ack", "time"}
  PROVE  /\ Made(glink_Send(what), IF what = "ack" THEN 1 .. 4 ELSE 7 .. 10)
         /\ Piece(what, "data", TRUE) \in Els(glink_Send(what))
         /\ \A s \in Els(glink_Send(what)) : s.do = "send" /\ s.what = what
<1> DEFINE p == glink_Send(what)
<1>1. /\ Framed(p) /\ Len(p) = 4 /\ p[3] = Piece(what, "data", TRUE)
      /\ p[1].part = "tag" /\ p[2].part = "base" /\ p[3].part = "data" /\ p[4].part = "tail"
      /\ \A i \in 1 .. Len(p) : i \in {1, 2, 3, 4} /\ p[i].do = "send" /\ p[i].what = what /\ p[i].whole
  BY FrameSent DEF Whats
<1> HIDE DEF p
<1>2. Len(p) = 4
  BY <1>1
<1>3. \A i \in 1 .. Len(p) : i \in {1, 2, 3, 4} /\ p[i].do = "send" /\ p[i].what = what /\ p[i].whole
  BY <1>1
<1>e. p[1].part = "tag" /\ p[2].part = "base" /\ p[3].part = "data" /\ p[4].part = "tail"
  BY <1>1
<1>4. LoopSteps(p)
  <2>1. \A i \in 1 .. Len(p) : p[i].part # "rest"
    BY <1>3, <1>e
  <2> QED
    BY <1>3, <2>1 DEF LoopSteps
<1>5. \A i \in 1 .. Len(p) : Rank(p[i]) = IF what = "ack" THEN i ELSE 6 + i
  <2>1. ASSUME NEW i \in 1 .. Len(p) PROVE Place[p[i].part] = i
    BY <1>3, <1>e DEF Place
  <2> QED
    BY <1>3, <2>1 DEF Rank
<1>6. Rising(p) /\ \A i \in 1 .. Len(p) : Rank(p[i]) \in IF what = "ack" THEN 1 .. 4 ELSE 7 .. 10
  <2>1. CASE what = "ack"
    BY <1>2, <1>5, <2>1 DEF Rising
  <2>2. CASE what = "time"
    BY <1>2, <1>5, <2>2 DEF Rising
  <2> QED
    BY <2>1, <2>2
<1>7. Piece(what, "data", TRUE) \in Els(p) /\ \A s \in Els(p) : s.do = "send" /\ s.what = what
  <2>1. p[3] \in Els(p)
    BY <1>2 DEF Els
  <2> QED
    BY <1>1, <1>3, <2>1 DEF Els
<1> QED
  BY <1>1, <1>4, <1>6, <1>7 DEF Made, p

\* What tms_Analyse makes the loop do about a command.
LEMMA Analysed ==
  ASSUME NEW d, NEW cmd, NEW fits \in BOOLEAN
  PROVE  LET p == tms_Analyse(d, cmd, fits)
             name == NameOf(cmd)
         IN  /\ Made(p, 1 .. 11)
             /\ Has(p, "call") => name \in Called /\ (Parts(name) # <<>> => Has(p, "convert"))
             /\ (\E i \in 1 .. Len(p) : p[i].do = "send" /\ p[i].what = "ack") <=> AckDue(p)
<1> DEFINE name == NameOf(cmd)
           A == Maybe(name \in Acked, tms_DbgAckSuccess)
           V == Maybe(Parts(name) # <<>> /\ (fits \/ name # "FiberSectionCfg"), <<Do("convert")>>)
           C == Maybe(name \in Called, Callback(name))
           H == Both(Both(A, V), C)
           what == d[cmd[1]][cmd[2] + 1]
           X == Maybe(what \in 0 .. 5 \cup {9}, H)
           Y == Maybe(what \in {0, 4, 5, 9}, <<Do("copy")>>)
<1>1. tms_Analyse(d, cmd, fits) = IF ~Known(cmd) THEN <<>> ELSE Both(X, Y)
  BY DEF tms_Analyse, Handler, Both
<1>2. Made(A, 1 .. 4) /\ (A = glink_Send("ack") \/ (A = <<>> /\ Els(A) = {}))
  <2>1. Made(<<>>, 1 .. 4) /\ Els(<<>>) = {}
    BY NothingMade DEF Made
  <2> QED
    BY <2>1, FrameMade DEF Maybe, tms_DbgAckSuccess
<1>3. Made(V, {5}) /\ Els(V) \subseteq {Do("convert")}
      /\ (Parts(name) # <<>> /\ name # "FiberSectionCfg" => Do("convert") \in Els(V))
  <2>1. Made(<<>>, {5}) /\ Els(<<>>) = {}
    BY NothingMade DEF Made
  <2>2. Rank(Do("convert")) = 5
    BY DEF Rank, Do
  <2> QED
    BY <2>1, <2>2, StepMade DEF Maybe
<1>4. Made(C, 6 .. 10) /\ (\A s \in Els(C) : s.do = "call" \/ (s.do = "send" /\ s.what = "time"))
      /\ (name \notin Called => Els(C) = {})
  <2>1. Made(<<>>, 6 .. 10) /\ Els(<<>>) = {}
    BY NothingMade DEF Made
  <2>2. Rank(Do("call")) = 6 /\ Do("call").do = "call"
    BY DEF Rank, Do
  <2>3. Made(<<Do("call")>>, {6}) /\ Els(<<Do("call")>>) = {Do("call")}
    BY <2>2, StepMade
  <2> DEFINE T == Maybe(name = "GetNodeTime", glink_Send("time"))
  <2>4. Made(T, 7 .. 10) /\ \A s \in Els(T) : s.do = "send" /\ s.what = "time"
    <3>1. Made(<<>>, 7 .. 10) /\ Els(<<>>) = {}
      BY NothingMade DEF Made
    <3>2. Made(glink_Send("time"), 7 .. 10) /\ \A s \in Els(glink_Send("time")) : s.do = "send" /\ s.what = "time"
      BY FrameMade
    <3> QED
      BY <3>1, <3>2 DEF Maybe
  <2> HIDE DEF T
  <2>5. \A x \in {6}, y \in 7 .. 10 : x < y
    OBVIOUS
  <2>6. {6} \in SUBSET Nat /\ 7 .. 10 \in SUBSET Nat /\ {6} \cup (7 .. 10) = 6 .. 10
    OBVIOUS
  <2>7. Made(Both(<<Do("call")>>, T), {6} \cup (7 .. 10)) /\ Els(Both(<<Do("call")>>, T)) = {Do("call")} \cup Els(T)
    BY <2>3, <2>4, <2>5, <2>6, BothMade
  <2>8. Callback(name) = Both(<<Do("call")>>, T)
    BY DEF Callback, Both, T
  <2>9. Made(Callback(name), 6 .. 10) /\ \A s \in Els(Callback(name)) : s.do = "call" \/ (s.do = "send" /\ s.what = "time")
    BY <2>2, <2>4, <2>6, <2>7, <2>8
  <2> QED
    BY <2>1, <2>9 DEF Maybe
<1>5. Made(Y, {11}) /\ Els(Y) \subseteq {Do("copy")}
  <2>1. Made(<<>>, {11}) /\ Els(<<>>) = {}
    BY NothingMade DEF Made
  <2>2. Rank(Do("copy")) = 11
    BY DEF Rank, Do
  <2> QED
    BY <2>1, <2>2, StepMade DEF Maybe
<1> HIDE DEF A, V, C, Y
<1>6. Made(Both(A, V), 1 .. 5) /\ Els(Both(A, V)) = Els(A) \cup Els(V)
  <2>1. 1 .. 4 \in SUBSET Nat /\ {5} \in SUBSET Nat /\ (1 .. 4) \cup {5} = 1 .. 5 /\ \A x \in 1 .. 4, y \in {5} : x < y
    OBVIOUS
  <2>2. Made(Both(A, V), (1 .. 4) \cup {5}) /\ Els(Both(A, V)) = Els(A) \cup Els(V)
    BY <1>2, <1>3, <2>1, BothMade
  <2> QED
    BY <2>1, <2>2
<1>7. Made(H, 1 .. 10) /\ Els(H) = Els(A) \cup Els(V) \cup Els(C)
  <2>1. 1 .. 5 \in SUBSET Nat /\ 6 .. 10 \in SUBSET Nat /\ (1 .. 5) \cup (6 .. 10) = 1 .. 10 /\ \A x \in 1 .. 5, y \in 6 .. 10 : x < y
    OBVIOUS
  <2>2. Made(H, (1 .. 5) \cup (6 .. 10)) /\ Els(H) = Els(Both(A, V)) \cup Els(C)
    BY <1>4, <1>6, <2>1, BothMade
  <2> QED
    BY <1>6, <2>1, <2>2
<1> HIDE DEF H
<1>8. Made(X, 1 .. 10) /\ (Els(X) = {} \/ Els(X) = Els(A) \cup Els(V) \cup Els(C))
  <2>1. Made(<<>>, 1 .. 10) /\ Els(<<>>) = {}
    BY NothingMade DEF Made
  <2> QED
    BY <1>7, <2>1 DEF Maybe
<1> HIDE DEF X
<1>9. Made(Both(X, Y), 1 .. 11) /\ Els(Both(X, Y)) = Els(X) \cup Els(Y)
  <2>1. 1 .. 10 \in SUBSET Nat /\ {11} \in SUBSET Nat /\ (1 .. 10) \cup {11} = 1 .. 11 /\ \A x \in 1 .. 10, y \in {11} : x < y
    OBVIOUS
  <2>2. Made(Both(X, Y), (1 .. 10) \cup {11}) /\ Els(Both(X, Y)) = Els(X) \cup Els(Y)
    BY <1>5, <1>8, <2>1, BothMade
  <2> QED
    BY <2>1, <2>2
<1> DEFINE p == tms_Analyse(d, cmd, fits)
<1>10. Made(p, 1 .. 11) /\ (Els(p) = {} \/ Els(p) = Els(Y) \/ Els(p) = Els(A) \cup Els(V) \cup Els(C) \cup Els(Y))
  <2>1. Made(<<>>, 1 .. 11) /\ Els(<<>>) = {}
    BY NothingMade DEF Made
  <2> QED
    BY <1>1, <1>8, <1>9, <2>1
<1> HIDE DEF p
<1>11. \A s \in Els(Y) \cup Els(V) : s.do \in {"convert", "copy"}
  BY <1>3, <1>5 DEF Do
<1>12. \A s \in Els(A) : s.do = "send" /\ s.what = "ack"
  BY <1>2, FrameMade
<1>13. Els(A) # {} => Piece("ack", "data", TRUE) \in Els(A)
  BY <1>2, FrameMade
<1>14. ASSUME Has(p, "call") PROVE name \in Called /\ (Parts(name) # <<>> => Has(p, "convert"))
  <2>1. PICK s \in Els(p) : s.do = "call"
    BY <1>14 DEF Has, Els
  <2>2. s \in Els(C) /\ Els(p) = Els(A) \cup Els(V) \cup Els(C) \cup Els(Y)
    BY <1>10, <1>11, <1>12, <2>1
  <2>3. name \in Called
    BY <1>4, <2>2
  <2>4. name # "FiberSectionCfg"
    BY <2>3 DEF Called
  <2>5. ASSUME Parts(name) # <<>> PROVE Has(p, "convert")
    <3>1. Do("convert") \in Els(p) /\ Do("convert").do = "convert"
      BY <1>3, <2>2, <2>4, <2>5 DEF Do
    <3> QED
      BY <3>1 DEF Has, Els
  <2> QED
    BY <2>3, <2>5
<1>15. (\E i \in 1 .. Len(p) : p[i].do = "send" /\ p[i].what = "ack") <=> AckDue(p)
  <2>1. ASSUME NEW i \in 1 .. Len(p), p[i].do = "send", p[i].what = "ack" PROVE AckDue(p)
    <3>1. p[i] \in Els(p)
      BY <2>1 DEF Els
    <3>2. p[i] \in Els(A) /\ Els(p) = Els(A) \cup Els(V) \cup Els(C) \cup Els(Y)
      BY <1>4, <1>10, <1>11, <2>1, <3>1
    <3>3. Piece("ack", "data", TRUE) \in Els(p)
      BY <1>13, <3>2
    <3>4. PICK j \in 1 .. Len(p) : p[j] = Piece("ack", "data", TRUE)
      BY <3>3 DEF Els
    <3> QED
      BY <3>4 DEF AckDue, Piece
  <2> QED
    BY <2>1 DEF AckDue
<1> QED
  BY <1>10, <1>14, <1>15 DEF p

-----------------------------------------------------------------------------
(* Sequences                                                               *)

\* A set of naturals has a least element, which stands in for induction.
LEMMA Smallest ==
  ASSUME NEW S, S \subseteq Nat, S # {}
  PROVE  \E i \in S : \A j \in S : i <= j
<1>1. \E i \in S : \A j \in S : ~(<<j, i>> \in OpToRel(<, Nat))
  BY NatLessThanWellFounded, WFMin
<1>2. \A i, j \in S : <<j, i>> \in OpToRel(<, Nat) <=> j < i
  BY DEF OpToRel
<1>3. \E i \in S : \A j \in S : ~(j < i)
  BY <1>1, <1>2, Zenon
<1> QED
  BY <1>3

\* q is what is left of p after its first steps.
Rest(q, p, k) == /\ q \in Seq(Steps) /\ k \in 1 .. Len(p) /\ Len(q) = Len(p) - k
                 /\ \A i \in 1 .. Len(q) : k + i \in 1 .. Len(p) /\ q[i] = p[k + i]

LEMMA TailIsRest ==
  ASSUME NEW p \in Seq(Steps), p # <<>>
  PROVE  Rest(Tail(p), p, 1)
<1>1. Len(p) \in Nat /\ Len(p) # 0
  OBVIOUS
<1>2. Tail(p) \in Seq(Steps) /\ Len(Tail(p)) = Len(p) - 1 /\ \A i \in 1 .. Len(Tail(p)) : Tail(p)[i] = p[1 + i]
  OBVIOUS
<1> QED
  BY <1>1, <1>2 DEF Rest

LEMMA PartIsRest ==
  ASSUME NEW p \in Seq(Steps), NEW k \in 1 .. Len(p)
  PROVE  Rest(SubSeq(p, 1 + k, Len(p)), p, k)
<1>1. Len(p) \in Nat
  OBVIOUS
<1> DEFINE q == SubSeq(p, 1 + k, Len(p))
<1>2. q \in Seq(Steps) /\ Len(q) = Len(p) - k /\ \A i \in 1 .. Len(q) : q[i] = p[k + i]
  BY <1>1
<1>3. \A i \in 1 .. Len(q) : k + i \in 1 .. Len(p)
  BY <1>1, <1>2
<1> QED
  BY <1>2, <1>3 DEF Rest

LEMMA RestKeeps ==
  ASSUME NEW p \in Seq(Steps), NEW q, NEW k, Rest(q, p, k), Going(p)
  PROVE  /\ Going(q)
         /\ Rising(p) => Rising(q)
         /\ LoopSteps(p) => LoopSteps(q)
         /\ AppSteps(p) => AppSteps(q)
<1>1. Len(p) \in Nat /\ Len(q) \in Nat /\ k \in 1 .. Len(p) /\ Len(q) = Len(p) - k
  BY DEF Rest
<1>2. \A i \in 1 .. Len(q) : k + i \in 1 .. Len(p) /\ q[i] = p[k + i]
  BY DEF Rest
<1>3. ASSUME NEW i \in 1 .. Len(q), q[i].do = "send", q[i].part # "tail"
      PROVE  i + 1 \in 1 .. Len(q) /\ q[i + 1].do = "send" /\ q[i + 1].part \in After[q[i].part]
  <2>1. (k + i) + 1 \in 1 .. Len(p) /\ p[(k + i) + 1].do = "send" /\ p[(k + i) + 1].part \in After[p[k + i].part]
    BY <1>2, <1>3 DEF Going
  <2>2. i + 1 \in 1 .. Len(q) /\ (k + i) + 1 = k + (i + 1)
    BY <1>1, <2>1
  <2> QED
    BY <1>2, <2>1, <2>2
<1>4. ASSUME NEW i \in 2 .. Len(q), q[i].do = "send", q[i].part # "tag"
      PROVE  q[i - 1].do = "send" /\ q[i - 1].part # "tail"
  <2>1. i \in 1 .. Len(q) /\ i - 1 \in 1 .. Len(q) /\ k + i \in 2 .. Len(p) /\ (k + i) - 1 = k + (i - 1)
    BY <1>1, <1>2
  <2>2. p[(k + i) - 1].do = "send" /\ p[(k + i) - 1].part # "tail"
    BY <1>2, <1>4, <2>1 DEF Going
  <2> QED
    BY <1>2, <2>1, <2>2
<1>5. Going(q)
  BY <1>3, <1>4 DEF Going
<1>6. ASSUME Rising(p) PROVE Rising(q)
  <2>1. ASSUME NEW i \in 1 .. Len(q), NEW j \in 1 .. Len(q), i < j PROVE Rank(q[i]) < Rank(q[j])
    <3>1. k + i < k + j
      BY <1>1, <2>1
    <3> QED
      BY <1>2, <1>6, <3>1 DEF Rising
  <2> QED
    BY <2>1 DEF Rising
<1>7. LoopSteps(p) => LoopSteps(q)
  BY <1>2 DEF LoopSteps
<1>8. AppSteps(p) => AppSteps(q)
  BY <1>2 DEF AppSteps
<1> QED
  BY <1>5, <1>6, <1>7, <1>8

\* Where the head is no send, or a tail, a frame begins next.
LEMMA RestBegins ==
  ASSUME NEW p \in Seq(Steps), NEW q, NEW k, Rest(q, p, k), Going(p),
         p[k].do # "send" \/ p[k].part = "tail"
  PROVE  Begins(q)
<1>1. SUFFICES ASSUME q # <<>>, q[1].do = "send", q[1].part # "tag" PROVE FALSE
  BY DEF Begins
<1>2. 1 \in 1 .. Len(q) /\ k \in Nat /\ Len(p) \in Nat
  BY <1>1 DEF Rest
<1>3. k + 1 \in 2 .. Len(p) /\ q[1] = p[k + 1] /\ (k + 1) - 1 = k
  BY <1>2 DEF Rest
<1> QED
  BY <1>1, <1>3 DEF Going

\* Where the head is a piece before the tail, the next piece of its frame does.
LEMMA RestFollows ==
  ASSUME NEW p \in Seq(Steps), NEW q, Rest(q, p, 1), Going(p), p[1].do = "send", p[1].part # "tail"
  PROVE  q # <<>> /\ q[1].do = "send" /\ q[1].part \in After[p[1].part]
<1>1. Len(p) \in Nat /\ 1 \in 1 .. Len(p) /\ Len(q) = Len(p) - 1 /\ Len(q) \in Nat
  BY DEF Rest
<1>2. 1 + 1 \in 1 .. Len(p) /\ p[1 + 1].do = "send" /\ p[1 + 1].part \in After[p[1].part]
  BY <1>1 DEF Going
<1>3. 1 \in 1 .. Len(q) /\ q[1] = p[1 + 1]
  BY <1>1, <1>2 DEF Rest
<1> QED
  BY <1>2, <1>3

\* A glink_Send whose piece has failed skips sends only.
LEMMA FailedIsRest ==
  ASSUME NEW p \in Seq(Steps), p # <<>>, p[1].do = "send", Going(p)
  PROVE  \E k \in 1 .. Len(p) : /\ Rest(Failed(p), p, k)
                                /\ p[1].whole => \A j \in 1 .. k : p[j].do = "send"
<1>1. Len(p) \in Nat /\ Len(p) # 0 /\ 1 \in 1 .. Len(p) /\ Head(p) = p[1]
  OBVIOUS
<1>2. CASE p[1].whole
  <2> DEFINE T == {i \in 1 .. Len(p) : p[i].do = "send" /\ p[i].part = "tail"}
  <2>1. Failed(p) = SubSeq(p, 1 + (IF T # {} THEN Min(T) ELSE 0), Len(p))
    BY <1>1, <1>2 DEF Failed, SelectInSeq
  <2>2. T # {}
    <3>1. SUFFICES ASSUME T = {} PROVE FALSE
      OBVIOUS
    <3> DEFINE N == {i \in 1 .. Len(p) : p[i].do # "send"}
    <3>2. CASE N = {}
      <4>1. Len(p) \in 1 .. Len(p) /\ p[Len(p)].do = "send" /\ p[Len(p)].part # "tail"
        BY <1>1, <3>1, <3>2
      <4>2. Len(p) + 1 \in 1 .. Len(p)
        BY <4>1 DEF Going
      <4> QED
        BY <1>1, <4>2
    <3>3. CASE N # {}
      <4>a. N \subseteq Nat
        BY <1>1
      <4>b. \E m \in N : \A j \in N : m <= j
        <5> HIDE DEF N
        <5> QED
          BY <3>3, <4>a, Smallest
      <4>1. PICK m \in N : \A j \in N : m <= j
        BY <4>b
      <4>2. m # 1
        BY <4>1
      <4>3. m - 1 \in 1 .. Len(p) /\ m - 1 \notin N /\ (m - 1) + 1 = m
        BY <1>1, <4>1, <4>2
      <4>4. p[m - 1].do = "send" /\ p[m - 1].part # "tail"
        BY <3>1, <4>3
      <4> QED
        BY <4>1, <4>3, <4>4 DEF Going
    <3> QED
      BY <3>2, <3>3
  <2>a. T \subseteq Nat
    BY <1>1
  <2>b. \E k \in T : \A j \in T : k <= j
    <3> HIDE DEF T
    <3> QED
      BY <2>2, <2>a, Smallest
  <2>3. PICK k \in T : \A j \in T : k <= j
    BY <2>b
  <2>4. Min(T) \in T /\ \A j \in T : Min(T) <= j
    BY <2>3 DEF Min
  <2>5. PICK m \in 1 .. Len(p) : m = Min(T) /\ Failed(p) = SubSeq(p, 1 + m, Len(p))
    BY <2>1, <2>2, <2>4
  <2>6. Rest(Failed(p), p, m)
    BY <2>5, PartIsRest
  <2>7. ASSUME NEW h \in 1 .. m, p[h].do # "send" PROVE FALSE
    <3> DEFINE N == {i \in 1 .. m : p[i].do # "send"}
    <3>a. N \subseteq Nat /\ N # {}
      BY <1>1, <2>7
    <3>b. \E n \in N : \A j \in N : n <= j
      <4> HIDE DEF N
      <4> QED
        BY <3>a, Smallest
    <3>1. PICK n \in N : \A j \in N : n <= j
      BY <3>b
    <3>2. n - 1 \in 1 .. m /\ n - 1 \notin N /\ (n - 1) + 1 = n
      BY <1>1, <3>1
    <3>3. n - 1 \in 1 .. Len(p) /\ p[n - 1].do = "send" /\ n - 1 < m
      BY <1>1, <3>1, <3>2
    <3>4. p[n - 1].part # "tail"
      <4>1. SUFFICES ASSUME p[n - 1].part = "tail" PROVE FALSE
        OBVIOUS
      <4>2. n - 1 \in T
        BY <3>3, <4>1
      <4>3. m <= n - 1
        BY <2>4, <2>5, <4>2
      <4> QED
        BY <1>1, <3>1, <3>3, <4>3
    <3> QED
      BY <3>1, <3>2, <3>3, <3>4 DEF Going
  <2> QED
    BY <2>6, <2>7
<1>3. CASE ~p[1].whole /\ p[1].part = "tag"
  <2>1. 2 \in 1 .. Len(p)
    <3>1. 1 + 1 \in 1 .. Len(p)
      BY <1>1, <1>3 DEF Going
    <3> QED
      BY <3>1
  <2>2. Failed(p) = Tail(Tail(p))
    BY <1>1, <1>3 DEF Failed
  <2>3. /\ Tail(Tail(p)) \in Seq(Steps) /\ Len(Tail(Tail(p))) = Len(p) - 2
        /\ \A i \in 1 .. Len(Tail(Tail(p))) : Tail(Tail(p))[i] = p[2 + i]
    <3>1. PICK q \in Seq(Steps) : q = Tail(p) /\ Len(q) = Len(p) - 1 /\ \A i \in 1 .. Len(q) : q[i] = p[1 + i]
      BY TailIsRest DEF Rest
    <3>2. Len(q) \in Nat /\ q # <<>>
      <4>1. Len(q) >= 1
        BY <1>1, <2>1, <3>1
      <4> QED
        BY <4>1
    <3>3. /\ Tail(q) \in Seq(Steps) /\ Len(Tail(q)) = Len(q) - 1
          /\ \A i \in 1 .. Len(Tail(q)) : 1 + i \in 1 .. Len(q) /\ Tail(q)[i] = q[1 + i]
      BY <3>2, TailIsRest DEF Rest
    <3>4. \A i \in 1 .. Len(Tail(q)) : 1 + (1 + i) = 2 + i
      BY <3>2, <3>3
    <3> QED
      BY <1>1, <3>1, <3>3, <3>4
  <2>4. Rest(Failed(p), p, 2)
    BY <1>1, <2>1, <2>2, <2>3 DEF Rest
  <2> QED
    BY <1>3, <2>1, <2>4
<1>4. CASE ~p[1].whole /\ p[1].part # "tag"
  <2>1. Failed(p) = Tail(p)
    BY <1>1, <1>4 DEF Failed
  <2> QED
    BY <1>1, <1>4, <2>1, TailIsRest
<1> QED
  BY <1>2, <1>3, <1>4

\* A list without one of its elements.
LEMMA OneRemoved ==
  ASSUME NEW S, NEW s \in Seq(S), NEW e \in Range(s), IsInjective(s)
  PROVE  /\ RemoveFirst(s, e) \in Seq(S) /\ IsInjective(RemoveFirst(s, e))
         /\ Range(RemoveFirst(s, e)) = Range(s) \ {e}
<1>1. Len(s) \in Nat /\ DOMAIN s = 1 .. Len(s)
  OBVIOUS
<1>2. PICK n \in 1 .. Len(s) : s[n] = e
  BY <1>1 DEF Range
<1> DEFINE I == {i \in 1 .. Len(s) : s[i] = e}
<1>3. I = {n}
  BY <1>1, <1>2 DEF IsInjective
<1>4. Min(I) = n
  BY <1>1, <1>3 DEF Min
<1>5. RemoveFirst(s, e) = RemoveAt(s, IF I # {} THEN Min(I) ELSE 0)
  BY <1>2 DEF RemoveFirst, SelectInSeq
<1> DEFINE a == SubSeq(s, 1, n - 1)
           b == SubSeq(s, n + 1, Len(s))
           r == a \o b
<1>6. RemoveFirst(s, e) = r
  BY <1>3, <1>4, <1>5 DEF RemoveAt
<1>7. a \in Seq(S) /\ Len(a) = n - 1 /\ \A i \in 1 .. n - 1 : a[i] = s[i]
  BY <1>1
<1>8. b \in Seq(S) /\ Len(b) = Len(s) - n /\ \A i \in 1 .. Len(s) - n : b[i] = s[n + i]
  <2>1. n + 1 \in 1 .. Len(s) + 1 /\ Len(s) \in 0 .. Len(s)
    BY <1>1
  <2>2. /\ b \in Seq(S) /\ Len(b) = IF n + 1 <= Len(s) THEN Len(s) - (n + 1) + 1 ELSE 0
        /\ \A i \in 1 .. Len(s) - (n + 1) + 1 : b[i] = s[(n + 1) + i - 1]
    BY <1>1, <2>1, SubSeqProperties
  <2> HIDE DEF b
  <2>3. Len(s) - (n + 1) + 1 = Len(s) - n /\ (IF n + 1 <= Len(s) THEN Len(s) - (n + 1) + 1 ELSE 0) = Len(s) - n
    <3>1. PICK m \in Nat : m = Len(s) /\ n \in 1 .. m
      BY <1>1
    <3>2. m - (n + 1) + 1 = m - n /\ (n + 1 > m => n = m)
      BY <3>1
    <3>3. CASE n + 1 <= m
      BY <3>1, <3>2, <3>3
    <3>4. CASE n + 1 > m
      <4>1. ~(n + 1 <= m) /\ m - n = 0
        BY <3>1, <3>2, <3>4
      <4> QED
        BY <3>1, <3>2, <4>1
    <3> QED
      BY <3>1, <3>3, <3>4
  <2>4. \A i \in 1 .. Len(s) - n : (n + 1) + i - 1 = n + i
    BY <1>1
  <2> QED
    BY <2>2, <2>3, <2>4
<1>9. /\ r \in Seq(S) /\ Len(r) = Len(s) - 1
      /\ \A i \in 1 .. Len(s) - 1 : r[i] = IF i <= n - 1 THEN a[i] ELSE b[i - (n - 1)]
  <2> HIDE DEF a, b
  <2>1. /\ r \in Seq(S) /\ Len(r) = Len(a) + Len(b)
        /\ \A i \in 1 .. Len(a) + Len(b) : r[i] = IF i <= Len(a) THEN a[i] ELSE b[i - Len(a)]
    BY <1>7, <1>8, ConcatProperties
  <2>2. Len(a) + Len(b) = Len(s) - 1
    BY <1>1, <1>7, <1>8
  <2> QED
    BY <1>7, <2>1, <2>2
<1> HIDE DEF a, b, r
<1>10. \A i \in 1 .. Len(s) - 1 : /\ i < n => i \in 1 .. Len(s) /\ r[i] = s[i]
                                  /\ i >= n => i + 1 \in 1 .. Len(s) /\ r[i] = s[i + 1]
  <2>1. ASSUME NEW i \in 1 .. Len(s) - 1, i < n PROVE i \in 1 .. Len(s) /\ r[i] = s[i]
    BY <1>1, <1>7, <1>9, <2>1
  <2>2. ASSUME NEW i \in 1 .. Len(s) - 1, i >= n PROVE i + 1 \in 1 .. Len(s) /\ r[i] = s[i + 1]
    <3>1. i - (n - 1) \in 1 .. Len(s) - n /\ n + (i - (n - 1)) = i + 1 /\ ~(i <= n - 1)
      BY <1>1, <2>2
    <3> QED
      BY <1>1, <1>8, <1>9, <3>1
  <2> QED
    BY <2>1, <2>2
<1>11. DOMAIN r = 1 .. Len(s) - 1
  BY <1>1, <1>9
<1>12. Range(r) = Range(s) \ {e}
  <2>1. ASSUME NEW i \in 1 .. Len(s) - 1 PROVE r[i] \in Range(s) /\ r[i] # e
    <3>1. CASE i < n
      BY <1>1, <1>2, <1>10, <3>1 DEF IsInjective, Range
    <3>2. CASE i >= n
      BY <1>1, <1>2, <1>10, <3>2 DEF IsInjective, Range
    <3> QED
      BY <1>1, <3>1, <3>2
  <2>2. ASSUME NEW i \in 1 .. Len(s), s[i] # e PROVE s[i] \in Range(r)
    <3>1. i # n
      BY <1>2, <2>2
    <3>2. CASE i < n
      <4>1. i \in 1 .. Len(s) - 1 /\ r[i] = s[i]
        BY <1>1, <1>10, <3>2
      <4> QED
        BY <1>11, <4>1 DEF Range
    <3>3. CASE i > n
      <4>1. i - 1 \in 1 .. Len(s) - 1 /\ i - 1 >= n /\ (i - 1) + 1 = i
        BY <1>1, <3>3
      <4>2. r[i - 1] = s[i]
        BY <1>10, <4>1
      <4> QED
        BY <1>11, <4>1, <4>2 DEF Range
    <3> QED
      BY <1>1, <3>1, <3>2, <3>3
  <2> QED
    BY <1>1, <1>11, <2>1, <2>2 DEF Range
<1>13. IsInjective(r)
  <2>1. ASSUME NEW i \in 1 .. Len(s) - 1, NEW j \in 1 .. Len(s) - 1, r[i] = r[j] PROVE i = j
    <3>1. CASE i < n /\ j < n
      BY <1>1, <1>10, <2>1, <3>1 DEF IsInjective
    <3>2. CASE i < n /\ j >= n
      BY <1>1, <1>10, <2>1, <3>2 DEF IsInjective
    <3>3. CASE i >= n /\ j < n
      BY <1>1, <1>10, <2>1, <3>3 DEF IsInjective
    <3>4. CASE i >= n /\ j >= n
      <4>1. i + 1 = j + 1
        BY <1>1, <1>10, <2>1, <3>4 DEF IsInjective
      <4> QED
        BY <1>1, <4>1
    <3> QED
      BY <1>1, <3>1, <3>2, <3>3, <3>4
  <2> QED
    BY <1>11, <2>1 DEF IsInjective
<1> QED
  BY <1>6, <1>9, <1>12, <1>13

LEMMA OneAppended ==
  ASSUME NEW S, NEW s \in Seq(S), NEW e \in S, e \notin Range(s), IsInjective(s)
  PROVE  /\ Append(s, e) \in Seq(S) /\ IsInjective(Append(s, e))
         /\ Range(Append(s, e)) = Range(s) \cup {e}
<1> DEFINE r == Append(s, e)
           n == Len(s) + 1
<1>1. /\ r \in Seq(S) /\ DOMAIN s = 1 .. Len(s) /\ DOMAIN r = 1 .. n /\ Len(s) \in Nat
      /\ r[n] = e /\ \A i \in 1 .. Len(s) : r[i] = s[i]
  OBVIOUS
<1> HIDE DEF r
<1>2. \A i \in 1 .. n : i = n \/ i \in 1 .. Len(s)
  BY <1>1
<1>3. \A i \in 1 .. Len(s) : i \in 1 .. n /\ s[i] # e
  BY <1>1 DEF Range
<1>4. n \in 1 .. n
  BY <1>1
<1> HIDE DEF n
<1>5. Range(r) = Range(s) \cup {e}
  BY <1>1, <1>2, <1>3, <1>4 DEF Range
<1>6. IsInjective(r)
  BY <1>1, <1>2, <1>3 DEF IsInjective
<1> QED
  BY <1>1, <1>5, <1>6 DEF r

-----------------------------------------------------------------------------
(* The pieces sent                                                         *)

\* One more piece, for the host of c or for another.
LEMMA OneMore ==
  ASSUME NEW sent \in Seq(Pieces), NEW x \in Pieces
  PROVE  LET more == Append(sent, x) IN
         /\ more \in Seq(Pieces) /\ Len(more) = Len(sent) + 1 /\ more[Len(sent) + 1] = x
         /\ \A i \in 1 .. Len(sent) : more[i] = sent[i]
         /\ \A i \in 1 .. Len(more) : i \in 1 .. Len(sent) \/ (i = Len(sent) + 1 /\ more[i] = x)
<1>1. Len(sent) \in Nat
  OBVIOUS
<1>2. /\ Append(sent, x) \in Seq(Pieces) /\ Len(Append(sent, x)) = Len(sent) + 1
      /\ Append(sent, x)[Len(sent) + 1] = x /\ \A i \in 1 .. Len(sent) : Append(sent, x)[i] = sent[i]
  OBVIOUS
<1> QED
  BY <1>1, <1>2

LEMMA ForOthers ==
  ASSUME NEW sent \in Seq(Pieces), NEW x \in Pieces, NEW c, NEW part, x.to # c
  PROVE  /\ Expects(sent, c, part) => Expects(Append(sent, x), c, part)
         /\ Whole(sent, c) => Whole(Append(sent, x), c)
<1> DEFINE more == Append(sent, x)
           n == Len(sent)
<1>1. /\ n \in Nat /\ Len(more) = n + 1 /\ more[n + 1] = x
      /\ \A i \in 1 .. n : more[i] = sent[i]
      /\ \A i \in 1 .. Len(more) : i \in 1 .. n \/ (i = n + 1 /\ more[i] = x)
  BY OneMore
<1> HIDE DEF more, n
<1>2. ASSUME Expects(sent, c, part) PROVE Expects(more, c, part)
  <2>1. CASE part = "tag" /\ \A j \in 1 .. n : sent[j].to # c
    <3>1. \A j \in 1 .. Len(more) : more[j].to # c
      BY <1>1, <2>1
    <3> QED
      BY <2>1, <3>1 DEF Expects
  <2>2. CASE ~(part = "tag" /\ \A j \in 1 .. n : sent[j].to # c)
    <3>1. PICK j \in 1 .. n : /\ sent[j].to = c /\ \A k \in j + 1 .. n : sent[k].to # c
                              /\ part \in After[sent[j].part]
      BY <1>2, <2>2 DEF Expects, n
    <3>2. j \in 1 .. Len(more) /\ more[j] = sent[j]
      BY <1>1
    <3>3. ASSUME NEW k \in j + 1 .. Len(more) PROVE more[k].to # c
      <4>1. k \in 1 .. Len(more) /\ (k \in 1 .. n => k \in j + 1 .. n)
        BY <1>1, <3>2
      <4> QED
        BY <1>1, <3>1, <4>1
    <3> QED
      BY <3>1, <3>2, <3>3 DEF Expects
  <2> QED
    BY <2>1, <2>2
<1>3. ASSUME Whole(sent, c) PROVE Whole(more, c)
  <2>1. SUFFICES ASSUME NEW i \in 1 .. Len(more), more[i].to = c
                 PROVE  \/ more[i].part = "tag" /\ \A j \in 1 .. i - 1 : more[j].to # c
                        \/ \E j \in 1 .. i - 1 : /\ more[j].to = c /\ \A k \in j + 1 .. i - 1 : more[k].to # c
                                                 /\ more[i].part \in After[more[j].part]
    BY DEF Whole
  <2>2. i \in 1 .. n /\ more[i] = sent[i]
    BY <1>1, <2>1
  <2>3. \A j \in 1 .. i - 1 : j \in 1 .. n /\ more[j] = sent[j]
    BY <1>1, <2>2
  <2>4. \A j \in 1 .. i - 1 : \A k \in j + 1 .. i - 1 : k \in 1 .. i - 1
    BY <2>2
  <2>5. \/ sent[i].part = "tag" /\ \A j \in 1 .. i - 1 : sent[j].to # c
        \/ \E j \in 1 .. i - 1 : /\ sent[j].to = c /\ \A k \in j + 1 .. i - 1 : sent[k].to # c
                                 /\ sent[i].part \in After[sent[j].part]
    BY <1>3, <2>1, <2>2 DEF Whole, n
  <2> QED
    BY <2>2, <2>3, <2>4, <2>5
<1> QED
  BY <1>2, <1>3 DEF more

LEMMA ForThisOne ==
  ASSUME NEW sent \in Seq(Pieces), NEW x \in Pieces, NEW c, x.to = c
  PROVE  /\ \A part \in After[x.part] : Expects(Append(sent, x), c, part)
         /\ Whole(sent, c) /\ Expects(sent, c, x.part) => Whole(Append(sent, x), c)
<1> DEFINE more == Append(sent, x)
           n == Len(sent)
<1>1. /\ n \in Nat /\ Len(more) = n + 1 /\ more[n + 1] = x
      /\ \A i \in 1 .. n : more[i] = sent[i]
      /\ \A i \in 1 .. Len(more) : i \in 1 .. n \/ (i = n + 1 /\ more[i] = x)
  BY OneMore
<1> HIDE DEF more, n
<1>2. ASSUME NEW part \in After[x.part] PROVE Expects(more, c, part)
  <2>1. n + 1 \in 1 .. Len(more) /\ more[n + 1].to = c /\ part \in After[more[n + 1].part]
    BY <1>1
  <2>2. \A k \in n + 1 + 1 .. Len(more) : more[k].to # c
    BY <1>1
  <2> QED
    BY <2>1, <2>2 DEF Expects
<1>3. ASSUME Whole(sent, c), Expects(sent, c, x.part) PROVE Whole(more, c)
  <2>1. SUFFICES ASSUME NEW i \in 1 .. Len(more), more[i].to = c
                 PROVE  \/ more[i].part = "tag" /\ \A j \in 1 .. i - 1 : more[j].to # c
                        \/ \E j \in 1 .. i - 1 : /\ more[j].to = c /\ \A k \in j + 1 .. i - 1 : more[k].to # c
                                                 /\ more[i].part \in After[more[j].part]
    BY DEF Whole
  <2>2. \A j \in 1 .. i - 1 : j \in 1 .. n /\ more[j] = sent[j]
    BY <1>1
  <2>3. \A j \in 1 .. i - 1 : \A k \in j + 1 .. i - 1 : k \in 1 .. i - 1
    BY <1>1
  <2>4. CASE i \in 1 .. n
    <3>1. \/ sent[i].part = "tag" /\ \A j \in 1 .. i - 1 : sent[j].to # c
          \/ \E j \in 1 .. i - 1 : /\ sent[j].to = c /\ \A k \in j + 1 .. i - 1 : sent[k].to # c
                                   /\ sent[i].part \in After[sent[j].part]
      BY <1>1, <1>3, <2>1, <2>4 DEF Whole, n
    <3> QED
      BY <1>1, <2>2, <2>3, <2>4, <3>1
  <2>5. CASE i = n + 1
    <3>1. i - 1 = n /\ more[i] = x
      BY <1>1, <2>5
    <3>2. \/ x.part = "tag" /\ \A j \in 1 .. n : sent[j].to # c
          \/ \E j \in 1 .. n : /\ sent[j].to = c /\ \A k \in j + 1 .. n : sent[k].to # c
                               /\ x.part \in After[sent[j].part]
      BY <1>3 DEF Expects, n
    <3> QED
      BY <2>2, <2>3, <3>1, <3>2
  <2> QED
    BY <1>1, <2>4, <2>5
<1> QED
  BY <1>2, <1>3 DEF more

LEMMA NothingSent ==
  ASSUME NEW c PROVE Expects(<<>>, c, "tag") /\ Whole(<<>>, c)
<1>1. Len(<<>>) = 0 /\ 1 .. 0 = {}
  OBVIOUS
<1> QED
  BY <1>1 DEF Expects, Whole

-----------------------------------------------------------------------------
(* The tables, the senders and the conversion                              *)

LEMMA FunctionIsSeq ==
  ASSUME NEW S, NEW n \in Nat, NEW f \in [1 .. n -> S]
  PROVE  f \in Seq(S) /\ Len(f) = n
<1>1. f \in Seq(S)
  BY SeqDef
<1> QED
  BY <1>1

LEMMA TableLengths == \A h \in {2, 6, 8} : Len(Table[h]) \in Nat /\ DOMAIN Table[h] = 1 .. Len(Table[h])
<1> DEFINE a == <<"GetBasicInfo", "GetNodeTime", "RetNodeTime", "NameAndAddress", "FiberSectionCfg",
                  "ConfigPipeState", "GetCycleTestCuv", "GetStatusData", "StatusData", "CRCCheckout">>
           b == <<"CheckoutResult", "OTDRBasicInfo", "ConfigNodeTime", "CurAlarm", "GetOTDRData",
                  "GetOTDRData", "RetOTDRData", "RetOTDRData", "RetOTDRData", "RetOTDRData">>
           c == <<"GetStandardCurv", "Unuse">>
           A == {"GetBasicInfo", "GetNodeTime", "RetNodeTime", "NameAndAddress", "FiberSectionCfg",
                  "ConfigPipeState", "GetCycleTestCuv", "GetStatusData", "StatusData", "CRCCheckout"}
           B == {"CheckoutResult", "OTDRBasicInfo", "ConfigNodeTime", "CurAlarm", "GetOTDRData", "RetOTDRData"}
           U == Unused(6)
           S == A \cup B \cup {"GetStandardCurv", "Unuse"}
<1>1. U \in Seq({"Unuse"})
  <2>1. U \in [1 .. 6 -> {"Unuse"}]
    BY DEF Unused
  <2> QED
    BY <2>1, FunctionIsSeq
<1>2. a \in Seq(A) /\ b \in Seq(B) /\ c \in Seq({"GetStandardCurv", "Unuse"})
  OBVIOUS
<1>3. Table[8] = a \o U \o b \o U \o c
  BY DEF Table
<1> HIDE DEF a, b, c, A, B, U
<1>4. a \in Seq(S) /\ b \in Seq(S) /\ c \in Seq(S) /\ U \in Seq(S)
  BY <1>1, <1>2
<1> HIDE DEF S
<1>5. Table[8] \in Seq(S)
  BY <1>3, <1>4
<1>6. Table[2] \in Seq({"SetOTDRFPGAInfo"})
      /\ Table[6] \in Seq({"SetSMSInfo", "SMSInfo", "SendSMSInfo", "SendSMSInfoRetCode"})
  BY DEF Table
<1> QED
  BY <1>5, <1>6

LEMMA Remainder == \A x \in Int : x % 8 \in 0 .. 7
OBVIOUS

\* Whatever the application sets, a command's handling is one of 0 to 8.
LEMMA KnownHandling ==
  ASSUME NEW h, NEW arr \in Seq(Int)
  PROVE  LET d == SetDoWhat(DoWhat, h, arr) IN \A g \in DOMAIN Table : Range(d[g]) \subseteq 0 .. 9
<1> DEFINE d == SetDoWhat(DoWhat, h, arr)
           n == Len(DoWhat[h])
           count == IF Len(arr) < n THEN Len(arr) ELSE n
<1>1. DOMAIN Table = {2, 6, 8} /\ DOMAIN DoWhat = {2, 6, 8}
  BY DEF Table, DoWhat
<1>2. \A g \in {2, 6, 8} : /\ DOMAIN DoWhat[g] = 1 .. Len(Table[g]) /\ Len(Table[g]) \in Nat
                           /\ \A i \in DOMAIN DoWhat[g] : DoWhat[g][i] \in 0 .. 9
  BY <1>1, TableLengths DEF DoWhat, CALLBACK, DONOT, COPY2USE
<1>3. CASE ~(h \in {6, 8} /\ count > 0)
  <2>1. d = DoWhat
    BY <1>3 DEF SetDoWhat
  <2> QED
    BY <1>1, <1>2, <2>1 DEF Range
<1>4. CASE h \in {6, 8} /\ count > 0
  <2>1. d = [DoWhat EXCEPT ![h][1] = arr[count] % 8]
    BY <1>4 DEF SetDoWhat
  <2>2. Len(arr) \in Nat /\ n \in Nat
    <3>1. \E s \in Seq(Nat) : DoWhat[h] = s
      <4>1. DoWhat[h] = [i \in 1 .. Len(Table[h]) |-> DoWhat[h][i]] /\ \A i \in 1 .. Len(Table[h]) : DoWhat[h][i] \in Nat
        BY <1>1, <1>2, <1>4 DEF DoWhat, CALLBACK, DONOT, COPY2USE
      <4>2. DoWhat[h] \in [1 .. Len(Table[h]) -> Nat]
        BY <4>1
      <4> QED
        BY <1>2, <1>4, <4>2, FunctionIsSeq
    <3> QED
      BY <3>1
  <2>3. count \in 1 .. Len(arr)
    BY <1>4, <2>2
  <2>4. arr[count] % 8 \in 0 .. 9
    <3> HIDE DEF count
    <3>1. PICK x \in Int : x = arr[count]
      BY <2>3
    <3>2. x % 8 \in 0 .. 7
      BY Remainder
    <3>3. 0 .. 7 \subseteq 0 .. 9
      OBVIOUS
    <3> QED
      BY <3>1, <3>2, <3>3
  <2> HIDE DEF d, count
  <2>5. ASSUME NEW g \in {2, 6, 8} PROVE Range(d[g]) \subseteq 0 .. 9
    <3>1. CASE g # h
      <4>1. d[g] = DoWhat[g]
        BY <1>1, <2>1, <2>5, <3>1
      <4> QED
        BY <1>2, <4>1 DEF Range
    <3>2. CASE g = h
      <4>1. d[g] = [DoWhat[g] EXCEPT ![1] = arr[count] % 8]
        BY <1>1, <2>1, <2>5, <3>2
      <4> QED
        BY <1>2, <2>4, <4>1 DEF Range
    <3> QED
      BY <3>1, <3>2
  <2> QED
    BY <1>1, <2>5 DEF d
<1> QED
  BY <1>3, <1>4

LEMMA PiecesFramed ==
  ASSUME NEW what \in Whats
  PROVE  LET p == SendPieces(what) IN
         Framed(p) /\ \A i \in 1 .. Len(p) : p[i].do = "send" /\ p[i].what = what
<1> DEFINE p == SendPieces(what)
           s1 == Piece(what, "tag", FALSE)
           s2 == Piece(what, "base", FALSE)
           s3 == Piece(what, "data", FALSE)
           s4 == Piece(what, "rest", FALSE)
           s5 == Piece(what, "tail", FALSE)
<1>1. \A x \in PartNames : /\ Piece(what, x, FALSE) \in Steps /\ Piece(what, x, FALSE).do = "send"
                           /\ Piece(what, x, FALSE).what = what /\ Piece(what, x, FALSE).part = x
  BY DEF Piece, Steps, SendSteps
<1>2. {"tag", "base", "data", "rest", "tail"} \subseteq PartNames
  BY DEF PartNames
<1>3. s1 \in Steps /\ s2 \in Steps /\ s3 \in Steps /\ s4 \in Steps /\ s5 \in Steps
  BY <1>1, <1>2
<1>4. s1.part = "tag" /\ s2.part = "base" /\ s3.part = "data" /\ s4.part = "rest" /\ s5.part = "tail"
  BY <1>1, <1>2
<1>5. \A s \in {s1, s2, s3, s4, s5} : s.do = "send" /\ s.what = what
  BY <1>1, <1>2
<1>6. p = <<s1, s2, s3, s4, s5>>
  BY DEF SendPieces
<1> HIDE DEF p, s1, s2, s3, s4, s5
<1>7. p \in Seq(Steps) /\ Len(p) = 5 /\ p[1] = s1 /\ p[2] = s2 /\ p[3] = s3 /\ p[4] = s4 /\ p[5] = s5
  BY <1>3, <1>6
<1>8. p[1].part = "tag" /\ p[2].part = "base" /\ p[3].part = "data" /\ p[4].part = "rest" /\ p[5].part = "tail"
  BY <1>4, <1>7
<1>9. \A i \in 1 .. Len(p) : i \in {1, 2, 3, 4, 5} /\ p[i].do = "send" /\ p[i].what = what
  <2>1. \A i \in 1 .. Len(p) : i \in {1, 2, 3, 4, 5}
    BY <1>7
  <2> QED
    BY <1>5, <1>7, <2>1
<1>10. "base" \in After["tag"] /\ "data" \in After["base"] /\ "rest" \in After["data"] /\ "tail" \in After["rest"]
  BY DEF After
<1>11. ASSUME NEW i \in 1 .. Len(p), p[i].part # "tail"
       PROVE  i + 1 \in 1 .. Len(p) /\ p[i + 1].part \in After[p[i].part]
  <2>1. i \in {1, 2, 3, 4}
    BY <1>8, <1>9, <1>11
  <2> QED
    BY <1>7, <1>8, <1>10, <2>1
<1>12. ASSUME NEW i \in 2 .. Len(p) PROVE i - 1 \in 1 .. Len(p) /\ p[i - 1].part # "tail"
  <2>1. i - 1 \in {1, 2, 3, 4}
    BY <1>7
  <2> QED
    BY <1>7, <1>8, <2>1
<1>13. Going(p)
  BY <1>9, <1>11, <1>12 DEF Going
<1> QED
  BY <1>7, <1>8, <1>9, <1>13 DEF Framed, Begins, p

\* What a sender makes an application thread do.
Posted(p) == Framed(p) /\ AppSteps(p)

LEMMA SenderPosted ==
  ASSUME NEW o \in Ops
  PROVE  Posted(Sender(o))
<1>1. o.name \in Senders /\ Senders \subseteq Whats
  BY TmsServerAssumption DEF Whats
<1>2. Posted(glink_Send(o.name))
  BY <1>1, FrameSent DEF Posted, AppSteps
<1>3. Posted(SendPieces(o.name))
  BY <1>1, PiecesFramed DEF Posted, AppSteps
<1>4. ASSUME NEW what \in {"lock", "check"} PROVE Posted(<<Do(what)>>)
  <2> DEFINE p == <<Do(what)>>
  <2>1. Do(what) \in Steps /\ Do(what).do = what
    BY DEF Do, Steps, OtherSteps
  <2>2. p \in Seq(Steps) /\ Len(p) = 1 /\ p[1] = Do(what) /\ p[1].do # "send" /\ p[1].do \in {"lock", "check"}
    BY <2>1
  <2> HIDE DEF p
  <2>3. \A i \in 1 .. Len(p) : i = 1 /\ i \notin 2 .. Len(p)
    BY <2>2
  <2> QED
    BY <2>2, <2>3 DEF Posted, Framed, Going, Begins, AppSteps, p
<1>5. ASSUME NEW p, NEW q, Posted(p), Posted(q) PROVE Posted(Both(p, q))
  BY <1>5, BothFramed DEF Posted, AppSteps
<1>6. Posted(UnderLock(SendPieces(o.name)))
  <2>1. UnderLock(SendPieces(o.name)) = Both(Both(<<Do("lock")>>, SendPieces(o.name)), <<Do("lock")>>)
    BY DEF UnderLock, Both
  <2> QED
    BY <1>3, <1>4, <1>5, <2>1
<1>7. Posted(<<Do("check")>> \o SendPieces(o.name))
  <2>1. <<Do("check")>> \o SendPieces(o.name) = Both(<<Do("check")>>, SendPieces(o.name))
    BY DEF Both
  <2> QED
    BY <1>3, <1>4, <1>5, <2>1
<1> QED
  BY <1>1, <1>2, <1>3, <1>6, <1>7 DEF Sender, Senders

\* Payloads of the commands, and what the conversion makes of them.
LEMMA Converted ==
  ASSUME NEW name
  PROVE  LET m == Payload(Parts(name), "net")
             r == Convert(m, Parts(name))
         IN  /\ m.ok /\ r.ok /\ Range(r.order) \subseteq {"host"}
             /\ Parts(name) = <<>> => Range(m.order) \subseteq {"host"}
<1> DEFINE parts == Parts(name)
           m == Payload(parts, "net")
           r == Convert(m, parts)
<1>1. m.ok /\ \A x \in DOMAIN m.order : m.order[x] = "net"
  BY DEF Payload
<1>2. DOMAIN r.order = DOMAIN m.order /\ \A x \in DOMAIN m.order : r.order[x] = "host"
  BY <1>1 DEF Convert, Htonl
<1>3. Range(r.order) \subseteq {"host"}
  BY <1>2 DEF Range
<1>4. ASSUME parts = <<>> PROVE Range(m.order) \subseteq {"host"}
  <2>1. Range(parts) = {}
    BY <1>4 DEF Range
  <2>2. DOMAIN m.order = {}
    BY <2>1 DEF Payload
  <2> QED
    BY <2>2 DEF Range
<1>5. \A i \in DOMAIN parts : parts[i][2] # "" =>
        \E j \in 1 .. i - 1 : j \in DOMAIN parts /\ parts[j][1] = parts[i][2]
  <2>1. CASE name = "FiberSectionCfg"
    <3> DEFINE e1 == <<"fiber_hdr", "">>
               e2 == <<"fiber_val", "fiber_hdr">>
               e3 == <<"param", "">>
               e4 == <<"result", "">>
               e5 == <<"data_hdr", "">>
               e6 == <<"data_val", "data_hdr">>
               e7 == <<"event_hdr", "">>
               e8 == <<"event_val", "event_hdr">>
    <3>1. parts = <<e1, e2, e3, e4, e5, e6, e7, e8>>
      BY <2>1 DEF Parts
    <3>2. /\ e1[2] = "" /\ e3[2] = "" /\ e4[2] = "" /\ e5[2] = "" /\ e7[2] = ""
          /\ e1[1] = e2[2] /\ e5[1] = e6[2] /\ e7[1] = e8[2]
      OBVIOUS
    <3> HIDE DEF parts, e1, e2, e3, e4, e5, e6, e7, e8
    <3>3. /\ DOMAIN parts = 1 .. 8 /\ parts[1] = e1 /\ parts[2] = e2 /\ parts[3] = e3 /\ parts[4] = e4
          /\ parts[5] = e5 /\ parts[6] = e6 /\ parts[7] = e7 /\ parts[8] = e8
      BY <3>1
    <3>4. \A i \in 1 .. 8 : i \in {1, 2, 3, 4, 5, 6, 7, 8}
      OBVIOUS
    <3>5. ASSUME NEW i \in DOMAIN parts, parts[i][2] # "" PROVE i \in {2, 6, 8}
      BY <3>2, <3>3, <3>4, <3>5
    <3>6. parts[1][1] = parts[2][2] /\ parts[5][1] = parts[6][2] /\ parts[7][1] = parts[8][2]
      BY <3>2, <3>3
    <3>7. 1 \in 1 .. 2 - 1 /\ 5 \in 1 .. 6 - 1 /\ 7 \in 1 .. 8 - 1 /\ {1, 5, 7} \subseteq DOMAIN parts
      BY <3>3
    <3>8. \A i \in {2, 6, 8} : \E j \in 1 .. i - 1 : j \in DOMAIN parts /\ parts[j][1] = parts[i][2]
      BY <3>6, <3>7
    <3> QED
      BY <3>5, <3>8
  <2>2. CASE name # "FiberSectionCfg"
    <3>1. parts = <<>> \/ parts = << <<"val", "">> >>
      BY <2>2 DEF Parts
    <3> DEFINE e == <<"val", "">>
    <3>2. e[2] = ""
      OBVIOUS
    <3>3. parts = <<>> \/ parts = <<e>>
      BY <3>1
    <3> HIDE DEF parts, e
    <3>4. CASE parts = <<e>>
      <4>1. DOMAIN parts = {1} /\ parts[1] = e
        BY <3>4
      <4> QED
        BY <3>2, <4>1
    <3>5. CASE parts = <<>>
      <4>1. DOMAIN parts = {}
        BY <3>5
      <4> QED
        BY <4>1
    <3> QED
      BY <3>3, <3>4, <3>5
  <2> QED
    BY <2>1, <2>2
<1>6. \A j \in DOMAIN parts : parts[j][1] \in DOMAIN m.order
  BY DEF Payload, Range
<1>7. \A i \in DOMAIN parts : parts[i][2] # "" => Reached(m, parts, i, parts[i][2]) = "host"
  BY <1>1, <1>5, <1>6 DEF Reached, Htonl
<1>8. r.ok
  BY <1>1, <1>7 DEF Convert
<1> QED
  BY <1>1, <1>3, <1>4, <1>8

-----------------------------------------------------------------------------
(* The first state                                                         *)

LEMMA HandlingsKnown ==
  ASSUME setting \in Settings
  PROVE  \A h \in DOMAIN Table : Range(dowhat[h]) \subseteq 0 .. 9
<1>1. setting[1] \in Nat /\ setting[2] \in Seq(Int)
  BY TmsServerAssumption
<1> QED
  BY <1>1, KnownHandling DEF dowhat

LEMMA NoStepsLeft ==
  /\ Framed(<<>>) /\ Rising(<<>>) /\ LoopSteps(<<>>) /\ AppSteps(<<>>)
  /\ ~AckDue(<<>>) /\ \A what : ~Has(<<>>, what)
<1>1. 1 .. Len(<<>>) = {}
  OBVIOUS
<1>2. Framed(<<>>) /\ Rising(<<>>) /\ LoopSteps(<<>>)
  BY NothingMade DEF Made
<1> QED
  BY <1>1, <1>2 DEF AppSteps, AckDue, Has

LEMMA InitTms == Init => TmsInv
<1> SUFFICES ASSUME Init PROVE TmsInv
  OBVIOUS
<1>1. Loop \in Threads /\ Apps \subseteq Threads /\ MaxOps \in Nat /\ MaxCmds \in Nat
  BY TmsServerAssumption DEF Threads
<1>2. \A t \in Threads : prog[t] = <<>> /\ ctx[t] = [fd |-> 0, to |-> 0]
  BY DEF Init
<1>3. \A c \in Conns : asked[c] = <<>> /\ peer[c] = "none" /\ \A t \in Threads : wire[c][t] = <<>>
  BY DEF Init
<1>4. \A f \in Fds : desc[f] = 0
  BY DEF Init
<1>5. \A c \in Conns : ~Open(c)
  BY <1>4 DEF Open, Conns
<1>6. TypeOK
  <2>1. IsInjective(nodes) /\ Range(nodes) = {desc[f] : f \in Fds} \ {0}
    <3>1. DOMAIN nodes = {}
      BY DEF Init
    <3> QED
      BY <1>4, <3>1 DEF IsInjective, Range
  <2>2. desc \in [Fds -> Conns \cup {0}] /\ made \subseteq Conns /\ peer \in [Conns -> {"none", "up", "closed", "reset"}]
    BY DEF Init
  <2>3. DOMAIN wire = Conns /\ DOMAIN prog = Threads /\ locked \subseteq Apps /\ process \in {"runs", "killed", "wild"}
    BY DEF Init
  <2>4. ctx \in [Threads -> [fd : Fds \cup {0}, to : Conns \cup {0}]]
    BY DEF Init
  <2>5. op \in [Apps -> Ops \cup {[name |-> "none", n |-> 0]}] /\ ops \in [Apps -> 0 .. MaxOps] /\ cmds \in 0 .. MaxCmds
    BY <1>1 DEF Init
  <2>6. \A h \in DOMAIN Table : Range(dowhat[h]) \subseteq 0 .. 9
    BY HandlingsKnown DEF Init
  <2> QED
    BY <1>4, <2>1, <2>2, <2>3, <2>4, <2>5, <2>6 DEF TypeOK
<1>7. StepsOK
  <2>1. /\ prog \in [Threads -> Seq(Steps)] /\ wire \in [Conns -> [Threads -> Seq(Pieces)]]
        /\ asked \in [Conns -> Seq(Nat \X Nat)] /\ nodes \in Seq(Conns) /\ setting \in Settings
    BY DEF Init
  <2> QED
    BY <1>1, <1>2, <2>1, NoStepsLeft DEF StepsOK, Framed
<1>8. Untouched /\ Contexts /\ InFrame
  BY <1>1, <1>2, <1>3, <1>4, <1>5 DEF Untouched, Contexts, InFrame, Idle
<1>9. Strangers /\ AllWhole
  <2>1. \A c \in Conns, t \in Threads : 1 .. Len(wire[c][t]) = {}
    BY <1>3
  <2> QED
    BY <2>1 DEF Strangers, AllWhole, Whole
<1>10. Treated
  <2>1. /\ rcv.cmd = <<0, 0>> /\ rcv.head = "net" /\ rcv.data.ok
    BY DEF Init, NoFrame, Payload
  <2> QED
    BY <1>1, <1>2, <2>1, NoStepsLeft DEF Treated
<1>11. Orders
  <2>1. \A c \in Conns, t \in Threads : 1 .. Len(wire[c][t]) = {}
    BY <1>3
  <2> QED
    BY <2>1 DEF Orders, Init
<1>12. Answered
  <2>1. \A c \in Conns : Acks(c) = {}
    BY <1>1, <1>3 DEF Acks
  <2> QED
    BY <1>5, <2>1 DEF Answered, AnsweredOn
<1> QED
  BY <1>6, <1>7, <1>8, <1>9, <1>10, <1>11, <1>12 DEF TmsInv

-----------------------------------------------------------------------------
(* Steps that accept nothing                                               *)

\* Descriptors are closed at most, and no host comes or goes for good.
Closing ==
  /\ desc' \in [Fds -> Conns \cup {0}] /\ \A f \in Fds : desc'[f] \in {desc[f], 0}
  /\ \A c \in Conns : peer'[c] = "none" <=> peer[c] = "none"

LEMMA StayClosed ==
  ASSUME TypeOK, Closing
  PROVE  /\ \A c \in Conns : Open(c)' => Open(c)
         /\ \A f : On(f)' \in {On(f), 0}
         /\ \A f, c : c \in Conns /\ On(f) = c /\ Open(c)' => On(f)' = c
<1>1. \A c \in Conns : c # 0
  BY DEF Conns
<1>2. \A f, g \in Fds : desc[f] = desc[g] /\ desc[f] # 0 => f = g
  BY DEF TypeOK
<1>3. \A f \in Fds : desc'[f] \in {desc[f], 0}
  BY DEF Closing
<1>4. \A c \in Conns : Open(c)' => Open(c)
  BY <1>1, <1>3 DEF Open
<1>5. \A f : On(f)' \in {On(f), 0}
  BY <1>3 DEF On
<1>6. ASSUME NEW f, NEW c \in Conns, On(f) = c, Open(c)' PROVE On(f)' = c
  <2>1. f \in Fds /\ desc[f] = c
    BY <1>1, <1>6 DEF On
  <2>2. PICK g \in Fds : desc'[g] = c
    BY <1>6 DEF Open
  <2>3. desc[g] = c
    BY <1>1, <1>3, <2>2
  <2>4. f = g
    BY <1>1, <1>2, <2>1, <2>3
  <2> QED
    BY <2>1, <2>2, <2>4 DEF On
<1> QED
  BY <1>4, <1>5, <1>6

LEMMA SentTyped ==
  ASSUME StepsOK, NEW c \in Conns, NEW t \in Threads
  PROVE  wire[c][t] \in Seq(Pieces) /\ \A i \in 1 .. Len(wire[c][t]) : wire[c][t][i] \in Pieces
<1>1. wire[c][t] \in Seq(Pieces)
  BY DEF StepsOK
<1> QED
  BY <1>1

LEMMA ClosingKeeps ==
  ASSUME TmsInv, Closing, UNCHANGED <<wire, asked>>
  PROVE  Untouched' /\ Strangers' /\ AllWhole'
<1>1. /\ \A c \in Conns : c # 0 /\ (Open(c)' => Open(c))
      /\ \A f \in Fds : desc[f] \in Conns \cup {0} /\ desc'[f] \in {desc[f], 0}
      /\ \A c \in Conns : peer'[c] = "none" <=> peer[c] = "none"
  <2>1. TypeOK
    BY DEF TmsInv
  <2>2. \A c \in Conns : c # 0
    BY DEF Conns
  <2>3. \A c \in Conns : Open(c)' => Open(c)
    BY <2>1, StayClosed
  <2>4. \A f \in Fds : desc[f] \in Conns \cup {0}
    BY <2>1 DEF TypeOK
  <2> QED
    BY <2>2, <2>3, <2>4 DEF Closing
<1>2. Untouched'
  BY <1>1 DEF TmsInv, Untouched
<1>3. AllWhole'
  BY DEF TmsInv, AllWhole
<1>4. Strangers'
  <2>1. \A c \in Conns, t \in Threads : \A i \in 1 .. Len(wire[c][t]) : wire[c][t][i].to \in Conns \cup {0}
    BY SentTyped DEF TmsInv, Pieces
  <2> QED
    BY <1>1, <2>1 DEF TmsInv, Strangers
<1> QED
  BY <1>2, <1>3, <1>4

\* The thread's host is on no connection.
Unheard(t) == \A c \in Conns : Open(c) => ctx[t].to # c

\* A thread that goes on in its program with the context it has.
ProgOK ==
  /\ prog \in [Threads -> Seq(Steps)] /\ \A t \in Threads : Going(prog[t])
  /\ Rising(prog[Loop]) /\ LoopSteps(prog[Loop]) /\ \A t \in Apps : AppSteps(prog[t])

LEMMA ContextKept ==
  ASSUME TypeOK, Contexts, Closing, NEW u \in Threads, ctx'[u] = ctx[u], ctx[u].to # 0
  PROVE  peer'[ctx[u].to] # "none" /\ (Open(ctx[u].to)' => On(ctx[u].fd)' = ctx[u].to)
<1>1. PICK c \in Conns : c = ctx[u].to
  BY DEF TypeOK
<1>2. PICK f : f = ctx[u].fd
  OBVIOUS
<1>3. peer[c] # "none" /\ (Open(c) => On(f) = c)
  BY <1>1, <1>2 DEF Contexts
<1>4. peer'[c] # "none" /\ (Open(c)' => On(f)' = c)
  BY <1>3, StayClosed DEF Closing
<1> QED
  BY <1>1, <1>2, <1>4

LEMMA ContextsKept ==
  ASSUME TypeOK, Contexts, Closing, UNCHANGED ctx, Idle(Loop) => Idle(Loop)'
  PROVE  Contexts'
<1>1. \A u \in Threads : ctx[u].to # 0 =>
        peer'[ctx[u].to] # "none" /\ (Open(ctx[u].to)' => On(ctx[u].fd)' = ctx[u].to)
  BY ContextKept
<1>2. ASSUME ~Idle(Loop)' PROVE ctx[Loop].to # 0 /\ On(ctx[Loop].fd)' \in {0, ctx[Loop].to}
  <2>1. ~Idle(Loop)
    BY <1>2
  <2>2. PICK f : f = ctx[Loop].fd
    OBVIOUS
  <2>3. On(f)' \in {On(f), 0}
    BY StayClosed
  <2> QED
    BY <2>1, <2>2, <2>3 DEF Contexts
<1> QED
  BY <1>1, <1>2 DEF Contexts

LEMMA ProgMoves ==
  ASSUME TmsInv, Closing, NEW t \in Threads, NEW q, NEW k, Rest(q, prog[t], k),
         prog' = [prog EXCEPT ![t] = q], UNCHANGED ctx
  PROVE  /\ ProgOK' /\ Contexts'
         /\ prog'[t] = q /\ \A u \in Threads : u # t => prog'[u] = prog[u]
<1>1. TypeOK /\ StepsOK /\ Contexts
  BY DEF TmsInv
<1>3. /\ prog \in [Threads -> Seq(Steps)] /\ prog[t] \in Seq(Steps) /\ prog'[t] = q
      /\ \A u \in Threads : u # t => prog'[u] = prog[u]
  BY <1>1 DEF StepsOK
<1>4. Going(prog[t])
  BY <1>1 DEF StepsOK
<1>5. q \in Seq(Steps) /\ prog[t] # <<>>
  <2>1. Len(<<>>) = 0 /\ 1 .. 0 = {}
    OBVIOUS
  <2> QED
    BY <2>1 DEF Rest
<1>6. /\ Going(q) /\ (Rising(prog[t]) => Rising(q)) /\ (LoopSteps(prog[t]) => LoopSteps(q))
      /\ (AppSteps(prog[t]) => AppSteps(q))
  BY <1>3, <1>4, RestKeeps
<1>7. ProgOK'
  <2>1. prog' \in [Threads -> Seq(Steps)]
    BY <1>3, <1>5
  <2>2. \A u \in Threads : Going(prog'[u])
    BY <1>1, <1>3, <1>6 DEF StepsOK
  <2>3. Rising(prog'[Loop]) /\ LoopSteps(prog'[Loop])
    BY <1>1, <1>3, <1>6 DEF StepsOK, Threads
  <2>4. \A u \in Apps : AppSteps(prog'[u])
    BY <1>1, <1>3, <1>6 DEF StepsOK, Threads
  <2> QED
    BY <2>1, <2>2, <2>3, <2>4 DEF ProgOK
<1>8. Idle(Loop) => Idle(Loop)'
  BY <1>3, <1>5 DEF Idle, Threads
<1>9. Contexts'
  BY <1>1, <1>8, ContextsKept
<1> QED
  BY <1>3, <1>7, <1>9

\* A thread that goes on in its program and sends nothing: what the program
\* is like, where its frame is, whose context the thread has.
LEMMA MoveKeeps ==
  ASSUME TmsInv, Closing, NEW t \in Threads, NEW q, NEW k, Rest(q, prog[t], k),
         prog' = [prog EXCEPT ![t] = q],
         (Begins(q) /\ prog[t][1].do # "send") \/ Unheard(t),
         UNCHANGED <<wire, asked, ctx, setting>>, nodes' \in Seq(Conns)
  PROVE  StepsOK' /\ Untouched' /\ Contexts' /\ Strangers' /\ InFrame' /\ AllWhole'
<1>1. TypeOK /\ StepsOK /\ Contexts /\ InFrame
  BY DEF TmsInv
<1>2. Untouched' /\ Strangers' /\ AllWhole'
  BY ClosingKeeps
<1>3. /\ ProgOK' /\ Contexts'
      /\ prog'[t] = q /\ \A u \in Threads : u # t => prog'[u] = prog[u]
  BY ProgMoves
<1>7. StepsOK'
  BY <1>1, <1>3 DEF StepsOK, ProgOK
<1>9. InFrame'
  <2>1. SUFFICES ASSUME NEW c \in Conns, NEW u \in Threads, Open(c)' PROVE Expects(wire[c][u], c, Wanted(u, c)')
    BY DEF InFrame
  <2>2. Open(c) /\ Expects(wire[c][u], c, Wanted(u, c))
    BY <1>1, <2>1, StayClosed DEF InFrame
  <2>3. Wanted(u, c)' = Wanted(u, c)
    <3>1. CASE u # t
      BY <1>3, <3>1 DEF Wanted
    <3>2. CASE u = t
      <4>1. CASE Begins(q) /\ prog[t][1].do # "send"
        BY <1>3, <3>2, <4>1 DEF Wanted, Begins
      <4>2. CASE Unheard(t)
        BY <2>2, <3>2, <4>2 DEF Wanted, Unheard
      <4> QED
        BY <4>1, <4>2
    <3> QED
      BY <3>1, <3>2
  <2> QED
    BY <2>2, <2>3
<1> QED
  BY <1>2, <1>3, <1>7, <1>9

LEMMA AnsweredKept ==
  ASSUME TmsInv, Closing, UNCHANGED <<wire, asked>>, ctx'[Loop] = ctx[Loop], rcv'.cmd = rcv.cmd,
         (AckDue(prog'[Loop]) <=> AckDue(prog[Loop])) \/ Unheard(Loop)
  PROVE  Answered'
<1>1. TypeOK /\ Answered
  BY DEF TmsInv
<1>2. \A c \in Conns : Open(c)' => Open(c)
  BY <1>1, StayClosed
<1>3. \A c : Acks(c)' = Acks(c) /\ \A i : Nth(c, i)' = Nth(c, i)
  BY DEF Acks, Nth
<1>4. SUFFICES ASSUME NEW c \in Conns PROVE AnsweredOn(c)'
  BY DEF Answered
<1>5. AnsweredOn(c)
  BY <1>1 DEF Answered
<1> QED
  BY <1>2, <1>3, <1>5 DEF AnsweredOn, Unheard

\* Of the loop's steps no two are of one rank.
LEMMA OnceOnly ==
  ASSUME NEW p \in Seq(Steps), NEW q, Rest(q, p, 1), Rising(p), LoopSteps(p)
  PROVE  /\ \A i \in 1 .. Len(q) : Rank(p[1]) < Rank(q[i])
         /\ \A what : Has(q, what) => Has(p, what)
         /\ \A what : Has(p, what) /\ p[1].do # what => Has(q, what)
         /\ AckDue(q) => AckDue(p)
         /\ AckDue(p) => AckDue(q) \/ (p[1].do = "send" /\ p[1].what = "ack" /\ p[1].part = "data")
<1>1. Len(p) \in Nat /\ Len(q) \in Nat /\ Len(p) # 0 /\ Len(q) = Len(p) - 1
  BY DEF Rest
<1>2. \A i \in 1 .. Len(q) : 1 + i \in 1 .. Len(p) /\ q[i] = p[1 + i] /\ 1 < 1 + i /\ 1 \in 1 .. Len(p)
  BY <1>1 DEF Rest
<1>3. \A j \in 1 .. Len(p) : j = 1 \/ (j - 1 \in 1 .. Len(q) /\ q[j - 1] = p[j])
  <2>1. \A j \in 1 .. Len(p) : j = 1 \/ (j - 1 \in 1 .. Len(q) /\ 1 + (j - 1) = j)
    BY <1>1
  <2> QED
    BY <1>2, <2>1
<1>4. \A i \in 1 .. Len(q) : Rank(p[1]) < Rank(q[i])
  BY <1>2 DEF Rising
<1>5. \A what : Has(q, what) => Has(p, what)
  BY <1>2 DEF Has
<1>6. \A what : Has(p, what) /\ p[1].do # what => Has(q, what)
  BY <1>3 DEF Has
<1>7. AckDue(q) => AckDue(p)
  BY <1>2 DEF AckDue
<1>8. AckDue(p) => AckDue(q) \/ (p[1].do = "send" /\ p[1].what = "ack" /\ p[1].part = "data")
  BY <1>3 DEF AckDue
<1> QED
  BY <1>4, <1>5, <1>6, <1>7, <1>8

\* What is ahead of the loop, as far as the order of its steps tells.
LEMMA NotAhead ==
  ASSUME NEW p \in Seq(Steps), NEW q, Rest(q, p, 1), Rising(p), LoopSteps(p)
  PROVE  /\ p[1].do = "convert" => ~AckDue(q) /\ ~Has(q, "convert")
         /\ p[1].do = "call" => ~AckDue(q) /\ ~Has(q, "convert") /\ ~Has(q, "call") /\ ~AckDue(p) /\ ~Has(p, "convert")
         /\ p[1].do = "copy" => ~AckDue(q) /\ \A what \in {"copy", "convert", "call"} : ~Has(q, what)
         /\ p[1].do = "send" /\ p[1].what = "ack" /\ p[1].part = "data" => ~AckDue(q)
<1>1. \A i \in 1 .. Len(q) : Rank(p[1]) < Rank(q[i])
  BY OnceOnly
<1>2. AckDue(q) => \E i \in 1 .. Len(q) : Rank(q[i]) = 3
  BY DEF AckDue, Rank, Place
<1>3. /\ Has(q, "convert") => \E i \in 1 .. Len(q) : Rank(q[i]) = 5
      /\ Has(q, "call") => \E i \in 1 .. Len(q) : Rank(q[i]) = 6
      /\ Has(q, "copy") => \E i \in 1 .. Len(q) : Rank(q[i]) = 11
  BY DEF Has, Rank
<1>4. /\ p[1].do = "convert" => Rank(p[1]) = 5
      /\ p[1].do = "call" => Rank(p[1]) = 6
      /\ p[1].do = "copy" => Rank(p[1]) = 11
      /\ p[1].do = "send" /\ p[1].what = "ack" /\ p[1].part = "data" => Rank(p[1]) = 3
  BY DEF Rank, Place
<1>5. /\ Has(p, "convert") => Has(q, "convert") \/ p[1].do = "convert"
      /\ AckDue(p) => AckDue(q) \/ p[1].do = "send"
  BY OnceOnly
<1> QED
  BY <1>1, <1>2, <1>3, <1>4, <1>5

-----------------------------------------------------------------------------
(* The steps of a thread                                                   *)

\* The descriptors and the list of connections.
NetOK ==
  /\ desc \in [Fds -> Conns \cup {0}]
  /\ \A f, g \in Fds : desc[f] = desc[g] /\ desc[f] # 0 => f = g
  /\ IsInjective(nodes) /\ Range(nodes) = {desc[f] : f \in Fds} \ {0}

LEMMA TypeFrom ==
  ASSUME TypeOK, NetOK', UNCHANGED setting, made' \subseteq Conns,
         peer' \in [Conns -> {"none", "up", "closed", "reset"}], DOMAIN wire' = Conns, DOMAIN prog' = Threads,
         ctx' \in [Threads -> [fd : Fds \cup {0}, to : Conns \cup {0}]], locked' \subseteq Apps,
         op' \in [Apps -> Ops \cup {[name |-> "none", n |-> 0]}], ops' \in [Apps -> 0 .. MaxOps],
         cmds' \in 0 .. MaxCmds, process' \in {"runs", "killed", "wild"}
  PROVE  TypeOK'
<1>1. \A h \in DOMAIN Table : Range(dowhat'[h]) \subseteq 0 .. 9
  BY DEF TypeOK, dowhat
<1>2. /\ desc' \in [Fds -> Conns \cup {0}] /\ \A f, g \in Fds : desc'[f] = desc'[g] /\ desc'[f] # 0 => f = g
      /\ IsInjective(nodes') /\ Range(nodes') = {desc'[f] : f \in Fds} \ {0}
  BY DEF NetOK
<1> QED
  BY <1>1, <1>2, Zenon DEF TypeOK

LEMMA TypeKept ==
  ASSUME TypeOK, NetOK', UNCHANGED <<op, ops, cmds, setting>>, made' \subseteq Conns,
         peer' \in [Conns -> {"none", "up", "closed", "reset"}], DOMAIN wire' = Conns, DOMAIN prog' = Threads,
         ctx' \in [Threads -> [fd : Fds \cup {0}, to : Conns \cup {0}]], locked' \subseteq Apps,
         process' \in {"runs", "killed", "wild"}
  PROVE  TypeOK'
<1>1. /\ op' \in [Apps -> Ops \cup {[name |-> "none", n |-> 0]}] /\ ops' \in [Apps -> 0 .. MaxOps]
      /\ cmds' \in 0 .. MaxCmds
  BY DEF TypeOK
<1> QED
  BY <1>1, TypeFrom

LEMMA NetKept ==
  ASSUME TypeOK, UNCHANGED <<desc, nodes>>
  PROVE  NetOK'
BY DEF TypeOK, NetOK

LEMMA OrdersKept ==
  ASSUME Orders, UNCHANGED <<wire, seen, pgb>>
  PROVE  Orders'
BY DEF Orders

LEMMA SameNet ==
  ASSUME TypeOK, UNCHANGED <<desc, peer>>
  PROVE  Closing
BY DEF TypeOK, Closing

\* A step that only goes on in a program, of the loop after a failed send.
LEMMA MovesOn ==
  ASSUME TmsInv, NEW t \in Threads, NEW q, NEW k, Rest(q, prog[t], k),
         prog' = [prog EXCEPT ![t] = q],
         (Begins(q) /\ prog[t][1].do # "send") \/ Unheard(t),
         t = Loop => (Unheard(Loop) /\ \A j \in 1 .. k : prog[t][j].do = "send"),
         UNCHANGED <<net, wire, ctx, op, ops, data, setting>>,
         locked' \subseteq Apps, process' \in {"runs", "killed", "wild"}
  PROVE  TmsInv'
<1>1. TypeOK /\ StepsOK /\ Treated /\ Orders
  BY DEF TmsInv
<1>2. /\ UNCHANGED <<desc, nodes, made, peer>> /\ UNCHANGED <<rcv, asked, cmds, pgb, seen>>
      /\ UNCHANGED <<wire, ctx, op, ops, setting>>
  BY DEF net, data
<1>3. Closing
  BY <1>1, <1>2, SameNet
<1>4. /\ prog \in [Threads -> Seq(Steps)] /\ prog'[t] = q
      /\ \A u \in Threads : u # t => prog'[u] = prog[u]
  BY <1>1 DEF StepsOK
<1>5. nodes' \in Seq(Conns)
  BY <1>1, <1>2 DEF StepsOK
<1>6. StepsOK' /\ Untouched' /\ Contexts' /\ Strangers' /\ InFrame' /\ AllWhole'
  BY <1>2, <1>3, <1>5, MoveKeeps
<1>7. TypeOK'
  BY <1>1, <1>2, <1>4, TypeKept, NetKept DEF TypeOK
<1>8. Orders'
  BY <1>1, <1>2, OrdersKept
<1>9. Answered'
  <2>2. (AckDue(prog'[Loop]) <=> AckDue(prog[Loop])) \/ Unheard(Loop)
    BY <1>4 DEF Threads
  <2> QED
    BY <1>2, <1>3, <2>2, AnsweredKept
<1>10. Treated'
  <2>1. CASE t # Loop
    <3>1. prog'[Loop] = prog[Loop]
      BY <1>4, <2>1 DEF Threads
    <3> QED
      BY <1>1, <1>2, <3>1 DEF Treated
  <2>2. CASE t = Loop
    <3> DEFINE p == prog[Loop]
    <3>1. prog'[Loop] = q /\ Len(p) \in Nat /\ Len(q) \in Nat
      BY <1>4, <2>2 DEF Rest
    <3>2. \A i \in 1 .. Len(q) : k + i \in 1 .. Len(p) /\ q[i] = p[k + i]
      BY <2>2 DEF Rest
    <3>3. k \in 1 .. Len(p) /\ Len(q) = Len(p) - k
      BY <2>2 DEF Rest
    <3> HIDE DEF p
    <3>4. (AckDue(q) => AckDue(p)) /\ \A what : Has(q, what) => Has(p, what)
      BY <3>2 DEF AckDue, Has
    <3>5. Has(p, "convert") => Has(q, "convert")
      <4>1. SUFFICES ASSUME NEW j \in 1 .. Len(p), p[j].do = "convert" PROVE Has(q, "convert")
        BY DEF Has
      <4>2. j \notin 1 .. k
        BY <2>2, <4>1 DEF p
      <4>3. j - k \in 1 .. Len(q) /\ k + (j - k) = j
        BY <3>1, <3>3, <4>2
      <4>4. q[j - k].do = "convert"
        BY <3>2, <4>1, <4>3
      <4> QED
        BY <4>3, <4>4 DEF Has
    <3>6. /\ rcv'.cmd \in Nat \X Nat /\ rcv'.head \in {"net", "host"} /\ rcv'.data.ok
          /\ AckDue(p) \/ Has(p, "copy") => rcv'.head = "net"
          /\ Has(p, "convert") => rcv'.data = Payload(Parts(NameOf(rcv'.cmd)), "net")
          /\ Has(p, "call") /\ ~Has(p, "convert") => Range(rcv'.data.order) \subseteq {"host"}
      BY <1>1, <1>2 DEF Treated, p
    <3> QED
      BY <3>1, <3>4, <3>5, <3>6 DEF Treated
  <2> QED
    BY <2>1, <2>2
<1> QED
  BY <1>6, <1>7, <1>8, <1>9, <1>10 DEF TmsInv

LEMMA NothingMoves ==
  ASSUME TmsInv, UNCHANGED <<net, wire, prog, ctx, op, ops, data, setting>>,
         locked' \subseteq Apps, process' \in {"runs", "killed", "wild"}
  PROVE  TmsInv'
<1>1. TypeOK /\ StepsOK /\ Treated /\ Orders /\ Answered /\ Contexts /\ InFrame
  BY DEF TmsInv
<1>2. /\ UNCHANGED <<desc, nodes, made, peer>> /\ UNCHANGED <<rcv, asked, cmds, pgb, seen>>
      /\ UNCHANGED <<wire, prog, ctx, op, ops, setting>>
  BY DEF net, data
<1>3. Closing
  BY <1>1, <1>2, SameNet
<1>4. Untouched' /\ Strangers' /\ AllWhole'
  BY <1>2, <1>3, ClosingKeeps
<1>5. TypeOK'
  BY <1>1, <1>2, TypeKept, NetKept DEF TypeOK
<1>6. StepsOK' /\ Orders' /\ Treated'
  BY <1>1, <1>2, OrdersKept DEF StepsOK, Treated
<1>7. Answered'
  BY <1>2, <1>3, AnsweredKept
<1>8. Contexts' /\ InFrame'
  BY <1>1, <1>2 DEF Contexts, InFrame, Open, On, Idle, Wanted
<1> QED
  BY <1>4, <1>5, <1>6, <1>7, <1>8 DEF TmsInv

\* What is at the head of a thread's program.
LEMMA HeadOf ==
  ASSUME TmsInv, NEW t \in Threads, ~Idle(t)
  PROVE  /\ prog[t] \in Seq(Steps) /\ prog[t] # <<>> /\ Head(prog[t]) = prog[t][1] /\ 1 \in 1 .. Len(prog[t])
         /\ Going(prog[t]) /\ prog[t][1] \in Steps /\ Rest(Tail(prog[t]), prog[t], 1)
         /\ t = Loop => LoopSteps(prog[t]) /\ Rising(prog[t]) /\ prog[t][1].do \notin {"lock", "check"}
         /\ t # Loop => AppSteps(prog[t]) /\ t \in Apps
<1>1. prog[t] \in Seq(Steps) /\ prog[t] # <<>>
  BY DEF TmsInv, StepsOK, Idle
<1>2. Head(prog[t]) = prog[t][1] /\ 1 \in 1 .. Len(prog[t]) /\ prog[t][1] \in Steps
  BY <1>1
<1>3. Rest(Tail(prog[t]), prog[t], 1)
  BY <1>1, TailIsRest
<1>4. Going(prog[t]) /\ (t = Loop => LoopSteps(prog[t]) /\ Rising(prog[t]))
  BY DEF TmsInv, StepsOK
<1>5. t # Loop => AppSteps(prog[t]) /\ t \in Apps
  BY DEF TmsInv, StepsOK, Threads
<1>6. LoopSteps(prog[t]) => prog[t][1].do \notin {"lock", "check"}
  BY <1>2 DEF LoopSteps
<1> QED
  BY <1>1, <1>2, <1>3, <1>4, <1>5, <1>6

LEMMA LockKeeps ==
  ASSUME TmsInv, NEW t \in Threads, ~Idle(t), LockStep(t, Head(prog[t]))
  PROVE  TmsInv'
<1>1. /\ prog[t][1].do = "lock" /\ locked' = locked \cup {t} /\ prog' = [prog EXCEPT ![t] = Tail(prog[t])]
      /\ UNCHANGED <<net, wire, ctx, op, ops, data, setting, process>>
  BY HeadOf DEF LockStep
<1>2. t # Loop /\ t \in Apps
  BY <1>1, HeadOf
<1>3. Rest(Tail(prog[t]), prog[t], 1) /\ Begins(Tail(prog[t]))
  BY <1>1, HeadOf, RestBegins
<1>4. locked' \subseteq Apps /\ process' \in {"runs", "killed", "wild"}
  BY <1>1, <1>2 DEF TmsInv, TypeOK
<1> QED
  BY <1>1, <1>2, <1>3, <1>4, MovesOn

LEMMA CheckKeeps ==
  ASSUME TmsInv, NEW t \in Threads, ~Idle(t), process = "runs", CheckStep(t, Head(prog[t]))
  PROVE  TmsInv'
<1>1. prog[t][1].do = "check" /\ UNCHANGED <<net, wire, ctx, apps, data, setting>>
  BY HeadOf DEF CheckStep
<1>2. t # Loop /\ t \in Apps
  BY <1>1, HeadOf
<1>3. /\ UNCHANGED <<net, wire, ctx, op, ops, data, setting>> /\ locked' \subseteq Apps
  BY <1>1 DEF TmsInv, TypeOK, apps
<1>4. process' \in {"runs", "killed", "wild"}
  BY HeadOf DEF CheckStep
<1>5. \/ prog' = [prog EXCEPT ![t] = Tail(prog[t])] \/ prog' = [prog EXCEPT ![t] = <<>>]
      \/ prog' = prog
  <2>1. prog \in [Threads -> Seq(Steps)]
    BY DEF TmsInv, StepsOK
  <2>2. prog = [prog EXCEPT ![t] = prog[t]]
    BY <2>1
  <2> QED
    BY <2>2, HeadOf DEF CheckStep
<1>6. CASE prog' = [prog EXCEPT ![t] = Tail(prog[t])]
  <2>1. Rest(Tail(prog[t]), prog[t], 1) /\ Begins(Tail(prog[t]))
    BY <1>1, HeadOf, RestBegins
  <2> QED
    BY <1>1, <1>2, <1>3, <1>4, <1>6, <2>1, MovesOn
<1>7. CASE prog' = [prog EXCEPT ![t] = <<>>]
  <2>1. <<>> \in Seq(Steps) /\ Len(<<>>) = 0 /\ 1 .. 0 = {} /\ Begins(<<>>)
    BY DEF Begins
  <2>2. Len(prog[t]) \in 1 .. Len(prog[t]) /\ 0 = Len(prog[t]) - Len(prog[t])
    BY HeadOf
  <2>3. Rest(<<>>, prog[t], Len(prog[t]))
    BY <2>1, <2>2 DEF Rest
  <2> QED
    BY <1>1, <1>2, <1>3, <1>4, <1>7, <2>1, <2>3, MovesOn
<1>8. CASE prog' = prog
  BY <1>3, <1>4, <1>8, NothingMoves
<1> QED
  BY <1>5, <1>6, <1>7, <1>8

\* A connection's descriptor is closed and its node taken off the list.
LEMMA OneClosed ==
  ASSUME TypeOK, nodes \in Seq(Conns), NEW f \in Fds, desc[f] # 0, nodes' = RemoveFirst(nodes, desc[f]),
         desc' = [desc EXCEPT ![f] = 0], UNCHANGED peer
  PROVE  NetOK' /\ Closing /\ nodes' \in Seq(Conns)
<1>1. /\ desc \in [Fds -> Conns \cup {0}] /\ \A g, h \in Fds : desc[g] = desc[h] /\ desc[g] # 0 => g = h
      /\ IsInjective(nodes) /\ Range(nodes) = {desc[g] : g \in Fds} \ {0}
  BY DEF TypeOK
<1>2. desc[f] \in Range(nodes)
  BY <1>1
<1>3. nodes' \in Seq(Conns) /\ IsInjective(nodes') /\ Range(nodes') = Range(nodes) \ {desc[f]}
  BY <1>1, <1>2, OneRemoved
<1>4. /\ desc' \in [Fds -> Conns \cup {0}] /\ desc'[f] = 0 /\ \A g \in Fds : g # f => desc'[g] = desc[g]
  BY <1>1
<1>5. {desc'[g] : g \in Fds} \ {0} = ({desc[g] : g \in Fds} \ {0}) \ {desc[f]}
  BY <1>1, <1>4
<1>6. \A g, h \in Fds : desc'[g] = desc'[h] /\ desc'[g] # 0 => g = h
  BY <1>1, <1>4
<1>7. NetOK'
  BY <1>1, <1>3, <1>4, <1>5, <1>6 DEF NetOK
<1>8. Closing
  BY <1>4 DEF Closing
<1> QED
  BY <1>3, <1>7, <1>8

\* The loop goes on by one step that is no send.
LEMMA LoopGoesOn ==
  ASSUME TmsInv, ~Idle(Loop), Closing, nodes' \in Seq(Conns), prog' = [prog EXCEPT ![Loop] = Tail(prog[Loop])],
         prog[Loop][1].do # "send", UNCHANGED <<wire, asked, ctx, setting>>, rcv'.cmd = rcv.cmd
  PROVE  /\ StepsOK' /\ Untouched' /\ Contexts' /\ Strangers' /\ InFrame' /\ AllWhole' /\ Answered'
         /\ prog'[Loop] = Tail(prog[Loop]) /\ DOMAIN prog' = Threads
<1>1. Loop \in Threads
  BY DEF Threads
<1>2. /\ prog[Loop] \in Seq(Steps) /\ Rest(Tail(prog[Loop]), prog[Loop], 1) /\ Going(prog[Loop])
      /\ LoopSteps(prog[Loop]) /\ Rising(prog[Loop])
  BY <1>1, HeadOf
<1>3. Begins(Tail(prog[Loop]))
  BY <1>2, RestBegins
<1>4. StepsOK' /\ Untouched' /\ Contexts' /\ Strangers' /\ InFrame' /\ AllWhole'
  BY <1>1, <1>2, <1>3, MoveKeeps
<1>5. prog'[Loop] = Tail(prog[Loop]) /\ DOMAIN prog' = Threads
  BY <1>1 DEF TmsInv, StepsOK
<1>6. AckDue(prog'[Loop]) <=> AckDue(prog[Loop])
  BY <1>2, <1>5, OnceOnly
<1>7. Answered'
  BY <1>6, AnsweredKept
<1> QED
  BY <1>4, <1>5, <1>7

LEMMA LoopKeeps ==
  ASSUME TmsInv, ~Idle(Loop), process = "runs", LoopStep(Head(prog[Loop]))
  PROVE  TmsInv'
<1> DEFINE p == prog[Loop]
           s == Head(p)
           c == ctx[Loop].to
<1>1. TypeOK /\ StepsOK /\ Treated /\ Orders /\ Loop \in Threads
  BY DEF TmsInv, Threads
<1>2. /\ p \in Seq(Steps) /\ Rest(Tail(p), p, 1) /\ s = p[1] /\ LoopSteps(p) /\ Rising(p)
  BY <1>1, HeadOf
<1>3. /\ prog' = [prog EXCEPT ![Loop] = Tail(p)] /\ UNCHANGED <<wire, ctx, op, ops, locked, setting>>
  BY DEF LoopStep, apps
<1>4. CASE /\ \/ s.do = "InitSocketStruct" /\ InitSocketStruct(c)
              \/ s.do = "FreeSocketStruct" /\ FreeSocketStruct(c)
              \/ s.do = "ep_DelConNode" /\ ep_DelConNode(c)
           /\ UNCHANGED <<peer, data>>
  <2>1. p[1].do # "send" /\ p[1].do \notin {"convert", "call", "copy"} /\ UNCHANGED <<peer, rcv, asked, cmds, pgb, seen>>
    BY <1>2, <1>4 DEF data
  <2>2. process' \in {"runs", "killed", "wild"}
    BY <1>4 DEF InitSocketStruct, FreeSocketStruct, ep_DelConNode, OnNode
  <2>3. NetOK' /\ Closing /\ nodes' \in Seq(Conns) /\ made' \subseteq Conns
    <3>1. Contains(nodes, c) => \E f \in Fds : desc[f] = c /\ c # 0 /\ c \in Conns
      <4>1. SUFFICES ASSUME Contains(nodes, c) PROVE \E f \in Fds : desc[f] = c /\ c # 0 /\ c \in Conns
        OBVIOUS
      <4>2. PICK i \in 1 .. Len(nodes) : nodes[i] = c
        BY <4>1 DEF Contains
      <4>3. c \in Range(nodes) /\ c \in Conns
        BY <1>1, <4>2 DEF StepsOK, Range
      <4> QED
        BY <1>1, <4>3 DEF TypeOK
    <3>2. CASE ep_DelConNode(c) /\ Contains(nodes, c)
      <4>1. /\ nodes' = RemoveFirst(nodes, c) /\ desc' = [desc EXCEPT ![FdOf(c)] = 0] /\ made' = made
        BY <3>2 DEF ep_DelConNode, OnNode
      <4>2. FdOf(c) \in Fds /\ desc[FdOf(c)] = c /\ c # 0
        BY <3>1, <3>2 DEF FdOf
      <4>3. PICK f \in Fds : f = FdOf(c)
        BY <4>2
      <4>4. desc[f] # 0 /\ nodes' = RemoveFirst(nodes, desc[f]) /\ desc' = [desc EXCEPT ![f] = 0]
        BY <4>1, <4>2, <4>3
      <4> QED
        BY <1>1, <2>1, <4>1, <4>4, OneClosed DEF TypeOK, StepsOK
    <3>3. CASE ~(ep_DelConNode(c) /\ Contains(nodes, c))
      <4>1. UNCHANGED <<desc, nodes>> /\ (made' = made \/ made' = made \ {c} \/ (made' = made \cup {c} /\ Contains(nodes, c)))
        BY <1>4, <3>3 DEF InitSocketStruct, FreeSocketStruct, ep_DelConNode, OnNode
      <4>2. made' \subseteq Conns
        BY <1>1, <3>1, <4>1 DEF TypeOK
      <4> QED
        BY <1>1, <2>1, <4>1, <4>2, NetKept, SameNet DEF StepsOK
    <3> QED
      BY <3>2, <3>3
  <2>4. /\ StepsOK' /\ Untouched' /\ Contexts' /\ Strangers' /\ InFrame' /\ AllWhole' /\ Answered'
        /\ prog'[Loop] = Tail(p) /\ DOMAIN prog' = Threads
    BY <1>3, <2>1, <2>3, LoopGoesOn
  <2>5. TypeOK'
    BY <1>1, <1>3, <2>1, <2>2, <2>3, <2>4, TypeKept DEF TypeOK
  <2>6. Orders'
    BY <1>1, <1>3, <2>1, OrdersKept
  <2>7. /\ AckDue(Tail(p)) => AckDue(p)
        /\ \A what \in {"convert", "call", "copy"} : Has(Tail(p), what) <=> Has(p, what)
    BY <1>2, <2>1, OnceOnly
  <2>8. Treated'
    BY <1>1, <2>1, <2>4, <2>7 DEF Treated
  <2> QED
    BY <2>4, <2>5, <2>6, <2>8 DEF TmsInv
<1>5. CASE /\ \/ s.do = "convert" /\ tms_OTDRConv
              \/ s.do = "call" /\ OnCommand
              \/ s.do = "copy" /\ tms_Copy2Use
           /\ UNCHANGED <<net, asked, cmds, process>>
  <2>1. p[1].do # "send" /\ UNCHANGED <<desc, nodes, made, peer>> /\ UNCHANGED <<asked, cmds, process>>
    BY <1>2, <1>5 DEF net
  <2>2. rcv'.cmd = rcv.cmd
    <3>1. CASE tms_OTDRConv
      BY <3>1 DEF tms_OTDRConv
    <3>2. CASE OnCommand
      BY <3>2 DEF OnCommand
    <3>3. CASE tms_Copy2Use
      BY <3>3 DEF tms_Copy2Use
    <3> QED
      BY <1>5, <3>1, <3>2, <3>3
  <2>3. NetOK' /\ Closing /\ nodes' \in Seq(Conns)
    BY <1>1, <2>1, NetKept, SameNet DEF StepsOK
  <2>4. /\ StepsOK' /\ Untouched' /\ Contexts' /\ Strangers' /\ InFrame' /\ AllWhole' /\ Answered'
        /\ prog'[Loop] = Tail(p) /\ DOMAIN prog' = Threads
    BY <1>3, <2>1, <2>2, <2>3, LoopGoesOn
  <2>5. TypeOK'
    BY <1>1, <1>3, <2>1, <2>3, <2>4, TypeKept DEF TypeOK
  <2> DEFINE q == Tail(p)
  <2>6. /\ AckDue(q) => AckDue(p)
        /\ \A what : Has(q, what) => Has(p, what)
        /\ Has(p, p[1].do) /\ \A what : Has(p, what) /\ p[1].do # what => Has(q, what)
    <3>1. 1 \in 1 .. Len(p)
      BY <1>1, HeadOf
    <3>2. Has(p, p[1].do)
      BY <3>1 DEF Has
    <3> QED
      BY <1>2, <3>2, OnceOnly
  <2>7. /\ rcv.cmd \in Nat \X Nat /\ rcv.head \in {"net", "host"} /\ rcv.data.ok
        /\ AckDue(p) \/ Has(p, "copy") => rcv.head = "net"
        /\ Has(p, "convert") => rcv.data = Payload(Parts(NameOf(rcv.cmd)), "net")
        /\ Has(p, "call") /\ ~Has(p, "convert") => Range(rcv.data.order) \subseteq {"host"}
    BY <1>1 DEF Treated
  <2> HIDE DEF p, q
  <2>8. CASE s.do = "convert" /\ tms_OTDRConv
    <3>1. ~Has(q, "convert")
      BY <1>2, <2>8, NotAhead DEF q
    <3>2. UNCHANGED <<pgb, seen>> /\ rcv' = [rcv EXCEPT !.data = Convert(rcv.data, Parts(NameOf(rcv.cmd)))]
      BY <2>8 DEF tms_OTDRConv
    <3>3. rcv.data = Payload(Parts(NameOf(rcv.cmd)), "net")
      BY <1>2, <2>6, <2>7, <2>8
    <3>4. rcv'.data.ok /\ Range(rcv'.data.order) \subseteq {"host"} /\ rcv'.head = rcv.head
      BY <3>2, <3>3, Converted
    <3>5. Treated'
      BY <2>2, <2>4, <2>6, <2>7, <3>1, <3>4 DEF Treated, q
    <3> QED
      BY <1>1, <1>3, <2>4, <2>5, <3>2, <3>5, OrdersKept DEF TmsInv
  <2>9. CASE s.do = "call" /\ OnCommand
    <3>1. ~Has(p, "convert")
      BY <1>2, <2>9, NotAhead DEF q
    <3>2. UNCHANGED <<pgb, rcv>> /\ seen' = Range(rcv.data.order)
      BY <2>9 DEF OnCommand
    <3>3. seen' \subseteq {"host"}
      BY <1>2, <2>6, <2>7, <2>9, <3>1, <3>2
    <3>4. Orders'
      BY <1>1, <1>3, <3>2, <3>3 DEF Orders
    <3>5. Treated'
      BY <2>4, <2>6, <2>7, <3>1, <3>2, <3>3 DEF Treated, q
    <3> QED
      BY <2>4, <2>5, <3>4, <3>5 DEF TmsInv
  <2>10. CASE s.do = "copy" /\ tms_Copy2Use
    <3>1. ~AckDue(q) /\ \A what \in {"copy", "convert", "call"} : ~Has(q, what)
      BY <1>2, <2>10, NotAhead DEF q
    <3>2. UNCHANGED seen /\ pgb' = Htonl(rcv.head) /\ rcv' = [rcv EXCEPT !.head = Htonl(rcv.head)]
      BY <2>10 DEF tms_Copy2Use
    <3>3. rcv.head = "net"
      BY <1>2, <2>6, <2>7, <2>10
    <3>4. pgb' = "host" /\ rcv'.head \in {"net", "host"} /\ rcv'.data = rcv.data
      BY <3>2, <3>3 DEF Htonl
    <3>5. Orders'
      BY <1>1, <1>3, <3>2, <3>4 DEF Orders
    <3>6. Treated'
      BY <2>2, <2>4, <2>7, <3>1, <3>4 DEF Treated, q
    <3> QED
      BY <2>4, <2>5, <3>5, <3>6 DEF TmsInv
  <2> QED
    BY <1>5, <2>8, <2>9, <2>10
<1> QED
  BY <1>4, <1>5 DEF LoopStep

-----------------------------------------------------------------------------
(* Sending                                                                 *)

\* The data a thread sends: their byte order and how many values they say they are.
LEMMA DataSent ==
  ASSUME TmsInv, NEW t \in Threads, ~Idle(t), prog[t][1].do = "send", prog[t][1].part \in {"data", "rest"}
  PROVE  LET x == DataOf(t, prog[t][1]) IN
         /\ x \in PieceData /\ x.order = "net" /\ (x.said = x.held \/ x.said > 8)
         /\ prog[t][1].what = "ack" => t = Loop /\ x.cmd = rcv.cmd
<1> DEFINE s == prog[t][1]
           x == DataOf(t, s)
<1>1. /\ Treated /\ 1 \in 1 .. Len(prog[t]) /\ (t = Loop => LoopSteps(prog[t]))
      /\ (t # Loop => AppSteps(prog[t]) /\ t \in Apps)
  BY HeadOf DEF TmsInv
<1>2. CASE t # Loop
  <2>1. s.what \in Senders /\ s.what # "ack"
    BY <1>1, <1>2 DEF AppSteps, Senders
  <2>2. op[t] \in Ops \cup {[name |-> "none", n |-> 0]}
    BY <1>1, <1>2 DEF TmsInv, TypeOK
  <2>3. op[t].n \in Nat
    BY <2>2, TmsServerAssumption
  <2>4. PICK o : o = op[t]
    OBVIOUS
  <2>5. Content(o).order = "net" /\ Content(o).said \in Nat /\ Content(o).held \in Nat
        /\ (Content(o).said = Content(o).held \/ Content(o).said > 8)
    BY <2>3, <2>4 DEF Content, Htonl
  <2>6. x = [cmd |-> <<0, 0>>, order |-> Content(o).order, said |-> Content(o).said, held |-> Content(o).held]
    BY <1>2, <2>1, <2>4 DEF DataOf
  <2> QED
    BY <2>1, <2>5, <2>6 DEF PieceData
<1>3. CASE t = Loop /\ s.what # "ack"
  <2>1. x = [cmd |-> <<0, 0>>, order |-> "net", said |-> 1, held |-> 1]
    BY <1>3 DEF DataOf
  <2> QED
    BY <1>3, <2>1 DEF PieceData
<1>4. CASE t = Loop /\ s.what = "ack"
  <2>1. s.part = "data"
    BY <1>1, <1>4 DEF LoopSteps
  <2>2. AckDue(prog[Loop])
    BY <1>1, <1>4, <2>1 DEF AckDue
  <2>3. rcv.head = "net" /\ rcv.cmd \in Nat \X Nat
    BY <1>1, <2>2 DEF Treated
  <2>4. x = [cmd |-> rcv.cmd, order |-> "net", said |-> 1, held |-> 1]
    BY <1>4, <2>3 DEF DataOf, Htonl
  <2> QED
    BY <1>4, <2>3, <2>4 DEF PieceData
<1> QED
  BY <1>2, <1>3, <1>4

\* The acknowledgements once one more piece is on a connection.
AcksIn(sent) == {i \in DOMAIN sent : sent[i].what = "ack" /\ sent[i].part = "data"}

LEMMA AcksGrow ==
  ASSUME NEW sent \in Seq(Pieces), NEW x \in Pieces
  PROVE  LET A == AcksIn(sent)
             B == AcksIn(Append(sent, x))
         IN  /\ IF x.what = "ack" /\ x.part = "data"
                THEN B = A \cup {Len(sent) + 1} /\ Cardinality(B) = Cardinality(A) + 1 ELSE B = A
             /\ \A i \in A : {j \in B : j <= i} = {j \in A : j <= i}
             /\ Cardinality(A) \in Nat /\ (\A j \in B : j <= Len(sent) + 1)
             /\ A \subseteq 1 .. Len(sent)
<1> DEFINE A == AcksIn(sent)
           B == AcksIn(Append(sent, x))
<1> SUFFICES /\ IF x.what = "ack" /\ x.part = "data"
                THEN B = A \cup {Len(sent) + 1} /\ Cardinality(B) = Cardinality(A) + 1 ELSE B = A
             /\ \A i \in A : {j \in B : j <= i} = {j \in A : j <= i}
             /\ Cardinality(A) \in Nat /\ (\A j \in B : j <= Len(sent) + 1)
             /\ A \subseteq 1 .. Len(sent)
  OBVIOUS
<1>A. /\ A = {i \in DOMAIN sent : sent[i].what = "ack" /\ sent[i].part = "data"}
      /\ B = {i \in DOMAIN Append(sent, x) : Append(sent, x)[i].what = "ack" /\ Append(sent, x)[i].part = "data"}
  BY DEF AcksIn
<1> HIDE DEF A, B
<1> DEFINE more == Append(sent, x)
           n == Len(sent)
<1>1. /\ n \in Nat /\ Len(more) = n + 1 /\ more[n + 1] = x
      /\ \A i \in 1 .. n : more[i] = sent[i]
      /\ DOMAIN sent = 1 .. n /\ DOMAIN more = 1 .. n + 1
  BY OneMore
<1> HIDE DEF more, n
<1>2. A \subseteq 1 .. n /\ IsFiniteSet(A) /\ Cardinality(A) \in Nat
  <2>1. A \subseteq 1 .. n
    BY <1>1, <1>A
  <2>2. IsFiniteSet(1 .. n)
    <3>1. 1 \in Int /\ n \in Int
      BY <1>1
    <3> QED
      BY <3>1, FS_Interval
  <2>3. IsFiniteSet(A)
    BY <2>1, <2>2, FS_Subset
  <2> QED
    BY <2>1, <2>3, FS_CardinalityType
<1>3. \A i \in 1 .. n + 1 : i = n + 1 \/ i \in 1 .. n
  BY <1>1
<1>4. \A i \in 1 .. n : i \in 1 .. n + 1
  BY <1>1
<1>5. n + 1 \in 1 .. n + 1
  BY <1>1
<1>6. CASE x.what = "ack" /\ x.part = "data"
  <2>1. B = A \cup {n + 1}
    BY <1>A, <1>1, <1>3, <1>4, <1>5, <1>6 DEF more
  <2>2. n + 1 \notin A
    BY <1>1, <1>2
  <2>3. Cardinality(B) = Cardinality(A) + 1
    BY <1>2, <2>1, <2>2, FS_AddElement
  <2>4. \A i \in A : ~(n + 1 <= i)
    BY <1>1, <1>2
  <2>5. \A i \in A : {j \in B : j <= i} = {j \in A : j <= i}
    BY <2>1, <2>4
  <2>6. \A j \in B : j <= n + 1
    BY <1>1, <1>2, <2>1
  <2> QED
    BY <1>2, <1>6, <2>1, <2>3, <2>5, <2>6 DEF n
<1>7. CASE ~(x.what = "ack" /\ x.part = "data")
  <2>1. B = A
    BY <1>A, <1>1, <1>3, <1>4, <1>7 DEF more
  <2>2. \A j \in B : j <= n + 1
    BY <1>1, <1>2, <2>1
  <2> QED
    BY <1>2, <1>7, <2>1, <2>2 DEF n
<1> QED
  BY <1>6, <1>7

LEMMA WantedNext ==
  ASSUME NEW t, NEW c, NEW r, prog'[t] = r, ctx'[t].to = c
  PROVE  Wanted(t, c)' = IF r # <<>> /\ r[1].do = "send" THEN r[1].part ELSE "tag"
BY DEF Wanted

\* send() takes a piece for the connection c.
LEMMA SentKeeps ==
  ASSUME TmsInv, NEW t \in Threads, ~Idle(t), prog[t][1].do = "send",
         NEW c, c = On(ctx[t].fd), c # 0, peer[c] \in {"up", "closed"},
         prog' = [prog EXCEPT ![t] = Tail(prog[t])],
         wire' = [wire EXCEPT ![c][t] = Append(wire[c][t], Sent(t, prog[t][1]))],
         peer' = [peer EXCEPT ![c] = IF peer[c] = "closed" THEN "reset" ELSE peer[c]],
         UNCHANGED <<desc, nodes, made, ctx, apps, data, setting, process>>
  PROVE  TmsInv'
<1> DEFINE p == prog[t]
           q == Tail(p)
           s == p[1]
           x == Sent(t, s)
           to == ctx[t].to
<1>1. TypeOK /\ StepsOK /\ Untouched /\ Contexts /\ Strangers /\ InFrame /\ AllWhole /\ Treated /\ Orders /\ Answered
  BY DEF TmsInv
<1>2. UNCHANGED <<locked, op, ops>> /\ UNCHANGED <<rcv, asked, cmds, pgb, seen>>
  BY DEF apps, data
<1>3. /\ p \in Seq(Steps) /\ Rest(q, p, 1) /\ Going(p) /\ s \in Steps
      /\ (t = Loop => LoopSteps(p) /\ Rising(p)) /\ (t # Loop => AppSteps(p) /\ t \in Apps)
  BY HeadOf
<1>4. c \in Conns /\ Open(c) /\ to \in Conns \cup {0}
  <2>1. ctx[t].fd \in Fds /\ desc[ctx[t].fd] = c
    BY DEF On
  <2> QED
    BY <1>1, <2>1 DEF TypeOK, Open
<1>5. s.part \in PartNames /\ s.what \in Whats
  BY <1>3 DEF Steps, SendSteps, OtherSteps
<1>6. x = [part |-> s.part, what |-> s.what, to |-> to, data |-> x.data]
      /\ x.data = IF s.part \in {"data", "rest"} THEN DataOf(t, s) ELSE <<>>
  BY DEF Sent
<1>7. /\ s.part \in {"data", "rest"} =>
           /\ x.data \in PieceData /\ x.data.order = "net" /\ (x.data.said = x.data.held \/ x.data.said > 8)
           /\ s.what = "ack" => t = Loop /\ x.data.cmd = rcv.cmd
  BY <1>6, DataSent
<1>8. x \in Pieces /\ x.part = s.part /\ x.what = s.what /\ x.to = to
  BY <1>4, <1>5, <1>6, <1>7 DEF Pieces
<1> HIDE DEF x
<1>9. /\ wire'[c][t] = Append(wire[c][t], x) /\ wire[c][t] \in Seq(Pieces)
      /\ \A d \in Conns, u \in Threads : d # c \/ u # t => wire'[d][u] = wire[d][u]
      /\ wire' \in [Conns -> [Threads -> Seq(Pieces)]]
  <2>1. wire \in [Conns -> [Threads -> Seq(Pieces)]]
    BY <1>1 DEF StepsOK
  <2>2. Append(wire[c][t], x) \in Seq(Pieces) /\ wire[c][t] \in Seq(Pieces)
    BY <1>4, <1>8, <2>1
  <2> QED
    BY <1>4, <2>1, <2>2 DEF x
<1>10. /\ peer' \in [Conns -> {"none", "up", "closed", "reset"}]
       /\ \A d \in Conns : peer'[d] = "none" <=> peer[d] = "none"
  <2>1. peer \in [Conns -> {"none", "up", "closed", "reset"}]
    BY <1>1 DEF TypeOK
  <2> QED
    BY <1>4, <2>1
<1>11. Closing /\ \A d : Open(d)' = Open(d)
  BY <1>1, <1>10 DEF TypeOK, Closing, Open
<1>12. /\ ProgOK' /\ Contexts'
       /\ prog'[t] = q /\ \A u \in Threads : u # t => prog'[u] = prog[u]
  BY <1>3, <1>11, ProgMoves
<1>13. \A d \in Conns : to = d /\ Open(d) => d = c
  BY <1>1, <1>4 DEF Contexts, Conns
<1>14. TypeOK'
  <2>1. NetOK' /\ made' \subseteq Conns /\ locked' \subseteq Apps /\ process' \in {"runs", "killed", "wild"}
        /\ ctx' \in [Threads -> [fd : Fds \cup {0}, to : Conns \cup {0}]]
    BY <1>1, <1>2, NetKept DEF TypeOK
  <2>2. DOMAIN wire' = Conns /\ DOMAIN prog' = Threads
    BY <1>9, <1>12 DEF ProgOK
  <2> QED
    BY <1>1, <1>2, <1>10, <2>1, <2>2, TypeKept
<1>15. StepsOK'
  BY <1>1, <1>2, <1>9, <1>12 DEF StepsOK, ProgOK
<1>16. Untouched'
  <2>1. peer[c] # "none"
    OBVIOUS
  <2>2. \A f \in Fds : desc[f] \in Conns \cup {0}
    BY <1>1 DEF TypeOK
  <2> QED
    BY <1>1, <1>2, <1>9, <1>10, <2>1, <2>2 DEF Untouched
<1>17. Strangers'
  <2>1. SUFFICES ASSUME NEW d \in Conns, NEW u \in Threads, NEW i \in 1 .. Len(wire'[d][u]), wire'[d][u][i].to # d
                 PROVE  u # Loop /\ (wire'[d][u][i].to = 0 \/ (~Open(wire'[d][u][i].to) /\ peer'[wire'[d][u][i].to] # "none"))
    BY <1>11 DEF Strangers
  <2>2. CASE i \in 1 .. Len(wire[d][u]) /\ wire'[d][u][i] = wire[d][u][i]
    <3>1. wire[d][u][i].to \in Conns \cup {0}
      BY <1>1, <2>2, SentTyped DEF Pieces
    <3>2. PICK y : y = wire[d][u][i]
      OBVIOUS
    <3>3. y.to # d => u # Loop /\ (y.to = 0 \/ (~Open(y.to) /\ peer[y.to] # "none"))
      BY <1>1, <2>2, <3>2 DEF Strangers
    <3>4. wire'[d][u][i] = y /\ y.to # d /\ y.to \in Conns \cup {0}
      BY <2>1, <2>2, <3>1, <3>2
    <3>5. \A k \in Conns : peer[k] # "none" => peer'[k] # "none"
      BY <1>10
    <3> QED
      BY <3>3, <3>4, <3>5
  <2>3. CASE d = c /\ u = t /\ wire'[d][u][i] = x
    <3>1. to # c /\ x.to = to
      BY <1>8, <2>1, <2>3
    <3>2. t # Loop
      BY <1>1, <3>1 DEF Contexts
    <3>3. to # 0 => peer[to] # "none" /\ ~Open(to)
      BY <1>1, <1>4, <1>13, <3>1 DEF Contexts
    <3> QED
      BY <1>4, <1>10, <2>3, <3>1, <3>2, <3>3
  <2>4. CASE d # c \/ u # t
    BY <1>9, <2>2, <2>4
  <2>5. d = c /\ u = t => (i \in 1 .. Len(wire[d][u]) /\ wire'[d][u][i] = wire[d][u][i]) \/ wire'[d][u][i] = x
    BY <1>8, <1>9, OneMore
  <2> QED
    BY <2>2, <2>3, <2>4, <2>5
<1>18. to # c => Wanted(t, c) = "tag" /\ Wanted(t, c)' = "tag"
  BY DEF Wanted
<1>19. InFrame'
  <2>1. SUFFICES ASSUME NEW d \in Conns, NEW u \in Threads, Open(d) PROVE Expects(wire'[d][u], d, Wanted(u, d)')
    BY <1>11 DEF InFrame
  <2>2. Expects(wire[d][u], d, Wanted(u, d))
    BY <1>1, <2>1 DEF InFrame
  <2>3. CASE u # t
    <3>1. Wanted(u, d)' = Wanted(u, d)
      BY <1>12, <2>3 DEF Wanted
    <3> QED
      BY <1>9, <2>2, <2>3, <3>1
  <2>4. CASE u = t /\ d # c
    <3>1. to # d
      BY <1>13, <2>1, <2>4
    <3>2. Wanted(u, d)' = Wanted(u, d)
      BY <2>4, <3>1 DEF Wanted
    <3> QED
      BY <1>9, <2>2, <2>4, <3>2
  <2>5. CASE u = t /\ d = c /\ to # c
    BY <1>8, <1>9, <1>18, <2>2, <2>5, ForOthers
  <2>6. CASE u = t /\ d = c /\ to = c
    <3>1. Wanted(t, c)' = IF q # <<>> /\ q[1].do = "send" THEN q[1].part ELSE "tag"
      <4>1. prog'[t] = q /\ ctx'[t].to = c
        BY <1>12, <2>6
      <4> HIDE DEF q
      <4> QED
        BY <4>1, WantedNext
    <3>2. CASE s.part = "tail"
      <4>1. Begins(q)
        BY <1>3, <3>2, RestBegins
      <4>2. Wanted(t, c)' = "tag"
        BY <3>1, <4>1 DEF Begins
      <4>3. "tag" \in After[s.part]
        BY <3>2 DEF After
      <4> QED
        <5>1. Expects(Append(wire[c][t], x), c, "tag")
          BY <1>8, <1>9, <2>6, <4>3, ForThisOne
        <5> QED
          BY <1>9, <2>6, <4>2, <5>1
    <3>3. CASE s.part # "tail"
      <4>1. Wanted(t, c)' \in After[s.part]
        BY <1>3, <3>1, <3>3, RestFollows
      <4> QED
        <5>1. PICK w : w = Wanted(t, c)'
          OBVIOUS
        <5>2. w \in After[x.part] /\ x.to = c
          BY <1>8, <2>6, <4>1, <5>1
        <5>3. Expects(Append(wire[c][t], x), c, w)
          BY <1>8, <1>9, <5>2, ForThisOne
        <5> QED
          BY <1>9, <2>6, <5>1, <5>3
    <3> QED
      BY <3>2, <3>3
  <2> QED
    BY <2>3, <2>4, <2>5, <2>6
<1>20. AllWhole'
  <2>1. SUFFICES ASSUME NEW d \in Conns, NEW u \in Threads PROVE Whole(wire'[d][u], d)
    BY DEF AllWhole
  <2>2. Whole(wire[d][u], d)
    BY <1>1 DEF AllWhole
  <2>3. CASE d # c \/ u # t
    BY <1>9, <2>2, <2>3
  <2>4. CASE d = c /\ u = t /\ to # c
    <3>1. wire[d][u] \in Seq(Pieces) /\ x \in Pieces /\ x.to # d
      BY <1>8, <1>9, <2>4
    <3>2. wire'[d][u] = Append(wire[d][u], x)
      BY <1>9, <2>4
    <3>3. Whole(Append(wire[d][u], x), d)
      BY <2>2, <3>1, ForOthers
    <3> QED
      BY <3>2, <3>3
  <2>5. CASE d = c /\ u = t /\ to = c
    <3>1. Wanted(t, c) = s.part
      BY <1>3, <2>5 DEF Wanted, Idle
    <3>2. Expects(wire[c][t], c, x.part)
      BY <1>1, <1>4, <1>8, <3>1 DEF InFrame
    <3> QED
      BY <1>8, <1>9, <2>2, <2>5, <3>2, ForThisOne
  <2> QED
    BY <2>3, <2>4, <2>5
<1>21. Treated'
  <2>1. CASE t # Loop
    <3>1. prog'[Loop] = prog[Loop]
      BY <1>12, <2>1 DEF Threads
    <3> QED
      BY <1>1, <1>2, <3>1 DEF Treated
  <2>2. CASE t = Loop
    <3>1. prog'[Loop] = q /\ (AckDue(q) => AckDue(p)) /\ \A what : Has(q, what) => Has(p, what)
      BY <1>3, <1>12, <2>2, OnceOnly
    <3>2. Has(p, "convert") => Has(q, "convert")
      BY <1>3, <2>2, OnceOnly
    <3> QED
      BY <1>1, <1>2, <2>2, <3>1, <3>2 DEF Treated
  <2> QED
    BY <2>1, <2>2
<1>22. Orders'
  <2>1. SUFFICES ASSUME NEW d \in Conns, NEW u \in Threads, NEW i \in 1 .. Len(wire'[d][u]),
                        wire'[d][u][i].part \in {"data", "rest"}
                 PROVE  LET y == wire'[d][u][i].data IN
                        y \in PieceData /\ y.order = "net" /\ (y.said = y.held \/ y.said > 8)
    BY <1>1, <1>2 DEF Orders
  <2>2. CASE i \in 1 .. Len(wire[d][u]) /\ wire'[d][u][i] = wire[d][u][i]
    <3>1. PICK y : y = wire[d][u][i]
      OBVIOUS
    <3>2. y.part \in {"data", "rest"} =>
            y.data \in PieceData /\ y.data.order = "net" /\ (y.data.said = y.data.held \/ y.data.said > 8)
      BY <1>1, <2>2, <3>1 DEF Orders
    <3>3. wire'[d][u][i] = y
      BY <2>2, <3>1
    <3> QED
      BY <2>1, <3>2, <3>3
  <2>3. CASE wire'[d][u][i] = x
    BY <1>7, <1>8, <2>1, <2>3
  <2>4. CASE d # c \/ u # t
    BY <1>9, <2>2, <2>4
  <2>5. d = c /\ u = t => (i \in 1 .. Len(wire[d][u]) /\ wire'[d][u][i] = wire[d][u][i]) \/ wire'[d][u][i] = x
    BY <1>8, <1>9, OneMore
  <2> QED
    BY <2>2, <2>3, <2>4, <2>5
<1>23. Answered'
  <2>1. CASE t # Loop
    <3>1. prog'[Loop] = prog[Loop] /\ \A d \in Conns : wire'[d][Loop] = wire[d][Loop]
      BY <1>9, <1>12, <2>1 DEF Threads
    <3>2. \A d \in Conns : Acks(d)' = Acks(d)
      BY <3>1 DEF Acks
    <3>3. \A d \in Conns : \A i : Nth(d, i)' = Nth(d, i)
      BY <3>2 DEF Nth
    <3>4. SUFFICES ASSUME NEW d \in Conns PROVE AnsweredOn(d)'
      BY DEF Answered
    <3>5. AnsweredOn(d)
      BY <1>1 DEF Answered
    <3> QED
      BY <1>2, <1>11, <3>1, <3>2, <3>3, <3>5 DEF AnsweredOn
  <2>2. CASE t = Loop
    <3>1. to = c
      BY <1>1, <2>2 DEF Contexts
    <3>2. prog'[Loop] = q /\ prog[Loop] = p
      BY <1>12, <2>2
    <3>a. SUFFICES ASSUME NEW d \in Conns PROVE AnsweredOn(d)'
      BY DEF Answered
    <3>3. SUFFICES
            /\ \A i \in Acks(d)' : /\ Nth(d, i)' \in DOMAIN asked[d]
                                   /\ wire'[d][Loop][i].data.cmd = asked[d][Nth(d, i)']
                                   /\ wire'[d][Loop][i].data.order = "net"
            /\ Open(d) => IF AckDue(q) /\ to = d
                          THEN Len(asked[d]) = Cardinality(Acks(d)') + 1 /\ asked[d][Len(asked[d])] = rcv.cmd
                          ELSE Len(asked[d]) = Cardinality(Acks(d)')
      BY <1>2, <1>11, <2>2, <3>2 DEF AnsweredOn
    <3>4. /\ \A i \in Acks(d) : /\ Nth(d, i) \in DOMAIN asked[d] /\ wire[d][Loop][i].data.cmd = asked[d][Nth(d, i)]
                                /\ wire[d][Loop][i].data.order = "net"
          /\ Open(d) => IF AckDue(p) /\ to = d
                        THEN Len(asked[d]) = Cardinality(Acks(d)) + 1 /\ asked[d][Len(asked[d])] = rcv.cmd
                        ELSE Len(asked[d]) = Cardinality(Acks(d))
      BY <1>1, <2>2 DEF Answered, AnsweredOn
    <3>5. CASE d # c
      <4>1. Acks(d)' = Acks(d) /\ wire'[d][Loop] = wire[d][Loop]
        BY <1>9, <3>5, <2>2 DEF Acks
      <4>2. \A i : Nth(d, i)' = Nth(d, i)
        BY <4>1 DEF Nth
      <4> QED
        BY <3>1, <3>4, <3>5, <4>1, <4>2
    <3>6. CASE d = c
      <4> DEFINE sent == wire[c][Loop]
                 A == Acks(c)
                 B == Acks(c)'
                 n == Len(sent)
      <4>1. A = AcksIn(sent) /\ B = AcksIn(Append(sent, x)) /\ sent \in Seq(Pieces)
        <5>1. A = AcksIn(sent)
          BY DEF Acks, AcksIn
        <5>2. B = AcksIn(wire'[c][Loop])
          BY DEF Acks, AcksIn
        <5>3. wire'[c][Loop] = Append(sent, x) /\ sent \in Seq(Pieces)
          BY <1>9, <2>2
        <5> QED
          BY <5>1, <5>2, <5>3
      <4>2. /\ IF x.what = "ack" /\ x.part = "data"
               THEN B = A \cup {n + 1} /\ Cardinality(B) = Cardinality(A) + 1 ELSE B = A
            /\ \A i \in A : {j \in B : j <= i} = {j \in A : j <= i}
            /\ Cardinality(A) \in Nat /\ (\A j \in B : j <= n + 1) /\ A \subseteq 1 .. n
        <5> HIDE DEF A, B, sent
        <5> QED
          BY <1>8, <4>1, AcksGrow DEF n
      <4>3. /\ \A i \in A : Nth(c, i)' = Nth(c, i)
            /\ \A i \in 1 .. n : wire'[c][Loop][i] = wire[c][Loop][i]
            /\ wire'[c][Loop][n + 1] = x
        <5>1. \A i \in A : Nth(c, i)' = Nth(c, i)
          BY <4>2 DEF Nth
        <5>2. \A i \in 1 .. n : wire'[c][Loop][i] = wire[c][Loop][i] /\ wire'[c][Loop][n + 1] = x
          BY <1>8, <1>9, <2>2, OneMore
        <5>3. wire'[c][Loop][n + 1] = x
          BY <1>8, <1>9, <2>2, OneMore
        <5> QED
          BY <5>1, <5>2, <5>3
      <4>4. Open(c) /\ to = c
        BY <1>4, <3>1
      <4>7. ASSUME NEW i \in A
            PROVE  /\ Nth(c, i)' \in DOMAIN asked[c] /\ wire'[c][Loop][i].data.cmd = asked[c][Nth(c, i)']
                   /\ wire'[c][Loop][i].data.order = "net"
        <5>1. i \in Acks(c) /\ i \in 1 .. n
          BY <4>2
        <5>2. Nth(c, i)' = Nth(c, i) /\ wire'[c][Loop][i] = wire[c][Loop][i]
          BY <4>3, <5>1
        <5>3. /\ Nth(c, i) \in DOMAIN asked[c] /\ wire[c][Loop][i].data.cmd = asked[c][Nth(c, i)]
              /\ wire[c][Loop][i].data.order = "net"
          BY <3>4, <3>6, <5>1
        <5> QED
          BY <5>2, <5>3
      <4>5. CASE ~(x.what = "ack" /\ x.part = "data")
        <5>1. AckDue(q) <=> AckDue(p)
          BY <1>3, <1>8, <2>2, <4>5, OnceOnly
        <5>2. B = A
          BY <4>2, <4>5
        <5>3. \A i \in B : /\ Nth(c, i)' \in DOMAIN asked[c] /\ wire'[c][Loop][i].data.cmd = asked[c][Nth(c, i)']
                           /\ wire'[c][Loop][i].data.order = "net"
          BY <4>7, <5>2
        <5>4. Open(c) => IF AckDue(q) /\ to = c
                         THEN Len(asked[c]) = Cardinality(B) + 1 /\ asked[c][Len(asked[c])] = rcv.cmd
                         ELSE Len(asked[c]) = Cardinality(B)
          BY <3>4, <3>6, <5>1, <5>2
        <5> QED
          BY <3>6, <5>3, <5>4
      <4>6. CASE x.what = "ack" /\ x.part = "data"
        <5>1. AckDue(p) /\ ~AckDue(q)
          <6>1. 1 \in 1 .. Len(p)
            BY HeadOf
          <6> QED
            BY <1>3, <1>8, <2>2, <4>6, <6>1, NotAhead DEF AckDue
        <5>2. Len(asked[c]) = Cardinality(A) + 1 /\ asked[c][Len(asked[c])] = rcv.cmd
          BY <3>4, <3>6, <4>4, <5>1
        <5>0. PICK m : m = n + 1
          OBVIOUS
        <5>3. Nth(c, m)' = Cardinality(B)
          <6>1. {j \in B : j <= m} = B
            BY <4>2, <5>0
          <6> QED
            BY <6>1 DEF Nth
        <5>4. Cardinality(B) = Cardinality(A) + 1 /\ B = A \cup {n + 1}
          BY <4>2, <4>6
        <5>5. Cardinality(B) \in DOMAIN asked[c] /\ asked[c] \in Seq(Nat \X Nat)
          <6>1. asked[c] \in Seq(Nat \X Nat)
            BY <1>1, <1>4 DEF StepsOK
          <6>2. DOMAIN asked[c] = 1 .. Len(asked[c])
            BY <6>1
          <6> QED
            BY <4>2, <5>2, <5>4, <6>1, <6>2
        <5>6. x.data.cmd = rcv.cmd /\ x.data.order = "net"
          BY <1>7, <1>8, <4>6
        <5>7. \A i \in B : /\ Nth(c, i)' \in DOMAIN asked[c] /\ wire'[c][Loop][i].data.cmd = asked[c][Nth(c, i)']
                           /\ wire'[c][Loop][i].data.order = "net"
          <6>2. /\ Nth(c, m)' \in DOMAIN asked[c] /\ wire'[c][Loop][m].data.cmd = asked[c][Nth(c, m)']
                /\ wire'[c][Loop][m].data.order = "net"
            <7>1. wire'[c][Loop][m] = x
              BY <4>3, <5>0
            <7>2. Nth(c, m)' = Len(asked[c])
              BY <5>2, <5>3, <5>4
            <7>3. asked[c][Nth(c, m)'] = rcv.cmd
              BY <5>2, <7>2
            <7> QED
              BY <5>3, <5>5, <5>6, <7>1, <7>3
          <6>3. \A i \in B : i \in A \/ i = m
            BY <5>0, <5>4
          <6> QED
            BY <4>7, <6>2, <6>3
        <5> QED
          BY <3>6, <5>1, <5>2, <5>4, <5>7
      <4> QED
        BY <4>5, <4>6
    <3> QED
      BY <3>5, <3>6
  <2> QED
    BY <2>1, <2>2
<1> QED
  BY <1>12, <1>14, <1>15, <1>16, <1>17, <1>19, <1>20, <1>21, <1>22, <1>23 DEF TmsInv

LEMMA SendKeeps ==
  ASSUME TmsInv, NEW t \in Threads, ~Idle(t), process = "runs", SendStep(t, Head(prog[t]))
  PROVE  TmsInv'
<1> DEFINE c == On(ctx[t].fd)
           p == prog[t]
<1>1. /\ p \in Seq(Steps) /\ p # <<>> /\ Head(p) = p[1] /\ Going(p)
      /\ (t = Loop => LoopSteps(p) /\ 1 \in 1 .. Len(p))
  BY HeadOf
<1>2. /\ p[1].do = "send" /\ glink_SendSerial(t, p[1]) /\ UNCHANGED <<desc, nodes, made, ctx, apps, data, setting>>
  BY <1>1 DEF SendStep
<1>3. TypeOK /\ UNCHANGED <<op, ops, locked>> /\ locked' \subseteq Apps
  BY <1>2 DEF apps, TmsInv, TypeOK
<1>4. CASE c = 0 /\ prog' = [prog EXCEPT ![t] = Failed(p)] /\ UNCHANGED <<wire, peer, process>>
  <2>1. PICK k \in 1 .. Len(p) : Rest(Failed(p), p, k) /\ (p[1].whole => \A j \in 1 .. k : p[j].do = "send")
    BY <1>1, <1>2, FailedIsRest
  <2>2. Unheard(t)
    BY <1>4 DEF Unheard, TmsInv, Contexts, Conns
  <2>3. t = Loop => (Unheard(Loop) /\ \A j \in 1 .. k : p[j].do = "send")
    BY <1>1, <1>2, <2>1, <2>2 DEF LoopSteps
  <2>4. UNCHANGED <<net, wire, ctx, op, ops, data, setting>> /\ process' \in {"runs", "killed", "wild"}
    BY <1>2, <1>3, <1>4 DEF net
  <2> QED
    BY <1>3, <1>4, <2>1, <2>2, <2>3, <2>4, MovesOn
<1>5. CASE /\ c # 0 /\ peer[c] \in {"up", "closed"}
           /\ prog' = [prog EXCEPT ![t] = Tail(p)]
           /\ wire' = [wire EXCEPT ![c][t] = Append(wire[c][t], Sent(t, p[1]))]
           /\ peer' = [peer EXCEPT ![c] = IF peer[c] = "closed" THEN "reset" ELSE peer[c]]
           /\ UNCHANGED process
  BY <1>2, <1>5, SentKeeps
<1>6. CASE c # 0 /\ peer[c] = "reset" /\ process' = "killed" /\ UNCHANGED <<wire, peer, prog>>
  BY <1>2, <1>3, <1>6, NothingMoves DEF net
<1> QED
  BY <1>2, <1>4, <1>5, <1>6 DEF glink_SendSerial

LEMMA StepKeeps ==
  ASSUME TmsInv, process = "runs", NEW t \in Threads, Step(t)
  PROVE  TmsInv'
BY SendKeeps, LockKeeps, CheckKeeps, LoopKeeps DEF Step

-----------------------------------------------------------------------------
(* The ends of the connections                                             *)

LEMMA ClosingOnly ==
  ASSUME TmsInv, Closing, NetOK', nodes' \in Seq(Conns), peer' \in [Conns -> {"none", "up", "closed", "reset"}],
         UNCHANGED <<made, wire, prog, ctx, apps, data, setting, process>>
  PROVE  TmsInv'
<1>1. TypeOK /\ StepsOK /\ Contexts /\ InFrame /\ Treated /\ Orders
  BY DEF TmsInv
<1>2. UNCHANGED <<locked, op, ops>> /\ UNCHANGED <<rcv, asked, cmds, pgb, seen>>
  BY DEF apps, data
<1>3. Untouched' /\ Strangers' /\ AllWhole'
  BY <1>2, ClosingKeeps
<1>4. TypeOK'
  BY <1>1, <1>2, TypeKept DEF TypeOK
<1>5. StepsOK' /\ Treated' /\ Orders'
  BY <1>1, <1>2, OrdersKept DEF StepsOK, Treated
<1>6. Answered'
  BY <1>2, AnsweredKept
<1>7. Contexts'
  BY <1>1, ContextsKept DEF Idle
<1>8. InFrame'
  BY <1>1, StayClosed DEF InFrame, Wanted
<1> QED
  BY <1>3, <1>4, <1>5, <1>6, <1>7, <1>8 DEF TmsInv

LEMMA ShellKeeps ==
  ASSUME TmsInv, ShellClose, UNCHANGED process
  PROVE  TmsInv'
<1>1. PICK f \in Fds : /\ desc[f] # 0 /\ nodes' = RemoveFirst(nodes, desc[f])
                       /\ desc' = [desc EXCEPT ![f] = 0]
  BY DEF ShellClose
<1>2. UNCHANGED <<made, peer, wire, prog, ctx, apps, data, setting>>
  BY DEF ShellClose
<1>3. TypeOK /\ nodes \in Seq(Conns) /\ peer' \in [Conns -> {"none", "up", "closed", "reset"}]
  BY <1>2 DEF TmsInv, StepsOK, TypeOK
<1>4. NetOK' /\ Closing /\ nodes' \in Seq(Conns)
  BY <1>1, <1>2, <1>3, OneClosed
<1> QED
  BY <1>2, <1>3, <1>4, ClosingOnly

LEMMA HostKeeps ==
  ASSUME TmsInv, HostCloses, UNCHANGED process
  PROVE  TmsInv'
<1>1. PICK c \in Conns : peer[c] = "up" /\ peer' = [peer EXCEPT ![c] = "closed"]
  BY DEF HostCloses
<1>2. UNCHANGED <<desc, nodes, made, wire, prog, ctx, apps, data, setting>>
  BY DEF HostCloses
<1>3. TypeOK /\ nodes' \in Seq(Conns) /\ peer \in [Conns -> {"none", "up", "closed", "reset"}]
  BY <1>2 DEF TmsInv, StepsOK, TypeOK
<1>4. NetOK'
  BY <1>2, <1>3, NetKept
<1>5. Closing /\ peer' \in [Conns -> {"none", "up", "closed", "reset"}]
  <2>1. peer' \in [Conns -> {"none", "up", "closed", "reset"}] /\ \A d \in Conns : peer'[d] = "none" <=> peer[d] = "none"
    BY <1>1, <1>3
  <2> QED
    BY <1>2, <1>3, <2>1 DEF Closing, TypeOK
<1> QED
  BY <1>2, <1>3, <1>4, <1>5, ClosingOnly

-----------------------------------------------------------------------------
(* The loop's beginnings                                                   *)

\* The loop takes up work for an open connection.
LEMMA LoopStarts ==
  ASSUME TmsInv, Idle(Loop), NEW c \in made, Open(c), NEW p, Framed(p), Rising(p), LoopSteps(p),
         ctx' = [ctx EXCEPT ![Loop] = [fd |-> FdOf(c), to |-> c]], prog' = [prog EXCEPT ![Loop] = p],
         UNCHANGED <<net, wire, apps, setting, process>>, cmds' \in 0 .. MaxCmds,
         asked' \in [Conns -> Seq(Nat \X Nat)], \A d \in Conns : peer[d] = "none" => asked'[d] = <<>>
  PROVE  /\ TypeOK' /\ StepsOK' /\ Untouched' /\ Contexts' /\ Strangers' /\ InFrame' /\ AllWhole'
         /\ prog'[Loop] = p /\ ctx'[Loop].to = c /\ c \in Conns /\ peer[c] # "none"
<1>1. TypeOK /\ StepsOK /\ Untouched /\ Contexts /\ Strangers /\ InFrame /\ AllWhole /\ Loop \in Threads
  BY DEF TmsInv, Threads
<1>2. UNCHANGED <<desc, nodes, made, peer>> /\ UNCHANGED <<locked, op, ops>>
  BY DEF net, apps
<1>3. c \in Conns /\ c # 0 /\ FdOf(c) \in Fds /\ desc[FdOf(c)] = c
  BY <1>1 DEF TypeOK, Open, FdOf, Conns
<1>4. peer[c] # "none"
  BY <1>1, <1>3 DEF Untouched
<1>5. \A d : (Open(d)' <=> Open(d)) /\ On(d)' = On(d)
  BY <1>2 DEF Open, On
<1>6. /\ prog \in [Threads -> Seq(Steps)] /\ prog' \in [Threads -> Seq(Steps)] /\ prog'[Loop] = p
      /\ \A u \in Threads : u # Loop => prog'[u] = prog[u]
  BY <1>1 DEF StepsOK, Framed
<1>7. /\ ctx' \in [Threads -> [fd : Fds \cup {0}, to : Conns \cup {0}]]
      /\ ctx'[Loop] = [fd |-> FdOf(c), to |-> c]
      /\ \A u \in Threads : u # Loop => ctx'[u] = ctx[u]
  BY <1>1, <1>3 DEF TypeOK
<1>8. Closing /\ NetOK'
  BY <1>1, <1>2, SameNet, NetKept
<1>9. TypeOK'
  BY <1>1, <1>2, <1>6, <1>7, <1>8, TypeFrom DEF TypeOK
<1>10. StepsOK'
  <2>1. Apps \subseteq Threads /\ Loop \notin Apps
    BY TmsServerAssumption DEF Threads
  <2> QED
    BY <1>1, <1>2, <1>6, <2>1 DEF StepsOK, Framed
<1>11. Untouched' /\ Strangers' /\ AllWhole'
  BY <1>1, <1>2, <1>5 DEF Untouched, Strangers, AllWhole
<1>12. Contexts'
  <2>1. ASSUME NEW u \in Threads, ctx'[u].to # 0
        PROVE  peer'[ctx'[u].to] # "none" /\ (Open(ctx[u].to)' => On(ctx[u].fd)' = ctx'[u].to)
    <3>1. CASE u # Loop
      BY <1>1, <1>7, <1>8, <2>1, <3>1, ContextKept
    <3>2. CASE u = Loop
      <4>1. PICK f \in Fds : f = FdOf(c) /\ desc[f] = c
        BY <1>3
      <4>2. ctx'[u].fd = f /\ ctx'[u].to = c
        BY <1>7, <3>2, <4>1
      <4>3. On(f)' = c
        BY <1>2, <4>1 DEF On
      <4>4. On(ctx[u].fd)' = c
        BY <4>2, <4>3 DEF On
      <4> QED
        BY <1>2, <1>4, <4>2, <4>4
    <3> QED
      BY <3>1, <3>2
  <2>2. ctx'[Loop].to # 0 /\ On(ctx[Loop].fd)' \in {0, ctx'[Loop].to}
    BY <1>1, <1>2, <1>3, <1>7 DEF On
  <2> QED
    BY <2>1, <2>2 DEF Contexts
<1>13. InFrame'
  <2>1. SUFFICES ASSUME NEW d \in Conns, NEW u \in Threads, Open(d) PROVE Expects(wire[d][u], d, Wanted(u, d)')
    BY <1>5 DEF InFrame
  <2>2. Expects(wire[d][u], d, Wanted(u, d))
    BY <1>1, <2>1 DEF InFrame
  <2>3. Wanted(u, d)' = Wanted(u, d)
    <3>1. CASE u # Loop
      BY <1>6, <1>7, <3>1 DEF Wanted
    <3>2. CASE u = Loop
      BY <1>6, <1>7, <3>2 DEF Wanted, Idle, Framed, Begins
    <3> QED
      BY <3>1, <3>2
  <2> QED
    BY <2>2, <2>3
<1> QED
  BY <1>3, <1>4, <1>6, <1>7, <1>9, <1>10, <1>11, <1>12, <1>13

\* Steps that are no sends.
LEMMA Quietly ==
  /\ LET p == <<Do("InitSocketStruct")>>
     IN  Framed(p) /\ Rising(p) /\ LoopSteps(p) /\ p[1].do # "send" /\ ~AckDue(p)
         /\ \A what \in {"copy", "convert", "call"} : ~Has(p, what)
  /\ LET p == <<Do("FreeSocketStruct"), Do("ep_DelConNode")>>
     IN  Framed(p) /\ Rising(p) /\ LoopSteps(p) /\ p[1].do # "send" /\ ~AckDue(p)
         /\ \A what \in {"copy", "convert", "call"} : ~Has(p, what)
<1>1. Made(<<Do("InitSocketStruct")>>, {12}) /\ Els(<<Do("InitSocketStruct")>>) = {Do("InitSocketStruct")}
  BY StepMade DEF Rank, Do
<1>2. Made(<<Do("FreeSocketStruct")>>, {12}) /\ Els(<<Do("FreeSocketStruct")>>) = {Do("FreeSocketStruct")}
  BY StepMade DEF Rank, Do
<1>3. Made(<<Do("ep_DelConNode")>>, {13}) /\ Els(<<Do("ep_DelConNode")>>) = {Do("ep_DelConNode")}
  BY StepMade DEF Rank, Do
<1>4. {12} \in SUBSET Nat /\ {13} \in SUBSET Nat /\ \A i \in {12}, j \in {13} : i < j
  OBVIOUS
<1> DEFINE b == Both(<<Do("FreeSocketStruct")>>, <<Do("ep_DelConNode")>>)
<1>5. Made(b, {12} \cup {13}) /\ Els(b) = {Do("FreeSocketStruct")} \cup {Do("ep_DelConNode")}
  BY <1>2, <1>3, <1>4, BothMade
<1>6. b = <<Do("FreeSocketStruct"), Do("ep_DelConNode")>>
  <2>1. ASSUME NEW S, NEW x \in S, NEW y \in S PROVE <<x>> \o <<y>> = <<x, y>>
    <3> DEFINE s == <<x>> \o <<y>>
    <3>1. <<x>> \in Seq(S) /\ <<y>> \in Seq(S) /\ Len(<<x>>) = 1 /\ Len(<<y>>) = 1
          /\ <<x>>[1] = x /\ <<y>>[1] = y
      OBVIOUS
    <3>2. s \in Seq(S) /\ Len(s) = 2 /\ s[1] = x /\ s[2] = y
      BY <3>1, ConcatProperties
    <3>3. <<x, y>> \in Seq(S) /\ Len(<<x, y>>) = 2 /\ <<x, y>>[1] = x /\ <<x, y>>[2] = y
      OBVIOUS
    <3> HIDE DEF s
    <3>4. \A i \in 1 .. 2 : i = 1 \/ i = 2
      OBVIOUS
    <3>5. s = <<x, y>>
      BY <3>2, <3>3, <3>4, SeqEqual
    <3> QED
      BY <3>5 DEF s
  <2>2. Do("FreeSocketStruct") \in Steps /\ Do("ep_DelConNode") \in Steps
    BY DEF Do, Steps, OtherSteps
  <2>3. <<Do("FreeSocketStruct")>> \o <<Do("ep_DelConNode")>> = <<Do("FreeSocketStruct"), Do("ep_DelConNode")>>
    BY <2>1, <2>2
  <2> QED
    BY <2>3 DEF Both
<1>7. ASSUME NEW p, \A s \in Els(p) : s.do \in {"InitSocketStruct", "FreeSocketStruct", "ep_DelConNode"}
      PROVE  ~AckDue(p) /\ \A what \in {"copy", "convert", "call"} : ~Has(p, what)
  BY <1>7 DEF AckDue, Has, Els
<1>8. Do("InitSocketStruct").do = "InitSocketStruct" /\ Do("FreeSocketStruct").do = "FreeSocketStruct"
      /\ Do("ep_DelConNode").do = "ep_DelConNode"
  BY DEF Do
<1>9. ~AckDue(b) /\ \A what \in {"copy", "convert", "call"} : ~Has(b, what)
  <2> HIDE DEF b
  <2>1. \A s \in Els(b) : s.do \in {"InitSocketStruct", "FreeSocketStruct", "ep_DelConNode"}
    BY <1>5, <1>8
  <2> QED
    BY <1>7, <2>1
<1>10. LET p == <<Do("InitSocketStruct")>>
       IN  ~AckDue(p) /\ \A what \in {"copy", "convert", "call"} : ~Has(p, what)
  <2> DEFINE p == <<Do("InitSocketStruct")>>
  <2> HIDE DEF p
  <2>1. \A s \in Els(p) : s.do \in {"InitSocketStruct", "FreeSocketStruct", "ep_DelConNode"}
    BY <1>1, <1>8 DEF p
  <2>2. ~AckDue(p) /\ \A what \in {"copy", "convert", "call"} : ~Has(p, what)
    BY <1>7, <2>1
  <2> QED
    BY <2>2 DEF p
<1>11. <<Do("InitSocketStruct")>>[1].do # "send" /\ <<Do("FreeSocketStruct"), Do("ep_DelConNode")>>[1].do # "send"
  BY <1>8
<1> QED
  BY <1>1, <1>5, <1>6, <1>9, <1>10, <1>11 DEF Made

LEMMA HungUpKeeps ==
  ASSUME TmsInv, HungUp, UNCHANGED process
  PROVE  TmsInv'
<1> DEFINE p == <<Do("FreeSocketStruct"), Do("ep_DelConNode")>>
<1>1. PICK c \in made : Open(c) /\ ctx' = [ctx EXCEPT ![Loop] = [fd |-> FdOf(c), to |-> c]]
  BY DEF HungUp
<1>2. Idle(Loop) /\ prog' = [prog EXCEPT ![Loop] = p] /\ UNCHANGED <<net, wire, apps, data, setting>>
  BY DEF HungUp
<1>3. /\ Framed(p) /\ Rising(p) /\ LoopSteps(p) /\ p[1].do # "send" /\ ~AckDue(p)
      /\ \A what \in {"copy", "convert", "call"} : ~Has(p, what)
  BY Quietly
<1> HIDE DEF p
<1>4. UNCHANGED <<rcv, asked, cmds, pgb, seen>> /\ TypeOK /\ StepsOK /\ Untouched /\ Treated /\ Orders /\ Answered
  BY <1>2 DEF data, TmsInv
<1>5. /\ cmds' \in 0 .. MaxCmds /\ asked' \in [Conns -> Seq(Nat \X Nat)]
      /\ \A d \in Conns : peer[d] = "none" => asked'[d] = <<>>
  BY <1>4 DEF TypeOK, StepsOK, Untouched
<1>6. /\ TypeOK' /\ StepsOK' /\ Untouched' /\ Contexts' /\ Strangers' /\ InFrame' /\ AllWhole' /\ prog'[Loop] = p
  BY <1>1, <1>2, <1>3, <1>5, LoopStarts
<1>7. Treated' /\ Orders'
  BY <1>2, <1>3, <1>4, <1>6, OrdersKept DEF Treated
<1>8. Answered'
  <2>1. \A c1 : Acks(c1)' = Acks(c1) /\ (\A i : Nth(c1, i)' = Nth(c1, i)) /\ (Open(c1)' <=> Open(c1))
    BY <1>2 DEF Acks, Nth, Open, net
  <2>2. SUFFICES ASSUME NEW d \in Conns PROVE AnsweredOn(d)'
    BY DEF Answered
  <2>3. AnsweredOn(d) /\ ~AckDue(prog[Loop]) /\ ~AckDue(prog'[Loop])
    BY <1>2, <1>3, <1>4, <1>6, NoStepsLeft DEF Answered, Idle
  <2> QED
    BY <1>2, <1>4, <2>1, <2>3 DEF AnsweredOn
<1> QED
  BY <1>6, <1>7, <1>8 DEF TmsInv

LEMMA ReceiveKeeps ==
  ASSUME TmsInv, Receive, UNCHANGED process
  PROVE  TmsInv'
<1>1. PICK c \in made, cmd \in Commands, fits \in BOOLEAN :
        /\ Open(c) /\ ctx' = [ctx EXCEPT ![Loop] = [fd |-> FdOf(c), to |-> c]]
        /\ rcv' = [cmd |-> cmd, head |-> "net", fits |-> fits, data |-> Payload(Parts(NameOf(cmd)), "net")]
        /\ prog' = [prog EXCEPT ![Loop] = tms_Analyse(dowhat, cmd, fits)]
        /\ asked' = IF \E i \in DOMAIN prog'[Loop] :
                         prog'[Loop][i].do = "send" /\ prog'[Loop][i].what = "ack"
                    THEN [asked EXCEPT ![c] = Append(asked[c], cmd)] ELSE asked
  BY DEF Receive
<1>2. PICK p : p = tms_Analyse(dowhat, cmd, fits)
  OBVIOUS
<1>3. Idle(Loop) /\ cmds < MaxCmds /\ cmds' = cmds + 1 /\ UNCHANGED <<net, wire, apps, pgb, seen, setting>>
  BY DEF Receive
<1>4. /\ Framed(p) /\ Rising(p) /\ LoopSteps(p)
      /\ Has(p, "call") => (Parts(NameOf(cmd)) # <<>> => Has(p, "convert"))
      /\ (\E i \in 1 .. Len(p) : p[i].do = "send" /\ p[i].what = "ack") <=> AckDue(p)
  BY <1>2, Analysed DEF Made
<1>5. prog' = [prog EXCEPT ![Loop] = p]
  BY <1>1, <1>2
<1>6. /\ TypeOK /\ StepsOK /\ Untouched /\ Treated /\ Orders /\ Answered /\ Loop \in Threads
      /\ prog \in [Threads -> Seq(Steps)] /\ asked \in [Conns -> Seq(Nat \X Nat)]
  BY DEF TmsInv, StepsOK, Threads
<1>7. prog'[Loop] = p /\ DOMAIN p = 1 .. Len(p)
  BY <1>4, <1>5, <1>6 DEF Framed
<1>8. asked' = IF AckDue(p) THEN [asked EXCEPT ![c] = Append(asked[c], cmd)] ELSE asked
  BY <1>1, <1>4, <1>7
<1>9. cmd \in Nat \X Nat
  BY <1>1, TmsServerAssumption
<1>10. c \in Conns /\ peer[c] # "none"
  <2>1. PICK f \in Fds : desc[f] = c
    BY <1>1 DEF Open
  <2>2. c \in Conns /\ c # 0
    BY <1>1, <1>6 DEF TypeOK, Conns
  <2> QED
    BY <1>6, <2>1, <2>2 DEF Untouched
<1>11. /\ \A d \in Conns : asked[d] \in Seq(Nat \X Nat)
       /\ \A d \in Conns : d # c \/ ~AckDue(p) => asked'[d] = asked[d]
       /\ AckDue(p) => asked'[c] = Append(asked[c], cmd)
       /\ asked' \in [Conns -> Seq(Nat \X Nat)]
  <2>1. Append(asked[c], cmd) \in Seq(Nat \X Nat)
    BY <1>6, <1>9, <1>10
  <2> QED
    BY <1>6, <1>8, <1>10, <2>1
<1>12. cmds' \in 0 .. MaxCmds
  BY <1>3, <1>6, TmsServerAssumption DEF TypeOK
<1>13. \A d \in Conns : peer[d] = "none" => asked'[d] = <<>>
  BY <1>6, <1>10, <1>11 DEF Untouched
<1>14. /\ TypeOK' /\ StepsOK' /\ Untouched' /\ Contexts' /\ Strangers' /\ InFrame' /\ AllWhole' /\ ctx'[Loop].to = c
  BY <1>1, <1>3, <1>4, <1>5, <1>12, <1>13, <1>11, LoopStarts
<1>15. Orders'
  BY <1>3, <1>6, OrdersKept
<1>16. Treated'
  <2>1. PICK m : m = Payload(Parts(NameOf(cmd)), "net")
    OBVIOUS
  <2>2. m.ok /\ (Parts(NameOf(cmd)) = <<>> => Range(m.order) \subseteq {"host"})
    BY <2>1, Converted
  <2>3. rcv'.cmd = cmd /\ rcv'.head = "net" /\ rcv'.data = m
    BY <1>1, <2>1
  <2>4. rcv'.data.ok
    BY <2>2, <2>3, Zenon
  <2>5. rcv'.data = Payload(Parts(NameOf(rcv'.cmd)), "net")
    BY <2>1, <2>3
  <2>6. Has(prog'[Loop], "call") /\ ~Has(prog'[Loop], "convert") => Range(rcv'.data.order) \subseteq {"host"}
    BY <1>4, <1>7, <2>2, <2>3
  <2> QED
    BY <1>9, <2>3, <2>4, <2>5, <2>6, Zenon DEF Treated
<1>17. Answered'
  <2>1. \A d : Acks(d)' = Acks(d) /\ (\A i : Nth(d, i)' = Nth(d, i)) /\ (Open(d)' <=> Open(d))
    BY <1>3 DEF Acks, Nth, Open, net
  <2>2. SUFFICES ASSUME NEW d \in Conns PROVE AnsweredOn(d)'
    BY DEF Answered
  <2>3. AnsweredOn(d) /\ ~AckDue(prog[Loop])
    BY <1>3, <1>6, NoStepsLeft DEF Answered, Idle
  <2>4. CASE d # c \/ ~AckDue(p)
    <3>1. asked'[d] = asked[d] /\ ~(AckDue(prog'[Loop]) /\ ctx'[Loop].to = d)
      BY <1>7, <1>11, <1>14, <2>4
    <3> QED
      BY <1>3, <2>1, <2>3, <3>1 DEF AnsweredOn
  <2>5. CASE d = c /\ AckDue(p)
    <3>1. PICK a \in Seq(Nat \X Nat) : a = asked[c]
      BY <1>10, <1>11
    <3>2. PICK b : b = asked'[c]
      OBVIOUS
    <3>3. /\ Len(b) = Len(a) + 1 /\ b[Len(b)] = cmd /\ DOMAIN a = 1 .. Len(a) /\ DOMAIN b = 1 .. Len(b) /\ Len(a) \in Nat
          /\ \A i \in 1 .. Len(a) : b[i] = a[i]
      BY <1>9, <1>11, <2>5, <3>1, <3>2
    <3>4. \A i \in DOMAIN a : i \in DOMAIN b /\ b[i] = a[i]
      BY <3>3
    <3>5. \A i \in Acks(c) : Nth(c, i) \in DOMAIN a /\ wire[c][Loop][i].data.cmd = a[Nth(c, i)]
                             /\ wire[c][Loop][i].data.order = "net"
      BY <2>3, <2>5, <3>1 DEF AnsweredOn
    <3>6. Len(b) = Cardinality(Acks(c)) + 1
      BY <1>1, <2>3, <2>5, <3>1, <3>3 DEF AnsweredOn
    <3>7. rcv'.cmd = cmd
      BY <1>1
    <3>8. \A i \in Acks(c)' : /\ Nth(c, i)' \in DOMAIN asked'[c] /\ wire'[c][Loop][i].data.cmd = asked'[c][Nth(c, i)']
                              /\ wire'[c][Loop][i].data.order = "net"
      BY <1>3, <2>1, <3>2, <3>4, <3>5
    <3>9. Len(asked'[c]) = Cardinality(Acks(c)') + 1 /\ asked'[c][Len(asked'[c])] = rcv'.cmd
      BY <2>1, <3>2, <3>3, <3>6, <3>7
    <3> QED
      BY <1>7, <1>14, <2>5, <3>8, <3>9 DEF AnsweredOn
  <2> QED
    BY <2>4, <2>5
<1> QED
  BY <1>14, <1>15, <1>16, <1>17 DEF TmsInv

\* A connection is accepted: no thread has its context and nothing was sent on it.
LEMMA AcceptKeeps ==
  ASSUME TmsInv, Accept, UNCHANGED process
  PROVE  TmsInv'
<1> DEFINE p == <<Do("InitSocketStruct")>>
<1>1. PICK c \in Conns, f \in Fds :
        /\ peer[c] = "none" /\ desc[f] = 0
        /\ desc' = [desc EXCEPT ![f] = c] /\ nodes' = Append(nodes, c)
        /\ peer' = [peer EXCEPT ![c] = "up"]
        /\ ctx' = [ctx EXCEPT ![Loop] = [fd |-> f, to |-> c]]
  BY DEF Accept
<1>2. Idle(Loop) /\ prog' = [prog EXCEPT ![Loop] = p] /\ UNCHANGED <<made, wire, apps, data, setting>>
  BY DEF Accept
<1>3. /\ Framed(p) /\ Rising(p) /\ LoopSteps(p) /\ p # <<>> /\ p[1].do # "send" /\ ~AckDue(p)
      /\ \A what \in {"copy", "convert", "call"} : ~Has(p, what)
  BY Quietly
<1> HIDE DEF p
<1>4. /\ TypeOK /\ StepsOK /\ Untouched /\ Contexts /\ Strangers /\ InFrame /\ AllWhole /\ Treated /\ Orders /\ Answered
      /\ Loop \in Threads /\ c # 0
  BY DEF TmsInv, Threads, Conns
<1>5. UNCHANGED <<locked, op, ops>> /\ UNCHANGED <<rcv, asked, cmds, pgb, seen>>
  BY <1>2 DEF apps, data
<1>6. /\ desc \in [Fds -> Conns \cup {0}] /\ \A g, h \in Fds : desc[g] = desc[h] /\ desc[g] # 0 => g = h
      /\ IsInjective(nodes) /\ Range(nodes) = {desc[g] : g \in Fds} \ {0} /\ nodes \in Seq(Conns)
      /\ peer \in [Conns -> {"none", "up", "closed", "reset"}]
  BY <1>4 DEF TypeOK, StepsOK
<1>7. \A g \in Fds : desc[g] # c
  BY <1>1, <1>4 DEF Untouched
<1>8. /\ desc' \in [Fds -> Conns \cup {0}] /\ desc'[f] = c /\ \A g \in Fds : g # f => desc'[g] = desc[g]
  BY <1>1, <1>6
<1>9. /\ peer' \in [Conns -> {"none", "up", "closed", "reset"}] /\ peer'[c] = "up"
      /\ \A d \in Conns : d # c => peer'[d] = peer[d]
  BY <1>1, <1>6
<1>10. nodes' \in Seq(Conns) /\ IsInjective(nodes') /\ Range(nodes') = Range(nodes) \cup {c}
  <2>1. c \notin Range(nodes)
    BY <1>6, <1>7
  <2> QED
    BY <1>1, <1>6, <2>1, OneAppended
<1>11. NetOK'
  <2>1. \A g, h \in Fds : desc'[g] = desc'[h] /\ desc'[g] # 0 => g = h
    BY <1>6, <1>7, <1>8
  <2>2. {desc'[g] : g \in Fds} \ {0} = ({desc[g] : g \in Fds} \ {0}) \cup {c}
    BY <1>1, <1>4, <1>8
  <2> QED
    BY <1>6, <1>8, <1>10, <2>1, <2>2 DEF NetOK
<1>12. /\ ~Open(c) /\ Open(c)' /\ \A d : d # c => (Open(d)' => Open(d))
       /\ \A g : On(g)' = IF g = f THEN c ELSE On(g)
  <2>1. ~Open(c) /\ Open(c)'
    BY <1>7, <1>8 DEF Open
  <2>2. \A d : d # c => (Open(d)' => Open(d))
    BY <1>8 DEF Open
  <2>3. \A g : On(g)' = IF g = f THEN c ELSE On(g)
    BY <1>8 DEF On
  <2> QED
    BY <2>1, <2>2, <2>3
<1>13. /\ prog' \in [Threads -> Seq(Steps)] /\ prog'[Loop] = p /\ \A u \in Threads : u # Loop => prog'[u] = prog[u]
  BY <1>2, <1>3, <1>4 DEF StepsOK, Framed
<1>14. /\ ctx' \in [Threads -> [fd : Fds \cup {0}, to : Conns \cup {0}]] /\ ctx'[Loop] = [fd |-> f, to |-> c]
       /\ \A u \in Threads : u # Loop => ctx'[u] = ctx[u]
  BY <1>1, <1>4 DEF TypeOK
<1>15. TypeOK'
  BY <1>2, <1>4, <1>5, <1>9, <1>11, <1>13, <1>14, TypeFrom DEF TypeOK
<1>16. StepsOK'
  <2>1. Apps \subseteq Threads /\ Loop \notin Apps
    BY TmsServerAssumption DEF Threads
  <2> QED
    BY <1>2, <1>3, <1>4, <1>5, <1>10, <1>13, <2>1 DEF StepsOK, Framed
<1>17. asked[c] = <<>> /\ \A u \in Threads : wire[c][u] = <<>>
  BY <1>1, <1>4 DEF Untouched
<1>18. Untouched'
  <2>1. \A g \in Fds : desc'[g] # 0 => peer'[desc'[g]] # "none"
    BY <1>4, <1>6, <1>7, <1>8, <1>9 DEF Untouched
  <2>2. \A d \in Conns : peer'[d] = "none" => asked'[d] = <<>> /\ \A u \in Threads : wire'[d][u] = <<>>
    BY <1>2, <1>4, <1>5, <1>9 DEF Untouched
  <2> QED
    BY <2>1, <2>2 DEF Untouched
<1>19. \A u \in Threads : u # Loop => ctx[u].to # c
  BY <1>1, <1>4 DEF Contexts
<1>20. Contexts'
  <2>1. ASSUME NEW u \in Threads, ctx'[u].to # 0
        PROVE  peer'[ctx'[u].to] # "none" /\ (Open(ctx[u].to)' => On(ctx[u].fd)' = ctx'[u].to)
    <3>1. PICK e, d : e = ctx'[u].fd /\ d = ctx'[u].to
      OBVIOUS
    <3>2. (Open(ctx[u].to)' <=> Open(d)') /\ On(ctx[u].fd)' = On(e)'
      BY <3>1 DEF Open, On
    <3>3. CASE u # Loop
      <4>1. ctx'[u] = ctx[u] /\ d # c /\ d # 0 /\ e = ctx[u].fd /\ d = ctx[u].to
        BY <1>14, <1>19, <2>1, <3>1, <3>3
      <4>2. d \in Conns
        BY <1>4, <4>1 DEF TypeOK
      <4>3. peer[d] # "none" /\ (Open(d) => On(e) = d)
        BY <1>4, <4>1 DEF Contexts
      <4>4. peer'[d] # "none"
        BY <1>9, <4>1, <4>2, <4>3
      <4>5. On(f) = 0
        BY <1>1 DEF On
      <4>6. Open(d)' => On(e)' = d
        BY <1>12, <4>1, <4>3, <4>5
      <4> QED
        BY <3>1, <3>2, <4>4, <4>6
    <3>4. CASE u = Loop
      <4>1. d = c /\ e = f
        BY <1>14, <3>1, <3>4
      <4> QED
        BY <1>9, <1>12, <3>1, <3>2, <4>1
    <3> QED
      BY <3>3, <3>4
  <2>2. ctx'[Loop].to # 0 /\ On(ctx[Loop].fd)' \in {0, ctx'[Loop].to}
    <3>1. On(ctx[Loop].fd)' = On(f)'
      BY <1>14 DEF On
    <3> QED
      BY <1>4, <1>12, <1>14, <3>1
  <2> QED
    BY <2>1, <2>2 DEF Contexts
<1>21. Strangers'
  <2>1. SUFFICES ASSUME NEW d \in Conns, NEW u \in Threads, NEW i \in 1 .. Len(wire[d][u]), wire[d][u][i].to # d
                 PROVE  u # Loop /\ (wire[d][u][i].to = 0
                                     \/ (~Open(wire[d][u][i].to)' /\ peer'[wire[d][u][i].to] # "none"))
    BY <1>2 DEF Strangers, Open
  <2>2. PICK to : to = wire[d][u][i].to
    OBVIOUS
  <2>3. u # Loop /\ (to = 0 \/ (~Open(to) /\ peer[to] # "none")) /\ to \in Conns \cup {0}
    BY <1>4, <2>1, <2>2, SentTyped DEF Strangers, Pieces
  <2>4. to = 0 \/ (~Open(to)' /\ peer'[to] # "none")
    BY <1>1, <1>9, <1>12, <2>3
  <2>5. Open(wire[d][u][i].to)' <=> Open(to)'
    BY <1>2, <2>2 DEF Open
  <2> QED
    BY <2>2, <2>3, <2>4, <2>5
<1>22. InFrame'
  <2>1. SUFFICES ASSUME NEW d \in Conns, NEW u \in Threads, Open(d)' PROVE Expects(wire[d][u], d, Wanted(u, d)')
    BY <1>2 DEF InFrame
  <2>2. CASE d = c
    <3>1. Wanted(u, c)' = "tag"
      BY <1>3, <1>13, <1>14, <1>19 DEF Wanted
    <3> QED
      BY <1>17, <2>2, <3>1, NothingSent
  <2>3. CASE d # c
    <3>1. Expects(wire[d][u], d, Wanted(u, d))
      BY <1>4, <1>12, <2>1, <2>3 DEF InFrame
    <3>2. CASE u # Loop
      <4>1. Wanted(u, d)' = Wanted(u, d)
        BY <1>13, <1>14, <3>2 DEF Wanted
      <4> QED
        BY <3>1, <4>1
    <3>3. CASE u = Loop
      <4>1. Wanted(u, d)' = Wanted(u, d)
        BY <1>2, <1>3, <1>13, <3>3 DEF Wanted, Idle
      <4> QED
        BY <3>1, <4>1
    <3> QED
      BY <3>2, <3>3
  <2> QED
    BY <2>2, <2>3
<1>23. AllWhole'
  BY <1>2, <1>4 DEF AllWhole
<1>24. Treated' /\ Orders'
  BY <1>2, <1>3, <1>4, <1>5, <1>13, OrdersKept DEF Treated
<1>25. Answered'
  <2>1. \A d : Acks(d)' = Acks(d) /\ (\A i : Nth(d, i)' = Nth(d, i))
    BY <1>2 DEF Acks, Nth
  <2>2. SUFFICES ASSUME NEW d \in Conns PROVE AnsweredOn(d)'
    BY DEF Answered
  <2>3. AnsweredOn(d) /\ ~AckDue(prog[Loop]) /\ ~AckDue(prog'[Loop])
    BY <1>2, <1>3, <1>4, <1>13, NoStepsLeft DEF Answered, Idle
  <2>4. CASE d # c
    BY <1>2, <1>5, <1>12, <2>1, <2>3, <2>4 DEF AnsweredOn
  <2>5. CASE d = c
    <3>1. Acks(c) = {} /\ Cardinality(Acks(c)) = 0 /\ Len(asked[c]) = 0
      <4>1. DOMAIN wire[c][Loop] = {}
        BY <1>4, <1>17
      <4>2. Acks(c) = {}
        BY <4>1 DEF Acks
      <4> QED
        BY <1>17, <4>2, FS_EmptySet
    <3> QED
      BY <1>5, <2>1, <2>3, <2>5, <3>1 DEF AnsweredOn
  <2> QED
    BY <2>4, <2>5
<1> QED
  BY <1>15, <1>16, <1>18, <1>20, <1>21, <1>22, <1>23, <1>24, <1>25 DEF TmsInv

-----------------------------------------------------------------------------
(* An application thread looks for a connection                            *)

LEMMA SelectKeeps ==
  ASSUME TmsInv, NEW t \in Apps, process = "runs", App(t)
  PROVE  TmsInv'
<1>1. PICK fd \in Fds : tms_SelectContextByFD(t, fd)
  BY DEF App
<1>2. PICK o \in Ops, x \in Fill(t, fd) :
        /\ ctx' = [ctx EXCEPT ![t] = x] /\ op' = [op EXCEPT ![t] = o]
        /\ locked' = IF _ep_find(fd) # {} THEN locked \ {t} ELSE locked
        /\ process' = IF \A i \in Walked(fd) : nodes[i] \in made THEN process ELSE "wild"
        /\ prog' = [prog EXCEPT ![t] = IF x.fd = fd THEN Sender(o) ELSE <<>>]
  BY <1>1 DEF tms_SelectContextByFD
<1>3. Idle(t) /\ ops[t] < MaxOps /\ ops' = [ops EXCEPT ![t] = ops[t] + 1] /\ UNCHANGED <<net, wire, data, setting>>
  BY <1>1 DEF tms_SelectContextByFD
<1>4. PICK p : p = IF x.fd = fd THEN Sender(o) ELSE <<>>
  OBVIOUS
<1>5. Framed(p) /\ AppSteps(p)
  BY <1>4, SenderPosted, NoStepsLeft DEF Posted
<1>6. /\ TypeOK /\ StepsOK /\ Untouched /\ Contexts /\ Strangers /\ InFrame /\ AllWhole /\ Treated /\ Orders /\ Answered
      /\ t \in Threads /\ t # Loop /\ Loop \in Threads /\ Apps \subseteq Threads
  BY TmsServerAssumption DEF TmsInv, Threads
<1>7. UNCHANGED <<desc, nodes, made, peer>> /\ UNCHANGED <<rcv, asked, cmds, pgb, seen>>
  BY <1>3 DEF net, data
<1>8. /\ x \in [fd : Fds \cup {0}, to : Conns \cup {0}]
      /\ x.to # 0 => peer[x.to] # "none" /\ (Open(x.to) => On(x.fd) = x.to)
  <2>1. ctx[t] \in [fd : Fds \cup {0}, to : Conns \cup {0}]
    BY <1>6 DEF TypeOK
  <2>2. CASE x = ctx[t]
    BY <1>6, <2>1, <2>2 DEF Contexts
  <2>3. CASE x = [fd |-> fd, to |-> 0]
    BY <2>3
  <2>4. ASSUME NEW c \in _ep_find(fd), x = [fd |-> fd, to |-> c]
        PROVE  x \in [fd : Fds \cup {0}, to : Conns \cup {0}] /\ peer[x.to] # "none" /\ On(x.fd) = x.to
    <3>1. c \in Conns /\ On(fd) = c /\ On(fd) = desc[fd] /\ c # 0
      BY <1>6 DEF _ep_find, TypeOK, On, Conns
    <3>2. peer[c] # "none"
      BY <1>6, <3>1 DEF Untouched
    <3> QED
      BY <2>4, <3>1, <3>2
  <2> QED
    BY <2>2, <2>3, <2>4 DEF Fill
<1>9. /\ prog' = [prog EXCEPT ![t] = p] /\ prog' \in [Threads -> Seq(Steps)] /\ prog'[t] = p
      /\ \A u \in Threads : u # t => prog'[u] = prog[u]
  BY <1>2, <1>4, <1>5, <1>6 DEF StepsOK, Framed
<1>10. /\ ctx' \in [Threads -> [fd : Fds \cup {0}, to : Conns \cup {0}]] /\ ctx'[t] = x
       /\ \A u \in Threads : u # t => ctx'[u] = ctx[u]
  BY <1>2, <1>6, <1>8 DEF TypeOK
<1>11. \A d : (Open(d)' <=> Open(d)) /\ On(d)' = On(d)
  BY <1>7 DEF Open, On
<1>12. Closing /\ NetOK'
  BY <1>6, <1>7, SameNet, NetKept
<1>13. TypeOK'
  <2>1. locked' \subseteq Apps /\ process' \in {"runs", "killed", "wild"}
    BY <1>2, <1>6 DEF TypeOK
  <2>2. op' \in [Apps -> Ops \cup {[name |-> "none", n |-> 0]}]
    BY <1>2, <1>6 DEF TypeOK
  <2>3. ops' \in [Apps -> 0 .. MaxOps]
    <3>1. ops[t] + 1 \in 0 .. MaxOps
      BY <1>3, <1>6, TmsServerAssumption DEF TypeOK
    <3> QED
      BY <1>3, <1>6, <3>1 DEF TypeOK
  <2>4. /\ UNCHANGED setting /\ made' \subseteq Conns /\ peer' \in [Conns -> {"none", "up", "closed", "reset"}]
        /\ DOMAIN wire' = Conns /\ DOMAIN prog' = Threads /\ cmds' \in 0 .. MaxCmds
    BY <1>3, <1>6, <1>7, <1>9 DEF TypeOK
  <2> QED
    BY <1>6, <1>10, <1>12, <2>1, <2>2, <2>3, <2>4, TypeFrom
<1>14. StepsOK'
  BY <1>3, <1>5, <1>6, <1>7, <1>9 DEF StepsOK, Framed
<1>15. Untouched' /\ Strangers' /\ AllWhole'
  BY <1>3, <1>7, <1>12, ClosingKeeps
<1>16. Contexts'
  <2>1. ASSUME NEW u \in Threads, ctx'[u].to # 0
        PROVE  peer'[ctx'[u].to] # "none" /\ (Open(ctx[u].to)' => On(ctx[u].fd)' = ctx'[u].to)
    <3>1. CASE u # t
      BY <1>6, <1>10, <1>12, <2>1, <3>1, ContextKept
    <3>2. CASE u = t
      <4>1. PICK f, c : f = x.fd /\ c = x.to
        OBVIOUS
      <4>2. ctx'[u].fd = f /\ ctx'[u].to = c
        BY <1>10, <3>2, <4>1
      <4>3. peer'[c] # "none" /\ (Open(c)' => On(f)' = c)
        BY <1>7, <1>8, <1>11, <2>1, <4>1, <4>2
      <4>4. (Open(ctx[u].to)' <=> Open(c)') /\ On(ctx[u].fd)' = On(f)'
        BY <4>2 DEF Open, On
      <4> QED
        BY <4>2, <4>3, <4>4
    <3> QED
      BY <3>1, <3>2
  <2>2. ASSUME ~Idle(Loop)' PROVE ctx'[Loop].to # 0 /\ On(ctx[Loop].fd)' \in {0, ctx'[Loop].to}
    <3>1. ~Idle(Loop) /\ ctx'[Loop] = ctx[Loop]
      BY <1>6, <1>9, <1>10, <2>2 DEF Idle
    <3>2. PICK f : f = ctx[Loop].fd
      OBVIOUS
    <3>3. On(f) \in {0, ctx[Loop].to} /\ ctx[Loop].to # 0
      BY <1>6, <3>1, <3>2 DEF Contexts
    <3>4. On(ctx[Loop].fd)' = On(f)'
      BY <3>1, <3>2 DEF On
    <3> QED
      BY <1>11, <3>1, <3>3, <3>4
  <2> QED
    BY <2>1, <2>2 DEF Contexts
<1>17. InFrame'
  <2>1. SUFFICES ASSUME NEW d \in Conns, NEW u \in Threads, Open(d) PROVE Expects(wire[d][u], d, Wanted(u, d)')
    BY <1>3, <1>11 DEF InFrame
  <2>2. Expects(wire[d][u], d, Wanted(u, d))
    BY <1>6, <2>1 DEF InFrame
  <2>3. Wanted(u, d)' = Wanted(u, d)
    <3>1. CASE u # t
      BY <1>9, <1>10, <3>1 DEF Wanted
    <3>2. CASE u = t
      BY <1>3, <1>5, <1>9, <1>10, <3>2 DEF Wanted, Idle, Framed, Begins
    <3> QED
      BY <3>1, <3>2
  <2> QED
    BY <2>2, <2>3
<1>18. prog'[Loop] = prog[Loop] /\ ctx'[Loop] = ctx[Loop]
  BY <1>6, <1>9, <1>10
<1>19. Treated' /\ Orders'
  BY <1>3, <1>6, <1>7, <1>18, OrdersKept DEF Treated
<1>20. Answered'
  BY <1>3, <1>7, <1>12, <1>18, AnsweredKept
<1> QED
  BY <1>13, <1>14, <1>15, <1>16, <1>17, <1>19, <1>20 DEF TmsInv

-----------------------------------------------------------------------------
(* The theorems                                                            *)

LEMMA NextTms == TmsInv /\ [Next]_vars => TmsInv'
<1> SUFFICES ASSUME TmsInv, [Next]_vars PROVE TmsInv'
  OBVIOUS
<1>1. CASE Next
  <2>1. process = "runs"
    BY <1>1 DEF Next
  <2>2. CASE Accept /\ UNCHANGED process
    BY <2>2, AcceptKeeps
  <2>3. CASE Receive /\ UNCHANGED process
    BY <2>3, ReceiveKeeps
  <2>4. CASE HungUp /\ UNCHANGED process
    BY <2>4, HungUpKeeps
  <2>5. CASE ShellClose /\ UNCHANGED process
    BY <2>5, ShellKeeps
  <2>6. CASE HostCloses /\ UNCHANGED process
    BY <2>6, HostKeeps
  <2>7. CASE \E t \in Apps : App(t)
    BY <2>1, <2>7, SelectKeeps
  <2>8. CASE \E t \in Threads : Step(t)
    BY <2>1, <2>8, StepKeeps
  <2> QED
    BY <1>1, <2>2, <2>3, <2>4, <2>5, <2>6, <2>7, <2>8 DEF Next
<1>2. CASE UNCHANGED vars
  <2>1. UNCHANGED <<net, wire, prog, ctx, op, ops, data, setting>> /\ UNCHANGED <<locked, process>>
    BY <1>2 DEF vars, apps
  <2>2. locked' \subseteq Apps /\ process' \in {"runs", "killed", "wild"}
    BY <2>1 DEF TmsInv, TypeOK
  <2> QED
    BY <2>1, <2>2, NothingMoves
<1> QED
  BY <1>1, <1>2

\* The invariant from which the five properties below follow holds in every
\* state the command server reaches.
THEOREM TmsInvariant == Spec => []TmsInv
<1>1. Init => TmsInv
  BY InitTms
<1>2. TmsInv /\ [Next]_vars => TmsInv'
  BY NextTms
<1> QED
  BY <1>1, <1>2, PTL DEF Spec

\* The descriptors and the list of connections agree whoever accepts, drops or
\* closes a connection (ep_Accept, ep_DelConNode, ep_Close), and tms_SetDoWhat
\* sets no handling tms_Analyse does not know.
THEOREM TmsTypes == Spec => []TypeOK
<1>1. TmsInv => TypeOK
  BY DEF TmsInv
<1> QED
  BY <1>1, TmsInvariant, PTL

\* glink_Send, glink_SendHead and glink_SendTail put whole frame after whole
\* frame on the wire of the host they are for, whoever closes it meanwhile.
THEOREM FramesAreWhole == Spec => []WholeFrames
<1>1. TmsInv => WholeFrames
  <2> SUFFICES ASSUME TmsInv, NEW c \in Conns, NEW t \in Threads PROVE
        LET sent == wire[c][t] IN
        \A i \in DOMAIN sent : sent[i].to = c =>
          \/ sent[i].part = "tag" /\ \A j \in 1 .. i - 1 : sent[j].to # c
          \/ \E j \in 1 .. i - 1 : /\ sent[j].to = c /\ \A k \in j + 1 .. i - 1 : sent[k].to # c
                                 /\ sent[i].part \in After[sent[j].part]
    BY DEF WholeFrames
  <2>1. Whole(wire[c][t], c)
    BY DEF TmsInv, AllWhole
  <2>2. DOMAIN wire[c][t] = 1 .. Len(wire[c][t])
    <3>1. wire[c][t] \in Seq(Pieces)
      BY SentTyped DEF TmsInv
    <3> QED
      BY <3>1
  <2> QED
    BY <2>1, <2>2 DEF Whole
<1> QED
  BY <1>1, TmsInvariant, PTL

\* The lookups of tms_SelectContextByFD and the structures of epFUI_OnAccept
\* lead a sender to its own host, unless the host's descriptor was closed after
\* the lookup; the event loop never sends to another than its own.
THEOREM PeersAreRight == Spec => []RightPeer
<1>1. TmsInv => RightPeer
  <2> SUFFICES ASSUME TmsInv, NEW c \in Conns PROVE
        /\ \A p \in AllSent(c) : p.to # c => p.to = 0 \/ ~Open(p.to)
        /\ \A p \in Range(wire[c][Loop]) : p.to = c
    BY DEF RightPeer
  <2>1. \A t \in Threads : DOMAIN wire[c][t] = 1 .. Len(wire[c][t])
    <3>1. \A t \in Threads : wire[c][t] \in Seq(Pieces)
      BY SentTyped DEF TmsInv
    <3> QED
      BY <3>1
  <2>2. \A t \in Threads : \A p \in Range(wire[c][t]) :
          p.to # c => t # Loop /\ (p.to = 0 \/ ~Open(p.to))
    <3>1. \A t \in Threads : \A i \in 1 .. Len(wire[c][t]) :
            wire[c][t][i].to # c => t # Loop /\ (wire[c][t][i].to = 0 \/ ~Open(wire[c][t][i].to))
      BY DEF TmsInv, Strangers
    <3> QED
      BY <2>1, <3>1 DEF Range
  <2>3. Loop \in Threads
    BY DEF Threads
  <2>4. \A p \in AllSent(c) : p.to # c => p.to = 0 \/ ~Open(p.to)
    BY <2>2 DEF AllSent
  <2> QED
    BY <2>2, <2>3, <2>4
<1> QED
  BY <1>1, TmsInvariant, PTL

\* tms_OTDRConv, tms_Copy2Use and the senders turn every number exactly once.
THEOREM OrdersAreRight == Spec => []ByteOrder
<1>1. TmsInv => ByteOrder
  <2> SUFFICES ASSUME TmsInv PROVE ByteOrder
    OBVIOUS
  <2>1. seen \subseteq {"host"} /\ pgb = "host"
    BY DEF TmsInv, Orders
  <2>2. rcv.data.ok
    BY Zenon DEF TmsInv, Treated
  <2>3. ASSUME NEW c \in Conns, NEW p \in AllSent(c), p.part \in {"data", "rest"}
        PROVE  p.data.order = "net" /\ (p.data.said = p.data.held \/ p.data.said > 8)
    <3>1. PICK t \in Threads : p \in Range(wire[c][t])
      BY <2>3 DEF AllSent
    <3>2. wire[c][t] \in Seq(Pieces)
      BY SentTyped DEF TmsInv
    <3>3. PICK i \in 1 .. Len(wire[c][t]) : wire[c][t][i] = p
      BY <3>1, <3>2 DEF Range
    <3> QED
      BY <2>3, <3>3 DEF TmsInv, Orders
  <2> QED
    BY <2>1, <2>2, <2>3, Zenon DEF ByteOrder
<1> QED
  BY <1>1, TmsInvariant, PTL

\* What tms_DbgAckSuccess sends answers the commands of its connection, in
\* their order, before their callback runs.
THEOREM AcksNameCommands == Spec => []AckNamesCommand
<1>1. TmsInv => AckNamesCommand
  <2> SUFFICES ASSUME TmsInv, NEW c \in Conns PROVE
        /\ \A i \in Acks(c) :
             /\ Nth(c, i) \in DOMAIN asked[c] /\ wire[c][Loop][i].data.cmd = asked[c][Nth(c, i)]
             /\ wire[c][Loop][i].data.order = "net"
        /\ Open(c) /\ peer[c] = "up" /\ (Idle(Loop) \/ Head(prog[Loop]).do = "call")
             => Cardinality(Acks(c)) = Len(asked[c])
    BY DEF AckNamesCommand
  <2>1. AnsweredOn(c)
    BY DEF TmsInv, Answered
  <2>2. ASSUME Idle(Loop) \/ Head(prog[Loop]).do = "call" PROVE ~AckDue(prog[Loop])
    <3>1. CASE Idle(Loop)
      BY <3>1, NoStepsLeft DEF Idle
    <3>2. CASE ~Idle(Loop) /\ Head(prog[Loop]).do = "call"
      <4>1. Loop \in Threads
        BY DEF Threads
      <4> QED
        BY <3>2, <4>1, HeadOf, NotAhead
    <3> QED
      BY <2>2, <3>1, <3>2
  <2> QED
    BY <2>1, <2>2 DEF AnsweredOn
<1> QED
  BY <1>1, TmsInvariant, PTL
=============================================================================
