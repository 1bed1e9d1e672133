------------------------------ MODULE RecvPath ------------------------------
(***************************************************************************)
(* How glink frames are cut out of a TCP stream: epFUI_OnRecv of           *)
(* src/ep_app.c, glink_FindFrame of protocol/glink.c, and the ring buffer  *)
(* between them (bipbuffer, a binary library: modelled from the calls and  *)
(* from the library's disassembly).                                        *)
(*                                                                         *)
(* A byte is the position it has in the stream.  The stream is a sequence  *)
(* of items: good frames, frames with a wrong tail tag, frames whose two   *)
(* length fields disagree, frames whose fields agree on a wrong length, and*)
(* bytes that are no frame at all.  A payload holds no tag.                *)
(* The level-triggered event loop calls epFUI_OnRecv as long as the socket *)
(* has unread bytes; one call is the steps from OnRecv to OnRecvEnd.       *)
(***************************************************************************)
EXTENDS Integers, Sequences, SequencesExt

CONSTANTS
  BufLen,     \* BIPBUFFER_LEN
  MinFrame,   \* sizeof(glink_frame) + sizeof(glink_base), and the later morebyte
  Tag,        \* bytes of a head tag
  FirstRead,  \* the first morebyte
  Lens,       \* lengths of the frames sent
  Lies,       \* of frames with a wrong length: their length and what they say
  Noise,      \* lengths of the pieces of noise sent
  MaxItems    \* bound: items sent

ASSUME RecvPathAssumption ==
  /\ Tag \in Nat \ {0} /\ MinFrame \in Nat /\ MinFrame > Tag
  /\ BufLen \in Nat /\ BufLen >= 3 * MinFrame
  /\ FirstRead \in Nat \ {0} /\ MaxItems \in Nat
  /\ \A n \in Lens : n \in Nat /\ n >= MinFrame
  /\ \A p \in Lies : p[1] \in Nat /\ p[1] >= MinFrame /\ p[2] \in Int /\ p[2] # p[1]
  /\ \A n \in Noise : n \in Nat /\ n >= 1

VARIABLES
  stream,                \* items sent
  received,              \* bytes read off the socket
  bb, lbb,               \* the connection's ring and the buffer of a large frame
  enable_lbb, lbyte, morebyte,
  step,                  \* where epFUI_OnRecv is
  delivered              \* byte strings handed to tms_Analyse

app  == <<bb, lbb, enable_lbb, lbyte, morebyte>>
vars == <<stream, received, app, step, delivered>>

\* A ring of len bytes: block a starting at index ixa, block b at index 0.
Ring(len) == [len |-> len, ixa |-> 0, a |-> <<>>, b |-> <<>>]

Init ==
  /\ stream = <<>> /\ received = 0
  /\ bb = Ring(BufLen) /\ lbb = Ring(0)
  /\ enable_lbb = FALSE /\ lbyte = 0 /\ morebyte = FirstRead
  /\ step = "event" /\ delivered = <<>>

-----------------------------------------------------------------------------
(* bipbuffer *)

Least(m, n) == IF m < n THEN m ELSE n
Used(r) == Len(r.a) + Len(r.b)

\* Where and how much Reserve offers: 0 bytes for its NULL.
Reserve(r, size) ==
  LET after == r.len - r.ixa - Len(r.a)
  IN  IF r.b # <<>> THEN [at |-> Len(r.b), n |-> Least(size, r.ixa - Len(r.b))]
      ELSE IF r.ixa <= after THEN [at |-> r.ixa + Len(r.a), n |-> Least(size, after)]
      ELSE [at |-> 0, n |-> Least(size, r.ixa)]

Commit(r, at, bytes) ==
  IF Used(r) = 0 THEN [r EXCEPT !.ixa = at, !.a = bytes]
  ELSE IF at = r.ixa + Len(r.a) THEN [r EXCEPT !.a = @ \o bytes]
  ELSE [r EXCEPT !.b = @ \o bytes]

\* GetUnContiguousBlock: both blocks moved to the front as one.
UnContiguous(r) ==
  IF r.a = <<>> \/ r.b = <<>> THEN r
  ELSE [r EXCEPT !.ixa = 0, !.a = @ \o r.b, !.b = <<>>]

\* The library compares without sign: a negative length is a very large one.
DecommitBlock(r, n) ==
  IF n < 0 \/ n >= Len(r.a) THEN [r EXCEPT !.ixa = 0, !.a = r.b, !.b = <<>>]
  ELSE [r EXCEPT !.ixa = @ + n, !.a = SubSeq(@, n + 1, Len(@))]

-----------------------------------------------------------------------------
(* glink_FindFrame over the bytes s, at least MinFrame of them.            *)

Heads == {k \in DOMAIN stream : stream[k].kind # "noise"}

IsHead(s, i, k) == \A j \in 0 .. Tag - 1 : s[i + j] = stream[k].at + j
HeadAt(s, i) == \E k \in Heads : IsHead(s, i, k)
TailAt(s, i) ==
  \E k \in Heads : stream[k].kind # "badtail" /\ s[i] = stream[k].at + stream[k].len - 1

\* Mutant: all bytes go when no head tag is among them.
JunkAll(s) ==
  LET at == {i \in 0 .. Len(s) - Tag - 1 : HeadAt(s, i + 1)}
  IN  IF at = {} THEN Len(s) ELSE CHOOSE i \in at : \A j \in at : i <= j

\* The bytes before the first head tag; all but a tag's worth if there is none.
Junk(s) ==
  LET at == {i \in 0 .. Len(s) - Tag - 1 : HeadAt(s, i + 1)}
  IN  IF at = {} THEN Len(s) - Tag ELSE CHOOSE i \in at : \A j \in at : i <= j

\* retframelen and the return value: 0, -2 or -3.  The two length fields are
\* believed when they agree.  For one of less than a tag the tail is looked for
\* in front of the block; TailInFront and Fault are what else that can bring.
FindFrame(s) ==
  IF ~HeadAt(s, 1) THEN [ret |-> -2, n |-> Junk(s)]
  ELSE LET f == stream[CHOOSE k \in Heads : IsHead(s, 1, k)]
       IN  IF f.kind = "badlen" THEN [ret |-> -2, n |-> Tag]
           ELSE IF Len(s) < f.said THEN [ret |-> -3, n |-> f.said - Len(s)]
           ELSE [ret |-> IF f.said >= Tag /\ TailAt(s, f.said) THEN 0 ELSE -2, n |-> f.said]

-----------------------------------------------------------------------------
(* The peer.  How much of what it sent a read sees is the read's choice, so*)
(* that it sends everything before the first read loses no behaviour.      *)

Total == IF stream = <<>> THEN 0 ELSE Last(stream).at + Last(stream).len - 1

Send(kind, len, said) ==
  /\ Len(stream) < MaxItems /\ received = 0
  /\ stream' = Append(stream, [kind |-> kind, len |-> len, said |-> said, at |-> Total + 1])
  /\ UNCHANGED <<received, app, step, delivered>>

Peer ==
  \/ \E kind \in {"good", "badtail", "badlen"}, len \in Lens : Send(kind, len, len)
  \/ \E p \in Lies : Send("wronglen", p[1], p[2])
  \/ \E len \in Noise : Send("noise", len, len)

-----------------------------------------------------------------------------
(* epFUI_OnRecv *)

Unread == Total - received
Arrived(n) == [i \in 1 .. n |-> received + i]

\* No room: nothing is read, and the buffered bytes are looked at again.
RecvNoRoom ==
  /\ step = "event" /\ Unread > 0
  /\ IF enable_lbb THEN Reserve(lbb, lbyte).n = 0 ELSE Reserve(bb, morebyte).n = 0
  /\ step' = "again"
  /\ UNCHANGED <<stream, received, app, delivered>>

\* Mutant: as many bytes are read as were wanted, not as there is room for.
RecvRingWanted ==
  /\ step = "event" /\ ~enable_lbb
  /\ LET room == Reserve(bb, morebyte)
     IN  /\ room.n > 0
         /\ \E n \in 1 .. Least(Unread, morebyte) :
              /\ bb' = Commit(bb, room.at, Arrived(n))
              /\ received' = received + n
  /\ step' = "again"
  /\ UNCHANGED <<stream, lbb, enable_lbb, lbyte, morebyte, delivered>>

RecvRing ==
  /\ step = "event" /\ ~enable_lbb
  /\ LET room == Reserve(bb, morebyte)
     IN  \E n \in 1 .. Least(Unread, room.n) :
           /\ bb' = Commit(bb, room.at, Arrived(n))
           /\ received' = received + n
  /\ step' = "again"
  /\ UNCHANGED <<stream, lbb, enable_lbb, lbyte, morebyte, delivered>>

\* A large frame is looked for only when all of it is there.
RecvLarge ==
  /\ step = "event" /\ enable_lbb
  /\ LET room == Reserve(lbb, lbyte)
     IN  \E n \in 1 .. Least(Unread, room.n) :
           LET filled == Commit(lbb, room.at, Arrived(n))
           IN  /\ received' = received + n
               /\ lbyte' = lbyte - n
               /\ IF lbyte' > 0
                  THEN lbb' = filled /\ step' = "event" /\ UNCHANGED bb
                  ELSE bb' = filled /\ lbb' = bb /\ step' = "again"
  /\ UNCHANGED <<stream, enable_lbb, morebyte, delivered>>

\* Mutant: the scattered bytes are not joined.
TooFewLeft ==
  /\ step = "again" /\ Len(bb.a) < MinFrame
  /\ step' = "end"
  /\ UNCHANGED <<stream, received, app, delivered>>

\* Too few bytes in the first block: they are joined if there are enough in
\* both, but looked at only when the next event comes.
TooFew ==
  /\ step = "again" /\ Len(bb.a) < MinFrame
  /\ bb' = IF Used(bb) >= MinFrame THEN UnContiguous(bb) ELSE bb
  /\ step' = "end"
  /\ UNCHANGED <<stream, received, lbb, enable_lbb, lbyte, morebyte, delivered>>

Found == FindFrame(bb.a)
Looking == step = "again" /\ Len(bb.a) >= MinFrame

Deliver ==
  /\ Looking /\ Found.ret = 0
  /\ delivered' = Append(delivered, SubSeq(bb.a, 1, Found.n))
  /\ bb' = DecommitBlock(bb, Found.n)
  /\ morebyte' = MinFrame
  /\ step' = IF enable_lbb THEN "end" ELSE "again"
  /\ UNCHANGED <<stream, received, lbb, enable_lbb, lbyte>>

\* After a frame that says 0 the same bytes are looked at again, for ever.
Drop ==
  /\ Looking /\ Found.ret = -2
  /\ bb' = DecommitBlock(bb, Found.n)
  /\ morebyte' = MinFrame
  /\ step' = "again"
  /\ UNCHANGED <<stream, received, lbb, enable_lbb, lbyte, delivered>>

\* A frame says less than a tag: pdata + pklen - 4 is in front of the block, and
\* what lies there is left of older bytes of the ring or is not the ring's.
InFront == Looking /\ Found.ret = -2 /\ HeadAt(bb.a, 1) /\ Found.n < Tag

\* A tail lies there, and the frame is handed on; one of 0 bytes again and again.
TailInFront ==
  /\ InFront
  /\ delivered' = Append(delivered, SubSeq(bb.a, 1, Found.n))
  /\ bb' = DecommitBlock(bb, Found.n)
  /\ morebyte' = MinFrame
  /\ step' = IF Found.n = 0 THEN "spin" ELSE "again"
  /\ UNCHANGED <<stream, received, lbb, enable_lbb, lbyte>>

\* Far enough in front no memory is mapped, and the process ends.
Fault ==
  /\ InFront /\ Found.n < 0
  /\ step' = "down"
  /\ UNCHANGED <<stream, received, app, delivered>>

\* Mutant: the start of a large frame stays in the ring it was copied from.
IncompleteKeeps ==
  /\ Looking /\ Found.ret = -3
  /\ LET want == Len(bb.a) + Found.n
         ring == IF want <= Used(bb) THEN UnContiguous(bb) ELSE bb
     IN  IF Len(ring.a) >= want
         THEN bb' = ring /\ step' = "again" /\ UNCHANGED <<lbb, enable_lbb, lbyte>>
         ELSE /\ step' = "end" /\ bb' = ring
              /\ IF want > BufLen
                 THEN /\ lbb' = Commit(Ring(want), 0, ring.a)
                      /\ lbyte' = want - Len(ring.a)
                      /\ enable_lbb' = TRUE
                 ELSE UNCHANGED <<lbb, enable_lbb, lbyte>>
  /\ morebyte' = MinFrame
  /\ UNCHANGED <<stream, received, delivered>>

\* An incomplete frame: joined if it is all there, moved to a buffer of its
\* own if the ring can never hold it, waited for otherwise.
Incomplete ==
  /\ Looking /\ Found.ret = -3
  /\ LET want == Len(bb.a) + Found.n
         ring == IF want <= Used(bb) THEN UnContiguous(bb) ELSE bb
     IN  IF Len(ring.a) >= want
         THEN bb' = ring /\ step' = "again" /\ UNCHANGED <<lbb, enable_lbb, lbyte>>
         ELSE /\ step' = "end"
              /\ IF want > BufLen
                 THEN /\ lbb' = Commit(Ring(want), 0, ring.a)
                      /\ bb' = DecommitBlock(ring, Len(ring.a))
                      /\ lbyte' = want - Len(ring.a)
                      /\ enable_lbb' = TRUE
                 ELSE bb' = ring /\ UNCHANGED <<lbb, enable_lbb, lbyte>>
  /\ morebyte' = MinFrame
  /\ UNCHANGED <<stream, received, delivered>>

\* Mutant: the large buffer stays in place of the ring.
OnRecvEndKeeps ==
  /\ step = "end" /\ step' = "event"
  /\ IF enable_lbb /\ lbyte <= 0
     THEN enable_lbb' = FALSE /\ lbb' = Ring(0)
     ELSE UNCHANGED <<enable_lbb, lbb>>
  /\ UNCHANGED <<stream, received, bb, lbyte, morebyte, delivered>>

\* After a large frame the ring is put back and the large buffer freed.
OnRecvEnd ==
  /\ step = "end" /\ step' = "event"
  /\ IF enable_lbb /\ lbyte <= 0
     THEN enable_lbb' = FALSE /\ bb' = lbb /\ lbb' = Ring(0)
     ELSE UNCHANGED <<enable_lbb, bb, lbb>>
  /\ UNCHANGED <<stream, received, lbyte, morebyte, delivered>>

epFUI_OnRecv ==
  \/ RecvNoRoom \/ RecvRing \/ RecvLarge
  \/ TooFew \/ Deliver \/ Drop \/ TailInFront \/ Fault \/ Incomplete \/ OnRecvEnd

-----------------------------------------------------------------------------
Next == Peer \/ epFUI_OnRecv

Spec == Init /\ [][Next]_vars

\* The event loop runs on; nothing obliges the peer to send.
FairSpec == Spec /\ WF_vars(epFUI_OnRecv)

-----------------------------------------------------------------------------
(* Properties *)

Positions(r) == r.ixa \in Nat /\ r.a \in Seq(Nat) /\ r.b \in Seq(Nat)

\* The shapes of the variables; a ring's blocks lie inside it and apart.
TypeOK ==
  /\ received \in 0 .. Total
  /\ \A r \in {bb, lbb} :
       Positions(r) /\ r.ixa + Len(r.a) <= r.len /\ (r.b # <<>> => Len(r.b) <= r.ixa)
  /\ enable_lbb \in BOOLEAN /\ lbyte \in Nat /\ morebyte \in {FirstRead, MinFrame}
  /\ step \in {"event", "again", "end", "spin", "down"}

\* The bytes waiting in the buffers are the last ones received, in their order:
\* wrapping, joining, and moving to the large buffer and back lose none of them.
Waiting == IF enable_lbb /\ lbyte > 0 THEN lbb.a \o bb.a \o bb.b ELSE bb.a \o bb.b
BytesInOrder ==
  \A i \in 1 .. Len(Waiting) : Waiting[i] = received - Len(Waiting) + i

\* The bytes a frame says are its own; a good frame is right about them.
Bytes(f)    == [i \in 1 .. f.said |-> f.at + i - 1]
Good(k)     == stream[k].kind = "good"
Handable(k) == stream[k].kind \in {"good", "wronglen"}

\* No frame with a wrong length in front of item k says that k is part of it,
\* or has a length that the receiver never gets past.
Clear(k) ==
  \A j \in 1 .. k - 1 :
    stream[j].kind = "wronglen" => stream[j].said > 0 /\ stream[j].at + stream[j].said <= stream[k].at

\* The last byte of the stream that has left the buffers.
Consumed == received - Len(Waiting)
HandedOn(k) == \E i \in 1 .. Len(delivered) : delivered[i] = Bytes(stream[k])

\* What tms_Analyse has been given is frames by their own word of their length,
\* in order and none twice, however the stream is cut into reads.  And no byte of
\* a good frame leaves the buffers without the frame being handed on whole,
\* whatever is sent before it, unless a frame with a wrong length claims it or
\* has a length of 0 or less: then it may be lost, and all that follow it.
DeliveredInOrder ==
  /\ \A i \in 1 .. Len(delivered) :
       \E k \in 1 .. Len(stream) : Handable(k) /\ delivered[i] = Bytes(stream[k])
  /\ \A i, j \in 1 .. Len(delivered) :
       i < j /\ delivered[i] # <<>> /\ delivered[j] # <<>> => delivered[i][1] < delivered[j][1]
  /\ \A k \in 1 .. Len(stream) :
       Good(k) /\ Clear(k) /\ stream[k].at <= Consumed => HandedOn(k)

\* The connection's own ring is in place whenever no large frame is held.
RingBack == step = "event" /\ ~enable_lbb => bb.len = BufLen /\ lbb.len = 0

\* The ring has no room for a read, and none will come: what it holds is an
\* incomplete frame.
RingFull == ~enable_lbb /\ Reserve(bb, morebyte).n = 0
Stuck == step = "event" /\ RingFull

\* Only a frame that says it is more than half the ring can get stuck like that.
StuckOnlyOnLong ==
  Stuck => \E k \in Heads : IsHead(bb.a, 1, k) /\ 2 * stream[k].said > BufLen

\* A good frame is delivered once another frame's worth of bytes follows it,
\* unless the ring gets stuck or a wrong length in front of it claims it.
Followed(k) ==
  /\ k <= Len(stream) /\ Good(k) /\ Clear(k)
  /\ Total >= stream[k].at + stream[k].len - 1 + MinFrame
Arrives(k) == k <= Len(stream) /\ HandedOn(k)
FollowedDelivered ==
  \A k \in 1 .. MaxItems : Followed(k) ~> Arrives(k) \/ Stuck

\* The same without exception: only frames longer than bb are said to need
\* another buffer (protocol/tmsxx.h, the comments of bb and lbb).
FittingDelivered ==
  \A k \in 1 .. MaxItems : Followed(k) ~> Arrives(k)
=============================================================================
