------------------------------ MODULE FrameFifo ------------------------------
(***************************************************************************)
(* What the outgoing frame queue promises: frames leave in the order they  *)
(* were put, each at most once; at most N places are in use, the place of  *)
(* a frame in transmission among them; only when all N are in use is a     *)
(* frame given up, and then the newest; a connection that fails or ends    *)
(* gives up all of them at once.                                           *)
(***************************************************************************)
EXTENDS Naturals, Sequences

CONSTANT N      \* places

VARIABLES
  q,            \* frames waiting, oldest first
  flight,       \* places held by a frame already transmitted: 0 or 1
  sent,         \* frames transmitted, in order
  last          \* number of the newest frame put or refused

vars == <<q, flight, sent, last>>

Init == q = <<>> /\ flight = 0 /\ sent = <<>> /\ last = 0

Refuse == last' = last + 1 /\ UNCHANGED <<q, flight, sent>>

Append1 ==
  /\ Len(q) + flight < N
  /\ q' = Append(q, last + 1) /\ last' = last + 1
  /\ UNCHANGED <<flight, sent>>

Discard ==
  /\ Len(q) + flight = N /\ q # <<>>
  /\ q' = SubSeq(q, 1, Len(q) - 1)
  /\ UNCHANGED <<flight, sent, last>>

Transmit ==
  /\ flight = 0 /\ q # <<>>
  /\ q' = Tail(q) /\ flight' = 1
  /\ sent' \in {sent, Append(sent, Head(q))}
  /\ UNCHANGED last

GiveBack == flight = 1 /\ flight' = 0 /\ UNCHANGED <<q, sent, last>>

Flush == q' = <<>> /\ UNCHANGED <<flight, sent, last>>

Next == Refuse \/ Append1 \/ Discard \/ Transmit \/ GiveBack \/ Flush

Spec == Init /\ [][Next]_vars
=============================================================================
