----------------------------- MODULE TmsServer -----------------------------
(***************************************************************************)
(* The command server: its connections, the event loop's thread that       *)
(* accepts them, dispatches their commands and drops them, the shell's     *)
(* thread that may close one, and application threads that look for a      *)
(* connection by its descriptor and send on it.                            *)
(*                                                                         *)
(* A connection is a number, its descriptor is used again after it.  Of    *)
(* the epoll library, a binary, this is modelled from its use and its      *)
(* disassembly: the list of connections, kept under a mutex of its own,    *)
(* and the order of the calls to ep_app.c.  One step of a thread is one    *)
(* successful send() of a piece; a partial one only splits a piece.        *)
(***************************************************************************)
EXTENDS TmsDispatch

CONSTANTS
  Fds,        \* descriptors the kernel gives, the least free one first
  Apps,       \* application threads
  Commands,   \* commands a host may send
  Ops,        \* what an application thread may do: [name, n]
  Settings,   \* what the application may have called tms_SetDoWhat with: <<h, arr>>
  MaxConns,   \* bound: connections accepted
  MaxEnded,   \* bound: connections that end
  MaxCmds,    \* bound: commands received
  MaxOps      \* bound: operations of each application thread

Loop == "loop"
ASSUME TmsServerAssumption ==
  /\ Fds \subseteq Nat \ {0} /\ Loop \notin Apps
  /\ Commands \subseteq Nat \X Nat /\ Ops \subseteq [name : Senders, n : Nat]
  /\ Settings \subseteq Nat \X Seq(Int)
  /\ MaxConns \in Nat /\ MaxEnded \in Nat /\ MaxCmds \in Nat /\ MaxOps \in Nat

Threads == Apps \cup {Loop}
Conns   == 1 .. MaxConns

VARIABLES
  desc,     \* the connection each descriptor stands for, 0 for none
  nodes,    \* ep.node_head
  made,     \* connections that have their struct tmsxx_app
  peer,     \* the host's end: "none", "up", "closed", "reset"
  wire,     \* the pieces each thread has sent on each connection
  prog,     \* the steps each thread has left
  ctx,      \* the context each thread uses: [fd, to]; to: whose context it is
  locked,   \* application threads whose copy of the mutex is locked
  op,       \* the operation of each application thread
  ops,      \* operations each has begun
  rcv,      \* the loop's frame: [cmd, head, data, fits]
  asked,    \* acknowledged commands received on each connection
  cmds,     \* commands received
  pgb,      \* header handed to the application: its byte order
  seen,     \* byte orders of the value of the last callback
  setting,  \* what tms_SetDoWhat was called with
  process   \* "runs", "killed" by SIGPIPE, "wild" after undefined behaviour

net  == <<desc, nodes, made, peer>>
data == <<rcv, asked, cmds, pgb, seen>>
apps == <<locked, op, ops>>
vars == <<net, wire, prog, ctx, apps, data, setting, process>>

dowhat == SetDoWhat(DoWhat, setting[1], setting[2])

NoFrame == [cmd |-> <<0, 0>>, head |-> "net", fits |-> TRUE,
            data |-> Payload(Parts(""), "net")]

Init ==
  /\ desc = [f \in Fds |-> 0] /\ nodes = <<>> /\ made = {}
  /\ peer = [c \in Conns |-> "none"] /\ wire = [c \in Conns |-> [t \in Threads |-> <<>>]]
  /\ prog = [t \in Threads |-> <<>>]
  /\ ctx = [t \in Threads |-> [fd |-> 0, to |-> 0]]
  /\ locked = {} /\ op = [t \in Apps |-> [name |-> "none", n |-> 0]] /\ ops = [t \in Apps |-> 0]
  /\ rcv = NoFrame /\ asked = [c \in Conns |-> <<>>] /\ cmds = 0
  /\ pgb = "host" /\ seen = {}
  /\ setting \in Settings
  /\ process = "runs"

Idle(t) == prog[t] = <<>>
Open(c) == \E f \in Fds : desc[f] = c
FdOf(c) == CHOOSE f \in Fds : desc[f] = c
On(fd)  == IF fd \in Fds THEN desc[fd] ELSE 0

-----------------------------------------------------------------------------
(* The event loop: ep_WorkThread of the library, epFUI_ of ep_app.c        *)

\* ep_Accept lists the node; epFUI_OnAccept then makes its structure.
Accept ==
  /\ Idle(Loop)
  /\ \E c \in Conns, f \in Fds :
       /\ peer[c] = "none" /\ \A b \in 1 .. c - 1 : peer[b] # "none"
       /\ desc[f] = 0 /\ \A g \in Fds : desc[g] = 0 => f <= g
       /\ desc' = [desc EXCEPT ![f] = c] /\ nodes' = Append(nodes, c)
       /\ peer' = [peer EXCEPT ![c] = "up"]
       /\ ctx' = [ctx EXCEPT ![Loop] = [fd |-> f, to |-> c]]
  /\ prog' = [prog EXCEPT ![Loop] = <<Do("InitSocketStruct")>>]
  /\ UNCHANGED <<made, wire, apps, data, setting>>

\* epFUI_OnRecv hands a frame to tms_Analyse.
Receive ==
  /\ Idle(Loop) /\ cmds < MaxCmds
  /\ \E c \in made, cmd \in Commands, fits \in BOOLEAN :
       /\ Open(c) /\ peer[c] \in {"up", "closed"}
       /\ (~fits => NameOf(cmd) = "FiberSectionCfg")
       /\ ctx' = [ctx EXCEPT ![Loop] = [fd |-> FdOf(c), to |-> c]]
       /\ rcv' = [cmd |-> cmd, head |-> "net", fits |-> fits,
                  data |-> Payload(Parts(NameOf(cmd)), "net")]
       /\ prog' = [prog EXCEPT ![Loop] = tms_Analyse(dowhat, cmd, fits)]
       /\ asked' = IF \E i \in DOMAIN prog'[Loop] :
                        prog'[Loop][i].do = "send" /\ prog'[Loop][i].what = "ack"
                   THEN [asked EXCEPT ![c] = Append(@, cmd)] ELSE asked
  /\ cmds' = cmds + 1
  /\ UNCHANGED <<net, wire, apps, pgb, seen, setting>>

\* recv() fails or returns 0: epFUI_OnRemoveClose frees the structure, and
\* ep_DelConNode then takes the node off the list and closes the descriptor.
HungUp ==
  /\ Idle(Loop)
  /\ \E c \in made :
       /\ Open(c) /\ peer[c] \in {"closed", "reset"}
       /\ ctx' = [ctx EXCEPT ![Loop] = [fd |-> FdOf(c), to |-> c]]
  /\ prog' = [prog EXCEPT ![Loop] = <<Do("FreeSocketStruct"), Do("ep_DelConNode")>>]
  /\ UNCHANGED <<net, wire, apps, data, setting>>

\* The library and the callbacks go on with the node, freed or not.
OnNode(c, change) ==
  IF Contains(nodes, c) THEN change /\ UNCHANGED process
  ELSE process' = "wild" /\ UNCHANGED <<desc, nodes, made>>

InitSocketStruct(c) == OnNode(c, made' = made \cup {c} /\ UNCHANGED <<desc, nodes>>)
FreeSocketStruct(c) == OnNode(c, made' = made \ {c} /\ UNCHANGED <<desc, nodes>>)
ep_DelConNode(c) ==
  OnNode(c, /\ nodes' = RemoveFirst(nodes, c)
            /\ desc' = [desc EXCEPT ![FdOf(c)] = 0] /\ UNCHANGED made)

tms_OTDRConv == /\ rcv' = [rcv EXCEPT !.data = Convert(@, Parts(NameOf(rcv.cmd)))]
                /\ UNCHANGED <<pgb, seen>>
OnCommand    == seen' = Range(rcv.data.order) /\ UNCHANGED <<rcv, pgb>>
tms_Copy2Use == /\ rcv' = [rcv EXCEPT !.head = Htonl(@)] /\ pgb' = Htonl(rcv.head)
                /\ UNCHANGED seen

LoopStep(step) ==
  LET c == ctx[Loop].to IN
  /\ prog' = [prog EXCEPT ![Loop] = Tail(@)]
  /\ \/ /\ \/ step.do = "InitSocketStruct" /\ InitSocketStruct(c)
           \/ step.do = "FreeSocketStruct" /\ FreeSocketStruct(c)
           \/ step.do = "ep_DelConNode" /\ ep_DelConNode(c)
        /\ UNCHANGED <<peer, data>>
     \/ /\ \/ step.do = "convert" /\ tms_OTDRConv
           \/ step.do = "call" /\ OnCommand
           \/ step.do = "copy" /\ tms_Copy2Use
        /\ UNCHANGED <<net, asked, cmds, process>>
  /\ UNCHANGED <<wire, ctx, apps, setting>>

-----------------------------------------------------------------------------
(* Sending                                                                 *)

\* The data of a frame.  The command's number in an ack is taken from the
\* header, turned for struct tms_ack and turned back by tms_AckEx.
DataOf(t, step) ==
  IF step.what = "ack"
  THEN [cmd |-> rcv.cmd, order |-> Htonl(Htonl(rcv.head)), said |-> 1, held |-> 1]
  ELSE IF t = Loop THEN [cmd |-> <<0, 0>>, order |-> "net", said |-> 1, held |-> 1]
  ELSE LET s == Content(op[t])
       IN  [cmd |-> <<0, 0>>, order |-> s.order, said |-> s.said, held |-> s.held]

\* The parts around the data hold no numbers of the caller's.
Sent(t, step) ==
  [part |-> step.part, what |-> step.what, to |-> ctx[t].to,
   data |-> IF step.part \in {"data", "rest"} THEN DataOf(t, step) ELSE <<>>]

\* The steps left when a send has failed: glink_Send and glink_SendHead return.
Failed(steps) ==
  LET step == Head(steps) IN
  IF step.whole
  THEN SubSeq(steps, 1 + SelectInSeq(steps, LAMBDA s : s.do = "send" /\ s.part = "tail"), Len(steps))
  ELSE IF step.part = "tag" THEN Tail(Tail(steps))
  ELSE Tail(steps)

\* Mutant: a full buffer (EAGAIN) counts as a failure.
glink_SendSerialGivesUp(t, step) ==
  LET c == On(ctx[t].fd) IN
  \/ prog' = [prog EXCEPT ![t] = Failed(@)] /\ UNCHANGED <<wire, peer, process>>
  \/ /\ c # 0 /\ peer[c] \in {"up", "closed"}
     /\ prog' = [prog EXCEPT ![t] = Tail(@)]
     /\ wire' = [wire EXCEPT ![c][t] = Append(@, Sent(t, step))]
     /\ peer' = [peer EXCEPT ![c] = IF @ = "closed" THEN "reset" ELSE @]
     /\ UNCHANGED process

\* What send() may do on connection c: EAGAIN is tried again; a host that has
\* closed answers the first piece with a reset, and the next one raises SIGPIPE.
glink_SendSerial(t, step) ==
  LET c == On(ctx[t].fd) IN
  \/ /\ c = 0
     /\ prog' = [prog EXCEPT ![t] = Failed(@)]
     /\ UNCHANGED <<wire, peer, process>>
  \/ /\ c # 0 /\ peer[c] \in {"up", "closed"}
     /\ prog' = [prog EXCEPT ![t] = Tail(@)]
     /\ wire' = [wire EXCEPT ![c][t] = Append(@, Sent(t, step))]
     /\ peer' = [peer EXCEPT ![c] = IF @ = "closed" THEN "reset" ELSE @]
     /\ UNCHANGED process
  \/ /\ c # 0 /\ peer[c] = "reset"
     /\ process' = "killed"
     /\ UNCHANGED <<wire, peer, prog>>

SendStep(t, step) ==
  /\ step.do = "send" /\ glink_SendSerial(t, step)
  /\ UNCHANGED <<desc, nodes, made, ctx, apps, data, setting>>

LockStep(t, step) ==
  /\ step.do = "lock" /\ t \notin locked
  /\ locked' = locked \cup {t} /\ prog' = [prog EXCEPT ![t] = Tail(@)]
  /\ UNCHANGED <<net, wire, ctx, op, ops, data, setting, process>>

\* tms_OTDRBasicInfo looks through three pointers before it sets them.
CheckStep(t, step) ==
  /\ step.do = "check"
  /\ \/ prog' = [prog EXCEPT ![t] = IF Content(op[t]).ok THEN Tail(@) ELSE @]
        /\ process' = IF Content(op[t]).ok THEN "runs" ELSE "wild"
     \/ prog' = [prog EXCEPT ![t] = <<>>] /\ UNCHANGED process
     \/ process' = "wild" /\ UNCHANGED prog
  /\ UNCHANGED <<net, wire, ctx, apps, data, setting>>

Step(t) ==
  /\ ~Idle(t)
  /\ \/ SendStep(t, Head(prog[t])) \/ LockStep(t, Head(prog[t])) \/ CheckStep(t, Head(prog[t]))
     \/ t = Loop /\ LoopStep(Head(prog[t]))

-----------------------------------------------------------------------------
(* The shell, the hosts, the application                                   *)

\* Either end may close a connection, or both the same one.
Ended     == {c \in Conns : peer[c] \in {"closed", "reset"} \/ (peer[c] = "up" /\ ~Open(c))}
MayEnd(c) == Cardinality({c} \cup Ended) <= MaxEnded

\* do_close, ep_Close: the structure is not freed.
ShellClose ==
  /\ \E f \in Fds : /\ desc[f] # 0 /\ MayEnd(desc[f])
                    /\ nodes' = RemoveFirst(nodes, desc[f])
                    /\ desc' = [desc EXCEPT ![f] = 0]
  /\ UNCHANGED <<made, peer, wire, prog, ctx, apps, data, setting>>

HostCloses ==
  /\ \E c \in Conns : peer[c] = "up" /\ MayEnd(c) /\ peer' = [peer EXCEPT ![c] = "closed"]
  /\ UNCHANGED <<desc, nodes, made, wire, prog, ctx, apps, data, setting>>

\* _ep_find along the list, up to the node with the descriptor.  Reading a
\* node that has no structure is reading near address 0.
Walked(fd) ==
  {i \in DOMAIN nodes : \A j \in 1 .. i - 1 : nodes[j] \in made => nodes[j] # On(fd)}

\* Mutant: the last node is taken, whatever its descriptor is.
_ep_findAny(fd) == IF nodes = <<>> THEN {} ELSE made \cap {Last(nodes)}
_ep_find(fd) == {c \in made : On(fd) = c /\ Contains(nodes, c)}

\* When nothing is found, the caller's structure is compared as it is: what
\* an earlier call left there, or anything at first.
Fill(t, fd) ==
  IF _ep_find(fd) # {} THEN {[fd |-> fd, to |-> c] : c \in _ep_find(fd)}
  ELSE IF ctx[t].fd = fd THEN {ctx[t]}
  ELSE IF ops[t] = 0 THEN {ctx[t], [fd |-> fd, to |-> 0]} ELSE {ctx[t]}

\* A thread selects a context and sends with it if that returns 1.
tms_SelectContextByFD(t, fd) ==
  /\ Idle(t) /\ ops[t] < MaxOps
  /\ ops' = [ops EXCEPT ![t] = @ + 1]
  /\ \E o \in Ops, x \in Fill(t, fd) :
       /\ ctx' = [ctx EXCEPT ![t] = x] /\ op' = [op EXCEPT ![t] = o]
       /\ locked' = IF _ep_find(fd) # {} THEN locked \ {t} ELSE locked
       /\ process' = IF \A i \in Walked(fd) : nodes[i] \in made THEN process ELSE "wild"
       /\ prog' = [prog EXCEPT ![t] = IF x.fd = fd THEN Sender(o) ELSE <<>>]
  /\ UNCHANGED <<net, wire, data, setting>>
App(t) == \E fd \in Fds : tms_SelectContextByFD(t, fd)

-----------------------------------------------------------------------------
Next ==
  /\ process = "runs"
  /\ \/ (Accept \/ Receive \/ HungUp \/ ShellClose \/ HostCloses) /\ UNCHANGED process
     \/ \E t \in Apps : App(t)
     \/ \E t \in Threads : Step(t)

Spec == Init /\ [][Next]_vars

-----------------------------------------------------------------------------
(* Properties                                                              *)

\* Every variable has its type; a connection has one descriptor and one node,
\* is listed as long as its descriptor is open, and no handling of a command
\* is set to a value the dispatcher does not know.
TypeOK ==
  /\ desc \in [Fds -> Conns \cup {0}]
  /\ \A f, g \in Fds : desc[f] = desc[g] /\ desc[f] # 0 => f = g
  /\ IsInjective(nodes) /\ Range(nodes) = {desc[f] : f \in Fds} \ {0}
  /\ made \subseteq Conns /\ peer \in [Conns -> {"none", "up", "closed", "reset"}]
  /\ DOMAIN wire = Conns /\ DOMAIN prog = Threads /\ locked \subseteq Apps
  /\ ctx \in [Threads -> [fd : Fds \cup {0}, to : Conns \cup {0}]]
  /\ op \in [Apps -> Ops \cup {[name |-> "none", n |-> 0]}] /\ ops \in [Apps -> 0 .. MaxOps]
  /\ cmds \in 0 .. MaxCmds
  /\ \A h \in DOMAIN Table : Range(dowhat[h]) \subseteq 0 .. 9
  /\ process \in {"runs", "killed", "wild"}

AllSent(c) == UNION {Range(wire[c][t]) : t \in Threads}

\* The places of the acknowledgements on a connection; the one at i is the Nth.
Acks(c) == {i \in DOMAIN wire[c][Loop] : wire[c][Loop][i].what = "ack" /\ wire[c][Loop][i].part = "data"}
Nth(c, i) == Cardinality({j \in Acks(c) : j <= i})

\* The acknowledgements on a connection name, in network order, the commands
\* that came in on it, each once and in their order; a callback runs, and the
\* loop goes on to other work, only after the one of its command is out.
AckNamesCommand ==
  \A c \in Conns :
    /\ \A i \in Acks(c) :
         /\ Nth(c, i) \in DOMAIN asked[c] /\ wire[c][Loop][i].data.cmd = asked[c][Nth(c, i)]
         /\ wire[c][Loop][i].data.order = "net"
    /\ Open(c) /\ peer[c] = "up" /\ (Idle(Loop) \/ Head(prog[Loop]).do = "call")
         => Cardinality(Acks(c)) = Len(asked[c])

\* Numbers are in network order on every connection and in the host's order
\* in every value and header handed to the application, converted exactly once
\* and never by a count still in network order; a frame says how many values it
\* holds, except a status frame of a caller with more than eight.
ByteOrder ==
  /\ seen \subseteq {"host"} /\ pgb = "host" /\ rcv.data.ok
  /\ \A c \in Conns : \A p \in AllSent(c) :
       p.part \in {"data", "rest"} => p.data.order = "net" /\ (p.data.said = p.data.held \/ p.data.said > 8)

\* What is sent for one host reaches another's connection only after the
\* first one's descriptor was closed and given to the second while a copy of
\* its context was in use, or through a structure no search had filled; what
\* the event loop sends never does.
RightPeer ==
  \A c \in Conns :
    /\ \A p \in AllSent(c) : p.to # c => p.to = 0 \/ ~Open(p.to)
    /\ \A p \in Range(wire[c][Loop]) : p.to = c

After == [tag |-> {"base"}, base |-> {"data"}, data |-> {"rest", "tail"}, rest |-> {"tail"},
          tail |-> {"tag"}]

\* What one thread sends to its host is whole frame after whole frame, in
\* their order, however often the socket's buffer was full and whether or not
\* the connection was closed or its descriptor reused meanwhile.
WholeFrames ==
  \A c \in Conns, t \in Threads : LET sent == wire[c][t] IN
    \A i \in DOMAIN sent : sent[i].to = c =>
      \/ sent[i].part = "tag" /\ \A j \in 1 .. i - 1 : sent[j].to # c
      \/ \E j \in 1 .. i - 1 : /\ sent[j].to = c /\ \A k \in j + 1 .. i - 1 : sent[k].to # c
                             /\ sent[i].part \in After[sent[j].part]

\* Nobody waits for anybody else: a thread that cannot take its next step is an
\* application thread in tms_RetStatusData or tms_CheckoutResult, at the lock
\* where they should unlock, its own mutex locked and its frame behind it.
Waits(t) == ~Idle(t) /\ ~ENABLED Step(t)
WaitsOnlyForItself ==
  process = "runs" =>
    \A t \in Threads : Waits(t) =>
      /\ t \in locked /\ prog[t] = <<Do("lock")>>
      /\ op[t].name \in {"tms_RetStatusData", "tms_CheckoutResult"}
=============================================================================
