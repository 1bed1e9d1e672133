---------------------------- MODULE TmsDispatch ----------------------------
(***************************************************************************)
(* What protocol/tmsxx.c does with one command: the tables by which        *)
(* tms_Analyse finds its handler and how it is treated (dowhat), the       *)
(* handlers, and the frames they and the application send.                 *)
(*                                                                         *)
(* Each function is given as the sequence of steps it takes; TmsServer     *)
(* lets the threads of the program take them.  A number is represented by  *)
(* the byte order it is in; htonl changes it.                              *)
(***************************************************************************)
EXTENDS Integers, Sequences, SequencesExt

\* <<h, n>> is the command 0xh000000n; entry n + 1 of table h is its handler.
\* Nothing refers to the table of 0x7000000n.
Unused(n) == [i \in 1 .. n |-> "Unuse"]
Table == [h \in {2, 6, 8} |->
  CASE h = 2 -> <<"SetOTDRFPGAInfo">>
    [] h = 6 -> <<"SetSMSInfo", "SMSInfo", "SendSMSInfo", "SendSMSInfoRetCode">>
    [] h = 8 -> <<"GetBasicInfo", "GetNodeTime", "RetNodeTime", "NameAndAddress", "FiberSectionCfg",
                  "ConfigPipeState", "GetCycleTestCuv", "GetStatusData", "StatusData", "CRCCheckout">>
                \o Unused(6)
                \o <<"CheckoutResult", "OTDRBasicInfo", "ConfigNodeTime", "CurAlarm", "GetOTDRData",
                     "GetOTDRData", "RetOTDRData", "RetOTDRData", "RetOTDRData", "RetOTDRData">>
                \o Unused(6) \o <<"GetStandardCurv", "Unuse">>]

COPY2USE == 0
CALLBACK == 1
DONOT    == 8

\* The dowhat values the tables start with.
Untreated == {"SetSMSInfo", "SMSInfo", "SendSMSInfo", "SendSMSInfoRetCode", "NameAndAddress"}
DoWhat ==
  [h \in DOMAIN Table |-> [i \in DOMAIN Table[h] |->
     IF h = 8 /\ i \in {2, 3} THEN CALLBACK
     ELSE IF Table[h][i] \in Untreated \/ (h = 8 /\ i \in (11 .. 16) \cup (26 .. 32)) THEN DONOT
     ELSE COPY2USE]]

\* Mutant: the value is not masked.
SetDoWhatUnmasked(d, h, arr) ==
  LET count == IF Len(arr) < Len(d[h]) THEN Len(arr) ELSE Len(d[h])
  IN  IF h \in {6, 8} /\ count > 0 THEN [d EXCEPT ![h][1] = arr[count]] ELSE d

\* p is never advanced: every setting goes to the first command of the table.
SetDoWhat(d, h, arr) ==
  LET count == IF Len(arr) < Len(d[h]) THEN Len(arr) ELSE Len(d[h])
  IN  IF h \in {6, 8} /\ count > 0 THEN [d EXCEPT ![h][1] = arr[count] % 8] ELSE d

-----------------------------------------------------------------------------
(* Byte order                                                              *)

Htonl(order) == IF order = "net" THEN "host" ELSE "net"

\* The numbers of a payload, part by part: <<part, the part that counts it>>.
Parts(name) ==
  CASE name = "FiberSectionCfg" ->
         << <<"fiber_hdr", "">>, <<"fiber_val", "fiber_hdr">>, <<"param", "">>, <<"result", "">>,
            <<"data_hdr", "">>, <<"data_val", "data_hdr">>,
            <<"event_hdr", "">>, <<"event_val", "event_hdr">> >>
    [] name \in {"SetOTDRFPGAInfo", "ConfigPipeState", "GetCycleTestCuv", "GetStatusData",
                 "GetOTDRData", "GetStandardCurv"} -> << <<"val", "">> >>
    [] OTHER -> <<>>

Payload(parts, order) == [ok |-> TRUE, order |-> [p \in {s[1] : s \in Range(parts)} |-> order]]

\* The tms_OTDRConv_ functions in turn, each over one part.  A loop over a count
\* that is not in the host's order when it is reached runs wild.
Reached(m, parts, i, p) ==
  IF \E j \in 1 .. i - 1 : parts[j][1] = p THEN Htonl(m.order[p]) ELSE m.order[p]
Convert(m, parts) ==
  [ok |-> m.ok /\ \A i \in DOMAIN parts :
                    parts[i][2] # "" => Reached(m, parts, i, parts[i][2]) = "host",
   order |-> [p \in DOMAIN m.order |-> Htonl(m.order[p])]]

-----------------------------------------------------------------------------
(* Sending a frame.  whole: the pieces of one glink_Send, which returns at *)
(* the first that fails; otherwise the caller ignores the failure.         *)

Piece(what, part, whole) == [do |-> "send", what |-> what, part |-> part, whole |-> whole]

Do(what) == [do |-> what]

\* Mutant: the mutex is locked, and locked again where it should be unlocked.
glink_SendLocks(what) ==
  <<Do("lock"), Piece(what, "tag", TRUE), Piece(what, "base", TRUE), Piece(what, "data", TRUE),
    Piece(what, "tail", TRUE), Do("lock")>>
glink_Send(what) ==
  <<Piece(what, "tag", TRUE), Piece(what, "base", TRUE), Piece(what, "data", TRUE),
    Piece(what, "tail", TRUE)>>

\* glink_SendHead, the data in two calls of glink_SendSerial, glink_SendTail
SendPieces(what) ==
  <<Piece(what, "tag", FALSE), Piece(what, "base", FALSE), Piece(what, "data", FALSE),
    Piece(what, "rest", FALSE), Piece(what, "tail", FALSE)>>

\* Both locks are pthread_mutex_lock.
UnderLock(steps) == <<Do("lock")>> \o steps \o <<Do("lock")>>

-----------------------------------------------------------------------------
(* The senders an application thread may call.  n: values the caller gives. *)

Senders == {"tms_Tick", "tms_AckEx", "tms_RetNodeTime", "tms_RetStatusData", "tms_CheckoutResult",
            "tms_Update", "tms_OTDRBasicInfo"}
Sender(op) ==
  CASE op.name \in {"tms_Tick", "tms_AckEx", "tms_RetNodeTime"} -> glink_Send(op.name)
    [] op.name \in {"tms_RetStatusData", "tms_CheckoutResult"} -> UnderLock(SendPieces(op.name))
    [] op.name = "tms_Update" -> SendPieces(op.name)
    [] op.name = "tms_OTDRBasicInfo" -> <<Do("check")>> \o SendPieces(op.name)

BasicInfoParts == << <<"crc_hdr", "">>, <<"crc_val", "">>, <<"ch_status", "">>, <<"param_hdr", "">>,
                     <<"param_val", "">>, <<"fiber_hdr", "">>, <<"fiber_val", "fiber_hdr">> >>
BasicInfo == Convert(Payload(BasicInfoParts, "host"), BasicInfoParts)

\* What the frame's data are: their byte order, the count stated and the values held.
\* tms_OTDRBasicInfo turns the count of the sections before the loop that reads it.
Content(op) ==
  CASE op.name = "tms_OTDRBasicInfo" ->
         [ok |-> BasicInfo.ok \/ op.n = 0, order |-> "net", said |-> op.n, held |-> op.n]
    [] op.name = "tms_RetStatusData" ->
         [ok |-> TRUE, order |-> Htonl("host"), said |-> op.n,
          held |-> IF op.n >= 8 THEN 8 ELSE op.n]
    [] OTHER -> [ok |-> TRUE, order |-> Htonl("host"), said |-> op.n, held |-> op.n]

-----------------------------------------------------------------------------
(* The handlers                                                            *)

Acked == {"SetOTDRFPGAInfo", "GetBasicInfo", "GetNodeTime", "FiberSectionCfg", "ConfigPipeState",
          "ConfigNodeTime", "GetOTDRData", "GetStandardCurv"}
\* FiberSectionCfg has a callback that is not called.
Called == {"SetOTDRFPGAInfo", "GetBasicInfo", "GetNodeTime", "ConfigPipeState", "GetCycleTestCuv",
           "GetStatusData", "CRCCheckout", "OTDRBasicInfo", "ConfigNodeTime", "CurAlarm",
           "GetOTDRData", "GetStandardCurv"}

Maybe(cond, steps) == IF cond THEN steps ELSE <<>>

tms_DbgAckSuccess == glink_Send("ack")

\* The callbacks of tms_app.c print; the one of GetNodeTime sends the time.
Callback(name) == <<Do("call")>> \o Maybe(name = "GetNodeTime", glink_Send("time"))

\* Mutant: the callback has the value before it is converted.
HandlerCallsFirst(name, fits) ==
  Maybe(name \in Acked, tms_DbgAckSuccess)
  \o Maybe(name \in Called, Callback(name))
  \o Maybe(Parts(name) # <<>> /\ (fits \/ name # "FiberSectionCfg"), <<Do("convert")>>)

\* fits: the counts agree with the frame's length (CHECK_PTR of FiberSectionCfg).
Handler(name, fits) ==
  Maybe(name \in Acked, tms_DbgAckSuccess)
  \o Maybe(Parts(name) # <<>> /\ (fits \/ name # "FiberSectionCfg"), <<Do("convert")>>)
  \o Maybe(name \in Called, Callback(name))

Known(cmd) == cmd[1] \in DOMAIN Table /\ cmd[2] + 1 \in DOMAIN Table[cmd[1]]
NameOf(cmd) == IF Known(cmd) THEN Table[cmd[1]][cmd[2] + 1] ELSE "unknown"

\* Mutant: the header is converted for the application before the handler runs.
tms_AnalyseCopiesFirst(d, cmd, fits) ==
  IF ~Known(cmd) THEN <<>>
  ELSE LET what == d[cmd[1]][cmd[2] + 1]
       IN  Maybe(what \in {0, 4, 5, 9}, <<Do("copy")>>)
           \o Maybe(what \in 0 .. 5 \cup {9}, Handler(NameOf(cmd), fits))

\* The Transmit functions are empty; 6, 7 and 8 run nothing.
tms_Analyse(d, cmd, fits) ==
  IF ~Known(cmd) THEN <<>>
  ELSE LET what == d[cmd[1]][cmd[2] + 1]
       IN  Maybe(what \in 0 .. 5 \cup {9}, Handler(NameOf(cmd), fits))
           \o Maybe(what \in {0, 4, 5, 9}, <<Do("copy")>>)
=============================================================================
