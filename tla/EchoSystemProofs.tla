-------------------------- MODULE EchoSystemProofs --------------------------
(***************************************************************************)
(* Proofs about the client and domapp together.  What cleanup_exit         *)
(* guarantees by itself holds in the whole system, since nothing else      *)
(* touches what the handlers use; and what the client reports of its       *)
(* echoes is what happened.                                                *)
(***************************************************************************)
EXTENDS EchoSystem, SequenceTheorems, TLAPS

Proofs == INSTANCE SignalExitProofs

(* Whatever client, domapp and driver do is for the signal handlers a step *)
(* of theirs or none.                                                      *)
LEMMA StepsOfSignals == Next => Signal!Next \/ UNCHANGED signalVars
<1> SUFFICES ASSUME Next
             PROVE  Signal!Next \/ UNCHANGED signalVars
  OBVIOUS
<1>1. CASE Client
  BY <1>1 DEF Client, ClientSend, ClientSendFails, ClientRecv, ClientRecvFails, ClientDone
<1>2. CASE SignalStep
  BY <1>2 DEF SignalStep, Signal!Next
<1>3. CASE SignalArrives
  BY <1>3 DEF SignalArrives, Signal!Next
<1>4. CASE MainStep \/ SigPipe \/ DriverCuts
  BY <1>4 DEF MainStep, SigPipe, DriverCuts, signalVars
<1> QED
  BY <1>1, <1>2, <1>3, <1>4 DEF Next

(* The system's behaviours, seen by the handlers, are those of SignalExit. *)
THEOREM RefinesSignalExit == Spec => Signal!Spec
<1>1. Init => Signal!Init
  BY DEF Init
<1>2. [Next]_vars => [Signal!Next]_(Signal!signalVars)
  BY StepsOfSignals DEF vars, signalVars, Signal!signalVars
<1> QED
  BY <1>1, <1>2, PTL DEF Spec, Signal!Spec

(* The module of the proofs has the definitions of SignalExit.             *)
LEMMA SameSpec == Signal!Spec => Proofs!Spec
<1>1. Signal!Init => Proofs!Init
  BY DEF Signal!Init, Proofs!Init
<1>2. [Signal!Next]_(Signal!signalVars) => [Proofs!Next]_(Proofs!signalVars)
  BY DEF Signal!signalVars, Signal!Next, Signal!Handling, Signal!cleanup_exit,
         Signal!Arrive, Signal!TakeSignal, Signal!Deliverable, Signal!Blocked, Signal!Step,
         Signal!Test, Signal!Mark, Signal!Fprintf, Signal!Fclose, Signal!UseLog,
         Signal!Close, Signal!Reset, Signal!Raise, Signal!Return,
         Proofs!signalVars, Proofs!Next, Proofs!Handling, Proofs!cleanup_exit,
         Proofs!Arrive, Proofs!TakeSignal, Proofs!Deliverable, Proofs!Blocked, Proofs!Step,
         Proofs!Test, Proofs!Mark, Proofs!Fprintf, Proofs!Fclose, Proofs!UseLog,
         Proofs!Close, Proofs!Reset, Proofs!Raise, Proofs!Return
<1> QED
  BY <1>1, <1>2, PTL DEF Signal!Spec, Proofs!Spec

(* Also in the middle of an echo: a domapp that dies of a signal has       *)
(* closed the log and the connection, and it dies of one that was sent.    *)
THEOREM ClosedBeforeDeathHolds == Spec => []ClosedBeforeDeath
<1>1. Proofs!Spec => []Proofs!ClosedBeforeDeath
  BY Proofs!ClosedBeforeDeathHolds
<1>2. Proofs!ClosedBeforeDeath => ClosedBeforeDeath
  BY DEF Proofs!ClosedBeforeDeath, ClosedBeforeDeath, Signal!ClosedBeforeDeath
<1> QED
  BY <1>1, <1>2, RefinesSignalExit, SameSpec, PTL

(* One kind of signal never makes domapp use the log after its fclose.     *)
THEOREM OneKindOneCleanupHolds == Spec => []OneKindOneCleanup
<1>1. Proofs!Spec => []Proofs!OneKindOneCleanup
  BY Proofs!OneKindOneCleanupHolds
<1>2. Proofs!OneKindOneCleanup => OneKindOneCleanup
  BY DEF Proofs!OneKindOneCleanup, OneKindOneCleanup, Signal!OneKindOneCleanup
<1> QED
  BY <1>1, <1>2, RefinesSignalExit, SameSpec, PTL

-----------------------------------------------------------------------------
(* The client's messages with any length.                                 *)
Cut(k, l) ==
  [mt |-> "MESSAGE_HANDLER", mst |-> "MSGHAND_ECHO_MSG", msgID |-> k, dlen |-> l,
   status |-> SUCCESS, data |-> [payload |-> 1]]
Echoes == {Cut(k, MsgLen) : k \in 0 .. NumMsgs}

(* Domapp with these as its requests, and what is proved of it.            *)
Program == INSTANCE DomappProofs
             WITH Requests <- Echoes, ServiceLens <- {}, Cuts <- {}, BoardNameLen <- 0,
                  Window <- 1, OutCap <- 1

InHand == proc = "running" /\ pc \in {"handle", "send"}

(* On its way down: the message the client works on, perhaps cut off.      *)
IsRequest(m) ==
  \E l \in Int : /\ m = Cut(imsg, l) /\ l >= -7 /\ l <= MsgLen
                 /\ l = MsgLen \/ "down" \in cut

(* In domapp: that message or, of one that was cut off, something of       *)
(* another length.                                                         *)
IsEcho(m) ==
  \/ m = downMessage(imsg)
  \/ /\ "down" \in cut /\ m.dlen # MsgLen
     /\ m.mt = "MESSAGE_HANDLER" /\ m.mst \in {"MSGHAND_ECHO_MSG", "NONE"}

(* On its way up: the same, perhaps cut off.  One cut never makes the      *)
(* length that the client expects; two may.                                *)
IsReply(m) ==
  /\ "dlen" \in DOMAIN m /\ m.dlen \in Int /\ m.dlen >= -7
  /\ \/ m = downMessage(imsg)
     \/ "up" \in cut /\ m.dlen < MsgLen
     \/ "down" \in cut /\ m.dlen # MsgLen
     \/ cut = {"down", "up"}

(* Before a send nothing is under way, during a receive at most one        *)
(* message.                                                                *)
StopAndWait ==
  /\ cpc \in {"send", "done"} => inq = <<>> /\ outq = <<>> /\ ~ InHand
  /\ inq = <<>> \/ (outq = <<>> /\ ~ InHand /\ Len(inq) = 1 /\ IsRequest(inq[1]))
  /\ outq = <<>> \/ (inq = <<>> /\ ~ InHand /\ Len(outq) = 1 /\ IsReply(outq[1]))
  /\ InHand => IsEcho(M)

(* The client's own state.                                                 *)
ClientInv ==
  /\ cpc \in {"send", "recv", "done", "error"}
  /\ imsg \in 0 .. NumMsgs
  /\ cpc = "recv" => imsg < NumMsgs
  /\ cut \subseteq {"down", "up"}

(* Who ends what: only a client that has ended breaks the connection, main *)
(* returns only over a broken one, and domapp is killed only by that, by a *)
(* signal or by a request that was cut off.                                *)
EndInv ==
  /\ mode \in {"GMSR_SOCKET", "GMSR_FILE"}
  /\ cut # {} => mode = "GMSR_FILE"
  /\ connection \in {"good", "bad"}
  /\ connection = "bad" => cpc \in {"done", "error"}
  /\ proc = "returned" => connection = "bad"
  /\ proc = "killed" => connection = "bad" \/ death # "none" \/ "down" \in cut
  /\ proc \in {"running", "returned", "killed"}

(* Without a signal sent, cleanup_exit does nothing.                       *)
QuietInv ==
  arrived = {} => /\ pending = {} /\ frames = <<>> /\ files = "open" /\ death = "none"

IInv ==
  /\ Program!IInv /\ ClientInv /\ StopAndWait /\ EndInv /\ QuietInv /\ OnlyFaultsFail
-----------------------------------------------------------------------------
(* The assumptions of the proofs about Domapp hold here.                   *)
Fields == {"mt", "mst", "msgID", "dlen", "status", "data"}

LEMMA CutShorter == \A k, l, j : [Cut(k, l) EXCEPT !.dlen = j] = Cut(k, j)
<1> SUFFICES ASSUME NEW k, NEW l, NEW j
             PROVE  [Cut(k, l) EXCEPT !.dlen = j] = Cut(k, j)
  OBVIOUS
<1> DEFINE r == [Cut(k, l) EXCEPT !.dlen = j]
           c == Cut(k, j)
<1>1. r = [x \in Fields |-> r[x]] /\ c = [x \in Fields |-> c[x]]
  BY DEF Cut, Fields
<1>2. /\ r["mt"] = c["mt"] /\ r["mst"] = c["mst"] /\ r["msgID"] = c["msgID"]
      /\ r["dlen"] = c["dlen"] /\ r["status"] = c["status"] /\ r["data"] = c["data"]
  BY DEF Cut
<1> HIDE DEF r, c
<1>3. \A x \in Fields : r[x] = c[x]
  BY <1>2 DEF Fields
<1>4. r = c
  BY <1>1, <1>3
<1> QED
  BY <1>4 DEF r, c

LEMMA CutReplied ==
  \A k, l, j : [Cut(k, l) EXCEPT !.dlen = j, !.status = SUCCESS] = Cut(k, j)
<1> SUFFICES ASSUME NEW k, NEW l, NEW j
             PROVE  [Cut(k, l) EXCEPT !.dlen = j, !.status = SUCCESS] = Cut(k, j)
  OBVIOUS
<1> DEFINE r == [Cut(k, l) EXCEPT !.dlen = j, !.status = SUCCESS]
           c == Cut(k, j)
<1>1. r = [x \in Fields |-> r[x]] /\ c = [x \in Fields |-> c[x]]
  BY DEF Cut, Fields
<1>2. /\ r["mt"] = c["mt"] /\ r["mst"] = c["mst"] /\ r["msgID"] = c["msgID"]
      /\ r["dlen"] = c["dlen"] /\ r["status"] = c["status"] /\ r["data"] = c["data"]
  BY DEF Cut
<1> HIDE DEF r, c
<1>3. \A x \in Fields : r[x] = c[x]
  BY <1>2 DEF Fields
<1>4. r = c
  BY <1>1, <1>3
<1> QED
  BY <1>4 DEF r, c

LEMMA ProgramAssumptions ==
  /\ MAX_MSG \in Nat \ {0} /\ NULL \notin 0 .. MAX_MSG - 1
  /\ MAXDATA_VALUE \in Nat /\ MAXDATA_VALUE < 65536 /\ 0 \in Nat
  /\ {} \subseteq 0 .. MAXDATA_VALUE
  /\ \A l \in {} : l \in Int /\ l >= -7
  /\ 1 \in Nat \ {0}
  /\ \A q \in Echoes : /\ DOMAIN q = {"mt", "mst", "msgID", "dlen", "status", "data"}
                       /\ q.dlen \in Nat
<1>1. \A q \in Echoes : /\ DOMAIN q = {"mt", "mst", "msgID", "dlen", "status", "data"}
                        /\ q.dlen \in Nat
  <2> SUFFICES ASSUME NEW q \in Echoes
               PROVE  /\ DOMAIN q = {"mt", "mst", "msgID", "dlen", "status", "data"}
                      /\ q.dlen \in Nat
    OBVIOUS
  <2>1. PICK k \in 0 .. NumMsgs : q = Cut(k, MsgLen)
    BY DEF Echoes
  <2>2. DOMAIN q = Fields /\ q.dlen = MsgLen
    BY <2>1 DEF Cut, Fields
  <2> QED
    BY <2>2, EchoAssumption DEF Fields
<1> QED
  BY <1>1, PoolAssumption, EchoAssumption

(* The client's messages may arrive, cut off if there is a driver.         *)
LEMMA EchoArrives ==
  ASSUME NEW k \in 0 .. NumMsgs, NEW l \in Int, l >= -7,
         mode = "GMSR_FILE" \/ l = MsgLen
  PROVE  Cut(k, l) \in Program!Arrivals
<1> DEFINE e == Cut(k, MsgLen)
<1>1. e \in Echoes
  BY DEF Echoes
<1>2. /\ e.mt = "MESSAGE_HANDLER" /\ e.mst = "MSGHAND_ECHO_MSG" /\ e.msgID = k
      /\ e.dlen = MsgLen /\ e.status = SUCCESS /\ e.data = [payload |-> 1]
  BY DEF Cut
<1> HIDE DEF e
<1>3. /\ "MESSAGE_HANDLER" \in {q.mt : q \in Echoes}
      /\ "MSGHAND_ECHO_MSG" \in Program!Subtypes /\ k \in Program!IDs
      /\ SUCCESS \in {q.status : q \in Echoes}
      /\ [payload |-> 1] \in {q.data : q \in Echoes}
      /\ MsgLen \in {q.dlen : q \in Echoes}
  BY <1>1, <1>2 DEF Program!Subtypes, Program!IDs
<1>4. l \in IF mode = "GMSR_FILE" THEN {i \in Int : i >= -7} ELSE {q.dlen : q \in Echoes}
  BY <1>3
<1> QED
  BY <1>3, <1>4 DEF Cut, Program!Arrivals

(* All of them are echo requests.                                          *)
LEMMA OnlyEchoes ==
  /\ \A q \in Program!Arrivals : q.mt = "MESSAGE_HANDLER"
  /\ Program!Subtypes = {"MSGHAND_ECHO_MSG", "NONE"}
<1>1. \A q \in Echoes : q.mt = "MESSAGE_HANDLER" /\ q.mst = "MSGHAND_ECHO_MSG"
  BY DEF Echoes, Cut
<1>2. 0 \in 0 .. NumMsgs
  BY EchoAssumption
<1>3. Cut(0, MsgLen) \in Echoes
  BY <1>2 DEF Echoes
<1>4. \A q \in Program!Arrivals : q.mt \in {r.mt : r \in Echoes}
  BY DEF Program!Arrivals
<1> QED
  BY <1>1, <1>3, <1>4 DEF Program!Subtypes, Program!Handler!BlankMessage

LEMMA ProgramInit == Init => Program!IInv
<1>1. Server!Init => Program!Init
  BY DEF Server!Init, Program!Init, Server!Handler!InitialInfo, Program!Handler!InitialInfo,
         Server!Handler!BlankMessage, Program!Handler!BlankMessage,
         Server!Handler!St, Program!Handler!St,
         Server!Kept, Program!Kept,
         Server!Ring!messageBuffers_init, Program!Ring!messageBuffers_init,
         Server!Ring!Slots, Program!Ring!Slots, Server!Modes, Program!Modes
<1> QED
  BY <1>1, Program!InitIInv, ProgramAssumptions DEF Init

(* A step of domapp here is one of Domapp with Echoes.  The handler's part *)
(* is stated apart: here it only echoes or, of a request whose subtype was *)
(* cut off, says that it does not know it.                                 *)
LEMMA EchoesOnly ==
  ASSUME NEW m, m.mt = "MESSAGE_HANDLER", m.mst \in {"MSGHAND_ECHO_MSG", "NONE"},
         Server!Handler!msgHandler(m)
  PROVE  Server!Handler!Echo(m) \/ Server!Handler!UnknownSubtype(m)
<1>1. m.mst \notin DOMAIN Server!Handler!Report(Server!Handler!InitialInfo)
  BY DEF Server!Handler!Report
<1> QED
  BY <1>1
  DEF Server!Handler!msgHandler, Server!Handler!GetReport, Server!Handler!ClearLastError,
      Server!Handler!ClearStats, Server!Handler!RemoteObjectRef,
      Server!Handler!TestManager, Server!Handler!UnknownServer,
      Server!Handler!CallService, Server!Handler!Services

LEMMA SameSteps ==
  /\ Server!Allocate => Program!Allocate
  /\ Server!ReceiveMessage => Program!ReceiveMessage
  /\ Server!ReceiveFails => Program!ReceiveFails
  /\ Server!sendMsg => Program!sendMsg
  /\ Server!Overrun => Program!Overrun
  /\ Server!Killed => Program!Killed
<1>1. /\ \A m : Server!Ring!TakeSlot(m) = Program!Ring!TakeSlot(m)
      /\ \A m : Server!Ring!PutSlot(m) = Program!Ring!PutSlot(m)
  BY DEF Server!Ring!TakeSlot, Program!Ring!TakeSlot, Server!Ring!PutSlot,
         Program!Ring!PutSlot, Server!Ring!Advance, Program!Ring!Advance
<1>2. Server!Allocate => Program!Allocate
  BY <1>1
  DEF Server!Allocate, Program!Allocate, Server!Return, Program!Return,
      Server!Handler!BlankMessage, Program!Handler!BlankMessage,
      Server!Handler!St, Program!Handler!St,
      Server!ringVars, Program!ringVars, Server!hubVars, Program!hubVars
<1>3. Server!ReceiveMessage => Program!ReceiveMessage
  BY DEF Server!ReceiveMessage, Program!ReceiveMessage, Server!Acceptable,
         Program!Acceptable, Server!Read, Program!Read, Server!Stored, Program!Stored,
         Server!StoredLen, Program!StoredLen, Server!Kept, Program!Kept,
         Server!Handler!SetDataLen, Program!Handler!SetDataLen, Server!ringVars,
         Program!ringVars
<1>4. Server!ReceiveFails => Program!ReceiveFails
  <2>1. Server!Failures = Program!Failures
    BY DEF Server!Failures, Program!Failures
  <2> QED
    BY <1>1, <2>1 DEF Server!ReceiveFails, Program!ReceiveFails, Server!Return, Program!Return
<1>5. Server!sendMsg => Program!sendMsg
  BY <1>1
  DEF Server!sendMsg, Program!sendMsg, Server!Write, Program!Write, Server!WriteFails,
      Program!WriteFails, Server!Return, Program!Return
<1>6. Server!Killed => Program!Killed
  BY DEF Server!Killed, Program!Killed, Server!ringVars, Program!ringVars, Server!hubVars,
         Program!hubVars
<1>7. Server!Overrun => Program!Overrun
  BY DEF Server!Overrun, Program!Overrun, Server!Write, Program!Write, Server!ringVars,
         Program!ringVars
<1> QED
  BY <1>2, <1>3, <1>4, <1>5, <1>6, <1>7

LEMMA SameHandle ==
  ASSUME Server!Handle, M.mt = "MESSAGE_HANDLER", M.mst \in {"MSGHAND_ECHO_MSG", "NONE"}
  PROVE  /\ Program!Handle
         /\ Server!Handler!Echo(M) \/ Server!Handler!UnknownSubtype(M)
<1>1. Server!Handler!Echo(M) \/ Server!Handler!UnknownSubtype(M)
  BY EchoesOnly DEF Server!Handle
<1>2. Server!Handler!Echo(M) => Program!Handler!Echo(M)
  BY DEF Server!Handler!Echo, Program!Handler!Echo, Server!Handler!Received,
         Program!Handler!Received, Server!Handler!Inc, Program!Handler!Inc,
         Server!Handler!SetDataLen, Program!Handler!SetDataLen, Server!Handler!SUCCESS,
         Program!Handler!SUCCESS, Server!Handler!St, Program!Handler!St
<1>3. Server!Handler!Subtypes = Program!Handler!Subtypes
  BY DEF Server!Handler!Subtypes, Program!Handler!Subtypes, Server!Handler!Report,
         Program!Handler!Report
<1>4. Server!Handler!UnknownSubtype(M) => Program!Handler!UnknownSubtype(M)
  BY <1>3
  DEF Server!Handler!UnknownSubtype, Program!Handler!UnknownSubtype,
      Server!Handler!Received, Program!Handler!Received, Server!Handler!Inc,
      Program!Handler!Inc, Server!Handler!St, Program!Handler!St
<1>5. Program!Handler!msgHandler(M)
  BY <1>1, <1>2, <1>4 DEF Program!Handler!msgHandler
<1> QED
  BY <1>1, <1>5
  DEF Server!Handle, Program!Handle, Server!ringVars, Program!ringVars, Server!hubVars,
      Program!hubVars
-----------------------------------------------------------------------------
(* Sequences of one message.                                               *)
LEMMA FirstMessage ==
  ASSUME NEW S, NEW m \in S
  PROVE  /\ Append(<<>>, m) \in Seq(S) /\ Append(<<>>, m) # <<>>
         /\ Len(Append(<<>>, m)) = 1 /\ Append(<<>>, m)[1] = m
  BY AppendProperties

LEMMA LastMessage ==
  ASSUME NEW S, NEW s \in Seq(S), Len(s) = 1
  PROVE  /\ s # <<>> /\ Tail(s) = <<>> /\ Head(s) = s[1] /\ s[1] \in S
         /\ DOMAIN s = {1}
<1>1. s # <<>> /\ Tail(s) \in Seq(S) /\ Len(Tail(s)) = 0 /\ Head(s) = s[1]
  BY HeadTailProperties, EmptySeq
<1>2. Tail(s) = <<>>
  BY <1>1, EmptySeq
<1>3. s[1] \in S /\ DOMAIN s = 1 .. 1
  BY ElementOfSeq, LenProperties
<1> QED
  BY <1>1, <1>2, <1>3

LEMMA SingleMessage ==
  ASSUME NEW T, NEW t \in [1 .. 1 -> T]
  PROVE  t \in Seq(T) /\ Len(t) = 1 /\ t # <<>>
<1>1. t \in Seq(T)
  BY SeqDef
<1>2. Len(t) \in Nat /\ DOMAIN t = 1 .. Len(t) /\ Len(<<>>) = 0
  BY <1>1, LenProperties, EmptySeq
<1>3. Len(t) = 1
  BY <1>2
<1> QED
  BY <1>1, <1>2, <1>3

LEMMA ChangedMessage ==
  ASSUME NEW S, NEW s \in Seq(S), Len(s) = 1, NEW T, NEW m \in T
  PROVE  /\ [s EXCEPT ![1] = m] \in Seq(T) /\ Len([s EXCEPT ![1] = m]) = 1
         /\ [s EXCEPT ![1] = m] # <<>> /\ [s EXCEPT ![1] = m][1] = m
<1> DEFINE t == [s EXCEPT ![1] = m]
<1>1. s \in [1 .. Len(s) -> S]
  BY LenProperties
<1>2. s \in [1 .. 1 -> S]
  BY <1>1
<1>3. t = [i \in 1 .. 1 |-> IF i = 1 THEN m ELSE s[i]]
  BY <1>2
<1> HIDE DEF t
<1>4. t \in [1 .. 1 -> T] /\ t[1] = m
  BY <1>3
<1>5. t \in Seq(T) /\ Len(t) = 1 /\ t # <<>>
  BY <1>4, SingleMessage
<1> QED
  BY <1>4, <1>5 DEF t
-----------------------------------------------------------------------------
(* What happens between the two programs leaves domapp's own state alone.  *)
LEMMA ProgramStays ==
  ASSUME Program!IInv, EndInv, UNCHANGED domappVars, inq' \in Seq(Program!Arrivals),
         \E S : outq' \in Seq(S), Len(outq') <= 1, connection' \in {"good", "bad"}
  PROVE  Program!IInv'
<1>1. UNCHANGED <<Program!ringVars, msgHand, mode, pc, proc, status, messageBuffer, M,
                  tmpbuf>>
  BY DEF domappVars, Program!ringVars
<1>2. Program!RingInv'
  BY <1>1, ProgramAssumptions, Program!RingStays DEF Program!InUse
<1> QED
  BY <1>1, <1>2
  DEF EndInv, Program!IInv, Program!TypeOK, Program!MessageInv, Program!DataLens,
      Program!TmpbufInv, Program!InfoInv, Program!LinkInv, Program!Arrivals,
      Program!Ring!Buffers

(* What IInv says of the messages under way.                               *)
LEMMA UnderWay ==
  ASSUME IInv
  PROVE  /\ inq \in Seq(Program!Arrivals) /\ \E S : outq \in Seq(S)
         /\ Len(outq) <= 1 /\ connection \in {"good", "bad"}
         /\ mode \in {"GMSR_SOCKET", "GMSR_FILE"}
         /\ inq # <<>> => Len(inq) = 1 /\ Head(inq) = inq[1] /\ IsRequest(inq[1])
         /\ outq # <<>> => Len(outq) = 1 /\ Head(outq) = outq[1] /\ IsReply(outq[1])
         /\ inq # <<>> => Tail(inq) = <<>> /\ inq[1] \in Program!Arrivals
         /\ outq # <<>> => Tail(outq) = <<>>
<1>1. /\ inq \in Seq(Program!Arrivals) /\ \E S : outq \in Seq(S)
      /\ connection \in {"good", "bad"} /\ mode \in {"GMSR_SOCKET", "GMSR_FILE"}
      /\ Len(outq) <= 1
  BY DEF IInv, EndInv, Program!IInv, Program!LinkInv, Program!TypeOK
<1>2. /\ inq # <<>> => Len(inq) = 1 /\ IsRequest(inq[1])
      /\ outq # <<>> => Len(outq) = 1 /\ IsReply(outq[1])
  BY DEF IInv, StopAndWait
<1> QED
  BY <1>1, <1>2, LastMessage

LEMMA ClientSendIInv == IInv /\ ClientSend => IInv'
<1> SUFFICES ASSUME IInv, ClientSend
             PROVE  IInv'
  OBVIOUS
<1>1. /\ cpc = "send" /\ cpc' = "recv" /\ imsg < NumMsgs
      /\ inq' = Append(inq, downMessage(imsg))
      /\ UNCHANGED <<domappVars, outq, connection, signalVars, imsg, cut>>
  BY DEF ClientSend
<1>2. inq = <<>> /\ outq = <<>> /\ ~ InHand
  BY <1>1 DEF IInv, StopAndWait
<1>3. /\ MsgLen \in Int /\ MsgLen >= -7 /\ imsg \in 0 .. NumMsgs
      /\ downMessage(imsg) = Cut(imsg, MsgLen)
  BY EchoAssumption DEF IInv, ClientInv, Cut, downMessage
<1>4. downMessage(imsg) \in Program!Arrivals
  BY <1>3, EchoArrives
<1>5. /\ inq' \in Seq(Program!Arrivals) /\ inq' # <<>> /\ Len(inq') = 1
      /\ inq'[1] = downMessage(imsg)
  BY <1>1, <1>2, <1>4, FirstMessage
<1>6. IsRequest(inq[1])'
  BY <1>1, <1>3, <1>5 DEF IsRequest
<1>7. Program!IInv'
  BY <1>1, <1>5, UnderWay, ProgramStays DEF IInv
<1>8. StopAndWait'
  BY <1>1, <1>2, <1>5, <1>6 DEF StopAndWait, InHand, domappVars
<1> QED
  BY <1>1, <1>7, <1>8
  DEF IInv, ClientInv, EndInv, QuietInv, OnlyFaultsFail, domappVars, signalVars

(* domapp is gone while its connection is good: a signal was sent, or a    *)
(* request was cut off.                                                    *)
LEMMA GoneByFault ==
  ASSUME IInv, ServerGone, cpc \in {"send", "recv"}
  PROVE  cut # {} \/ arrived # {}
  BY DEF IInv, ServerGone, EndInv, QuietInv

(* The client ends, with cause.                                            *)
LEMMA ClientEndsIInv ==
  ASSUME IInv, NEW how \in {"done", "error"}, ClientEnds(how),
         how = "error" => cut # {} \/ arrived # {},
         how = "done" => cpc = "send",
         UNCHANGED <<domappVars, inq, signalVars>>,
         outq' = outq \/ (outq # <<>> /\ outq' = Tail(outq))
  PROVE  IInv'
<1>1. cpc' = how /\ connection' \in {connection, "bad"} /\ UNCHANGED <<imsg, cut>>
  BY DEF ClientEnds
<1>2. outq' = outq \/ outq' = <<>>
  BY UnderWay
<1>3. Len(outq') <= 1 /\ \E S : outq' \in Seq(S)
  BY <1>2, UnderWay, EmptySeq
<1>4. Program!IInv'
  BY <1>1, <1>3, UnderWay, ProgramStays DEF IInv
<1>5. StopAndWait'
  BY <1>1, <1>2 DEF IInv, StopAndWait, InHand, IsRequest, IsEcho, IsReply, domappVars
<1> QED
  BY <1>1, <1>4, <1>5
  DEF IInv, ClientInv, EndInv, QuietInv, OnlyFaultsFail, domappVars, signalVars

LEMMA ClientSendFailsIInv == IInv /\ (ClientSendFails \/ ClientRecvFails) => IInv'
  BY GoneByFault, ClientEndsIInv DEF ClientSendFails, ClientRecvFails

LEMMA ClientDoneIInv == IInv /\ ClientDone => IInv'
  BY ClientEndsIInv DEF ClientDone

(* Only one length is received as the client expects it. *)
LEMMA ExpectedLength ==
  ASSUME NEW l \in Int, l >= -7
  PROVE  Server!StoredLen(l) = MsgLen <=> l = MsgLen
  BY EchoAssumption DEF Server!StoredLen, Server!Handler!SetDataLen

(* What domapp gives back of a message that was not cut off.               *)
LEMMA UncutIsEchoed ==
  ASSUME IInv, cpc = "recv", outq # <<>>, cut = {}
  PROVE  Echoed(downMessage(imsg), Head(outq)) /\ Head(outq) = downMessage(imsg)
<1>1. Head(outq) = downMessage(imsg)
  BY UnderWay DEF IsReply
<1>2. downMessage(imsg).dlen = MsgLen
  BY DEF downMessage
<1>3. /\ MsgLen > 0 /\ MsgLen + 8 > 0 /\ MsgLen < MAXDATA_VALUE
      /\ MsgLen \in Int /\ MsgLen >= -7
  BY EchoAssumption
<1>4. Server!StoredLen(MsgLen) = MsgLen
  BY <1>3, ExpectedLength
<1> QED
  BY <1>1, <1>2, <1>3, <1>4 DEF Echoed, Recvd

(* And a reply that the client accepts is one, unless both ways were cut.  *)
LEMMA EchoedIsWhole ==
  ASSUME IInv, outq # <<>>, Echoed(downMessage(imsg), Head(outq))
  PROVE  cut = {"down", "up"} \/ Head(outq) = downMessage(imsg)
<1>1. Head(outq) = outq[1] /\ IsReply(outq[1])
  BY UnderWay
<1>2. downMessage(imsg).dlen = MsgLen
  BY DEF downMessage
<1>3. Server!StoredLen(outq[1].dlen) = MsgLen
  BY <1>1, <1>2 DEF Echoed
<1>4. outq[1].dlen \in Int /\ outq[1].dlen >= -7
  BY <1>1 DEF IsReply
<1>5. outq[1].dlen = MsgLen /\ MsgLen \in Int
  BY <1>3, <1>4, ExpectedLength, EchoAssumption
<1> QED
  BY <1>1, <1>5 DEF IsReply

LEMMA ClientRecvIInv == IInv /\ ClientRecv => IInv'
<1> SUFFICES ASSUME IInv, ClientRecv
             PROVE  IInv'
  OBVIOUS
<1>1. /\ cpc = "recv" /\ outq # <<>> /\ outq' = Tail(outq)
      /\ UNCHANGED <<domappVars, inq, signalVars>>
  BY DEF ClientRecv
<1>2. CASE ~ Echoed(downMessage(imsg), Head(outq))
  <2>1. ClientEnds("error")
    BY <1>2 DEF ClientRecv
  <2>2. cut # {}
    BY <1>1, <1>2, UncutIsEchoed
  <2> QED
    BY <1>1, <2>1, <2>2, ClientEndsIInv
<1>3. CASE Echoed(downMessage(imsg), Head(outq))
  <2>1. imsg' = imsg + 1 /\ cpc' = "send" /\ UNCHANGED <<connection, cut>>
    BY <1>3 DEF ClientRecv
  <2>2. outq' = <<>> /\ inq = <<>> /\ ~ InHand
    BY <1>1, UnderWay DEF IInv, StopAndWait
  <2>3. imsg' \in 0 .. NumMsgs
    BY <1>1, <2>1, EchoAssumption DEF IInv, ClientInv
  <2>4. Len(outq') <= 1 /\ \E S : outq' \in Seq(S)
    BY <2>2, EmptySeq
  <2>5. Program!IInv'
    BY <1>1, <2>1, <2>4, UnderWay, ProgramStays DEF IInv
  <2>6. StopAndWait'
    BY <1>1, <2>1, <2>2 DEF StopAndWait, InHand, domappVars
  <2> QED
    BY <1>1, <2>1, <2>3, <2>5, <2>6
    DEF IInv, ClientInv, EndInv, QuietInv, OnlyFaultsFail, domappVars, signalVars
<1> QED
  BY <1>2, <1>3

(* The driver only shortens what is under way, and over a socket there is  *)
(* no driver.                                                              *)
LEMMA CutsRequest ==
  ASSUME IInv, NEW l \in Int, l >= -7, mode = "GMSR_FILE",
         inq # <<>>, l < inq[1].dlen, inq' = [inq EXCEPT ![1].dlen = l], UNCHANGED outq,
         cut' = cut \cup {"down"},
         UNCHANGED <<domappVars, connection, signalVars, cpc, imsg>>
  PROVE  IInv'
<1>1. PICK j \in Int : inq[1] = Cut(imsg, j) /\ j <= MsgLen
  BY UnderWay DEF IsRequest
<1>2. inq[1].dlen = j
  <2>1. Cut(imsg, j).dlen = j
    BY DEF Cut
  <2> QED
    BY <1>1, <2>1
<1>3. l <= MsgLen
  BY <1>1, <1>2, EchoAssumption
<1>4. [inq[1] EXCEPT !.dlen = l] = Cut(imsg, l)
  <2>1. [Cut(imsg, j) EXCEPT !.dlen = l] = Cut(imsg, l)
    BY CutShorter
  <2> QED
    BY <1>1, <2>1
<1>5. Cut(imsg, l) \in Program!Arrivals
  BY EchoArrives DEF IInv, ClientInv
<1>6. /\ inq' \in Seq(Program!Arrivals) /\ Len(inq') = 1 /\ inq' # <<>>
      /\ inq'[1] = Cut(imsg, l)
  <2> DEFINE m == Cut(imsg, l)
  <2>1. inq' = [inq EXCEPT ![1] = m] /\ m \in Program!Arrivals
    BY <1>4, <1>5
  <2>2. inq \in Seq(Program!Arrivals) /\ Len(inq) = 1
    BY UnderWay
  <2> HIDE DEF m
  <2> DEFINE s == [inq EXCEPT ![1] = m]
  <2>3. s \in Seq(Program!Arrivals) /\ Len(s) = 1 /\ s # <<>> /\ s[1] = m
    BY <2>1, <2>2, ChangedMessage
  <2> HIDE DEF s
  <2>4. /\ inq' \in Seq(Program!Arrivals) /\ Len(inq') = 1 /\ inq' # <<>>
        /\ inq'[1] = m
    BY Zenon, <2>1, <2>3 DEF s
  <2> QED
    BY <2>4 DEF m
<1>7. IsRequest(inq[1])'
  BY <1>3, <1>6 DEF IsRequest
<1>8. Program!IInv'
  BY <1>6, UnderWay, ProgramStays DEF IInv
<1>9. StopAndWait'
  BY <1>6, <1>7 DEF IInv, StopAndWait, InHand, domappVars
<1> QED
  BY <1>8, <1>9
  DEF IInv, ClientInv, EndInv, QuietInv, OnlyFaultsFail, domappVars, signalVars

LEMMA CutsReply ==
  ASSUME IInv, NEW l \in Int, l >= -7, mode = "GMSR_FILE",
         outq # <<>>, l < outq[1].dlen, outq' = [outq EXCEPT ![1].dlen = l], UNCHANGED inq,
         cut' = cut \cup {"up"},
         UNCHANGED <<domappVars, connection, signalVars, cpc, imsg>>
  PROVE  IInv'
<1> DEFINE m == [outq[1] EXCEPT !.dlen = l]
<1>1. IsReply(outq[1])
  BY UnderWay
<1>2. "dlen" \in DOMAIN m /\ m.dlen = l
  BY <1>1 DEF IsReply
<1>3. PICK S : outq \in Seq(S)
  BY UnderWay
<1>4. outq \in Seq(S) /\ Len(outq) = 1
  BY <1>3, UnderWay
<1>5. outq' = [outq EXCEPT ![1] = m] /\ m \in {m}
  OBVIOUS
<1> HIDE DEF m
<1>6. outq' \in Seq({m}) /\ Len(outq') = 1 /\ outq' # <<>> /\ outq'[1] = m
  <2> DEFINE s == [outq EXCEPT ![1] = m]
  <2>1. s \in Seq({m}) /\ Len(s) = 1 /\ s # <<>> /\ s[1] = m
    BY <1>4, <1>5, ChangedMessage
  <2> HIDE DEF s
  <2> QED
    BY Zenon, <1>5, <2>1 DEF s
<1>7. cut' = {"down", "up"} \/ l < MsgLen
  <2>1. cut \subseteq {"down", "up"} /\ MsgLen \in Int
    BY EchoAssumption DEF IInv, ClientInv
  <2>2. CASE "down" \in cut
    BY <2>1, <2>2
  <2>3. CASE "down" \notin cut
    <3>1. outq[1] = downMessage(imsg) \/ outq[1].dlen < MsgLen
      BY <1>1, <2>3 DEF IsReply
    <3>2. downMessage(imsg).dlen = MsgLen
      BY DEF downMessage
    <3>3. outq[1].dlen <= MsgLen /\ outq[1].dlen \in Int
      BY <1>1, <2>1, <3>1, <3>2 DEF IsReply
    <3> QED
      BY <2>1, <3>3
  <2> QED
    BY <2>2, <2>3
<1>8. IsReply(outq[1])'
  BY <1>2, <1>6, <1>7 DEF IsReply
<1>9. Program!IInv'
  BY <1>6, UnderWay, ProgramStays DEF IInv
<1>10. StopAndWait'
  BY <1>6, <1>8 DEF IInv, StopAndWait, InHand, domappVars
<1> QED
  BY <1>9, <1>10
  DEF IInv, ClientInv, EndInv, QuietInv, OnlyFaultsFail, domappVars, signalVars

LEMMA DriverCutsIInv == IInv /\ DriverCuts => IInv'
<1> SUFFICES ASSUME IInv, DriverCuts
             PROVE  IInv'
  OBVIOUS
<1>1. /\ mode = "GMSR_FILE"
      /\ UNCHANGED <<domappVars, connection, signalVars, cpc, imsg>>
  BY DEF DriverCuts
<1>2. PICK l \in -7 .. MsgLen :
        \/ /\ inq # <<>> /\ l < inq[1].dlen
           /\ inq' = [inq EXCEPT ![1].dlen = l] /\ UNCHANGED outq
           /\ cut' = cut \cup {"down"}
        \/ /\ outq # <<>> /\ l < outq[1].dlen
           /\ outq' = [outq EXCEPT ![1].dlen = l] /\ UNCHANGED inq
           /\ cut' = cut \cup {"up"}
  BY DEF DriverCuts
<1>3. l \in Int /\ l >= -7
  BY EchoAssumption
<1> QED
  BY <1>1, <1>2, <1>3, CutsRequest, CutsReply
-----------------------------------------------------------------------------
(* The steps of domapp's main loop.                                        *)
LEMMA ProgramMoves ==
  ASSUME Program!IInv,
         \/ Program!Allocate \/ Program!ReceiveMessage \/ Program!ReceiveFails
         \/ Program!Handle \/ Program!sendMsg \/ Program!Overrun \/ Program!Killed
  PROVE  Program!IInv'
  BY ProgramAssumptions, Program!NextIInv DEF Program!Next, Program!Main

LEMMA DomappMoves ==
  ASSUME IInv, Program!IInv', StopAndWait', UNCHANGED <<mode, connection>>,
         UNCHANGED <<signalVars, clientVars>>,
         \/ proc' = proc
         \/ proc' = "returned" /\ connection = "bad"
         \/ proc' = "killed" /\ "down" \in cut
  PROVE  IInv'
  BY DEF IInv, ClientInv, EndInv, QuietInv, OnlyFaultsFail, signalVars, clientVars

(* The clamp of a length keeps one that fits, and no other becomes MsgLen. *)
LEMMA KeepsLength ==
  ASSUME NEW l \in Nat
  PROVE  Server!Handler!SetDataLen(l) = MsgLen <=> l = MsgLen
  BY EchoAssumption DEF Server!Handler!SetDataLen

LEMMA AllocateKeeps ==
  IInv /\ Server!Allocate /\ UNCHANGED <<signalVars, clientVars>> => IInv'
<1> SUFFICES ASSUME IInv, Server!Allocate, UNCHANGED <<signalVars, clientVars>>
             PROVE  IInv'
  OBVIOUS
<1>1. Program!Allocate /\ Program!IInv /\ pc = "loop"
  BY SameSteps DEF Server!Allocate, IInv
<1>2. pc' = "recv" /\ UNCHANGED <<proc, mode, Program!hubVars>>
  BY <1>1, ProgramAssumptions, Program!AllocateRing
<1>3. Program!IInv'
  BY <1>1, ProgramMoves
<1>4. StopAndWait'
  BY <1>1, <1>2
  DEF IInv, StopAndWait, InHand, IsRequest, IsReply, Program!hubVars, clientVars
<1> QED
  BY <1>2, <1>3, <1>4, DomappMoves DEF Program!hubVars

(* What is received is what was sent down or cut off on the way.           *)
LEMMA ReceiveMessageKeeps ==
  IInv /\ Server!ReceiveMessage /\ UNCHANGED <<signalVars, clientVars>> => IInv'
<1> SUFFICES ASSUME IInv, Server!ReceiveMessage, UNCHANGED <<signalVars, clientVars>>
             PROVE  IInv'
  OBVIOUS
<1>1. /\ inq # <<>> /\ inq' = Tail(inq) /\ M' = Server!Stored(Head(inq)) /\ pc' = "handle"
      /\ UNCHANGED <<mode, proc, outq, connection>>
  BY DEF Server!ReceiveMessage, Server!Read
<1>2. Program!IInv'
  BY SameSteps, ProgramMoves DEF IInv
<1>3. PICK l \in Int : /\ Head(inq) = Cut(imsg, l) /\ l >= -7 /\ l <= MsgLen
                       /\ l = MsgLen \/ "down" \in cut
  BY <1>1, UnderWay DEF IsRequest
<1> DEFINE q == Cut(imsg, l)
           m == Server!Stored(q)
<1>4. /\ q.mt = "MESSAGE_HANDLER" /\ q.mst = "MSGHAND_ECHO_MSG" /\ q.msgID = imsg
      /\ q.dlen = l /\ q.status = SUCCESS /\ q.data = [payload |-> 1]
  BY DEF Cut
<1>5. M' = m
  BY <1>1, <1>3
<1> HIDE DEF q
<1>6. m.mt = "MESSAGE_HANDLER" /\ m.dlen = Server!StoredLen(l)
  BY <1>4 DEF Server!Stored
<1>7. m.mst \in {"MSGHAND_ECHO_MSG", "NONE"}
  <2>1. tmpbuf.mst \in {"MSGHAND_ECHO_MSG", "NONE"}
    BY OnlyEchoes DEF IInv, Program!IInv, Program!TmpbufInv
  <2> QED
    BY <1>4, <2>1 DEF Server!Stored
<1>8. ASSUME l = MsgLen
      PROVE  IsEcho(m)
  <2>1. l + 8 >= 8 /\ l + 8 >= 7 /\ l + 8 >= 2
    BY <1>8, EchoAssumption
  <2>2. Server!StoredLen(l) = MsgLen
    BY <1>3, <1>8, ExpectedLength
  <2>3. m = downMessage(imsg)
    BY <1>4, <2>1, <2>2 DEF Server!Stored, downMessage
  <2> QED
    BY <2>3 DEF IsEcho
<1>9. ASSUME l # MsgLen
      PROVE  IsEcho(m)
  <2>1. "down" \in cut /\ m.dlen # MsgLen
    BY <1>3, <1>6, <1>9, ExpectedLength
  <2> QED
    BY <1>6, <1>7, <2>1 DEF IsEcho
<1>10. IsEcho(m)
  BY <1>8, <1>9
<1> HIDE DEF m
<1>11. IsEcho(M)'
  BY <1>5, <1>10 DEF IsEcho, clientVars
<1>12. StopAndWait'
  BY <1>1, <1>11, UnderWay DEF IInv, StopAndWait, InHand, clientVars
<1> QED
  BY <1>1, <1>2, <1>12, DomappMoves

(* No message of this client is refused, so that a receive fails only when *)
(* the client has ended.                                                   *)
LEMMA ReceiveFailsKeeps ==
  IInv /\ Server!ReceiveFails /\ UNCHANGED <<signalVars, clientVars>> => IInv'
<1> SUFFICES ASSUME IInv, Server!ReceiveFails, UNCHANGED <<signalVars, clientVars>>
             PROVE  IInv'
  OBVIOUS
<1>1. PICK f \in Server!Failures :
        Server!Return(f.sts) /\ inq' = IF f.took THEN Tail(inq) ELSE inq
  BY DEF Server!ReceiveFails
<1>2. /\ pc = "recv" /\ pc' = "loop" /\ proc' = "returned"
      /\ UNCHANGED <<mode, M, outq, connection>>
  BY <1>1 DEF Server!ReceiveFails, Server!Return
<1>3. Program!IInv'
  BY SameSteps, ProgramMoves DEF IInv
<1>4. ASSUME inq # <<>>, mode = "GMSR_SOCKET"
      PROVE  Head(inq).dlen = MsgLen
  <2>1. Head(inq) = Cut(imsg, MsgLen)
    BY <1>4, UnderWay DEF IsRequest, IInv, EndInv
  <2>2. Cut(imsg, MsgLen).dlen = MsgLen
    BY DEF Cut
  <2> QED
    BY <2>1, <2>2
<1>5. MsgLen # 0 /\ ~ (MsgLen > MAXDATA_VALUE)
  BY EchoAssumption
<1>6. connection = "bad" /\ inq' = inq
  BY <1>1, <1>4, <1>5, UnderWay DEF Server!Failures
<1>7. StopAndWait'
  BY <1>2, <1>6 DEF IInv, StopAndWait, InHand, IsRequest, IsReply, clientVars
<1> QED
  BY <1>2, <1>3, <1>6, <1>7, DomappMoves

LEMMA HandleKeeps ==
  IInv /\ Server!Handle /\ UNCHANGED <<signalVars, clientVars>> => IInv'
<1> SUFFICES ASSUME IInv, Server!Handle, UNCHANGED <<signalVars, clientVars>>
             PROVE  IInv'
  OBVIOUS
<1>1. /\ pc = "handle" /\ pc' = "send" /\ proc = "running"
      /\ UNCHANGED <<mode, proc, inq, outq, connection>>
  BY DEF Server!Handle, Server!hubVars
<1>2. IsEcho(M)
  BY <1>1 DEF IInv, StopAndWait, InHand
<1>3. M.mt = "MESSAGE_HANDLER" /\ M.mst \in {"MSGHAND_ECHO_MSG", "NONE"}
  BY <1>2 DEF IsEcho, downMessage
<1>4. Program!Handle /\ (Server!Handler!Echo(M) \/ Server!Handler!UnknownSubtype(M))
  BY <1>3, SameHandle
<1>5. Program!IInv'
  BY <1>4, ProgramMoves DEF IInv
<1>6. M.dlen \in Nat /\ DOMAIN M = Fields
  BY EchoAssumption
  DEF IInv, Program!IInv, Program!MessageInv, Program!DataLens, Fields
<1>7. ASSUME M = downMessage(imsg)
      PROVE  IsEcho(M)'
  <2>1. M.mst = "MSGHAND_ECHO_MSG" /\ M.dlen = MsgLen /\ M = Cut(imsg, MsgLen)
    BY <1>7 DEF downMessage, Cut
  <2>2. "MSGHAND_ECHO_MSG" \in Server!Handler!Subtypes
    BY DEF Server!Handler!Subtypes
  <2>3. Server!Handler!Echo(M)
    BY <1>4, <2>1, <2>2 DEF Server!Handler!UnknownSubtype
  <2>4. Server!Handler!SetDataLen(MsgLen) = MsgLen
    BY KeepsLength, EchoAssumption
  <2>5. Server!Handler!SUCCESS = SUCCESS
    BY DEF Server!Handler!SUCCESS, Server!Handler!St, SUCCESS
  <2>6. M' = [M EXCEPT !.dlen = MsgLen, !.status = SUCCESS]
    BY <2>1, <2>3, <2>4, <2>5 DEF Server!Handler!Echo
  <2>7. M' = Cut(imsg, MsgLen)
    BY <2>1, <2>6, CutReplied
  <2> QED
    BY <2>7 DEF IsEcho, Cut, downMessage, clientVars
<1>8. ASSUME M # downMessage(imsg)
      PROVE  IsEcho(M)'
  <2>1. "down" \in cut /\ M.dlen # MsgLen
    BY <1>2, <1>8 DEF IsEcho
  <2>2. PICK l \in {M.dlen, Server!Handler!SetDataLen(M.dlen)} :
          \E st : M' = [M EXCEPT !.dlen = l, !.status = st]
    <3>1. CASE Server!Handler!Echo(M)
      BY <3>1 DEF Server!Handler!Echo
    <3>2. CASE Server!Handler!UnknownSubtype(M)
      BY <1>6, <3>2 DEF Server!Handler!UnknownSubtype, Fields
    <3> QED
      BY <1>4, <3>1, <3>2
  <2>3. M'.dlen = l /\ M'.mt = M.mt /\ M'.mst = M.mst
    BY <1>6, <2>2 DEF Fields
  <2>4. l # MsgLen
    BY <1>6, <2>1, <2>2, KeepsLength
  <2> QED
    BY <1>3, <2>1, <2>3, <2>4 DEF IsEcho, clientVars
<1>9. StopAndWait'
  BY <1>1, <1>7, <1>8 DEF IInv, StopAndWait, InHand, clientVars
<1> QED
  BY <1>1, <1>5, <1>9, DomappMoves

(* What a write puts into the connection is a reply.                       *)
LEMMA EchoIsReply == IInv /\ IsEcho(M) => IsReply(M)
<1> SUFFICES ASSUME IInv, IsEcho(M)
             PROVE  IsReply(M)
  OBVIOUS
<1>1. "dlen" \in DOMAIN M /\ M.dlen \in Int /\ M.dlen >= -7
  BY EchoAssumption DEF IInv, Program!IInv, Program!MessageInv, Program!DataLens
<1> QED
  BY <1>1 DEF IsEcho, IsReply

LEMMA WriteKeeps ==
  ASSUME IInv, InHand, ~ InHand', outq' = Append(outq, M) \/ outq' = outq,
         UNCHANGED <<inq, clientVars>>
  PROVE  StopAndWait'
<1>1. inq = <<>> /\ outq = <<>> /\ cpc \notin {"send", "done"} /\ IsReply(M)
  BY EchoIsReply DEF IInv, StopAndWait
<1>2. outq' = <<>> \/ (Len(outq') = 1 /\ outq'[1] = M)
  <2>1. M \in {M}
    OBVIOUS
  <2> QED
    BY <1>1, <2>1, FirstMessage
<1>3. outq' = <<>> \/ IsReply(outq[1])'
  BY <1>1, <1>2 DEF IsReply, clientVars
<1> QED
  BY <1>1, <1>2, <1>3 DEF StopAndWait, clientVars

LEMMA sendMsgKeeps ==
  IInv /\ Server!sendMsg /\ UNCHANGED <<signalVars, clientVars>> => IInv'
<1> SUFFICES ASSUME IInv, Server!sendMsg, UNCHANGED <<signalVars, clientVars>>
             PROVE  IInv'
  OBVIOUS
<1>1. InHand /\ ~ InHand' /\ UNCHANGED <<mode, inq, connection>>
  BY DEF Server!sendMsg, Server!Return, InHand
<1>2. /\ outq' = Append(outq, M) \/ outq' = outq
      /\ proc' = proc \/ (proc' = "returned" /\ connection = "bad")
  BY DEF Server!sendMsg, Server!Return, Server!Write, Server!WriteFails
<1>3. Program!IInv'
  BY SameSteps, ProgramMoves DEF IInv
<1>4. StopAndWait'
  BY <1>1, <1>2, WriteKeeps
<1> QED
  BY <1>1, <1>2, <1>3, <1>4, DomappMoves

(* domapp dies only of the answer to a request that was cut off.           *)
LEMMA OverrunKeeps ==
  IInv /\ Server!Overrun /\ UNCHANGED <<signalVars, clientVars>> => IInv'
<1> SUFFICES ASSUME IInv, Server!Overrun, UNCHANGED <<signalVars, clientVars>>
             PROVE  IInv'
  OBVIOUS
<1>1. /\ InHand /\ ~ InHand' /\ proc' = "killed" /\ M.dlen > MAXDATA_VALUE
      /\ UNCHANGED <<mode, inq, connection>>
  BY DEF Server!Overrun, InHand
<1>2. outq' = Append(outq, M) \/ outq' = outq
  BY DEF Server!Overrun, Server!Write
<1>3. "down" \in cut
  <2>1. downMessage(imsg).dlen = MsgLen /\ ~ (MsgLen > MAXDATA_VALUE)
    BY EchoAssumption DEF downMessage
  <2> QED
    BY <1>1, <2>1 DEF IInv, StopAndWait, IsEcho
<1>4. Program!IInv'
  BY SameSteps, ProgramMoves DEF IInv
<1>5. StopAndWait'
  BY <1>1, <1>2, WriteKeeps
<1> QED
  BY <1>1, <1>3, <1>4, <1>5, DomappMoves

LEMMA MainStepIInv == IInv /\ MainStep => IInv'
  BY AllocateKeeps, ReceiveMessageKeeps, ReceiveFailsKeeps, HandleKeeps, sendMsgKeeps,
     OverrunKeeps
  DEF MainStep, Server!Main
-----------------------------------------------------------------------------
(* A killed domapp leaves what it held as it was.                          *)
LEMMA KilledKeeps ==
  ASSUME IInv, Server!Killed, UNCHANGED clientVars, connection = "bad" \/ death' # "none",
         QuietInv', UNCHANGED arrived
  PROVE  IInv'
<1>1. proc' = "killed" /\ UNCHANGED <<pc, mode, M, inq, outq, connection>>
  BY DEF Server!Killed, Server!hubVars
<1>2. Program!IInv'
  BY SameSteps, ProgramMoves DEF IInv
<1>3. StopAndWait'
  BY <1>1 DEF IInv, StopAndWait, InHand, IsRequest, IsReply, clientVars
<1> QED
  BY <1>1, <1>2, <1>3 DEF IInv, ClientInv, EndInv, OnlyFaultsFail, clientVars

(* A handler runs only after a signal has been sent.                       *)
LEMMA HandlingQuiet ==
  ASSUME QuietInv, Signal!Handling
  PROVE  arrived # {} /\ UNCHANGED arrived
  BY DEF QuietInv, Signal!Handling, Signal!cleanup_exit, Signal!TakeSignal,
         Signal!Deliverable, Signal!Test, Signal!Mark, Signal!Fprintf, Signal!Fclose,
         Signal!Close, Signal!Reset, Signal!Raise, Signal!Return, Signal!Step

(* A step that leaves both programs' own state and the messages alone.     *)
LEMMA ProgramsStay ==
  ASSUME IInv, UNCHANGED <<domappVars, linkVars, clientVars>>, QuietInv',
         arrived \subseteq arrived', proc = "killed" => UNCHANGED death
  PROVE  IInv'
<1>1. Program!IInv'
  BY UnderWay, ProgramStays DEF IInv, linkVars
<1>2. StopAndWait'
  BY DEF IInv, StopAndWait, InHand, IsRequest, IsEcho, IsReply, domappVars, linkVars, clientVars
<1> QED
  BY <1>1, <1>2
  DEF IInv, ClientInv, EndInv, OnlyFaultsFail, domappVars, linkVars, clientVars

LEMMA SignalStepIInv == IInv /\ SignalStep => IInv'
<1> SUFFICES ASSUME IInv, SignalStep
             PROVE  IInv'
  OBVIOUS
<1>1. proc = "running" /\ Dies /\ UNCHANGED clientVars
  BY DEF SignalStep
<1>2. arrived # {} /\ UNCHANGED arrived
  BY HandlingQuiet DEF IInv, SignalStep
<1>3. QuietInv'
  BY <1>2 DEF QuietInv
<1>4. CASE death' = "none"
  BY <1>1, <1>2, <1>3, <1>4, ProgramsStay DEF Dies
<1>5. CASE death' # "none"
  BY <1>1, <1>2, <1>3, <1>5, KilledKeeps DEF Dies
<1> QED
  BY <1>4, <1>5

LEMMA SignalArrivesIInv == IInv /\ SignalArrives => IInv'
<1> SUFFICES ASSUME IInv, SignalArrives
             PROVE  IInv'
  OBVIOUS
<1>1. /\ proc = "running" /\ UNCHANGED <<domappVars, linkVars, clientVars>>
      /\ arrived' # {} /\ arrived \subseteq arrived'
  BY DEF SignalArrives, Signal!Arrive
<1> QED
  BY <1>1, ProgramsStay DEF QuietInv

LEMMA SigPipeIInv == IInv /\ SigPipe => IInv'
<1> SUFFICES ASSUME IInv, SigPipe
             PROVE  IInv'
  OBVIOUS
<1>1. QuietInv' /\ UNCHANGED arrived
  BY DEF IInv, SigPipe, QuietInv, signalVars
<1> QED
  BY <1>1, KilledKeeps DEF SigPipe

LEMMA NextIInv == IInv /\ [Next]_vars => IInv'
<1> SUFFICES ASSUME IInv, [Next]_vars
             PROVE  IInv'
  OBVIOUS
<1>1. CASE UNCHANGED vars
  <2>1. UNCHANGED <<domappVars, linkVars, clientVars, signalVars>>
    BY <1>1 DEF vars
  <2>2. QuietInv' /\ UNCHANGED <<arrived, death>>
    BY <2>1 DEF IInv, QuietInv, signalVars
  <2> QED
    BY <2>1, <2>2, ProgramsStay
<1>2. CASE Client
  BY <1>2, ClientSendIInv, ClientSendFailsIInv, ClientRecvIInv, ClientDoneIInv DEF Client
<1> QED
  BY <1>1, <1>2, MainStepIInv, SignalStepIInv, SignalArrivesIInv, SigPipeIInv,
     DriverCutsIInv DEF Next

LEMMA InitIInv == Init => IInv
<1> SUFFICES ASSUME Init
             PROVE  IInv
  OBVIOUS
<1>1. /\ mode \in {"GMSR_SOCKET", "GMSR_FILE"} /\ pc = "loop" /\ proc = "running"
      /\ inq = <<>> /\ outq = <<>> /\ connection = "good"
  BY DEF Init, Server!Init, Server!Modes
<1>2. QuietInv
  BY DEF Init, Signal!Init, QuietInv
<1>3. imsg \in 0 .. NumMsgs /\ cpc = "send" /\ cut = {}
  BY EchoAssumption DEF Init
<1> QED
  BY <1>1, <1>2, <1>3, ProgramInit
  DEF IInv, ClientInv, StopAndWait, InHand, EndInv, OnlyFaultsFail

LEMMA Invariance == Spec => []IInv
<1> QED
  BY InitIInv, NextIInv, PTL DEF Spec

(* The client's state is well-formed, never more than one message is under *)
(* way, and over a good connection domapp dies only of a signal or of a    *)
(* request that was cut off.                                               *)
THEOREM TypeCorrect == Spec => []TypeOK
<1>1. IInv => TypeOK
  <2> SUFFICES ASSUME IInv
               PROVE  TypeOK
    OBVIOUS
  <2>1. Len(inq) \in Nat /\ Len(outq) \in Nat
    BY UnderWay, LenProperties
  <2>2. (inq = <<>> => Len(inq) = 0) /\ (outq = <<>> => Len(outq) = 0)
    BY EmptySeq
  <2>3. /\ Len(inq) = 0 \/ (Len(inq) = 1 /\ Len(outq) = 0 /\ ~ InHand)
        /\ Len(outq) = 0 \/ (Len(outq) = 1 /\ Len(inq) = 0 /\ ~ InHand)
    BY <2>2 DEF IInv, StopAndWait
  <2>4. Len(inq) + Len(outq) + (IF InHand THEN 1 ELSE 0) <= 1
    <3> DEFINE i == Len(inq)
               o == Len(outq)
               h == IF InHand THEN 1 ELSE 0
    <3>1. i \in Nat /\ o \in Nat /\ h \in {0, 1} /\ (~ InHand => h = 0)
      BY <2>1
    <3>2. (i = 0 \/ (i = 1 /\ o = 0 /\ h = 0)) /\ (o = 0 \/ (o = 1 /\ i = 0 /\ h = 0))
      BY <2>3
    <3> HIDE DEF i, o, h
    <3>3. i + o + h <= 1
      BY <3>1, <3>2
    <3> QED
      BY <3>3 DEF i, o, h
  <2> QED
    BY <2>4 DEF IInv, ClientInv, EndInv, TypeOK, InHand
<1> QED
  BY <1>1, Invariance, PTL

(* The client reports an error only if a signal was sent to domapp or a    *)
(* message was cut off: whatever else domapp does with an echo request, it *)
(* comes back unchanged.                                                   *)
THEOREM OnlyFaultsFailHolds == Spec => []OnlyFaultsFail
<1>1. IInv => OnlyFaultsFail
  BY DEF IInv
<1> QED
  BY <1>1, Invariance, PTL

(* What the client counts as echoed correctly is the successful reply to   *)
(* the message it has just sent, in full, unless the driver has cut off    *)
(* messages both ways.                                                     *)
THEOREM CountsOwnEchoHolds == Spec => CountsOwnEcho
<1>1. ASSUME IInv, Next, imsg' # imsg
      PROVE  cut = {"down", "up"} \/ (outq # <<>> /\ Head(outq) = downMessage(imsg))
  <2>1. ClientRecv
    BY <1>1
    DEF Next, Client, ClientSend, ClientSendFails, ClientRecvFails, ClientDone, ClientEnds,
        MainStep, SignalStep, SignalArrives, SigPipe, DriverCuts, clientVars
  <2>2. outq # <<>> /\ Echoed(downMessage(imsg), Head(outq))
    BY <1>1, <2>1 DEF ClientRecv, ClientEnds
  <2> QED
    BY <1>1, <2>2, EchoedIsWhole
<1>2. IInv /\ [Next]_vars => [cut = {"down", "up"} \/ SentAndReceived]_vars
  BY <1>1 DEF SentAndReceived
<1> QED
  BY <1>2, Invariance, PTL DEF Spec, CountsOwnEcho

=============================================================================
