---------------------------- MODULE DomappProofs ----------------------------
(***************************************************************************)
(* Proofs about the main loop of domapp, for every number of buffers,      *)
(* every set of requests and every hub.                                    *)
(***************************************************************************)
EXTENDS Domapp, SequenceTheorems, TLAPS

(* The pool while the loop runs.  Between two messages the cursors meet    *)
(* over a full ring; during one, the cursor of the allocation is a slot    *)
(* ahead, the slot between them is empty, and the buffer from it is in use.*)
RingInv ==
  /\ msgFreeList \in [Ring!Slots -> Ring!Buffers \cup {NULL}]
  /\ lastMsgFree \in Ring!Slots
  /\ freeListCorrupt = 0
  /\ \A i, j \in Ring!Slots :
       msgFreeList[i] # NULL /\ msgFreeList[i] = msgFreeList[j] => i = j
  /\ InUse => /\ nextMsgFree = Ring!Advance(lastMsgFree)
              /\ msgFreeList[lastMsgFree] = NULL
              /\ \A i \in Ring!Slots \ {lastMsgFree} : msgFreeList[i] # NULL
              /\ messageBuffer \in Ring!Buffers
              /\ \A i \in Ring!Slots : msgFreeList[i] # messageBuffer
  /\ ~ InUse => /\ nextMsgFree = lastMsgFree
                /\ \A i \in Ring!Slots : msgFreeList[i] # NULL

(* The request or reply in the buffer, what tmpbuf may lend the next one,  *)
(* and the text whose length the handler may report.                       *)
DataLens ==
  0 .. MAXDATA_VALUE \cup {l \in Int : l >= 65529 /\ l <= 65535 /\ mode = "GMSR_FILE"}

MessageInv ==
  /\ DOMAIN M = {"mt", "mst", "msgID", "dlen", "status", "data"}
  /\ M.dlen \in DataLens

Subtypes == {q.mst : q \in Requests} \cup {Handler!BlankMessage.mst}
IDs == {q.msgID : q \in Requests} \cup {Handler!BlankMessage.msgID}

TmpbufInv == tmpbuf.mst \in Subtypes /\ tmpbuf.msgID \in IDs

InfoInv ==
  /\ DOMAIN msgHand = {"lastErrorID", "lastErrorSeverity", "lastErrorStr", "msgReceived",
                       "msgRefused", "msgProcessingErr"}
  /\ msgHand.lastErrorStr \in DOMAIN Handler!TextLen

(* The messages that may arrive: the requests or, over a device, what is   *)
(* left of them.                                                           *)
Arrivals ==
  [mt : {q.mt : q \in Requests}, mst : Subtypes, msgID : IDs,
   dlen : IF mode = "GMSR_FILE" THEN {l \in Int : l >= -7} ELSE {q.dlen : q \in Requests},
   status : {q.status : q \in Requests}, data : {q.data : q \in Requests}]

LinkInv ==
  /\ inq \in Seq(Arrivals)
  /\ \E S : outq \in Seq(S)
  /\ mode = "GMSR_FDERR" => connection = "bad"

IInv ==
  /\ TypeOK /\ RingInv /\ status # "ERROR"
  /\ MessageInv /\ TmpbufInv /\ InfoInv /\ LinkInv
-----------------------------------------------------------------------------
LEMMA RingFacts ==
  /\ MAX_MSG \in Nat /\ MAX_MSG > 0
  /\ Ring!Slots = 0 .. MAX_MSG - 1 /\ Ring!Buffers = 0 .. MAX_MSG - 1
  /\ 0 \in Ring!Slots
  /\ NULL \notin Ring!Buffers
  /\ \A i \in Ring!Slots : Ring!Advance(i) \in Ring!Slots
  BY PoolAssumption DEF Ring!Slots, Ring!Buffers, Ring!Advance

LEMMA InitIInv == Init => IInv
<1> SUFFICES ASSUME Init
             PROVE  IInv
  OBVIOUS
<1>1. RingInv
  BY RingFacts DEF Init, RingInv, InUse, Ring!messageBuffers_init
<1>2. MessageInv /\ TmpbufInv /\ InfoInv
  BY DataAssumption
  DEF Init, MessageInv, DataLens, TmpbufInv, Kept, Subtypes, IDs, InfoInv, Handler!BlankMessage, Handler!InitialInfo, Handler!TextLen
<1>3. LinkInv
  BY DEF Init, LinkInv
<1>4. M.dlen \in 0 .. MAXDATA_VALUE
  BY DataAssumption DEF Init, Handler!BlankMessage
<1>5. TypeOK
  BY <1>4, WindowAssumption DEF Init, TypeOK, Modes
<1> QED
  BY <1>1, <1>2, <1>3, <1>5 DEF Init, IInv

(* The allocation always finds a buffer, and takes it.                     *)
LEMMA AllocateRing ==
  ASSUME IInv, Allocate
  PROVE  /\ messageBuffer' = msgFreeList[nextMsgFree] /\ messageBuffer' # NULL
         /\ Ring!TakeSlot(messageBuffer') /\ M' = Handler!BlankMessage
         /\ pc' = "recv" /\ UNCHANGED <<proc, status, msgHand, mode, tmpbuf, hubVars>>
         /\ RingInv'
<1>1. ~ InUse /\ nextMsgFree \in Ring!Slots
  BY DEF Allocate, InUse, IInv, RingInv
<1>2. msgFreeList[nextMsgFree] # NULL /\ msgFreeList[nextMsgFree] \in Ring!Buffers
  BY <1>1 DEF IInv, RingInv
<1>3. /\ messageBuffer' = msgFreeList[nextMsgFree]
      /\ Ring!TakeSlot(messageBuffer') /\ M' = Handler!BlankMessage
      /\ pc' = "recv" /\ UNCHANGED <<proc, status, msgHand, mode, tmpbuf, hubVars>>
  BY <1>2 DEF Allocate
<1>4. /\ msgFreeList' = [msgFreeList EXCEPT ![nextMsgFree] = NULL]
      /\ nextMsgFree' = Ring!Advance(nextMsgFree)
      /\ UNCHANGED <<lastMsgFree, freeListCorrupt>>
  BY <1>3 DEF Ring!TakeSlot
<1>5. RingInv'
  <2> DEFINE n == nextMsgFree
  <2>1. /\ InUse' /\ n = lastMsgFree /\ lastMsgFree' = n
        /\ freeListCorrupt' = 0
        /\ \A i \in Ring!Slots : msgFreeList'[i] = IF i = n THEN NULL ELSE msgFreeList[i]
        /\ msgFreeList' \in [Ring!Slots -> Ring!Buffers \cup {NULL}]
    BY <1>1, <1>3, <1>4 DEF IInv, RingInv, InUse
  <2>2. /\ \A i, j \in Ring!Slots : msgFreeList[i] # NULL /\ msgFreeList[i] = msgFreeList[j]
                                  => i = j
        /\ \A i \in Ring!Slots : msgFreeList[i] # NULL
    BY <1>1 DEF IInv, RingInv
  <2>3. \A i, j \in Ring!Slots :
          msgFreeList'[i] # NULL /\ msgFreeList'[i] = msgFreeList'[j] => i = j
    BY <2>1, <2>2
  <2>4. nextMsgFree' = Ring!Advance(lastMsgFree') /\ msgFreeList'[lastMsgFree'] = NULL
    BY <1>1, <1>4, <2>1
  <2>5. \A i \in Ring!Slots \ {lastMsgFree'} : msgFreeList'[i] # NULL
    BY <2>1, <2>2
  <2>6. \A i \in Ring!Slots : msgFreeList'[i] # messageBuffer'
    BY <1>1, <1>2, <1>3, <2>1, <2>2
  <2> QED
    BY <1>1, <1>2, <1>3, <2>1, <2>3, <2>4, <2>5, <2>6 DEF RingInv
<1> QED
  BY <1>2, <1>3, <1>5

(* The release finds its slot empty.                                       *)
LEMMA ReleaseRing ==
  ASSUME IInv, InUse, Ring!PutSlot(messageBuffer), pc' = "loop",
         messageBuffer' = messageBuffer
  PROVE  RingInv'
<1>1. /\ msgFreeList' = [msgFreeList EXCEPT ![lastMsgFree] = messageBuffer]
      /\ lastMsgFree' = Ring!Advance(lastMsgFree)
      /\ UNCHANGED <<nextMsgFree, freeListCorrupt>>
  BY DEF Ring!PutSlot, IInv, RingInv
<1>2. /\ lastMsgFree \in Ring!Slots
      /\ nextMsgFree = Ring!Advance(lastMsgFree) /\ messageBuffer \in Ring!Buffers
      /\ \A i \in Ring!Slots \ {lastMsgFree} : msgFreeList[i] # NULL
      /\ msgFreeList \in [Ring!Slots -> Ring!Buffers \cup {NULL}]
  BY DEF IInv, RingInv
<1>3. \A i \in Ring!Slots : msgFreeList'[i] # NULL
  BY <1>1, <1>2, RingFacts
<1>4. ~ InUse' /\ nextMsgFree' = lastMsgFree'
  BY <1>1, <1>2 DEF InUse
<1>5. \A i, j \in Ring!Slots : msgFreeList'[i] = msgFreeList'[j] => i = j
  <2>1. /\ \A i \in Ring!Slots : msgFreeList[i] # messageBuffer
        /\ \A i, j \in Ring!Slots :
             msgFreeList[i] # NULL /\ msgFreeList[i] = msgFreeList[j] => i = j
    BY DEF IInv, RingInv
  <2> QED
    BY <1>1, <1>2, <2>1
<1>6. /\ msgFreeList' \in [Ring!Slots -> Ring!Buffers \cup {NULL}]
      /\ lastMsgFree' \in Ring!Slots /\ freeListCorrupt' = 0
  BY <1>1, <1>2, RingFacts DEF IInv, RingInv
<1> QED
  BY <1>3, <1>4, <1>5, <1>6 DEF RingInv

(* A step that keeps the pool and stays in the message.                    *)
LEMMA RingStays ==
  ASSUME IInv, UNCHANGED <<ringVars, messageBuffer>>, InUse' <=> InUse
  PROVE  RingInv'
  BY DEF IInv, RingInv, ringVars
-----------------------------------------------------------------------------
(* msgHandler writes its reply over the request: the header fields that    *)
(* tell the hub what it answers stay, and the length is kept or fits the   *)
(* data area.                                                              *)
LEMMA HandlerReplies ==
  ASSUME MessageInv, InfoInv, Handler!msgHandler(M), mode' = mode
  PROVE  MessageInv' /\ InfoInv' /\ Ticket(M') = Ticket(M)
<1>1. /\ 0 \in DataLens /\ DataLens' = DataLens
      /\ \A l \in Nat : Handler!SetDataLen(l) \in DataLens
      /\ \A l \in DataLens : l \in Nat
      /\ \A l \in ServiceLens : l \in DataLens
  BY DataAssumption DEF Handler!SetDataLen, DataLens
<1>2. CASE Handler!GetReport(M)
  <2>1. M.mst \in DOMAIN Handler!Report(Handler!InitialInfo)
    BY <1>2 DEF Handler!GetReport
  <2>2. InfoInv' /\ msgHand'.lastErrorStr = msgHand.lastErrorStr
    BY <1>2 DEF Handler!GetReport, Handler!Received, InfoInv
  <2>3. Handler!TextLen[msgHand'.lastErrorStr] \in Nat /\ BoardNameLen \in Nat
    BY <2>2, DataAssumption DEF InfoInv, Handler!TextLen
  <2>4. Handler!ReportLen(msgHand')[M.mst] \in Nat
    <3>1. /\ DOMAIN Handler!ReportLen(msgHand') = DOMAIN Handler!Report(Handler!InitialInfo)
          /\ \A m \in DOMAIN Handler!ReportLen(msgHand') :
               Handler!ReportLen(msgHand')[m] \in Nat
      BY <2>3 DEF Handler!Report, Handler!ReportLen, Handler!SizeofULONG
    <3> QED
      BY <2>1, <3>1
  <2>5. M' = [M EXCEPT !.data = Handler!Report(msgHand')[M.mst],
                       !.dlen = Handler!SetDataLen(Handler!ReportLen(msgHand')[M.mst]),
                       !.status = Handler!SUCCESS]
    BY <1>2 DEF Handler!GetReport
  <2> QED
    BY <1>1, <2>2, <2>4, <2>5 DEF MessageInv, Ticket
<1>3. CASE \/ Handler!ClearLastError(M) \/ Handler!ClearStats(M) \/ Handler!Echo(M)
           \/ Handler!RemoteObjectRef(M) \/ Handler!UnknownSubtype(M)
           \/ Handler!TestManager(M) \/ Handler!UnknownServer(M)
  <2>1. InfoInv'
    BY <1>3
    DEF InfoInv, Handler!Received, Handler!ClearLastError, Handler!ClearStats, Handler!Echo,
        Handler!RemoteObjectRef, Handler!UnknownSubtype, Handler!TestManager,
        Handler!UnknownServer, Handler!TextLen
  <2>2. PICK l \in {0, M.dlen, Handler!SetDataLen(M.dlen)} :
          \E st : M' = [M EXCEPT !.dlen = l, !.status = st]
    <3>1. CASE Handler!ClearLastError(M) \/ Handler!ClearStats(M) \/ Handler!Echo(M)
      BY <3>1 DEF Handler!ClearLastError, Handler!ClearStats, Handler!Echo, MessageInv
    <3>2. CASE Handler!RemoteObjectRef(M) \/ Handler!TestManager(M)
               \/ Handler!UnknownServer(M)
      BY <3>2
      DEF Handler!RemoteObjectRef, Handler!TestManager, Handler!UnknownServer, MessageInv
    <3>3. CASE Handler!UnknownSubtype(M)
      BY <3>3 DEF Handler!UnknownSubtype, MessageInv
    <3> QED
      BY <1>3, <3>1, <3>2, <3>3
  <2> QED
    BY <1>1, <2>1, <2>2 DEF MessageInv, Ticket
<1>4. CASE Handler!CallService(M)
  <2>1. InfoInv'
    BY <1>4 DEF Handler!CallService, InfoInv
  <2>2. PICK l \in ServiceLens \cup {M.dlen}, st \in Handler!Status :
               M' = Handler!ServiceReply(M, l, st)
    BY <1>4 DEF Handler!CallService
  <2> QED
    BY <1>1, <2>1, <2>2 DEF MessageInv, Ticket, Handler!ServiceReply
<1> QED
  BY <1>2, <1>3, <1>4 DEF Handler!msgHandler

(* What arrives leaves a message of a known length in the buffer, with a   *)
(* ticket that agrees with what arrived.                                   *)
LEMMA StoredFits ==
  ASSUME IInv, NEW q \in Arrivals
  PROVE  /\ DOMAIN Stored(q) = {"mt", "mst", "msgID", "dlen", "status", "data"}
         /\ Stored(q).dlen \in DataLens
         /\ Stored(q).mst \in Subtypes /\ Stored(q).msgID \in IDs
         /\ Ticket(Stored(q)) \in Promised(q)
<1>1. q.dlen \in Int /\ q.dlen >= -7 /\ (q.dlen < 0 => mode = "GMSR_FILE")
  BY RequestsAssumption DEF Arrivals
<1>2. StoredLen(q.dlen) \in DataLens
  BY <1>1, DataAssumption DEF StoredLen, DataLens, Handler!SetDataLen
<1>3. q.mt \in {r.mt : r \in Requests} /\ q.mst \in Subtypes /\ q.msgID \in IDs
  BY DEF Arrivals
<1>4. Stored(q).mst \in Subtypes /\ Stored(q).msgID \in IDs
  BY <1>3 DEF Stored, IInv, TmpbufInv
<1>5. Ticket(Stored(q)) = [mt |-> q.mt, mst |-> Stored(q).mst, msgID |-> Stored(q).msgID]
  BY DEF Ticket, Stored
<1>6. Ticket(Stored(q)) \in Tickets
  BY <1>3, <1>4, <1>5 DEF Tickets, Subtypes, IDs
<1>7. /\ q.dlen + 8 >= 2 => Stored(q).mst = q.mst
      /\ q.dlen + 8 >= 7 => Stored(q).msgID = q.msgID
  BY DEF Stored
<1>8. Ticket(Stored(q)) \in Promised(q)
  BY <1>5, <1>6, <1>7 DEF Promised
<1> QED
  BY <1>2, <1>4, <1>8 DEF Stored

(* What the hub sends is such a message. *)
LEMMA PacketArrives ==
  ASSUME NEW q \in Requests, NEW l, HubSend(q, l)
  PROVE  Packet(q, l) \in Arrivals
<1>1. /\ DOMAIN q = {"mt", "mst", "msgID", "dlen", "status", "data"} /\ q.dlen \in Nat
      /\ l = q.dlen \/ (mode = "GMSR_FILE" /\ l \in Cuts)
  BY RequestsAssumption DEF HubSend
<1>2. l \in IF mode = "GMSR_FILE" THEN {i \in Int : i >= -7} ELSE {r.dlen : r \in Requests}
  BY <1>1, CutsAssumption
<1>3. Packet(q, l) = [mt |-> q.mt, mst |-> q.mst, msgID |-> q.msgID, dlen |-> l,
                      status |-> q.status, data |-> q.data]
  BY <1>1 DEF Packet
<1> QED
  BY <1>2, <1>3 DEF Arrivals, Subtypes, IDs

(* One more reply in the connection.                                       *)
LEMMA AppendReply ==
  ASSUME NEW S, NEW s \in Seq(S), NEW m
  PROVE  /\ s \in Seq(S \cup {m}) /\ Append(s, m) \in Seq(S \cup {m})
         /\ Len(Append(s, m)) = Len(s) + 1 /\ Len(s) \in Nat
<1>1. s \in Seq(S \cup {m})
  BY SeqMonotonic
<1> QED
  BY <1>1, AppendProperties, LenProperties

LEMMA AllocateIInv == IInv /\ Allocate => IInv'
<1> SUFFICES ASSUME IInv, Allocate
             PROVE  IInv'
  OBVIOUS
<1>1. /\ messageBuffer' = msgFreeList[nextMsgFree]
      /\ M' = Handler!BlankMessage /\ pc' = "recv"
      /\ UNCHANGED <<proc, status, msgHand, mode, tmpbuf, hubVars>>
      /\ RingInv'
  BY AllocateRing
<1>2. MessageInv'
  BY <1>1, DataAssumption DEF MessageInv, DataLens, Handler!BlankMessage
<1>3. TmpbufInv' /\ InfoInv' /\ LinkInv' /\ status' # "ERROR"
  BY <1>1 DEF IInv, TmpbufInv, InfoInv, LinkInv, Arrivals, hubVars
<1>4. messageBuffer' \in Ring!Buffers \cup {NULL}
  BY <1>1 DEF RingInv, InUse
<1>5. TypeOK'
  BY <1>1, <1>2, <1>4 DEF IInv, TypeOK, MessageInv, DataLens, hubVars
<1> QED
  BY <1>1, <1>2, <1>3, <1>5 DEF IInv

LEMMA ReceiveMessageIInv == IInv /\ ReceiveMessage => IInv'
<1> SUFFICES ASSUME IInv, ReceiveMessage
             PROVE  IInv'
  OBVIOUS
<1>1. /\ pc = "recv" /\ pc' = "handle" /\ status' = "received"
      /\ inq # <<>> /\ inq' = Tail(inq) /\ M' = Stored(Head(inq))
      /\ tmpbuf' \in {tmpbuf, Kept(M')}
      /\ UNCHANGED <<ringVars, msgHand, mode, proc, messageBuffer, outq, connection>>
  BY DEF ReceiveMessage, Read
<1>2. Head(inq) \in Arrivals /\ inq' \in Seq(Arrivals)
  BY <1>1, HeadTailProperties DEF IInv, LinkInv
<1>3. RingInv'
  BY <1>1, RingStays DEF InUse
<1>4. MessageInv'
  BY <1>1, <1>2, StoredFits DEF MessageInv, DataLens
<1>5. TmpbufInv'
  BY <1>1, <1>2, StoredFits DEF IInv, TmpbufInv, Kept
<1>6. Arrivals' = Arrivals
  BY <1>1 DEF Arrivals
<1>7. InfoInv' /\ LinkInv' /\ status' # "ERROR"
  BY <1>1, <1>2, <1>6 DEF IInv, InfoInv, LinkInv
<1>8. TypeOK'
  BY <1>1, <1>4 DEF IInv, TypeOK, MessageInv, DataLens
<1> QED
  BY <1>3, <1>4, <1>5, <1>7, <1>8 DEF IInv

LEMMA ReceiveFailsIInv == IInv /\ ReceiveFails => IInv'
<1> SUFFICES ASSUME IInv, ReceiveFails
             PROVE  IInv'
  OBVIOUS
<1>1. PICK f \in Failures :
        Return(f.sts) /\ inq' = IF f.took THEN Tail(inq) ELSE inq
  BY DEF ReceiveFails
<1>2. /\ f.sts \in {"GMSR_FDERR", "GMSR_EOF", "GMSR_SHORTRD", "GMSR_BADDATA", "COM_EOF"}
      /\ f.took \in BOOLEAN /\ f.took => inq # <<>>
  BY DEF Failures
<1>3. /\ pc = "recv" /\ pc' = "loop" /\ status' = f.sts /\ proc' = "returned"
      /\ Ring!PutSlot(messageBuffer)
      /\ UNCHANGED <<msgHand, mode, messageBuffer, M, tmpbuf, outq, connection>>
  BY <1>1 DEF ReceiveFails, Return
<1>4. RingInv'
  BY <1>3, ReleaseRing DEF InUse
<1>5. inq' \in Seq(Arrivals)
  BY <1>1, <1>2, HeadTailProperties DEF IInv, LinkInv
<1>6. MessageInv' /\ TmpbufInv' /\ InfoInv' /\ LinkInv' /\ status' # "ERROR"
  BY <1>2, <1>3, <1>5
  DEF IInv, MessageInv, DataLens, TmpbufInv, InfoInv, LinkInv, Arrivals
<1>7. TypeOK'
  BY <1>3 DEF IInv, TypeOK
<1> QED
  BY <1>4, <1>6, <1>7 DEF IInv

LEMMA HandleIInv == IInv /\ Handle => IInv'
<1> SUFFICES ASSUME IInv, Handle
             PROVE  IInv'
  OBVIOUS
<1>1. /\ pc = "handle" /\ pc' = "send" /\ Handler!msgHandler(M)
      /\ UNCHANGED <<ringVars, mode, proc, status, messageBuffer, tmpbuf, hubVars>>
  BY DEF Handle
<1>2. MessageInv' /\ InfoInv'
  BY <1>1, HandlerReplies DEF IInv
<1>3. RingInv'
  BY <1>1, RingStays DEF InUse
<1>4. TmpbufInv' /\ LinkInv' /\ status' # "ERROR"
  BY <1>1 DEF IInv, TmpbufInv, LinkInv, Arrivals, hubVars
<1>5. TypeOK'
  BY <1>1, <1>2 DEF IInv, TypeOK, MessageInv, DataLens, hubVars
<1> QED
  BY <1>2, <1>3, <1>4, <1>5 DEF IInv

(* What a write leaves in the connection. *)
LEMMA WriteFits ==
  ASSUME IInv, Write \/ UNCHANGED outq
  PROVE  (\E S : outq' \in Seq(S)) /\ Len(outq') <= OutCap
<1>1. CASE Write
  <2>1. PICK S : outq \in Seq(S)
    BY DEF IInv, LinkInv
  <2>2. Len(outq) < OutCap /\ outq' = Append(outq, M)
    BY <1>1 DEF Write
  <2>3. outq' \in Seq(S \cup {M}) /\ Len(outq') = Len(outq) + 1 /\ Len(outq) \in Nat
    BY <2>1, <2>2, AppendReply
  <2>4. Len(outq') <= OutCap
    BY <2>2, <2>3, WindowAssumption
  <2> QED
    BY <2>3, <2>4
<1>2. CASE UNCHANGED outq
  BY <1>2 DEF IInv, LinkInv, TypeOK
<1> QED
  BY <1>1, <1>2

LEMMA sendMsgIInv == IInv /\ sendMsg => IInv'
<1> SUFFICES ASSUME IInv, sendMsg
             PROVE  IInv'
  OBVIOUS
<1>1. /\ pc = "send" /\ pc' = "loop" /\ Ring!PutSlot(messageBuffer)
      /\ status' \in {"sent", "write_failed"} /\ proc' \in {"running", "returned"}
      /\ Write \/ UNCHANGED outq
      /\ UNCHANGED <<msgHand, mode, messageBuffer, M, tmpbuf, inq, connection>>
  BY DEF sendMsg, Return, WriteFails
<1>2. RingInv'
  BY <1>1, ReleaseRing DEF InUse
<1>3. (\E S : outq' \in Seq(S)) /\ Len(outq') <= OutCap
  BY <1>1, WriteFits
<1>4. /\ pc' = "loop" /\ status' # "ERROR" /\ proc' \in {"running", "returned"}
      /\ UNCHANGED <<msgHand, mode, messageBuffer, M, tmpbuf, inq, connection>>
  BY <1>1
<1>5. MessageInv' /\ TmpbufInv' /\ InfoInv' /\ status' # "ERROR"
  BY <1>4 DEF IInv, MessageInv, DataLens, TmpbufInv, InfoInv
<1>6. LinkInv'
  BY <1>3, <1>4 DEF IInv, LinkInv, Arrivals
<1>7. TypeOK'
  BY <1>3, <1>4 DEF IInv, TypeOK
<1> QED
  BY <1>2, <1>5, <1>6, <1>7 DEF IInv

(* A process that dies of a reply too long leaves nothing but the reply.   *)
LEMMA OverrunIInv == IInv /\ Overrun => IInv'
<1> SUFFICES ASSUME IInv, Overrun
             PROVE  IInv'
  OBVIOUS
<1>1. /\ proc' = "killed"
      /\ Write \/ UNCHANGED outq
      /\ UNCHANGED <<ringVars, msgHand, mode, pc, status, messageBuffer, M, tmpbuf, inq,
                     connection>>
  BY DEF Overrun
<1>2. RingInv'
  BY <1>1, RingStays DEF InUse
<1>3. (\E S : outq' \in Seq(S)) /\ Len(outq') <= OutCap
  BY <1>1, WriteFits
<1>4. UNCHANGED <<msgHand, mode, messageBuffer, M, tmpbuf, inq, connection>>
  BY <1>1
<1>5. MessageInv' /\ TmpbufInv' /\ InfoInv' /\ status' # "ERROR"
  BY <1>1, <1>4 DEF IInv, MessageInv, DataLens, TmpbufInv, InfoInv
<1>6. LinkInv'
  BY <1>3, <1>4 DEF IInv, LinkInv, Arrivals
<1>7. TypeOK'
  BY <1>1, <1>3, <1>4 DEF IInv, TypeOK
<1> QED
  BY <1>2, <1>5, <1>6, <1>7 DEF IInv

(* Signals and the hub leave the program's own state alone.                *)
LEMMA OthersIInv ==
  ASSUME IInv,
         \/ Killed \/ HubReceive \/ HubHangUp \/ UNCHANGED vars
         \/ \E q \in Requests : \E l \in {q.dlen} \cup Cuts : HubSend(q, l)
  PROVE  IInv'
<1>1. /\ UNCHANGED <<ringVars, msgHand, mode, pc, status, messageBuffer, M, tmpbuf>>
      /\ proc' \in {"running", "returned", "killed"} /\ connection' \in {"good", "bad"}
      /\ connection = "bad" => connection' = "bad"
  BY DEF Killed, HubReceive, HubHangUp, HubSend, vars, hubVars, IInv, TypeOK
<1>2. inq' \in Seq(Arrivals)
  <2>1. CASE \E q \in Requests : \E l \in {q.dlen} \cup Cuts : HubSend(q, l)
    <3>1. PICK q \in Requests, l \in Int : HubSend(q, l)
      BY <2>1, RequestsAssumption, CutsAssumption
    <3>2. Packet(q, l) \in Arrivals /\ inq' = Append(inq, Packet(q, l))
      BY <3>1, PacketArrives DEF HubSend
    <3> QED
      BY <3>2, AppendProperties DEF IInv, LinkInv
  <2>2. CASE Killed \/ HubReceive \/ HubHangUp \/ UNCHANGED vars
    BY <2>2 DEF Killed, HubReceive, HubHangUp, vars, hubVars, IInv, LinkInv
  <2> QED
    BY <2>1, <2>2
<1>3. (\E S : outq' \in Seq(S)) /\ Len(outq') <= OutCap
  <2>1. PICK S : outq \in Seq(S)
    BY DEF IInv, LinkInv
  <2>2. CASE HubReceive
    <3>1. outq # <<>> /\ outq' = Tail(outq)
      BY <2>2 DEF HubReceive
    <3> QED
      BY <2>1, <3>1, HeadTailProperties, LenProperties, WindowAssumption DEF IInv, TypeOK
  <2>3. CASE \/ Killed \/ HubHangUp \/ UNCHANGED vars 
             \/ \E q \in Requests : \E l \in {q.dlen} \cup Cuts : HubSend(q, l)
    BY <2>1, <2>3 DEF Killed, HubHangUp, HubSend, vars, hubVars, IInv, TypeOK
  <2> QED
    BY <2>2, <2>3
<1>4. RingInv'
  BY <1>1, RingStays DEF InUse
<1>5. TypeOK' /\ status' # "ERROR" /\ MessageInv' /\ TmpbufInv' /\ InfoInv' /\ LinkInv'
  BY <1>1, <1>2, <1>3
  DEF IInv, TypeOK, MessageInv, DataLens, TmpbufInv, InfoInv, LinkInv, Arrivals
<1> QED
  BY <1>4, <1>5 DEF IInv

LEMMA NextIInv == IInv /\ [Next]_vars => IInv'
  BY AllocateIInv, ReceiveMessageIInv, ReceiveFailsIInv, HandleIInv, sendMsgIInv, OverrunIInv,
     OthersIInv
  DEF Next, Main

LEMMA Invariance == Spec => []IInv
  BY InitIInv, NextIInv, PTL DEF Spec
-----------------------------------------------------------------------------
(* The loop keeps its types.  A message in hand fits its data area, what-  *)
(* ever length a request has or a report sets, unless a device has handed  *)
(* over less than a header; then its length is one of 65529 to 65535.      *)
THEOREM TypeCorrect == Spec => []TypeOK
  BY Invariance, PTL DEF IInv

(* No path of recvMsg and sendMsg keeps or drops a buffer, so that no      *)
(* receive ever fails for want of one.                                     *)
THEOREM AllFreeBetweenMessagesHolds == Spec => []AllFreeBetweenMessages
<1>1. IInv => AllFreeBetweenMessages
  <2> SUFFICES ASSUME IInv
               PROVE  AllFreeBetweenMessages
    OBVIOUS
  <2>1. CASE InUse
    <3>1. nextMsgFree = Ring!Advance(lastMsgFree) /\ msgFreeList[lastMsgFree] = NULL
      BY <2>1 DEF IInv, RingInv
    <3>2. Ring!FreeCnt = MAX_MSG - 1
      BY <3>1, RingFacts DEF IInv, RingInv, Ring!FreeCnt, Ring!Advance
    <3> QED
      BY <2>1, <3>2 DEF AllFreeBetweenMessages, IInv, RingInv
  <2>2. CASE ~ InUse
    <3>1. nextMsgFree = lastMsgFree /\ msgFreeList[nextMsgFree] # NULL
      BY <2>2 DEF IInv, RingInv
    <3>2. Ring!FreeCnt = MAX_MSG
      BY <3>1, RingFacts DEF IInv, RingInv, Ring!FreeCnt
    <3> QED
      BY <2>2, <3>2 DEF AllFreeBetweenMessages, IInv, RingInv
  <2> QED
    BY <2>1, <2>2
<1> QED
  BY <1>1, Invariance, PTL

(* While messageBuffer is in use it is not one the pool may hand out.      *)
THEOREM BufferInUseIsOursHolds == Spec => []BufferInUseIsOurs
<1>1. IInv => BufferInUseIsOurs
  BY RingFacts DEF IInv, RingInv, BufferInUseIsOurs
<1> QED
  BY <1>1, Invariance, PTL
-----------------------------------------------------------------------------
(* Domapp implements RequestServer.  First the sequences of the mapping.   *)
Pending(q) == [tickets |-> Promised(q), acceptable |-> Acceptable(q)]
Waiting(s) == [k \in DOMAIN s |-> Pending(s[k])]
TicketsOf(s) == [k \in DOMAIN s |-> Ticket(s[k])]

LEMMA WaitingSeq ==
  ASSUME NEW S, NEW s \in Seq(S)
  PROVE  /\ Waiting(s) \in Seq({Pending(x) : x \in S})
         /\ Len(Waiting(s)) = Len(s) /\ Len(s) \in Nat
         /\ \A k \in 1 .. Len(s) : Waiting(s)[k] = Pending(s[k])
<1> DEFINE T == {Pending(x) : x \in S}
<1>1. Len(s) \in Nat /\ DOMAIN s = 1 .. Len(s) /\ \A k \in 1 .. Len(s) : s[k] \in S
  BY LenProperties, ElementOfSeq
<1>2. \A k \in 1 .. Len(s) : Pending(s[k]) \in T
  BY <1>1
<1> HIDE DEF T
<1>3. Waiting(s) \in [1 .. Len(s) -> T]
  BY <1>1, <1>2 DEF Waiting
<1>4. Waiting(s) \in Seq(T)
  BY <1>1, <1>3, SeqDef
<1>5. Len(Waiting(s)) = Len(s)
  BY <1>1, <1>3, <1>4, LenProperties
<1> QED
  BY <1>1, <1>4, <1>5 DEF Waiting, T

(* An element in front of a sequence.                                      *)
Leads(u, x, s, T) ==
  /\ u \in Seq(T) /\ u # <<>> /\ Head(u) = x /\ Tail(u) = s
  /\ Len(u) = Len(s) + 1 /\ u[1] = x
  /\ \A i \in 1 .. Len(s) : u[i + 1] = s[i]

LEMMA InFront ==
  ASSUME NEW T, NEW s \in Seq(T), NEW x \in T
  PROVE  Leads(<<x>> \o s, x, s, T)
<1> DEFINE h == <<x>>
           u == h \o s
<1>1. h \in Seq(T) /\ Len(h) = 1 /\ h[1] = x /\ Len(s) \in Nat
  BY LenProperties
<1> HIDE DEF h
<1>2. /\ u \in Seq(T) /\ Len(u) = 1 + Len(s)
      /\ \A i \in 1 .. 1 + Len(s) : u[i] = IF i <= 1 THEN h[i] ELSE s[i - 1]
  <2>1. /\ h \o s \in Seq(T) /\ Len(h \o s) = Len(h) + Len(s)
        /\ \A i \in 1 .. Len(h) + Len(s) :
             (h \o s)[i] = IF i <= Len(h) THEN h[i] ELSE s[i - Len(h)]
    BY <1>1, ConcatProperties, Zenon
  <2> QED
    BY <1>1, <2>1
<1> HIDE DEF u
<1>3. u[1] = x /\ \A i \in 1 .. Len(s) : u[i + 1] = s[i]
  BY <1>1, <1>2
<1>4. u # <<>> /\ Head(u) = u[1]
  BY <1>1, <1>2
<1>5. /\ Tail(u) \in Seq(T) /\ Len(Tail(u)) = Len(s)
      /\ \A i \in 1 .. Len(s) : Tail(u)[i] = u[i + 1]
  BY <1>1, <1>2, <1>4, HeadTailProperties
<1>6. Tail(u) = s
  BY <1>3, <1>5, SeqEqual
<1> QED
  BY <1>1, <1>2, <1>3, <1>4, <1>6 DEF Leads, u, h

LEMMA WaitingTail ==
  ASSUME NEW S, NEW s \in Seq(S), s # <<>>
  PROVE  /\ Waiting(s) = <<Pending(Head(s))>> \o Waiting(Tail(s))
         /\ Waiting(s) # <<>> /\ Head(Waiting(s)) = Pending(Head(s))
         /\ Tail(Waiting(s)) = Waiting(Tail(s))
<1> DEFINE T == {Pending(x) : x \in S}
           p == Pending(Head(s))
<1>1. /\ Tail(s) \in Seq(S) /\ Head(s) \in S /\ Len(Tail(s)) = Len(s) - 1
      /\ \A i \in 1 .. Len(Tail(s)) : Tail(s)[i] = s[i + 1]
      /\ Len(s) \in Nat \ {0} /\ Head(s) = s[1]
  BY HeadTailProperties, EmptySeq
<1>2. p \in T
  BY <1>1
<1>3. /\ Waiting(s) \in Seq(T) /\ Len(Waiting(s)) = Len(s)
      /\ \A k \in 1 .. Len(s) : Waiting(s)[k] = Pending(s[k])
      /\ Waiting(Tail(s)) \in Seq(T) /\ Len(Waiting(Tail(s))) = Len(s) - 1
      /\ \A k \in 1 .. Len(s) - 1 : Waiting(Tail(s))[k] = Pending(Tail(s)[k])
  BY <1>1, WaitingSeq
<1>4. Waiting(s)[1] = p /\ \A i \in 1 .. Len(s) - 1 : Waiting(s)[i + 1] = Waiting(Tail(s))[i]
  BY <1>1, <1>3
<1> HIDE DEF T, p
<1> DEFINE u == <<p>> \o Waiting(Tail(s))
<1>5. /\ u \in Seq(T) /\ u # <<>> /\ Head(u) = p /\ Tail(u) = Waiting(Tail(s))
      /\ Len(u) = Len(s) /\ u[1] = p
      /\ \A i \in 1 .. Len(s) - 1 : u[i + 1] = Waiting(Tail(s))[i]
  <2> DEFINE w == Waiting(Tail(s))
  <2>1. w \in Seq(T) /\ Len(w) = Len(s) - 1
    BY <1>3
  <2> HIDE DEF w
  <2>2. Leads(<<p>> \o w, p, w, T)
    BY <1>2, <2>1, InFront, Zenon
  <2>3. u = <<p>> \o w
    BY DEF w
  <2> HIDE DEF u
  <2>4. /\ u \in Seq(T) /\ u # <<>> /\ Head(u) = p /\ Tail(u) = w
        /\ Len(u) = Len(w) + 1 /\ u[1] = p
        /\ \A i \in 1 .. Len(w) : u[i + 1] = w[i]
    BY Zenon, <2>2, <2>3 DEF Leads
  <2>5. /\ Len(u) = Len(s)
        /\ \A i \in 1 .. Len(s) - 1 : u[i + 1] = w[i]
    BY <1>1, <2>1, <2>4
  <2> QED
    BY <2>4, <2>5 DEF w
<1> HIDE DEF u
<1>6. ASSUME NEW i \in 1 .. Len(s)
      PROVE  u[i] = Waiting(s)[i]
  <2>1. CASE i = 1
    BY <2>1, <1>4, <1>5
  <2>2. CASE i # 1
    <3> DEFINE j == i - 1
    <3>1. j \in 1 .. Len(s) - 1 /\ i = j + 1
      BY <1>1, <2>2
    <3> HIDE DEF j
    <3> QED
      BY <3>1, <1>4, <1>5
  <2> QED
    BY <2>1, <2>2
<1>7. u = Waiting(s)
  BY <1>3, <1>5, <1>6, SeqEqual
<1> QED
  BY <1>5, <1>7 DEF u, p

LEMMA WaitingAppend ==
  ASSUME NEW S, NEW s \in Seq(S), NEW q \in S
  PROVE  Waiting(Append(s, q)) = Append(Waiting(s), Pending(q))
<1> DEFINE T == {Pending(x) : x \in S}
           t == Append(s, q)
<1>1. /\ t \in Seq(S) /\ Len(t) = Len(s) + 1 /\ Len(s) \in Nat
      /\ \A i \in 1 .. Len(s) : t[i] = s[i]
      /\ t[Len(s) + 1] = q
  BY AppendProperties, LenProperties
<1>2. Pending(q) \in T
  OBVIOUS
<1>3. /\ Waiting(s) \in Seq(T) /\ Len(Waiting(s)) = Len(s)
      /\ \A k \in 1 .. Len(s) : Waiting(s)[k] = Pending(s[k])
      /\ Waiting(t) \in Seq(T) /\ Len(Waiting(t)) = Len(t)
      /\ \A k \in 1 .. Len(t) : Waiting(t)[k] = Pending(t[k])
  BY <1>1, WaitingSeq
<1> HIDE DEF T, t
<1> DEFINE u == Append(Waiting(s), Pending(q))
<1>4. /\ u \in Seq(T) /\ Len(u) = Len(t)
      /\ \A i \in 1 .. Len(s) : u[i] = Waiting(s)[i]
      /\ u[Len(t)] = Pending(q)
  BY <1>1, <1>2, <1>3, AppendProperties
<1>5. \A i \in 1 .. Len(t) : u[i] = Waiting(t)[i]
  BY <1>1, <1>3, <1>4
<1> QED
  BY <1>3, <1>4, <1>5, SeqEqual DEF t

(* The same of the replies under way to the hub.                           *)
LEMMA TicketsOfSeq ==
  ASSUME NEW S, NEW s \in Seq(S)
  PROVE  /\ TicketsOf(s) \in Seq({Ticket(x) : x \in S})
         /\ Len(TicketsOf(s)) = Len(s) /\ Len(s) \in Nat
         /\ \A k \in 1 .. Len(s) : TicketsOf(s)[k] = Ticket(s[k])
<1> DEFINE T == {Ticket(x) : x \in S}
<1>1. Len(s) \in Nat /\ DOMAIN s = 1 .. Len(s) /\ \A k \in 1 .. Len(s) : s[k] \in S
  BY LenProperties, ElementOfSeq
<1>2. \A k \in 1 .. Len(s) : Ticket(s[k]) \in T
  BY <1>1
<1> HIDE DEF T
<1>3. TicketsOf(s) \in [1 .. Len(s) -> T]
  BY <1>1, <1>2 DEF TicketsOf
<1>4. TicketsOf(s) \in Seq(T)
  BY <1>1, <1>3, SeqDef
<1>5. Len(TicketsOf(s)) = Len(s)
  BY <1>1, <1>3, <1>4, LenProperties
<1> QED
  BY <1>1, <1>4, <1>5 DEF TicketsOf, T

LEMMA TicketsOfTail ==
  ASSUME NEW S, NEW s \in Seq(S), s # <<>>
  PROVE  TicketsOf(s) # <<>> /\ TicketsOf(Tail(s)) = Tail(TicketsOf(s))
<1> DEFINE T == {Ticket(x) : x \in S}
<1>1. /\ Tail(s) \in Seq(S) /\ Len(Tail(s)) = Len(s) - 1
      /\ \A i \in 1 .. Len(Tail(s)) : Tail(s)[i] = s[i + 1]
      /\ Len(s) \in Nat \ {0}
  BY HeadTailProperties, EmptySeq
<1>2. /\ TicketsOf(s) \in Seq(T) /\ Len(TicketsOf(s)) = Len(s)
      /\ \A k \in 1 .. Len(s) : TicketsOf(s)[k] = Ticket(s[k])
      /\ TicketsOf(Tail(s)) \in Seq(T) /\ Len(TicketsOf(Tail(s))) = Len(s) - 1
      /\ \A k \in 1 .. Len(s) - 1 : TicketsOf(Tail(s))[k] = Ticket(Tail(s)[k])
  BY <1>1, TicketsOfSeq
<1> HIDE DEF T
<1>3. TicketsOf(s) # <<>>
  BY <1>1, <1>2
<1>4. /\ Tail(TicketsOf(s)) \in Seq(T) /\ Len(Tail(TicketsOf(s))) = Len(s) - 1
      /\ \A k \in 1 .. Len(s) - 1 : Tail(TicketsOf(s))[k] = TicketsOf(s)[k + 1]
  BY <1>2, <1>3, HeadTailProperties
<1>5. \A k \in 1 .. Len(s) - 1 : Tail(TicketsOf(s))[k] = TicketsOf(Tail(s))[k]
  BY <1>1, <1>2, <1>4
<1> QED
  BY <1>2, <1>3, <1>4, <1>5, SeqEqual

LEMMA TicketsOfAppend ==
  ASSUME NEW S, NEW s \in Seq(S), NEW m \in S
  PROVE  TicketsOf(Append(s, m)) = Append(TicketsOf(s), Ticket(m))
<1> DEFINE T == {Ticket(x) : x \in S}
           t == Append(s, m)
<1>1. /\ t \in Seq(S) /\ Len(t) = Len(s) + 1 /\ Len(s) \in Nat
      /\ \A i \in 1 .. Len(s) : t[i] = s[i]
      /\ t[Len(s) + 1] = m
  BY AppendProperties, LenProperties
<1>2. Ticket(m) \in T
  OBVIOUS
<1>3. /\ TicketsOf(s) \in Seq(T) /\ Len(TicketsOf(s)) = Len(s)
      /\ \A k \in 1 .. Len(s) : TicketsOf(s)[k] = Ticket(s[k])
      /\ TicketsOf(t) \in Seq(T) /\ Len(TicketsOf(t)) = Len(t)
      /\ \A k \in 1 .. Len(t) : TicketsOf(t)[k] = Ticket(t[k])
  BY <1>1, TicketsOfSeq
<1> HIDE DEF T, t
<1> DEFINE u == Append(TicketsOf(s), Ticket(m))
<1>4. /\ u \in Seq(T) /\ Len(u) = Len(t)
      /\ \A i \in 1 .. Len(s) : u[i] = TicketsOf(s)[i]
      /\ u[Len(t)] = Ticket(m)
  BY <1>1, <1>2, <1>3, AppendProperties
<1>5. \A i \in 1 .. Len(t) : u[i] = TicketsOf(t)[i]
  BY <1>1, <1>3, <1>4
<1> QED
  BY <1>3, <1>4, <1>5, SeqEqual DEF t
-----------------------------------------------------------------------------
Handled == [tickets |-> {Ticket(M)}, acceptable |-> TRUE]

(* The mapping, from these sequences.                                      *)
Mapping ==
  /\ Unanswered = IF proc # "running" THEN <<>>
                  ELSE IF pc \in {"handle", "send"} THEN <<Handled>> \o Waiting(inq)
                  ELSE Waiting(inq)
  /\ [k \in DOMAIN outq |-> Ticket(outq[k])] = TicketsOf(outq)
  /\ \E T : Waiting(inq) \in Seq(T)

LEMMA MappingHolds == inq \in Seq(Arrivals) => Mapping
<1> SUFFICES ASSUME inq \in Seq(Arrivals)
             PROVE  Mapping
  OBVIOUS
<1> DEFINE T == {Pending(x) : x \in Arrivals}
<1>1. Waiting(inq) \in Seq(T)
  BY WaitingSeq
<1>2. <<>> \o Waiting(inq) = Waiting(inq)
  BY <1>1, ConcatEmptySeq, Zenon
<1>3. Unanswered = IF proc # "running" THEN <<>>
                   ELSE (IF pc \in {"handle", "send"} THEN <<Handled>> ELSE <<>>)
                        \o Waiting(inq)
  BY DEF Unanswered, Handled, Waiting, Pending
<1>4. Unanswered = IF proc # "running" THEN <<>>
                   ELSE IF pc \in {"handle", "send"} THEN <<Handled>> \o Waiting(inq)
                   ELSE Waiting(inq)
  BY <1>2, <1>3
<1> QED
  BY <1>1, <1>4 DEF Mapping, TicketsOf

(* What a step that leaves the messages on their way alone leaves alone.   *)
LEMMA LinkStays ==
  ASSUME mode' = mode
  PROVE  /\ UNCHANGED inq => Waiting(inq)' = Waiting(inq)
         /\ Waiting(inq)' = Waiting(inq')
         /\ UNCHANGED outq => TicketsOf(outq)' = TicketsOf(outq)
         /\ TicketsOf(outq)' = TicketsOf(outq')
  BY DEF Waiting, Pending, Acceptable, TicketsOf

LEMMA InitMaps == Init => Server!Init
<1> SUFFICES ASSUME Init
             PROVE  Server!Init
  OBVIOUS
<1>1. inq = <<>> /\ outq = <<>> /\ proc = "running" /\ pc = "loop"
      /\ connection \in {"good", "bad"}
  BY DEF Init
<1>2. Unanswered = <<>> /\ [k \in DOMAIN outq |-> Ticket(outq[k])] = <<>>
  BY <1>1 DEF Unanswered
<1> QED
  BY <1>1, <1>2 DEF Server!Init

(* msgHandler is invisible to the hub until the reply is sent. *)
LEMMA InvisibleSteps ==
  ASSUME IInv, Mapping, Mapping', Allocate \/ Handle
  PROVE  UNCHANGED Server!serverVars
<1>1. /\ mode' = mode /\ proc' = proc /\ proc = "running" /\ connection' = connection
      /\ UNCHANGED outq
  BY AllocateRing DEF Allocate, Handle, hubVars
<1>2. Unanswered' = Unanswered
  <2>1. CASE Allocate
    BY <2>1, <1>1, LinkStays, AllocateRing DEF Mapping, Allocate, hubVars
  <2>2. CASE Handle
    <3>1. /\ pc = "handle" /\ pc' = "send" /\ Handler!msgHandler(M) /\ UNCHANGED inq
      BY <2>2 DEF Handle, hubVars
    <3>2. Handled' = Handled
      BY <1>1, <3>1, HandlerReplies DEF IInv, Handled, Ticket
    <3> QED
      BY <1>1, <3>1, <3>2, LinkStays DEF Mapping
  <2> QED
    BY <2>1, <2>2
<1> QED
  BY <1>1, <1>2, LinkStays DEF Server!serverVars, Mapping

(* The receive settles what the oldest request is taken for. *)
LEMMA ReceiveSettles ==
  ASSUME IInv, Mapping, Mapping', ReceiveMessage
  PROVE  Server!Settle
<1>1. /\ mode' = mode /\ proc' = proc /\ proc = "running" /\ connection' = connection
      /\ UNCHANGED outq
      /\ inq # <<>> /\ inq' = Tail(inq) /\ M' = Stored(Head(inq))
      /\ pc = "recv" /\ pc' = "handle" /\ Acceptable(Head(inq))
  BY DEF ReceiveMessage, Read
<1> DEFINE t == Ticket(M')
<1>2. Head(inq) \in Arrivals
  BY <1>1, HeadTailProperties DEF IInv, LinkInv
<1>3. t \in Promised(Head(inq))
  BY <1>1, <1>2, StoredFits
<1>4. Handled' = [tickets |-> {t}, acceptable |-> TRUE]
  BY DEF Handled, Ticket
<1>5. /\ Unanswered = Waiting(inq) /\ Unanswered' = <<Handled'>> \o Waiting(Tail(inq))
  BY <1>1, LinkStays DEF Mapping
<1>6. Unanswered # <<>> /\ Head(Unanswered) = Pending(Head(inq))
      /\ Tail(Unanswered) = Waiting(Tail(inq))
  BY <1>1, <1>5, WaitingTail DEF IInv, LinkInv
<1> HIDE DEF t
<1>7. Head(Unanswered).acceptable /\ t \in Head(Unanswered).tickets
  BY <1>1, <1>3, <1>6 DEF Pending
<1>8. Unanswered' = <<[tickets |-> {t}, acceptable |-> TRUE]>> \o Tail(Unanswered)
  BY Zenon, <1>4, <1>5, <1>6
<1>9. UNCHANGED [k \in DOMAIN outq |-> Ticket(outq[k])]
  BY <1>1, LinkStays DEF Mapping
<1> QED
  BY <1>1, <1>6, <1>7, <1>8, <1>9 DEF Server!Settle

LEMMA ReceiveFailsReturns ==
  ASSUME IInv, Mapping, Mapping', ReceiveFails
  PROVE  Server!Return
<1>2. PICK f \in Failures :
        Return(f.sts) /\ inq' = IF f.took THEN Tail(inq) ELSE inq
  BY DEF ReceiveFails
<1>3. /\ proc = "running" /\ pc = "recv" /\ proc' = "returned"
      /\ UNCHANGED <<mode, outq, connection>>
  BY <1>2 DEF ReceiveFails, Return
<1>4. Unanswered = Waiting(inq) /\ Unanswered' = <<>>
  BY <1>3 DEF Mapping
<1>5. connection = "bad" \/ (Unanswered # <<>> /\ ~ Head(Unanswered).acceptable)
  <2>1. CASE f.sts \in {"GMSR_EOF", "GMSR_SHORTRD"}
    BY <2>1 DEF Failures
  <2>2. CASE f.sts = "GMSR_FDERR"
    BY <2>2 DEF Failures, IInv, LinkInv
  <2>3. CASE f.sts \in {"GMSR_BADDATA", "COM_EOF"}
    <3> DEFINE l == Head(inq).dlen
    <3>1. inq # <<>> /\ mode = "GMSR_SOCKET"
      BY <2>3 DEF Failures
    <3>2. l > MAXDATA_VALUE \/ l = 0
      BY <2>3 DEF Failures
    <3> HIDE DEF l
    <3>3. l \notin 1 .. MAXDATA_VALUE
      BY <3>2, DataAssumption
    <3>4. inq # <<>> /\ ~ Acceptable(Head(inq))
      BY <3>1, <3>3 DEF Acceptable, l
    <3>5. Waiting(inq) # <<>> /\ Head(Waiting(inq)) = Pending(Head(inq))
      BY <3>4, WaitingTail DEF IInv, LinkInv
    <3> QED
      BY <1>4, <3>4, <3>5 DEF Pending
  <2> QED
    BY <2>1, <2>2, <2>3 DEF Failures
<1> QED
  BY <1>3, <1>4, <1>5, LinkStays DEF Server!Return, Mapping

(* A reply that is written has the ticket of the request in hand.          *)
LEMMA InHand ==
  ASSUME IInv, Mapping, proc = "running", pc = "send"
  PROVE  /\ Unanswered # <<>> /\ Head(Unanswered) = Handled
         /\ Tail(Unanswered) = Waiting(inq)
<1>1. PICK T : Waiting(inq) \in Seq(T)
  BY DEF Mapping
<1>2. Waiting(inq) \in Seq(T \cup {Handled})
  BY <1>1, SeqMonotonic
<1>3. Unanswered = <<Handled>> \o Waiting(inq)
  BY DEF Mapping
<1>4. Handled \in T \cup {Handled}
  OBVIOUS
<1>5. Leads(Unanswered, Handled, Waiting(inq), T \cup {Handled})
  BY Zenon, <1>2, <1>3, <1>4, InFront
<1> QED
  BY Zenon, <1>5 DEF Leads

LEMMA WriteReplies ==
  ASSUME IInv, Mapping, Mapping', proc = "running", pc = "send", mode' = mode, Write
  PROVE  Server!Reply
<1>1. Unanswered # <<>> /\ Head(Unanswered) = Handled
  BY InHand
<1>2. PICK S : outq \in Seq(S)
  BY DEF IInv, LinkInv
<1>3. outq \in Seq(S \cup {M}) /\ outq' = Append(outq, M)
  BY <1>2, AppendReply DEF Write
<1>4. TicketsOf(outq)' = Append(TicketsOf(outq), Ticket(M))
  BY <1>3, TicketsOfAppend, LinkStays
<1>5. Head(Unanswered).acceptable /\ Ticket(M) \in Head(Unanswered).tickets
  BY <1>1 DEF Handled
<1>6. [k \in DOMAIN outq |-> Ticket(outq[k])]'
        = Append([k \in DOMAIN outq |-> Ticket(outq[k])], Ticket(M))
  BY <1>4 DEF Mapping
<1> QED
  BY <1>1, <1>5, <1>6 DEF Server!Reply

LEMMA sendMsgAnswers ==
  ASSUME IInv, Mapping, Mapping', sendMsg
  PROVE  Server!Answer \/ Server!Return
<1>1. /\ proc = "running" /\ pc = "send" /\ pc' = "loop"
      /\ UNCHANGED <<mode, inq, connection>>
  BY DEF sendMsg, Return
<1>2. CASE Write /\ UNCHANGED proc
  <2>1. Unanswered' = Waiting(inq)
    BY <1>1, <1>2, LinkStays DEF Mapping
  <2>2. Unanswered' = Tail(Unanswered)
    BY <1>1, <2>1, InHand
  <2>3. Server!Reply
    BY <1>1, <1>2, WriteReplies
  <2> QED
    BY <1>1, <1>2, <2>2, <2>3 DEF Server!Answer
<1>3. CASE WriteFails /\ Return("write_failed")
  <2>1. connection = "bad" /\ UNCHANGED outq /\ proc' = "returned"
    BY <1>3 DEF WriteFails, Return
  <2>2. Unanswered' = <<>>
    BY <2>1 DEF Mapping
  <2> QED
    BY <1>1, <2>1, <2>2, LinkStays DEF Server!Return, Mapping
<1> QED
  BY <1>2, <1>3 DEF sendMsg

LEMMA OverrunKills ==
  ASSUME IInv, Mapping, Mapping', Overrun
  PROVE  Server!Kill
<1>1. /\ proc = "running" /\ pc = "send" /\ proc' = "killed"
      /\ Write \/ UNCHANGED outq
      /\ UNCHANGED <<mode, connection>>
  BY DEF Overrun
<1>2. Unanswered' = <<>>
  BY <1>1 DEF Mapping
<1>3. Server!Reply \/ UNCHANGED [k \in DOMAIN outq |-> Ticket(outq[k])]
  BY <1>1, WriteReplies, LinkStays DEF Mapping
<1> QED
  BY <1>1, <1>2, <1>3 DEF Server!Kill

LEMMA OthersMap ==
  ASSUME IInv, Mapping, Mapping',
         \/ Killed \/ HubReceive \/ HubHangUp
         \/ \E q \in Requests : \E l \in {q.dlen} \cup Cuts : HubSend(q, l)
  PROVE  Server!Next
<1>2. UNCHANGED <<mode, pc, M>>
  BY DEF Killed, HubReceive, HubHangUp, HubSend
<1>3. Handled' = Handled
  BY <1>2 DEF Handled, Ticket
<1>4. ASSUME NEW r \in Requests, NEW l, HubSend(r, l)
      PROVE  Server!Submit(Promised(Packet(r, l)), Acceptable(Packet(r, l)))
  <2> DEFINE q == Packet(r, l)
  <2>1. /\ connection = "good" /\ proc = "running" /\ inq' = Append(inq, q)
        /\ UNCHANGED <<proc, outq, connection>>
    BY <1>4 DEF HubSend
  <2>a. q \in Arrivals
    BY <1>4, PacketArrives
  <2> HIDE DEF q
  <2>2. Waiting(inq)' = Append(Waiting(inq), Pending(q))
    BY <1>2, <2>1, <2>a, WaitingAppend, LinkStays DEF IInv, LinkInv
  <2>3. (<<Handled>> \o Waiting(inq))' = Append(<<Handled>> \o Waiting(inq), Pending(q))
    <3>1. PICK T : Waiting(inq) \in Seq(T)
      BY DEF Mapping
    <3> DEFINE W == T \cup {Handled, Pending(q)}
               w == Waiting(inq)
               h == <<Handled>>
               p == <<Pending(q)>>
    <3>2. w \in Seq(W) /\ p \in Seq(W) /\ h \in Seq(W) /\ Pending(q) \in W
      BY <3>1, SeqMonotonic
    <3> HIDE DEF W, w, h, p
    <3>3. h \o w \in Seq(W)
      BY <3>2, ConcatProperties
    <3>4. (h \o w) \o p = h \o (w \o p)
      BY <3>2, ConcatAssociative
    <3>5. Append(w, Pending(q)) = w \o p /\ Append(h \o w, Pending(q)) = (h \o w) \o p
      BY <3>2, <3>3, AppendIsConcat DEF p
    <3> QED
      BY <1>3, <2>2, <3>4, <3>5 DEF w, h
  <2>4. Unanswered' = Append(Unanswered, Pending(q))
    BY <1>2, <2>1, <2>2, <2>3 DEF Mapping
  <2>5. UNCHANGED [k \in DOMAIN outq |-> Ticket(outq[k])]
    BY <1>2, <2>1, LinkStays DEF Mapping
  <2> QED
    BY <2>1, <2>4, <2>5 DEF Server!Submit, Pending, q
<1>5. ASSUME HubReceive
      PROVE  Server!Collect
  <2>1. outq # <<>> /\ outq' = Tail(outq) /\ UNCHANGED <<proc, inq, connection>>
    BY <1>5 DEF HubReceive
  <2>2. TicketsOf(outq) # <<>> /\ TicketsOf(outq)' = Tail(TicketsOf(outq))
    BY <1>2, <2>1, TicketsOfTail, LinkStays DEF IInv, LinkInv
  <2>3. Unanswered' = Unanswered
    BY <1>2, <1>3, <2>1, LinkStays DEF Mapping
  <2> QED
    BY <2>1, <2>2, <2>3 DEF Server!Collect, Mapping
<1>6. ASSUME HubHangUp
      PROVE  Server!Break
  <2>1. connection' = "bad" /\ UNCHANGED <<proc, inq, outq>>
    BY <1>6 DEF HubHangUp
  <2>2. Unanswered' = Unanswered
    BY <1>2, <1>3, <2>1, LinkStays DEF Mapping
  <2> QED
    BY <1>2, <2>1, <2>2, LinkStays DEF Server!Break, Mapping
<1>7. ASSUME Killed
      PROVE  Server!Kill
  <2>1. proc = "running" /\ proc' = "killed" /\ UNCHANGED <<inq, outq, connection>>
    BY <1>7 DEF Killed, hubVars
  <2>2. Unanswered' = <<>>
    BY <2>1 DEF Mapping
  <2> QED
    BY <1>2, <2>1, <2>2, LinkStays DEF Server!Kill, Mapping
<1>8. ASSUME NEW q \in Requests, NEW l \in {q.dlen} \cup Cuts
      PROVE  Promised(Packet(q, l)) \in Promises /\ Acceptable(Packet(q, l)) \in BOOLEAN
  BY DEF Promises, Acceptable
<1> QED
  BY <1>4, <1>5, <1>6, <1>7, <1>8 DEF Server!Next

(* domapp keeps its promise to the hub: every request is answered once, in *)
(* order and with its own type, subtype and ID, and main returns only over *)
(* a bad connection or a request that recvMsg does not accept.             *)
THEOREM ImplementsServer == Spec => ServerSpec
<1>1. IInv /\ Mapping /\ Mapping' /\ [Next]_vars => [Server!Next]_(Server!serverVars)
  <2> SUFFICES ASSUME IInv, Mapping, Mapping', [Next]_vars
               PROVE  [Server!Next]_(Server!serverVars)
    OBVIOUS
  <2>1. CASE Allocate \/ Handle
    BY <2>1, InvisibleSteps
  <2>6. CASE ReceiveMessage
    BY <2>6, ReceiveSettles DEF Server!Next
  <2>7. CASE Overrun
    BY <2>7, OverrunKills DEF Server!Next
  <2>2. CASE ReceiveFails
    BY <2>2, ReceiveFailsReturns DEF Server!Next
  <2>3. CASE sendMsg
    BY <2>3, sendMsgAnswers DEF Server!Next
  <2>4. CASE \/ Killed \/ HubReceive \/ HubHangUp
             \/ \E q \in Requests : \E l \in {q.dlen} \cup Cuts : HubSend(q, l)
    BY <2>4, OthersMap
  <2>5. CASE UNCHANGED vars
    BY <2>5 DEF vars, hubVars, Server!serverVars, Unanswered, Ticket, Acceptable
  <2> QED
    BY <2>1, <2>2, <2>3, <2>4, <2>5, <2>6, <2>7 DEF Next, Main
<1>2. IInv => Mapping
  BY MappingHolds DEF IInv, LinkInv
<1> QED
  BY <1>1, <1>2, InitMaps, Invariance, PTL DEF Spec, ServerSpec, Server!Spec

(* recvMsg reports an end of file on a good connection only over a socket, *)
(* and only of a request without data: neither a device nor requests that  *)
(* all carry data make main return early this way.                         *)
THEOREM EofOnlyOfEmptyRequest ==
  Spec => [](status = "COM_EOF" => mode = "GMSR_SOCKET" /\ \E q \in Requests : q.dlen = 0)
<1> DEFINE Cause == status = "COM_EOF" => mode = "GMSR_SOCKET" /\ \E q \in Requests : q.dlen = 0
<1>1. Init => Cause
  BY DEF Init
<1>2. IInv /\ Cause /\ [Next]_vars => Cause'
  <2> SUFFICES ASSUME IInv, Cause, [Next]_vars
               PROVE  Cause'
    OBVIOUS
  <2>1. CASE ReceiveFails
    <3>1. PICK f \in Failures : status' = f.sts /\ mode' = mode
      BY <2>1 DEF ReceiveFails, Return
    <3>2. CASE f.sts = "COM_EOF"
      <4>1. mode = "GMSR_SOCKET" /\ inq # <<>> /\ Head(inq).dlen = 0
        BY <3>1, <3>2 DEF Failures
      <4>2. Head(inq) \in Arrivals
        BY <4>1, HeadTailProperties DEF IInv, LinkInv
      <4>3. Head(inq).dlen \in {q.dlen : q \in Requests}
        BY <4>1, <4>2 DEF Arrivals
      <4> QED
        BY <3>1, <4>1, <4>3
    <3> QED
      BY <3>1, <3>2
  <2>2. CASE Allocate \/ ReceiveMessage \/ Handle \/ sendMsg \/ Overrun
    BY <2>2 DEF Allocate, ReceiveMessage, Handle, sendMsg, Overrun, Return
  <2>3. CASE \/ Killed \/ HubReceive \/ HubHangUp \/ UNCHANGED vars
             \/ \E q \in Requests : \E l \in {q.dlen} \cup Cuts : HubSend(q, l)
    BY <2>3 DEF Killed, HubReceive, HubHangUp, HubSend, vars
  <2> QED
    BY <2>1, <2>2, <2>3 DEF Next, Main
<1> QED
  BY <1>1, <1>2, Invariance, PTL DEF Spec

=============================================================================
