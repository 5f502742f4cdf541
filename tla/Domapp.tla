------------------------------- MODULE Domapp -------------------------------
(***************************************************************************)
(* The program of private/domapp/domapp.c: one thread that receives a      *)
(* request into a buffer of the pool (recvMsg), has msgHandler turn it     *)
(* into the reply and sends that (sendMsg), until a receive or a send      *)
(* fails.  It composes the ring of MessageBuffers with the handler of      *)
(* MessageHandler and, at the level of whole messages, the receive and     *)
(* send functions of private/message/genericMsgSendRecv.c.                 *)
(*                                                                         *)
(* At the other end of stdin and stdout is a hub that sends requests and   *)
(* collects replies when it likes and may hang up.  The messages on their  *)
(* way are in inq and outq, in order.  Of a message in inq, dlen is how    *)
(* many bytes follow its header; where a device driver hands over less     *)
(* than a header, as GenericMsgSendRecv has it, how many bytes are missing,*)
(* counted down from 0.  A signal may end the program at any moment        *)
(* (cleanup_exit, or SIGPIPE from a write to a closed socket).             *)
(***************************************************************************)
EXTENDS Integers, Sequences

CONSTANTS
  MAX_MSG, NULL,                             (* as in MessageBuffers *)
  CounterMod, MAXDATA_VALUE, BoardNameLen, ServiceLens,   (* as in MessageHandler *)
  Requests,   (* the requests the hub sends, told apart by their msgID    *)
  Cuts,       (* where a device driver may cut them off: values of dlen   *)
  Window,     (* bound: requests and replies under way at one time        *)
  OutCap      (* replies that fit in the connection before a write waits  *)

ASSUME PoolAssumption == MAX_MSG \in Nat \ {0} /\ NULL \notin 0 .. MAX_MSG - 1
ASSUME DataAssumption ==
  /\ MAXDATA_VALUE \in Nat /\ MAXDATA_VALUE < 65536
  /\ BoardNameLen \in Nat /\ ServiceLens \subseteq 0 .. MAXDATA_VALUE
ASSUME CutsAssumption == \A l \in Cuts : l \in Int /\ l >= -7
ASSUME WindowAssumption == Window \in Nat \ {0} /\ OutCap \in Nat \ {0}
ASSUME RequestsAssumption ==
  \A q \in Requests : /\ DOMAIN q = {"mt", "mst", "msgID", "dlen", "status", "data"}
                      /\ q.dlen \in Nat

VARIABLES
  msgFreeList, nextMsgFree, lastMsgFree, freeListCorrupt,   (* the pool  *)
  msgHand,          (* the message handler's service information         *)
  mode,             (* what stdin is: gmsr_get_file_descriptor_mode      *)
  pc,               (* where the loop of main is: before recvMsg, in its *)
                    (* read, before msgHandler, before sendMsg           *)
  proc,             (* "running", "returned" from main, or "killed"      *)
  status,           (* what recvMsg or sendMsg last returned             *)
  messageBuffer,    (* the global pointer to the buffer in use           *)
  M,                (* the message in that buffer                        *)
  tmpbuf,           (* what a device's receive has read last, without the  *)
                    (* type and the length, which every receive replaces *)
  inq, outq,        (* messages on their way to domapp and to the hub    *)
  connection        (* "good", or "bad" once the hub has hung up; always *)
                    (* "bad" when stdin is neither socket nor device     *)

Modes == {"GMSR_SOCKET", "GMSR_FILE", "GMSR_FDERR"}

ringVars == <<msgFreeList, nextMsgFree, lastMsgFree, freeListCorrupt>>
hubVars == <<inq, outq, connection>>
vars == <<ringVars, msgHand, mode, pc, proc, status, messageBuffer, M, tmpbuf, hubVars>>

Ring == INSTANCE MessageBuffers
          WITH Clients <- {"main"}, Lengths <- {0}, dlen <- <<>>, held <- <<>>

Handler == INSTANCE MessageHandler
             WITH Requests <- {}, hub <- <<>>   (* its requests arrive here *)

(* What tmpbuf holds of a message. *)
Kept(m) == [mst |-> m.mst, msgID |-> m.msgID, status |-> m.status, data |-> m.data]

Init ==
  /\ Ring!messageBuffers_init
  /\ freeListCorrupt = 0
  /\ msgHand = Handler!InitialInfo
  /\ mode \in Modes
  /\ pc = "loop"
  /\ proc = "running"
  /\ status = "none"
  /\ messageBuffer = NULL
  /\ M = Handler!BlankMessage
  /\ tmpbuf = Kept(Handler!BlankMessage)   (* static, so its bytes are 0 *)
  /\ inq = <<>> /\ outq = <<>>
  /\ connection = IF mode = "GMSR_FDERR" THEN "bad" ELSE "good"
-----------------------------------------------------------------------------
(* main's "return COM_ERROR"; no step of Main follows.                     *)
Return(sts) ==
  /\ status' = sts
  /\ proc' = "returned"
  /\ pc' = "loop"

(* recvMsg, up to the call that blocks.  Whatever the buffer still holds   *)
(* of its last use is overwritten before anything reads it.                *)
Allocate ==
  LET m == msgFreeList[nextMsgFree]
  IN  /\ proc = "running" /\ pc = "loop"
      /\ messageBuffer' = m
      /\ IF m = NULL
         THEN /\ Return("ERROR")
              /\ UNCHANGED <<ringVars, M>>
         ELSE /\ Ring!TakeSlot(m)
              /\ M' = Handler!BlankMessage
              /\ pc' = "recv"
              /\ UNCHANGED <<proc, status>>
      /\ UNCHANGED <<msgHand, mode, tmpbuf, hubVars>>

(* The length of a message in the buffer after a receive.  A read from a   *)
(* device takes no more than a data area holds; one of less than a header  *)
(* makes the length negative, of which the header gets the low 16 bits.    *)
StoredLen(l) == IF l < 0 THEN 65536 + l ELSE Handler!SetDataLen(l)

(* The message in the buffer after a receive.  Where the read has not      *)
(* filled the header, the rest of it is what tmpbuf held before: the type  *)
(* is its first byte, the subtype its second, the message ID its seventh   *)
(* and the status its eighth.                                              *)
Stored(q) ==
  [mt |-> q.mt,
   mst |-> IF q.dlen + 8 >= 2 THEN q.mst ELSE tmpbuf.mst,
   msgID |-> IF q.dlen + 8 >= 7 THEN q.msgID ELSE tmpbuf.msgID,
   dlen |-> StoredLen(q.dlen),
   status |-> IF q.dlen + 8 >= 8 THEN q.status ELSE tmpbuf.status,
   data |-> IF q.dlen + 8 >= 8 THEN q.data ELSE tmpbuf.data]

(* A device's receive reads to tmpbuf, and the header is copied from there.*)
Read(q) ==
  /\ M' = Stored(q)
  /\ tmpbuf' = IF mode = "GMSR_FILE" THEN Kept(M') ELSE tmpbuf

(* The requests recvMsg hands on.  A socket's receive refuses a length     *)
(* larger than a data area, and it returns the length of the data, so that *)
(* recvMsg takes a message without data for the end of the connection; a   *)
(* device's receive returns what read returned, header included.           *)
Acceptable(q) == mode = "GMSR_SOCKET" => q.dlen \in 1 .. MAXDATA_VALUE

(* Bug: the length in the header is taken as it comes. *)
ReceiveNoClamp ==
  /\ proc = "running" /\ pc = "recv" /\ mode # "GMSR_FDERR"
  /\ inq # <<>>
  /\ Acceptable(Head(inq))
  /\ M' = Head(inq) /\ UNCHANGED tmpbuf
  /\ inq' = Tail(inq)
  /\ status' = "received"
  /\ pc' = "handle"
  /\ UNCHANGED <<ringVars, msgHand, mode, proc, messageBuffer, outq, connection>>

(* Bug: recvMsg releases its buffer on every path. *)
ReceiveReleases ==
  /\ proc = "running" /\ pc = "recv" /\ mode # "GMSR_FDERR"
  /\ inq # <<>>
  /\ Acceptable(Head(inq))
  /\ Read(Head(inq))
  /\ inq' = Tail(inq)
  /\ status' = "received"
  /\ pc' = "handle"
  /\ Ring!PutSlot(messageBuffer)
  /\ UNCHANGED <<msgHand, mode, proc, messageBuffer, outq, connection>>

(* Bug: the message stays in the driver and is read again. *)
ReceivePeeks ==
  /\ proc = "running" /\ pc = "recv" /\ mode # "GMSR_FDERR"
  /\ inq # <<>>
  /\ Acceptable(Head(inq))
  /\ Read(Head(inq))
  /\ status' = "received"
  /\ pc' = "handle"
  /\ UNCHANGED <<ringVars, msgHand, mode, proc, messageBuffer, hubVars>>

(* gmsr_recvMessageGeneric returns more than 0. *)
ReceiveMessage ==
  /\ proc = "running" /\ pc = "recv" /\ mode # "GMSR_FDERR"
  /\ inq # <<>>
  /\ Acceptable(Head(inq))
  /\ Read(Head(inq))
  /\ inq' = Tail(inq)
  /\ status' = "received"
  /\ pc' = "handle"
  /\ UNCHANGED <<ringVars, msgHand, mode, proc, messageBuffer, outq, connection>>

(* What recvMsg returns when the receive returns 0 or less, and whether    *)
(* that took the next message from the connection.                         *)
Failures ==
  {f \in [sts : {"GMSR_FDERR", "GMSR_EOF", "GMSR_SHORTRD", "GMSR_BADDATA", "COM_EOF"},
          took : BOOLEAN] :
     CASE f.sts = "GMSR_FDERR"   -> ~ f.took /\ mode = "GMSR_FDERR"
       [] f.sts = "GMSR_EOF"     -> ~ f.took /\ mode = "GMSR_SOCKET" /\ connection = "bad"
       [] f.sts = "GMSR_SHORTRD" -> ~ f.took /\ mode = "GMSR_FILE" /\ connection = "bad"
       [] f.sts = "GMSR_BADDATA" -> /\ f.took /\ mode = "GMSR_SOCKET" /\ inq # <<>>
                                    /\ Head(inq).dlen > MAXDATA_VALUE
       [] f.sts = "COM_EOF"      -> /\ f.took /\ mode = "GMSR_SOCKET" /\ inq # <<>>
                                    /\ Head(inq).dlen = 0}

(* Bug: the buffer is not released when the receive fails. *)
ReceiveFailsKeepsBuffer ==
  /\ proc = "running" /\ pc = "recv"
  /\ \E f \in Failures :
       /\ Return(f.sts)
       /\ inq' = IF f.took THEN Tail(inq) ELSE inq
  /\ UNCHANGED <<ringVars, msgHand, mode, messageBuffer, M, tmpbuf, outq, connection>>

(* Bug: main does not look at what recvMsg returned. *)
ReceiveIgnored ==
  /\ proc = "running" /\ pc = "recv"
  /\ \E f \in Failures :
       /\ status' = f.sts /\ pc' = "loop"
       /\ inq' = IF f.took THEN Tail(inq) ELSE inq
  /\ Ring!PutSlot(messageBuffer)
  /\ UNCHANGED <<msgHand, mode, proc, messageBuffer, M, tmpbuf, outq, connection>>

(* The failed receive's end of recvMsg: the buffer goes back to the pool.  *)
ReceiveFails ==
  /\ proc = "running" /\ pc = "recv"
  /\ \E f \in Failures :
       /\ Return(f.sts)
       /\ inq' = IF f.took THEN Tail(inq) ELSE inq
  /\ Ring!PutSlot(messageBuffer)
  /\ UNCHANGED <<msgHand, mode, messageBuffer, M, tmpbuf, outq, connection>>

Handle ==
  /\ proc = "running" /\ pc = "handle"
  /\ Handler!msgHandler(M)
  /\ pc' = "send"
  /\ UNCHANGED <<ringVars, mode, proc, status, messageBuffer, tmpbuf, hubVars>>

(* Bug: the write waits until all that was written has been read. *)
WriteWhenEmpty == outq = <<>> /\ outq' = Append(outq, M)

(* gmsr_sendMessageGeneric: header and data in one write, which waits for  *)
(* room in the connection.                                                 *)
Write == Len(outq) < OutCap /\ outq' = Append(outq, M)

WriteFails == connection = "bad" /\ UNCHANGED outq

(* The buffer goes back to the pool whatever the write returned. *)
sendMsg ==
  /\ proc = "running" /\ pc = "send" /\ M.dlen <= MAXDATA_VALUE
  /\ \/ Write /\ status' = "sent" /\ pc' = "loop" /\ UNCHANGED proc
     \/ WriteFails /\ Return("write_failed")
  /\ Ring!PutSlot(messageBuffer)
  /\ UNCHANGED <<msgHand, mode, messageBuffer, M, tmpbuf, inq, connection>>

(* A reply with a length that no data area holds.  gmsr_sendMessageGeneric *)
(* copies that many bytes, of the data area and of what lies behind it, to *)
(* txbuf on its stack, over the frames of sendMsg and main, and the        *)
(* process dies of it, at once or when it returns from the write.          *)
Overrun ==
  /\ proc = "running" /\ pc = "send" /\ M.dlen > MAXDATA_VALUE
  /\ proc' = "killed"
  /\ Write \/ UNCHANGED outq
  /\ UNCHANGED <<ringVars, msgHand, mode, pc, status, messageBuffer, M, tmpbuf, inq,
                 connection>>

Killed ==
  /\ proc = "running"
  /\ proc' = "killed"
  /\ UNCHANGED <<ringVars, msgHand, mode, pc, status, messageBuffer, M, tmpbuf, hubVars>>

Main == Allocate \/ ReceiveMessage \/ ReceiveFails \/ Handle \/ sendMsg \/ Overrun
-----------------------------------------------------------------------------
UnderWay ==
  {inq[k].msgID : k \in DOMAIN inq} \cup {outq[k].msgID : k \in DOMAIN outq}
  \cup (IF pc \in {"handle", "send"} THEN {M.msgID} ELSE {})

Packet(q, l) == [q EXCEPT !.dlen = l]

(* The hub sends a request, and the driver of a device may cut it off.     *)
HubSend(q, l) ==
  /\ connection = "good" /\ proc = "running"
  /\ Len(inq) + Len(outq) < Window
  /\ q.msgID \notin UnderWay
  /\ l = q.dlen \/ (mode = "GMSR_FILE" /\ l \in Cuts /\ l < q.dlen)
  /\ inq' = Append(inq, Packet(q, l))
  /\ UNCHANGED <<ringVars, msgHand, mode, pc, proc, status, messageBuffer, M, tmpbuf, outq,
                 connection>>

HubReceive ==
  /\ outq # <<>>
  /\ outq' = Tail(outq)
  /\ UNCHANGED <<ringVars, msgHand, mode, pc, proc, status, messageBuffer, M, tmpbuf, inq,
                 connection>>

HubHangUp ==
  /\ connection = "good"
  /\ connection' = "bad"
  /\ UNCHANGED <<ringVars, msgHand, mode, pc, proc, status, messageBuffer, M, tmpbuf, inq,
                 outq>>

Next ==
  \/ Main \/ Killed
  \/ \E q \in Requests : \E l \in {q.dlen} \cup Cuts : HubSend(q, l)
  \/ HubReceive \/ HubHangUp

(* The one thread of domapp runs whenever it is not blocked.  Nothing is   *)
(* said of the hub, which need not read what domapp writes.                *)
Spec == Init /\ [][Next]_vars /\ WF_vars(Main)
-----------------------------------------------------------------------------
InUse == pc \in {"recv", "handle", "send"}

(* Type correctness of the loop.  A message in hand fits its data area,    *)
(* but for those of which a device has handed over less than a header.     *)
TypeOK ==
  /\ pc \in {"loop", "recv", "handle", "send"}
  /\ proc \in {"running", "returned", "killed"}
  /\ mode \in Modes
  /\ messageBuffer \in Ring!Buffers \cup {NULL}
  /\ connection \in {"good", "bad"}
  /\ \/ M.dlen \in 0 .. MAXDATA_VALUE
     \/ mode = "GMSR_FILE" /\ M.dlen \in 65536 - 7 .. 65535
  /\ Len(outq) <= OutCap

(* Between two messages, and when main returns, every buffer is in the     *)
(* pool: no path of recvMsg or sendMsg, failed ones included, keeps or     *)
(* drops one, so that no receive fails for want of a buffer however long   *)
(* the program runs.                                                       *)
AllFreeBetweenMessages ==
  /\ ~ InUse => Ring!FreeCnt = MAX_MSG
  /\ InUse => Ring!FreeCnt = MAX_MSG - 1
  /\ freeListCorrupt = 0
  /\ status # "ERROR"

(* messageBuffer keeps its value when the buffer is released.  A stale     *)
(* pointer is never used: while the message is received, handled and sent  *)
(* its buffer is not among those the pool may hand out.                    *)
BufferInUseIsOurs ==
  InUse => /\ messageBuffer # NULL
           /\ \A i \in Ring!Slots : msgFreeList[i] # messageBuffer

Ticket(q) == [mt |-> q.mt, mst |-> q.mst, msgID |-> q.msgID]

(* What the answer to a packet may have in common with it: all of its      *)
(* ticket, or as much of it as has arrived.                                *)
Tickets ==
  [mt : {q.mt : q \in Requests},
   mst : {q.mst : q \in Requests} \cup {tmp.mst : tmp \in {Handler!BlankMessage}},
   msgID : {q.msgID : q \in Requests} \cup {tmp.msgID : tmp \in {Handler!BlankMessage}}]

Promised(q) ==
  {t \in Tickets : /\ t.mt = q.mt
                   /\ q.dlen + 8 >= 2 => t.mst = q.mst
                   /\ q.dlen + 8 >= 7 => t.msgID = q.msgID}

Promises ==
  {Promised(Packet(q, l)) : q \in Requests, l \in Cuts \cup {r.dlen : r \in Requests}}

Unanswered ==
  IF proc # "running" THEN <<>>
  ELSE (IF pc \in {"handle", "send"}
        THEN <<[tickets |-> {Ticket(M)}, acceptable |-> TRUE]>>
        ELSE <<>>)
       \o [k \in DOMAIN inq |->
             [tickets |-> Promised(inq[k]), acceptable |-> Acceptable(inq[k])]]

Server == INSTANCE RequestServer
            WITH pending <- Unanswered,
                 replies <- [k \in DOMAIN outq |-> Ticket(outq[k])],
                 server <- IF proc = "running" THEN "up" ELSE proc

(* domapp answers every request once, in order, with the type, subtype and *)
(* message ID of the request, though the one buffer is overwritten in      *)
(* place, and main returns only over a bad connection or a request that    *)
(* recvMsg does not accept.  Of a request whose header a device has cut    *)
(* off, the answer has what arrived of it, or domapp has died of it.       *)
ServerSpec == Server!Spec

(* Request q has reached domapp, with a whole header. *)
Came(q) == \E k \in DOMAIN inq : inq[k].msgID = q.msgID /\ inq[k].dlen >= 0

IsAnswered(q) == \E k \in DOMAIN outq : outq[k].msgID = q.msgID

(* A request that reached domapp is answered, unless the program has       *)
(* ended or the connection stays full for ever, because the hub has        *)
(* stopped reading: then domapp waits in its write and reads no more.      *)
Answered ==
  []<>(Len(outq) < OutCap) => \A q \in Requests : Came(q) ~> IsAnswered(q) \/ proc # "running"

(* When the hub hangs up the program ends: no read or write waits for ever *)
(* on a dead connection, full or not.                                      *)
EndsAfterHangUp == connection = "bad" ~> proc # "running"

(* genericMsgSendRecv.h has results of a receive for a "short read" and    *)
(* for a "corrupt message or other bad data", GMSR_SHORTRD and             *)
(* GMSR_BADDATA, and gmsr_recvMessageFromSocket returns the latter for a   *)
(* "bad message length in header".  So no message longer than a data area  *)
(* is handed on, nor sent: what sendMsg copies fits its buffer.            *)
ReplyFitsBuffer == proc = "running" /\ pc = "send" => M.dlen <= MAXDATA_VALUE

(* domapp.c says of main that it "should never return unless error         *)
(* encountered", and of a recvMsg that returns 0 or less "error reported   *)
(* from receive, or EOF": recvMsg returns COM_EOF only at the end of the   *)
(* connection.                                                             *)
EofMeansHangUp == status = "COM_EOF" => connection = "bad"

=============================================================================
