------------------------- MODULE GenericMsgSendRecv -------------------------
(***************************************************************************)
(* private/message/genericMsgSendRecv.c byte by byte: one program sends    *)
(* messages with gmsr_sendMessageGeneric, another receives them with       *)
(* gmsr_recvMessageGeneric, over a socket or a device driver.              *)
(*                                                                         *)
(* A socket is a stream: a write goes into it piece by piece as there is   *)
(* room, and a recv takes what it likes of what is there.  A device driver *)
(* keeps packets apart; it may take only the first bytes of a write, and   *)
(* one read returns one packet.  The peer may hang up at any moment.       *)
(*                                                                         *)
(* The receiver calls again only after a result above 0, as recvMsg and    *)
(* domEchoClient do, and always with the same data area, so that what a    *)
(* receive leaves there meets the next one.                                *)
(***************************************************************************)
EXTENDS MessageFormat, SequencesExt, FiniteSetsExt

CONSTANTS
  Messages,   (* the messages, each a header and the sequence of its data *)
  None,       (* no message, before the first is received                 *)
  Room,       (* bytes a socket holds, packets a device driver holds      *)
  Sends       (* bound: messages sent in one behaviour                    *)

ASSUME RoomAssumption == Room \in Nat \ {0} /\ Sends \in Nat
ASSUME MessagesAssumption ==
  \A m \in Messages : /\ m \in [head : Headers, data : Seq(Byte)]
                      /\ Message_dataLen(m.head) = Len(m.data)

(* A negative length, in 16 bits, is larger than a data area, 4088 in the  *)
(* code.                                                                   *)
ASSUME DataAreaAssumption == MAXDATA_VALUE + MSG_HDR_LEN <= 65536

VARIABLES
  mode,           (* what gmsr_get_file_descriptor_mode finds            *)
  unsent,         (* the bytes of the current write not yet taken        *)
  conn,           (* the connection: bytes of a socket, or packets       *)
  closed,         (* whether the peer has hung up                        *)
  sent,           (* how many messages were sent                         *)
  rpc,            (* the receiver: "caller", or in "recvHeader",         *)
                  (* "recvData" or "read"                               *)
  targetLength,   (* bytes that recv is still to deliver                 *)
  head,           (* the header in the receiver's message buffer         *)
  recvData,       (* its data area                                       *)
  tmpbuf,         (* the static buffer of gmsr_recvMessageFromFile       *)
  ret,            (* what the last receive returned; 1 before the first  *)
  inFlight, got   (* for FrameTransport: the messages sent and not yet   *)
                  (* received, and the one received last                 *)

connVars == <<unsent, conn, closed, sent>>
recvVars == <<rpc, targetLength, head, recvData, tmpbuf, ret>>
vars == <<mode, connVars, recvVars, inFlight, got>>

GMSR_EOF == -1
GMSR_FDERR == -2
GMSR_SHORTRD == -3
GMSR_BADDATA == -4

Modes == {"GMSR_SOCKET", "GMSR_FILE", "GMSR_FDERR"}

Init ==
  /\ mode \in Modes
  /\ unsent = <<>> /\ conn = <<>> /\ sent = 0
  /\ closed = (mode = "GMSR_FDERR")
  /\ rpc = "caller" /\ targetLength = 0 /\ ret = 1
  /\ head = [i \in 1 .. MSG_HDR_LEN |-> 0]
  /\ recvData = [i \in 1 .. MAXDATA_VALUE |-> 0]
  /\ tmpbuf = [i \in 1 .. MSG_HDR_LEN + MAXDATA_VALUE |-> 0]
  /\ inFlight = <<>> /\ got = None
-----------------------------------------------------------------------------
(* gmsr_sendMessageGeneric.  txbuf is header and data in one piece. *)
Frame(m) == m.head \o m.data

(* A write to a socket waits until the socket has taken all of it.  A      *)
(* message beyond the data area comes from a peer that does not use        *)
(* gmsr_sendMessageGeneric.                                                *)
SendToSocket(m) ==
  /\ mode = "GMSR_SOCKET" /\ ~ closed
  /\ sent < Sends /\ unsent = <<>>
  /\ sent' = sent + 1
  /\ unsent' = Frame(m)
  /\ inFlight' = Append(inFlight, m)
  /\ UNCHANGED <<mode, conn, closed, recvVars, got>>

SocketTakes ==
  \E n \in 1 .. Min({Len(unsent), Room - Len(conn)}) :
    /\ conn' = conn \o SubSeq(unsent, 1, n)
    /\ unsent' = SubSeq(unsent, n + 1, Len(unsent))
    /\ UNCHANGED <<mode, closed, sent, recvVars, inFlight, got>>

(* A write to a device is over at once, and the callers take any count of  *)
(* bytes for success.                                                      *)
SendToDevice(m) ==
  /\ mode = "GMSR_FILE" /\ ~ closed
  /\ Len(m.data) <= MAXDATA_VALUE
  /\ sent < Sends /\ Len(conn) < Room
  /\ sent' = sent + 1
  /\ \E wrote \in 1 .. Len(Frame(m)) : conn' = Append(conn, SubSeq(Frame(m), 1, wrote))
  /\ inFlight' = Append(inFlight, m)
  /\ UNCHANGED <<mode, unsent, closed, recvVars, got>>

HangUp ==
  /\ ~ closed
  /\ closed' = TRUE
  /\ unsent' = <<>>
  /\ UNCHANGED <<mode, conn, sent, recvVars, inFlight, got>>
-----------------------------------------------------------------------------
(* The area with the bytes copied into it from the given offset on. *)
CopyInto(area, offset, bytes) ==
  [i \in DOMAIN area |-> IF i - offset \in DOMAIN bytes THEN bytes[i - offset] ELSE area[i]]

(* What the caller finds in its message buffer: the header, and as much of *)
(* the data area as the length in the header speaks of.                    *)
Seen(h, d) == [head |-> h, data |-> SubSeq(d, 1, SetDataLen(Message_dataLen(h)))]

(* The receive has a message, header h and data d, and returns sts. *)
Deliver(sts, h, d) ==
  /\ rpc' = "caller" /\ targetLength' = 0 /\ ret' = sts
  /\ got' = Seen(h, d)
  /\ inFlight' = Tail(inFlight)

(* The receive returns an error. *)
Fail(sts) ==
  /\ rpc' = "caller" /\ targetLength' = 0 /\ ret' = sts
  /\ UNCHANGED <<inFlight, got>>

gmsr_recvMessageGeneric ==
  /\ rpc = "caller" /\ ret > 0
  /\ CASE mode = "GMSR_SOCKET" -> /\ rpc' = "recvHeader" /\ targetLength' = MSG_HDR_LEN
                                  /\ UNCHANGED <<ret, inFlight, got>>
       [] mode = "GMSR_FILE"   -> rpc' = "read" /\ UNCHANGED <<targetLength, ret, inFlight, got>>
       [] mode = "GMSR_FDERR"  -> Fail(GMSR_FDERR)
  /\ UNCHANGED <<mode, connVars, head, recvData, tmpbuf>>

(* Bug: recv is asked for a whole header each time. *)
AvailableNoTarget ==
  1 .. Min({Len(conn), IF rpc = "recvHeader" THEN MSG_HDR_LEN ELSE targetLength})

(* The counts a recv that is asked for targetLength bytes may return. *)
Available == 1 .. Min({Len(conn), targetLength})

TakeBytes(sts) == conn' = SubSeq(conn, sts + 1, Len(conn))

(* One recv of the header loop and, when the header is complete, the test  *)
(* of its length and the way into the data loop, or past it.               *)
RecvHeader ==
  /\ rpc = "recvHeader"
  /\ \E sts \in Available :
       /\ TakeBytes(sts)
       /\ head' = CopyInto(head, MSG_HDR_LEN - targetLength, SubSeq(conn, 1, sts))
       /\ IF targetLength > sts
          THEN /\ targetLength' = targetLength - sts
               /\ UNCHANGED <<rpc, ret, inFlight, got>>
          ELSE CASE Message_dataLen(head') > MAXDATA_VALUE -> Fail(GMSR_BADDATA)
                 [] Message_dataLen(head') = 0 -> Deliver(0, head', recvData)
                 [] OTHER -> /\ rpc' = "recvData"
                             /\ targetLength' = Message_dataLen(head')
                             /\ UNCHANGED <<ret, inFlight, got>>
  /\ UNCHANGED <<mode, unsent, closed, sent, recvData, tmpbuf>>

(* One recv of the data loop; the result is the length of the data. *)
RecvData ==
  /\ rpc = "recvData"
  /\ \E sts \in Available :
       /\ TakeBytes(sts)
       /\ recvData' = CopyInto(recvData, Message_dataLen(head) - targetLength,
                               SubSeq(conn, 1, sts))
       /\ IF targetLength > sts
          THEN /\ targetLength' = targetLength - sts
               /\ UNCHANGED <<rpc, ret, inFlight, got>>
          ELSE Deliver(Message_dataLen(head), head, recvData')
  /\ UNCHANGED <<mode, unsent, closed, sent, head, tmpbuf>>

(* Bug: a recv that returns 0 is not taken for the end of the stream. *)
RecvFailsNotAtEof ==
  /\ rpc \in {"recvHeader", "recvData"} /\ closed /\ conn # <<>>
  /\ Fail(GMSR_EOF)
  /\ UNCHANGED <<mode, connVars, head, recvData, tmpbuf>>

(* recv returns 0 or less: the stream has ended, or was reset with bytes   *)
(* still unread.                                                           *)
RecvFails ==
  /\ rpc \in {"recvHeader", "recvData"} /\ closed
  /\ Fail(GMSR_EOF)
  /\ UNCHANGED <<mode, connVars, head, recvData, tmpbuf>>

(* Bug: the length in the header is believed. *)
ReadPacketNoLength ==
  /\ rpc = "read" /\ conn # <<>>
  /\ conn' = Tail(conn)
  /\ tmpbuf' = CopyInto(tmpbuf, 0, Head(conn))
  /\ head' = SubSeq(tmpbuf', 1, MSG_HDR_LEN)
  /\ recvData' = CopyInto(recvData, 0,
                          SubSeq(tmpbuf', MSG_HDR_LEN + 1,
                                 MSG_HDR_LEN + SetDataLen(Message_dataLen(head'))))
  /\ Deliver(Len(Head(conn)), head', recvData')
  /\ UNCHANGED <<mode, unsent, closed, sent>>

(* gmsr_recvMessageFromFile: one read into tmpbuf, which keeps what the    *)
(* packet does not overwrite.  Header and data are copied from there, as   *)
(* much data as the header says; the length is then that of the packet.    *)
ReadPacket ==
  /\ rpc = "read" /\ conn # <<>>
  /\ conn' = Tail(conn)
  /\ tmpbuf' = CopyInto(tmpbuf, 0, Head(conn))
  /\ LET nread == Len(Head(conn))
         copied == SubSeq(tmpbuf', 1, MSG_HDR_LEN)
         toCopy == SetDataLen(Message_dataLen(copied))
     IN  /\ recvData' = CopyInto(recvData, 0,
                                 SubSeq(tmpbuf', MSG_HDR_LEN + 1, MSG_HDR_LEN + toCopy))
         /\ head' = SetLength(copied, nread - MSG_HDR_LEN)
         /\ Deliver(nread, head', recvData')
  /\ UNCHANGED <<mode, unsent, closed, sent>>

ReadFails ==
  /\ rpc = "read" /\ closed /\ conn = <<>>
  /\ Fail(GMSR_SHORTRD)
  /\ UNCHANGED <<mode, connVars, head, recvData, tmpbuf>>

Receiver ==
  gmsr_recvMessageGeneric \/ RecvHeader \/ RecvData \/ RecvFails \/ ReadPacket \/ ReadFails

Next ==
  \/ \E m \in Messages : SendToSocket(m) \/ SendToDevice(m)
  \/ SocketTakes \/ HangUp \/ Receiver

(* The receiver runs when it is not blocked, and the kernel moves bytes.   *)
Spec == Init /\ [][Next]_vars /\ WF_vars(Receiver) /\ WF_vars(SocketTakes)
-----------------------------------------------------------------------------
(* Type correctness: header and data stay bytes in areas of their size.    *)
TypeOK ==
  /\ mode \in Modes /\ closed \in BOOLEAN /\ sent \in 0 .. Sends
  /\ rpc \in {"caller", "recvHeader", "recvData", "read"}
  /\ targetLength \in 0 .. Max({MSG_HDR_LEN, MAXDATA_VALUE})
  /\ head \in Headers
  /\ recvData \in [1 .. MAXDATA_VALUE -> Byte]
  /\ tmpbuf \in [1 .. MSG_HDR_LEN + MAXDATA_VALUE -> Byte]
  /\ ret \in GMSR_BADDATA .. MSG_HDR_LEN + MAXDATA_VALUE
  /\ Len(conn) <= Room

(* The bytes of a message the socket receive has taken so far. *)
Consumed ==
  CASE rpc = "recvHeader" -> SubSeq(head, 1, MSG_HDR_LEN - targetLength)
    [] rpc = "recvData" ->
         head \o SubSeq(recvData, 1, Message_dataLen(head) - targetLength)
    [] OTHER -> <<>>

(* However a socket cuts the stream into pieces, in the header, in the     *)
(* data or across two messages, a receive that has not failed takes just   *)
(* the bytes of its own message: what it has taken and what is to come are *)
(* the messages on their way, none torn or run together.                   *)
StreamInStep ==
  mode = "GMSR_SOCKET" /\ ret >= 0 =>
    LET toCome == Consumed \o conn \o unsent
        frames == FlattenSeq([k \in DOMAIN inFlight |-> Frame(inFlight[k])])
    IN  IF closed THEN IsPrefix(toCome, frames) ELSE toCome = frames

Transport == INSTANCE FrameTransport
               WITH lossy <- (mode = "GMSR_FILE"),
                    link <- IF ret < 0 THEN "over" ELSE IF closed THEN "broken" ELSE "open"

(* The receives hand on the messages that were sent, whole and in order,   *)
(* until one fails.  Though tmpbuf and the data area keep bytes of earlier *)
(* messages, a packet that was cut off in its data brings none of them.    *)
(* One that was cut off in its header does bring them, and is a success    *)
(* all the same: only its length, which no data area holds, gives it away. *)
FrameSpec == Transport!Spec

(* No receive waits for ever for a message that was sent: it is received,  *)
(* or the receiver learns that there is nothing to wait for.               *)
Received == inFlight # <<>> ~> (inFlight = <<>> \/ ret <= 0)

=============================================================================
