----------------------------- MODULE EchoSystem -----------------------------
(***************************************************************************)
(* The test setup: domEchoClient (private/domapp/domEchoClient.c) at one   *)
(* end of a connection and Domapp at the other, with the signals of        *)
(* SignalExit sent to domapp at any moment.  The client sends an echo      *)
(* request, waits for the reply, compares the two and goes on, NumMsgs     *)
(* times.                                                                  *)
(*                                                                         *)
(* Messages are on their way as GenericMsgSendRecv and FrameTransport have *)
(* it: whole over a socket, while a device driver may cut them off, within *)
(* the data or within the header.  Their lengths are as in Domapp.         *)
(***************************************************************************)
EXTENDS Integers, Sequences

CONSTANTS
  MAX_MSG, NULL, CounterMod, MAXDATA_VALUE,   (* as in Domapp              *)
  Signals,   (* as in SignalExit                                           *)
  NumMsgs,   (* how many messages the client echoes, 1000 in the code      *)
  MsgLen     (* strlen(test_echo_message), 47 in the code                  *)

ASSUME PoolAssumption == MAX_MSG \in Nat \ {0} /\ NULL \notin 0 .. MAX_MSG - 1
ASSUME EchoAssumption ==
  /\ MAXDATA_VALUE \in Nat /\ MAXDATA_VALUE <= 65536 - 8
  /\ NumMsgs \in Nat /\ MsgLen \in 1 .. MAXDATA_VALUE - 1
ASSUME SignalsAssumption == "none" \notin Signals /\ "crash" \notin Signals

VARIABLES
  msgFreeList, nextMsgFree, lastMsgFree, freeListCorrupt, msgHand, mode, pc, proc,
  status, messageBuffer, M, tmpbuf, inq, outq, connection, (* as in Domapp *)
  disposition, arrived, pending, frames, fatal_error_in_progress, log, files,
  misused, death,                                      (* as in SignalExit *)
  cpc,     (* the client: before its "send" or its "recv", or it has ended *)
           (* as "done" or with an "error"                                 *)
  imsg,    (* how many messages it has found to be echoed correctly        *)
  cut      (* where the driver has cut messages off: on their way "down"   *)
           (* to domapp, or "up" to the client                             *)

domappVars == <<msgFreeList, nextMsgFree, lastMsgFree, freeListCorrupt, msgHand, mode,
                pc, proc, status, messageBuffer, M, tmpbuf>>
linkVars == <<inq, outq, connection>>
signalVars == <<disposition, arrived, pending, frames, fatal_error_in_progress, log,
                files, misused, death>>
clientVars == <<cpc, imsg, cut>>
vars == <<domappVars, linkVars, signalVars, clientVars>>

SUCCESS == [code |-> "SUCCESS", severity |-> "INFORM_ERROR"]

(* The k-th message sent down.  All are alike; the client leaves msgID as  *)
(* it finds it, and here the field tells them apart.                       *)
downMessage(k) ==
  [mt |-> "MESSAGE_HANDLER", mst |-> "MSGHAND_ECHO_MSG", msgID |-> k, dlen |-> MsgLen,
   status |-> SUCCESS, data |-> [payload |-> 1]]   (* 0 is never written data *)

Server == INSTANCE Domapp
            WITH Requests <- {downMessage(k) : k \in 0 .. NumMsgs},
                 ServiceLens <- {}, Cuts <- {}, BoardNameLen <- 0,
                 Window <- 1, OutCap <- 1

Signal == INSTANCE SignalExit

Init ==
  /\ Server!Init /\ mode # "GMSR_FDERR"
  /\ Signal!Init
  /\ cpc = "send" /\ imsg = 0 /\ cut = {}
-----------------------------------------------------------------------------
(* domapp no longer holds its end of the connection. *)
ServerGone == files = "closed" \/ proc # "running"

(* main returns: the end of the process closes its end of the connection.  *)
(* A device driver tells domapp nothing of that.                           *)
ClientEnds(how) ==
  /\ cpc' = how
  /\ connection' = IF mode = "GMSR_SOCKET" THEN "bad" ELSE connection
  /\ UNCHANGED <<imsg, cut>>

(* Bug: the client does not wait for the reply. *)
ClientSendAhead ==
  /\ cpc = "send" /\ imsg < NumMsgs
  /\ inq' = Append(inq, downMessage(imsg))
  /\ imsg' = imsg + 1
  /\ UNCHANGED <<domappVars, outq, connection, signalVars, cpc, cut>>

ClientSend ==
  /\ cpc = "send" /\ imsg < NumMsgs
  /\ inq' = Append(inq, downMessage(imsg))
  /\ cpc' = "recv"
  /\ UNCHANGED <<domappVars, outq, connection, signalVars, imsg, cut>>

(* The write fails, or kills the client with SIGPIPE. *)
ClientSendFails ==
  /\ cpc = "send" /\ imsg < NumMsgs /\ ServerGone
  /\ ClientEnds("error")
  /\ UNCHANGED <<domappVars, inq, outq, signalVars>>

(* What gmsr_recvMessageGeneric returns: a device receive counts the       *)
(* header, a socket receive does not.                                      *)
Recvd(up) == IF mode = "GMSR_SOCKET" THEN up.dlen ELSE up.dlen + 8

(* Bug: the length of the reply is not compared. *)
EchoedAnyLength(down, up) ==
  /\ Recvd(up) > 0
  /\ Server!StoredLen(up.dlen) < MAXDATA_VALUE
  /\ up.data = down.data

(* Bug: the receive is taken to return the length of the data always. *)
EchoedCount(down, up) ==
  /\ Recvd(up) = down.dlen
  /\ Server!StoredLen(up.dlen) < MAXDATA_VALUE
  /\ up.data = down.data

(* The client's tests of the reply.  Its type, subtype and status are not  *)
(* looked at.                                                              *)
Echoed(down, up) ==
  /\ Recvd(up) > 0
  /\ Server!StoredLen(up.dlen) < MAXDATA_VALUE
  /\ Server!StoredLen(up.dlen) = down.dlen
  /\ up.data = down.data

ClientRecv ==
  /\ cpc = "recv" /\ outq # <<>>
  /\ outq' = Tail(outq)
  /\ IF Echoed(downMessage(imsg), Head(outq))
     THEN imsg' = imsg + 1 /\ cpc' = "send" /\ UNCHANGED <<connection, cut>>
     ELSE ClientEnds("error")
  /\ UNCHANGED <<domappVars, inq, signalVars>>

(* Bug: an end of file while a reply is due is not noticed. *)
ClientRecvNoEof ==
  /\ cpc = "recv" /\ mode = "GMSR_SOCKET" /\ files = "closed" /\ outq # <<>>
  /\ ClientEnds("error")
  /\ UNCHANGED <<domappVars, inq, outq, signalVars>>

(* An end of file, or a reset that destroys a reply not yet read. *)
ClientRecvFails ==
  /\ cpc = "recv" /\ mode = "GMSR_SOCKET" /\ ServerGone
  /\ ClientEnds("error")
  /\ UNCHANGED <<domappVars, inq, outq, signalVars>>

ClientDone ==
  /\ cpc = "send" /\ imsg = NumMsgs
  /\ ClientEnds("done")
  /\ UNCHANGED <<domappVars, inq, outq, signalVars>>

Client == ClientSend \/ ClientSendFails \/ ClientRecv \/ ClientRecvFails \/ ClientDone
-----------------------------------------------------------------------------
(* The one thread of domapp, when no signal handler runs in it.            *)
MainStep ==
  /\ frames = <<>> /\ Signal!Deliverable = {}
  /\ Server!Main
  /\ UNCHANGED <<signalVars, clientVars>>

(* With the process goes the server. *)
Dies == IF death' = "none" THEN UNCHANGED <<domappVars, linkVars>> ELSE Server!Killed

SignalStep == proc = "running" /\ Signal!Handling /\ Dies /\ UNCHANGED clientVars

SignalArrives ==
  /\ proc = "running"
  /\ \E s \in Signals : Signal!Arrive(s)
  /\ UNCHANGED <<domappVars, linkVars, clientVars>>

(* A write to the socket of a client that has ended. *)
SigPipe ==
  /\ frames = <<>> /\ pc = "send" /\ connection = "bad"
  /\ Server!Killed
  /\ UNCHANGED <<signalVars, clientVars>>

(* The driver takes a part of a write, of one byte at least.  A reply that *)
(* keeps more than a whole echo is refused by the client however long it   *)
(* is.                                                                     *)
DriverCuts ==
  /\ mode = "GMSR_FILE"
  /\ \E l \in -7 .. MsgLen :
       \/ /\ inq # <<>> /\ l < inq[1].dlen
          /\ inq' = [inq EXCEPT ![1].dlen = l] /\ UNCHANGED outq
          /\ cut' = cut \cup {"down"}
       \/ /\ outq # <<>> /\ l < outq[1].dlen
          /\ outq' = [outq EXCEPT ![1].dlen = l] /\ UNCHANGED inq
          /\ cut' = cut \cup {"up"}
  /\ UNCHANGED <<domappVars, connection, signalVars, cpc, imsg>>

Next ==
  \/ Client \/ MainStep \/ SignalStep \/ SignalArrives \/ SigPipe \/ DriverCuts

(* Both programs run when they are not blocked, and the kernel delivers    *)
(* signals; nothing makes signals arrive or the driver cut.                *)
Spec ==
  Init /\ [][Next]_vars /\ WF_vars(Client) /\ WF_vars(MainStep) /\ WF_vars(SignalStep)
-----------------------------------------------------------------------------
(* Type correctness of the client, and its stop-and-wait: never more than  *)
(* one message under way.  Over a good connection domapp dies of nothing   *)
(* but a signal or a request that was cut off.                             *)
TypeOK ==
  /\ cpc \in {"send", "recv", "done", "error"}
  /\ imsg \in 0 .. NumMsgs
  /\ Len(inq) + Len(outq)
       + (IF proc = "running" /\ pc \in {"handle", "send"} THEN 1 ELSE 0) <= 1
  /\ (proc = "killed" /\ connection = "good") => death # "none" \/ "down" \in cut

(* The client's log: "Message %d sent and received correctly".             *)
SentAndReceived == imsg' # imsg => outq # <<>> /\ Head(outq) = downMessage(imsg)

(* The client reports "sent and received correctly" of a message only when *)
(* it has the successful reply to that very message in full, though it     *)
(* looks at nothing but length and bytes, all its messages are alike, and  *)
(* the driver may cut off what it sends or what it gets.  Only cuts both   *)
(* ways can deceive it: a request cut off within its header is answered    *)
(* with the data of the one before, and with more of it than the client    *)
(* expects, until that answer is cut off too.                              *)
CountsOwnEcho == [][cut = {"down", "up"} \/ SentAndReceived]_vars

(* The client reports an error only if there was one: domapp was killed or *)
(* a message was cut off.  Otherwise all its echoes come back unchanged.   *)
OnlyFaultsFail == cpc = "error" => cut # {} \/ arrived # {}

(* Client and domapp never wait for each other: the client ends, except    *)
(* over a device whose domapp is gone, which no read reports.              *)
ClientFinishes ==
  <>(cpc \in {"done", "error"} \/ (mode = "GMSR_FILE" /\ proc # "running"))

(* A signal ends domapp, whatever it was doing and whatever other signals  *)
(* arrive meanwhile.                                                       *)
SignalEnds == arrived # {} ~> proc # "running"

ClosedBeforeDeath == Signal!ClosedBeforeDeath
OneKindOneCleanup == Signal!OneKindOneCleanup
LogClosedOnce == Signal!LogClosedOnce

=============================================================================
