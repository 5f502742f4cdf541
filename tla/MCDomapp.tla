------------------------------ MODULE MCDomapp ------------------------------
(***************************************************************************)
(* Model-checking instance of Domapp: two buffers, so that the cursors     *)
(* of the ring wrap while one buffer is out, and requests that take each   *)
(* way through recvMsg and three ways through msgHandler: an echo, one     *)
(* without data, one too long for a data area, and one for a server that   *)
(* does not exist.  A device driver may hand over just the type of a       *)
(* request, or all of its header but the ID and the status.                *)
(***************************************************************************)
EXTENDS Domapp

Blank == [code |-> "BLANK", severity |-> "INFORM_ERROR"]

Request(id, mt, mst, l) ==
  [mt |-> mt, mst |-> mst, msgID |-> id, dlen |-> l, status |-> Blank,
   data |-> [payload |-> id]]

MCRequests ==
  {Request(1, "MESSAGE_HANDLER", "MSGHAND_ECHO_MSG", 5),
   Request(2, "MESSAGE_HANDLER", "GET_SERVICE_STATE", 0),
   Request(3, "DATA_ACCESS", "GET_SERVICE_STATE", 5),
   Request(4, "MESSAGE_HANDLER", "MSGHAND_ECHO_MSG", MAXDATA_VALUE + 1)}

MCCuts == {-7, -2}

(* What Answered says of a message ID it says of one request. *)
ASSUME RequestsDistinct == \A q, r \in Requests : q.msgID = r.msgID => q = r

=============================================================================
