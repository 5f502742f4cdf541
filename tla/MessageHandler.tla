--------------------------- MODULE MessageHandler ---------------------------
(***************************************************************************)
(* The message handler of private/msgHandler/msgHandler.c: it turns the    *)
(* request in a message buffer into the reply, in place, and keeps the     *)
(* service information msgHand (public/domapp_common/commonServices.h)     *)
(* that its mandatory subtypes report.                                     *)
(*                                                                         *)
(* msgHandler runs to completion in the one thread of the program, so a    *)
(* call is one step.  A message is its header fields and, for its data     *)
(* area, what was last written there: the payload of a request, or the     *)
(* writes of a report, each with its place.  Texts, IDs, types and         *)
(* subtypes carry the names of their macros.  The driver statistics are    *)
(* left out: nothing in the program counts anything in them.               *)
(***************************************************************************)
EXTENDS MessageFormat

CONSTANTS
  CounterMod,      (* a ULONG counter wraps at this value, 2^32 in the code *)
  BoardNameLen,    (* strlen(halGetBoardName()), given on the command line  *)
  Requests,        (* the requests that arrive, each a message              *)
  ServiceLens      (* the lengths the two services give their replies       *)

Services == {"DOM_SLOW_CONTROL", "EXPERIMENT_CONTROL"}

Codes == {"BLANK", "SUCCESS", "UNKNOWN_SERVER", "SERVER_STACK_FULL",
          "UNKNOWN_SUBTYPE", "SERVICE_SPECIFIC_ERROR"}
Severities == {"INFORM_ERROR", "WARNING_ERROR", "SEVERE_ERROR"}

(* A status byte: the code or-ed with the severity mask. *)
Status == [code : Codes, severity : Severities]
St(code, severity) == [code |-> code, severity |-> severity]
SUCCESS == St("SUCCESS", "INFORM_ERROR")

(* The texts of lastErrorStr, with their lengths. *)
TextLen ==
  [MSGHAND_ERS_NO_ERRORS |-> 18, MSGHAND_ERS_BAD_MSG_SUBTYPE |-> 24,
   MSGHAND_UNKNOWN_SERVER |-> 23, MSGHAND_SERVER_STACK_FULL |-> 26]

ErrorIDs == {"COMMON_No_Errors", "COMMON_Bad_Msg_Subtype",
             "MSGHAND_unknown_server", "MSGHAND_server_stack_full"}

ASSUME CounterAssumption ==   (* 1 .. 2^32 *)
  CounterMod \in Nat \ {0} /\ (CounterMod - 1) \div 65536 < 65536
ASSUME LengthAssumption == BoardNameLen \in 0 .. MAXDATA_VALUE
ASSUME RequestAssumption ==
  \A q \in Requests :
    /\ DOMAIN q = {"mt", "mst", "msgID", "dlen", "status", "data"}
    /\ q.status \in Status
    /\ q.dlen \in USHORT
    /\ DOMAIN q.data = {"payload"}
ASSUME ServiceAssumption == ServiceLens \subseteq 0 .. MAXDATA_VALUE

VARIABLES
  msgHand,   (* the handler's service information                          *)
  M,         (* the message buffer: after a step, the reply                *)
  hub        (* what the sender of the requests can tell from the replies: *)
             (* the last error since it cleared, and how many there were   *)

vars == <<msgHand, M, hub>>

(* msgHandlerInit *)
InitialInfo ==
  [lastErrorID |-> "COMMON_No_Errors",
   lastErrorSeverity |-> "INFORM_ERROR",
   lastErrorStr |-> "MSGHAND_ERS_NO_ERRORS",
   msgReceived |-> 0,
   msgRefused |-> 0,
   msgProcessingErr |-> 0]

BlankMessage ==
  [mt |-> "NONE", mst |-> "NONE", msgID |-> 0, dlen |-> 0,
   status |-> St("BLANK", "INFORM_ERROR"), data |-> [payload |-> 0]]

Init ==
  /\ msgHand = InitialInfo
  /\ M = BlankMessage
  /\ hub = [lastError |-> SUCCESS, errors |-> 0, asked |-> 0]
-----------------------------------------------------------------------------
(* Bug: the counter does not wrap. *)
IncUnbounded(n) == n + 1

Inc(n) == (n + 1) % CounterMod

(* msgHandler counts a message addressed to it before it looks further. *)
Received == [msgHand EXCEPT !.msgReceived = Inc(@)]

SizeofULONG == 4

(* A write of n bytes to the data area, from data[at] on. *)
At(at, n, val) == [at |-> at, n |-> n, val |-> val]

(* strcpy: the text and its zero byte. *)
Text(at, str) == At(at, TextLen[str] + 1, str)

Summary(s) ==
  [state |-> At(0, 1, "SERVICE_ONLINE"),
   lastErrorID |-> At(1, 1, s.lastErrorID),
   lastErrorSeverity |-> At(2, 1, s.lastErrorSeverity),
   version |-> At(3, 2, "3.2"),
   msgReceived |-> At(5, 4, formatLong(s.msgReceived)),
   msgRefused |-> At(5 + SizeofULONG, 4, formatLong(s.msgRefused)),
   msgProcessingErr |-> At(5 + 2 * SizeofULONG, 4, formatLong(s.msgProcessingErr)),
   lastErrorStr |-> Text(5 + 3 * SizeofULONG, s.lastErrorStr)]

(* What each subtype that only asks writes to the data area. *)
Report(s) ==
  [GET_SERVICE_STATE |-> [state |-> At(0, 1, "SERVICE_ONLINE")],
   GET_LAST_ERROR_ID |-> [lastErrorID |-> At(0, 1, s.lastErrorID),
                          lastErrorSeverity |-> At(1, 1, s.lastErrorSeverity)],
   GET_SERVICE_VERSION_INFO |-> [version |-> At(0, 2, "3.2")],
   GET_SERVICE_STATS |-> [msgReceived |-> At(0, 4, formatLong(s.msgReceived)),
                          msgRefused |-> At(4, 4, formatLong(s.msgRefused)),
                          msgProcessingErr |-> At(8, 4, formatLong(s.msgProcessingErr))],
   GET_LAST_ERROR_STR |-> [lastErrorStr |-> Text(0, s.lastErrorStr)],
   GET_SERVICE_SUMMARY |-> Summary(s),
   MSGHAND_GET_DOM_VER |-> [domVersion |-> At(0, 2, "0.1")],
   MSGHAND_GET_DOM_ID |-> [boardID |-> At(0, 12 + 1, "id")],
   MSGHAND_GET_DOM_NAME |-> [boardName |-> At(0, BoardNameLen + 1, "name")],
   MSGHAND_GET_ATWD_ID |-> [firstATWD |-> At(0, 4, 1234), secondATWD |-> At(4, 4, 1235)],
   MSGHAND_GET_PKT_STATS |-> [pktStats |-> At(0, 7 * SizeofULONG, "counters")],
   MSGHAND_GET_MSG_STATS |-> [msgStats |-> At(0, 5 * SizeofULONG, "counters")],
   MSGHAND_GET_DOM_POSITION |-> [position |-> At(0, 2, "0.2")]]

(* The length each of them sets. *)
ReportLen(s) ==
  [GET_SERVICE_STATE |-> 1,
   GET_LAST_ERROR_ID |-> 2,
   GET_SERVICE_VERSION_INFO |-> 2,
   GET_SERVICE_STATS |-> 12,
   GET_LAST_ERROR_STR |-> TextLen[s.lastErrorStr],
   GET_SERVICE_SUMMARY |-> 5 + 3 * SizeofULONG + TextLen[s.lastErrorStr],
   MSGHAND_GET_DOM_VER |-> 2,
   MSGHAND_GET_DOM_ID |-> 12,
   MSGHAND_GET_DOM_NAME |-> BoardNameLen,
   MSGHAND_GET_ATWD_ID |-> 8,
   MSGHAND_GET_PKT_STATS |-> 28,
   MSGHAND_GET_MSG_STATS |-> 20,
   MSGHAND_GET_DOM_POSITION |-> 2]

(* Bug: the length is that of the text the handler starts with. *)
GetReportFirstText(q) ==
  /\ q.mt = "MESSAGE_HANDLER"
  /\ q.mst \in DOMAIN Report(InitialInfo)
  /\ msgHand' = Received
  /\ M' = [q EXCEPT !.data = Report(msgHand')[q.mst],
                    !.dlen = SetDataLen(ReportLen(InitialInfo)[q.mst]),
                    !.status = SUCCESS]

GetReport(q) ==
  /\ q.mt = "MESSAGE_HANDLER"
  /\ q.mst \in DOMAIN Report(InitialInfo)
  /\ msgHand' = Received
  /\ M' = [q EXCEPT !.data = Report(msgHand')[q.mst],
                    !.dlen = SetDataLen(ReportLen(msgHand')[q.mst]),
                    !.status = SUCCESS]

ClearLastError(q) ==
  /\ q.mt = "MESSAGE_HANDLER" /\ q.mst = "CLEAR_LAST_ERROR"
  /\ msgHand' = [Received EXCEPT !.lastErrorID = "COMMON_No_Errors",
                                 !.lastErrorSeverity = "INFORM_ERROR",
                                 !.lastErrorStr = "MSGHAND_ERS_NO_ERRORS"]
  /\ M' = [q EXCEPT !.dlen = 0, !.status = SUCCESS]

ClearStats(q) ==
  /\ q.mt = "MESSAGE_HANDLER"
  /\ q.mst \in {"MSGHAND_CLR_PKT_STATS", "MSGHAND_CLR_MSG_STATS"}
  /\ msgHand' = Received
  /\ M' = [q EXCEPT !.dlen = 0, !.status = SUCCESS]

Echo(q) ==
  /\ q.mt = "MESSAGE_HANDLER" /\ q.mst = "MSGHAND_ECHO_MSG"
  /\ msgHand' = Received
  /\ M' = [q EXCEPT !.dlen = SetDataLen(@), !.status = SUCCESS]
-----------------------------------------------------------------------------
(* Bug: the stub is counted as refused as well, as an unknown subtype is. *)
RemoteObjectRefTwice(q) ==
  /\ q.mt = "MESSAGE_HANDLER" /\ q.mst = "REMOTE_OBJECT_REF"
  /\ msgHand' = [Received EXCEPT !.msgProcessingErr = Inc(@),
                                 !.msgRefused = Inc(@),
                                 !.lastErrorID = "COMMON_Bad_Msg_Subtype",
                                 !.lastErrorSeverity = "WARNING_ERROR",
                                 !.lastErrorStr = "MSGHAND_ERS_BAD_MSG_SUBTYPE"]
  /\ M' = [q EXCEPT !.dlen = 0, !.status = St("UNKNOWN_SUBTYPE", "WARNING_ERROR")]

(* "TO BE IMPLEMENTED": always an error. *)
RemoteObjectRef(q) ==
  /\ q.mt = "MESSAGE_HANDLER" /\ q.mst = "REMOTE_OBJECT_REF"
  /\ msgHand' = [Received EXCEPT !.msgProcessingErr = Inc(@),
                                 !.lastErrorID = "COMMON_Bad_Msg_Subtype",
                                 !.lastErrorSeverity = "WARNING_ERROR",
                                 !.lastErrorStr = "MSGHAND_ERS_BAD_MSG_SUBTYPE"]
  /\ M' = [q EXCEPT !.dlen = 0, !.status = St("UNKNOWN_SUBTYPE", "WARNING_ERROR")]

Subtypes ==
  DOMAIN Report(InitialInfo) \cup
  {"CLEAR_LAST_ERROR", "MSGHAND_CLR_PKT_STATS", "MSGHAND_CLR_MSG_STATS",
   "MSGHAND_ECHO_MSG", "REMOTE_OBJECT_REF"}

(* The reply keeps the length, and with it the data, of the request. *)
UnknownSubtype(q) ==
  /\ q.mt = "MESSAGE_HANDLER" /\ q.mst \notin Subtypes
  /\ msgHand' = [Received EXCEPT !.msgRefused = Inc(@),
                                 !.lastErrorID = "COMMON_Bad_Msg_Subtype",
                                 !.lastErrorSeverity = "WARNING_ERROR",
                                 !.lastErrorStr = "MSGHAND_ERS_BAD_MSG_SUBTYPE"]
  /\ M' = [q EXCEPT !.status = St("UNKNOWN_SUBTYPE", "WARNING_ERROR")]

(* Bug: the text is set and the ID of the last error is not. *)
TestManagerNoID(q) ==
  /\ q.mt = "TEST_MANAGER"
  /\ msgHand' = [msgHand EXCEPT !.msgProcessingErr = Inc(@),
                                !.lastErrorStr = "MSGHAND_SERVER_STACK_FULL"]
  /\ M' = [q EXCEPT !.dlen = 0, !.status = St("SERVER_STACK_FULL", "SEVERE_ERROR")]

(* The test manager's stack is always full.  lastErrorSeverity is not set. *)
TestManager(q) ==
  /\ q.mt = "TEST_MANAGER"
  /\ msgHand' = [msgHand EXCEPT !.msgProcessingErr = Inc(@),
                                !.lastErrorID = "MSGHAND_server_stack_full",
                                !.lastErrorStr = "MSGHAND_SERVER_STACK_FULL"]
  /\ M' = [q EXCEPT !.dlen = 0, !.status = St("SERVER_STACK_FULL", "SEVERE_ERROR")]

(* Any other type, DATA_ACCESS among them.  lastErrorSeverity is not set.  *)
UnknownServer(q) ==
  /\ q.mt \notin Services \cup {"MESSAGE_HANDLER", "TEST_MANAGER"}
  /\ msgHand' = [msgHand EXCEPT !.msgProcessingErr = Inc(@),
                                !.lastErrorID = "MSGHAND_unknown_server",
                                !.lastErrorStr = "MSGHAND_UNKNOWN_SERVER"]
  /\ M' = [q EXCEPT !.dlen = 0, !.status = St("UNKNOWN_SERVER", "WARNING_ERROR")]

(* domSControl and expControl, which are not part of the repository, turn  *)
(* the message into a reply with any status and a length that they leave   *)
(* alone or give to Message_setDataLen; they know nothing of msgHand.      *)
ServiceReply(q, l, st) == [q EXCEPT !.dlen = l, !.status = st]

CallService(q) ==
  /\ q.mt \in Services
  /\ \E l \in ServiceLens \cup {q.dlen}, st \in Status : M' = ServiceReply(q, l, st)
  /\ UNCHANGED msgHand

msgHandler(q) ==
  \/ GetReport(q) \/ ClearLastError(q) \/ ClearStats(q) \/ Echo(q)
  \/ RemoteObjectRef(q) \/ UnknownSubtype(q)
  \/ TestManager(q) \/ UnknownServer(q) \/ CallService(q)
-----------------------------------------------------------------------------
(* The sender's own bookkeeping, from the request and its reply alone. *)
Observe(q) ==
  LET failed  == q.mt \notin Services /\ M'.status # SUCCESS
      cleared == q.mt = "MESSAGE_HANDLER" /\ q.mst = "CLEAR_LAST_ERROR"
  IN  hub' = [lastError |-> IF failed THEN M'.status
                            ELSE IF cleared THEN SUCCESS ELSE hub.lastError,
              errors |-> IF failed THEN Inc(hub.errors) ELSE hub.errors,
              asked |-> IF q.mt = "MESSAGE_HANDLER" THEN Inc(hub.asked)
                                                   ELSE hub.asked]

Next == \E q \in Requests : msgHandler(q) /\ Observe(q)

Spec == Init /\ [][Next]_vars
-----------------------------------------------------------------------------
(* Type correctness: the counters are ULONGs, and lengths fit two bytes.   *)
TypeOK ==
  /\ msgHand \in [lastErrorID : ErrorIDs, lastErrorSeverity : Severities,
                  lastErrorStr : DOMAIN TextLen, msgReceived : 0 .. CounterMod - 1,
                  msgRefused : 0 .. CounterMod - 1,
                  msgProcessingErr : 0 .. CounterMod - 1]
  /\ M.status \in Status
  /\ M.dlen \in USHORT
  /\ hub \in [lastError : Status, errors : 0 .. CounterMod - 1,
              asked : 0 .. CounterMod - 1]

ErrorID ==
  [SUCCESS |-> "COMMON_No_Errors",
   UNKNOWN_SUBTYPE |-> "COMMON_Bad_Msg_Subtype",
   UNKNOWN_SERVER |-> "MSGHAND_unknown_server",
   SERVER_STACK_FULL |-> "MSGHAND_server_stack_full"]

ErrorStr ==
  [SUCCESS |-> "MSGHAND_ERS_NO_ERRORS",
   UNKNOWN_SUBTYPE |-> "MSGHAND_ERS_BAD_MSG_SUBTYPE",
   UNKNOWN_SERVER |-> "MSGHAND_UNKNOWN_SERVER",
   SERVER_STACK_FULL |-> "MSGHAND_SERVER_STACK_FULL"]

(* The ID and the text in a reply of GET_LAST_ERROR_ID, GET_LAST_ERROR_STR *)
(* or GET_SERVICE_SUMMARY are those of the last reply in which the handler *)
(* itself refused a request since the error was cleared, whatever path of  *)
(* msgHandler refused it and whatever succeeded in between.                *)
LastErrorReported ==
  /\ "lastErrorID" \in DOMAIN M.data =>
       M.data.lastErrorID.val = ErrorID[hub.lastError.code]
  /\ "lastErrorStr" \in DOMAIN M.data =>
       M.data.lastErrorStr.val = ErrorStr[hub.lastError.code]

(* The statistics in a reply of GET_SERVICE_STATS or GET_SERVICE_SUMMARY   *)
(* agree with the traffic: every refused request is in exactly one of      *)
(* msgRefused and msgProcessingErr, and msgReceived counts the requests    *)
(* addressed to the handler, the asking one included, also across a wrap.  *)
(* The hub reads them from their four bytes.                               *)
StatsReported ==
  "msgReceived" \in DOMAIN M.data =>
    /\ unformatLong(M.data.msgReceived.val) = hub.asked
    /\ (unformatLong(M.data.msgRefused.val) + unformatLong(M.data.msgProcessingErr.val))
          % CounterMod = hub.errors

IsReport == DOMAIN M.data # {"payload"}

(* Byte b of the data area is one that the write w has written. *)
Wrote(w, b) == w.at <= b /\ b < w.at + w.n

(* The length of a report is set apart from the writes to the data area,   *)
(* in part from the length of the current error text.  It agrees with      *)
(* them: each byte of the reply comes from just one of the writes, so that *)
(* none is left of the request or of another write, and none that was      *)
(* written is cut off but the zero byte that ends a text.                  *)
LengthCoversReport ==
  IsReport =>
    /\ \A b \in 0 .. M.dlen - 1 :
         \E f \in DOMAIN M.data : \A g \in DOMAIN M.data : Wrote(M.data[g], b) <=> g = f
    /\ \A f \in DOMAIN M.data :
         M.data[f].at + M.data[f].n
           <= M.dlen + (IF f \in {"lastErrorStr", "boardID", "boardName"} THEN 1 ELSE 0)

(* commonMessageAPIstatus.h says of the reply of GET_LAST_ERROR_STR: "Size *)
(* of returned values in data portion: strLen(text_string)+1", so that the *)
(* zero byte is part of it.                                                *)
ZeroByteSent ==
  DOMAIN M.data = {"lastErrorStr"} => M.dlen = TextLen[M.data.lastErrorStr.val] + 1

(* commonMessageAPIstatus.h says of the errorSeverity that                 *)
(* GET_LAST_ERROR_ID returns: "same values as message status mask", the    *)
(* mask of the status with which the last error was reported.              *)
SeverityReported ==
  "lastErrorSeverity" \in DOMAIN M.data =>
    M.data.lastErrorSeverity.val = hub.lastError.severity

=============================================================================
