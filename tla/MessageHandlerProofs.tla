------------------------ MODULE MessageHandlerProofs ------------------------
(***************************************************************************)
(* Proofs about the message handler, for every set of requests, every wrap *)
(* of the counters up to that of a ULONG, and every size of a data area.   *)
(***************************************************************************)
EXTENDS MessageHandler, MessageFormatProofs

(* The bookkeeping of the sender agrees with the handler's. *)
Agree ==
  /\ hub.lastError.code \in DOMAIN ErrorID
  /\ msgHand.lastErrorID = ErrorID[hub.lastError.code]
  /\ msgHand.lastErrorStr = ErrorStr[hub.lastError.code]
  /\ msgHand.msgReceived = hub.asked
  /\ (msgHand.msgRefused + msgHand.msgProcessingErr) % CounterMod = hub.errors

IInv == TypeOK /\ Agree
-----------------------------------------------------------------------------
(* Counters that wrap. *)
Counters == 0 .. CounterMod - 1

LEMMA Wrap ==
  ASSUME NEW n \in Nat, n < 2 * CounterMod
  PROVE  n % CounterMod = IF n < CounterMod THEN n ELSE n - CounterMod
<1>1. CounterMod \in Nat /\ CounterMod > 0
  BY CounterAssumption
<1>2. CASE n < CounterMod
  BY <1>1, <1>2, SMTT(30)
<1>3. CASE n >= CounterMod
  BY <1>1, <1>3, SMTT(30)
<1> QED
  BY <1>1, <1>2, <1>3

LEMMA IncCounter ==
  ASSUME NEW n \in Counters
  PROVE  /\ Inc(n) \in Counters
         /\ Inc(n) = IF n + 1 = CounterMod THEN 0 ELSE n + 1
<1>1. CounterMod \in Nat /\ CounterMod > 0 /\ n \in Nat /\ n + 1 \in Nat /\ n + 1 < 2 * CounterMod
  BY CounterAssumption DEF Counters
<1> QED
  BY <1>1, Wrap DEF Inc, Counters

LEMMA SumCounter ==
  ASSUME NEW a \in Counters, NEW b \in Counters
  PROVE  /\ (a + b) % CounterMod \in Counters
         /\ (Inc(a) + b) % CounterMod = Inc((a + b) % CounterMod)
         /\ (a + Inc(b)) % CounterMod = Inc((a + b) % CounterMod)
<1>1. CounterMod \in Nat /\ CounterMod > 0 /\ a \in Nat /\ b \in Nat
      /\ a < CounterMod /\ b < CounterMod
  BY CounterAssumption DEF Counters
<1>2. (a + b) % CounterMod = IF a + b < CounterMod THEN a + b ELSE a + b - CounterMod
  BY <1>1, Wrap
<1>3. (a + b) % CounterMod \in Counters
  BY <1>1, <1>2 DEF Counters
<1>4. ASSUME NEW i \in Counters, NEW k \in Counters
      PROVE  (Inc(i) + k) % CounterMod = Inc((i + k) % CounterMod)
  <2>1. i \in Nat /\ k \in Nat /\ i < CounterMod /\ k < CounterMod
    BY <1>1 DEF Counters
  <2>2. (i + k) % CounterMod = IF i + k < CounterMod THEN i + k ELSE i + k - CounterMod
    BY <1>1, <2>1, Wrap
  <2>3. (i + k) % CounterMod \in Counters
    BY <1>1, <2>1, <2>2 DEF Counters
  <2>4. Inc((i + k) % CounterMod) =
          IF ((i + k) % CounterMod) + 1 = CounterMod THEN 0 ELSE ((i + k) % CounterMod) + 1
    BY <2>3, IncCounter
  <2>5. Inc(i) = IF i + 1 = CounterMod THEN 0 ELSE i + 1
    BY IncCounter
  <2>6. Inc(i) \in Nat /\ Inc(i) < CounterMod
    BY <1>1, <2>1, <2>5
  <2>7. (Inc(i) + k) % CounterMod =
          IF Inc(i) + k < CounterMod THEN Inc(i) + k ELSE Inc(i) + k - CounterMod
    BY <1>1, <2>1, <2>6, Wrap
  <2> QED
    BY <1>1, <2>1, <2>2, <2>4, <2>5, <2>7
<1>5. (a + Inc(b)) % CounterMod = (Inc(b) + a) % CounterMod /\ (a + b) % CounterMod = (b + a) % CounterMod
  BY <1>1, IncCounter DEF Counters
<1> QED
  BY <1>3, <1>4, <1>5
-----------------------------------------------------------------------------
Reported == LastErrorReported /\ StatsReported

(* The counters as the type invariant has them.                            *)
LEMMA TypedCounters ==
  ASSUME TypeOK
  PROVE  /\ msgHand.msgReceived \in Counters /\ msgHand.msgRefused \in Counters
         /\ msgHand.msgProcessingErr \in Counters
         /\ hub.errors \in Counters /\ hub.asked \in Counters
  BY DEF TypeOK, Counters

(* A message without a report reports nothing wrong. *)
LEMMA NothingReported ==
  ASSUME DOMAIN M'.data = {"payload"}
  PROVE  Reported'
  BY DEF Reported, LastErrorReported, StatsReported

LEMMA InitHolds == Init => IInv /\ Reported
<1> SUFFICES ASSUME Init
             PROVE  IInv /\ Reported
  OBVIOUS
<1>1. CounterMod \in Nat /\ CounterMod > 0 /\ 0 \in Counters /\ MAXDATA_VALUE \in Nat
  BY CounterAssumption, MaxDataAssumption DEF Counters
<1>2. TypeOK
  BY <1>1 DEF Init, TypeOK, InitialInfo, BlankMessage, SUCCESS, St, Status, USHORT, Codes,
              Severities, ErrorIDs, TextLen, Counters
<1>3. (0 + 0) % CounterMod = 0
  BY <1>1, Wrap
<1>4. Agree
  BY <1>3 DEF Init, Agree, InitialInfo, SUCCESS, St, ErrorID, ErrorStr
<1>5. DOMAIN M.data = {"payload"}
  BY DEF Init, BlankMessage
<1> QED
  BY <1>2, <1>4, <1>5 DEF IInv, Reported, LastErrorReported, StatsReported

(* The reports read back as the numbers that were written.                 *)
LEMMA ReadBack ==
  ASSUME NEW n \in Counters
  PROVE  unformatLong(formatLong(n)) = n
<1>1. n \in Nat /\ n <= CounterMod - 1 /\ CounterMod \in Nat
      /\ (CounterMod - 1) \div 65536 < 65536
  BY CounterAssumption DEF Counters
<1>2. n < 65536 * 65536
  BY <1>1
<1> QED
  BY <1>1, <1>2, LongRoundTrip

(* A report has the values of the service information it is made from.     *)
LEMMA ReportFields ==
  ASSUME NEW s, NEW mst \in DOMAIN Report(s)
  PROVE  LET d == Report(s)[mst]
         IN  /\ "lastErrorID" \in DOMAIN d => d.lastErrorID.val = s.lastErrorID
             /\ "lastErrorSeverity" \in DOMAIN d =>
                  d.lastErrorSeverity.val = s.lastErrorSeverity
             /\ "lastErrorStr" \in DOMAIN d => d.lastErrorStr.val = s.lastErrorStr
             /\ "msgReceived" \in DOMAIN d =>
                  /\ d.msgReceived.val = formatLong(s.msgReceived)
                  /\ d.msgRefused.val = formatLong(s.msgRefused)
                  /\ d.msgProcessingErr.val = formatLong(s.msgProcessingErr)
<1> DEFINE d == Report(s)[mst]
<1>1. mst \in {"GET_SERVICE_STATE", "GET_LAST_ERROR_ID", "GET_SERVICE_VERSION_INFO",
               "GET_SERVICE_STATS", "GET_LAST_ERROR_STR", "GET_SERVICE_SUMMARY",
               "MSGHAND_GET_DOM_VER", "MSGHAND_GET_DOM_ID", "MSGHAND_GET_DOM_NAME",
               "MSGHAND_GET_ATWD_ID", "MSGHAND_GET_PKT_STATS", "MSGHAND_GET_MSG_STATS",
               "MSGHAND_GET_DOM_POSITION"}
  BY DEF Report
<1>2. CASE mst = "GET_LAST_ERROR_ID"
  <2>1. d = [lastErrorID |-> At(0, 1, s.lastErrorID),
             lastErrorSeverity |-> At(1, 1, s.lastErrorSeverity)]
    BY <1>2 DEF Report
  <2> QED
    BY <2>1 DEF At
<1>3. CASE mst = "GET_SERVICE_STATS"
  <2>1. d = [msgReceived |-> At(0, 4, formatLong(s.msgReceived)),
             msgRefused |-> At(4, 4, formatLong(s.msgRefused)),
             msgProcessingErr |-> At(8, 4, formatLong(s.msgProcessingErr))]
    BY <1>3 DEF Report
  <2> QED
    BY <2>1 DEF At
<1>4. CASE mst = "GET_LAST_ERROR_STR"
  <2>1. d = [lastErrorStr |-> Text(0, s.lastErrorStr)]
    BY <1>4 DEF Report
  <2> QED
    BY <2>1 DEF Text, At
<1>5. CASE mst = "GET_SERVICE_SUMMARY"
  <2>1. d = Summary(s)
    BY <1>5 DEF Report
  <2> QED
    BY <2>1 DEF Summary, Text, At
<1>6. CASE mst \notin {"GET_LAST_ERROR_ID", "GET_SERVICE_STATS", "GET_LAST_ERROR_STR",
                       "GET_SERVICE_SUMMARY"}
  <2>1. mst = "GET_SERVICE_STATE" => d = [state |-> At(0, 1, "SERVICE_ONLINE")]
    BY DEF Report
  <2>2. mst = "GET_SERVICE_VERSION_INFO" => d = [version |-> At(0, 2, "3.2")]
    BY DEF Report
  <2>3. mst = "MSGHAND_GET_DOM_VER" => d = [domVersion |-> At(0, 2, "0.1")]
    BY DEF Report
  <2>4. mst = "MSGHAND_GET_DOM_ID" => d = [boardID |-> At(0, 12 + 1, "id")]
    BY DEF Report
  <2>5. mst = "MSGHAND_GET_DOM_NAME" => d = [boardName |-> At(0, BoardNameLen + 1, "name")]
    BY DEF Report
  <2>6. mst = "MSGHAND_GET_ATWD_ID" =>
          d = [firstATWD |-> At(0, 4, 1234), secondATWD |-> At(4, 4, 1235)]
    BY DEF Report
  <2>7. mst = "MSGHAND_GET_PKT_STATS" => d = [pktStats |-> At(0, 7 * SizeofULONG, "counters")]
    BY DEF Report
  <2>8. mst = "MSGHAND_GET_MSG_STATS" => d = [msgStats |-> At(0, 5 * SizeofULONG, "counters")]
    BY DEF Report
  <2>9. mst = "MSGHAND_GET_DOM_POSITION" => d = [position |-> At(0, 2, "0.2")]
    BY DEF Report
  <2>10. /\ "lastErrorID" \notin DOMAIN d /\ "lastErrorStr" \notin DOMAIN d
        /\ "msgReceived" \notin DOMAIN d /\ "lastErrorSeverity" \notin DOMAIN d
    BY <1>1, <1>6, <2>1, <2>2, <2>3, <2>4, <2>5, <2>6, <2>7, <2>8, <2>9
  <2> QED
    BY <2>10
<1> QED
  BY <1>1, <1>2, <1>3, <1>4, <1>5, <1>6

(* A reply with a report of service information that agrees with the       *)
(* sender's bookkeeping reports what it should.                            *)
LEMMA ReportHolds ==
  ASSUME IInv', NEW mst \in DOMAIN Report(msgHand'), M'.data = Report(msgHand')[mst]
  PROVE  Reported'
<1>1. LastErrorReported'
  BY ReportFields DEF IInv, Agree, LastErrorReported
<1>2. StatsReported'
  <2>1. SUFFICES ASSUME "msgReceived" \in DOMAIN M'.data
                 PROVE  /\ unformatLong(M'.data.msgReceived.val) = hub'.asked
                        /\ (unformatLong(M'.data.msgRefused.val)
                              + unformatLong(M'.data.msgProcessingErr.val)) % CounterMod
                             = hub'.errors
    BY DEF StatsReported
  <2>2. /\ M'.data.msgReceived.val = formatLong(msgHand'.msgReceived)
        /\ M'.data.msgRefused.val = formatLong(msgHand'.msgRefused)
        /\ M'.data.msgProcessingErr.val = formatLong(msgHand'.msgProcessingErr)
    BY <2>1, ReportFields
  <2>3. /\ msgHand'.msgReceived \in Counters /\ msgHand'.msgRefused \in Counters
        /\ msgHand'.msgProcessingErr \in Counters
    BY DEF IInv, TypeOK, Counters
  <2>4. /\ unformatLong(M'.data.msgReceived.val) = msgHand'.msgReceived
        /\ unformatLong(M'.data.msgRefused.val) = msgHand'.msgRefused
        /\ unformatLong(M'.data.msgProcessingErr.val) = msgHand'.msgProcessingErr
    BY <2>2, ReadBack, <2>3
  <2> QED
    BY <2>4 DEF IInv, Agree
<1> QED
  BY <1>1, <1>2 DEF Reported
-----------------------------------------------------------------------------
(* The request as its fields.                                              *)
LEMMA RequestFields ==
  ASSUME NEW q \in Requests
  PROVE  /\ DOMAIN q = {"mt", "mst", "msgID", "dlen", "status", "data"}
         /\ q.dlen \in USHORT /\ q.status \in Status
         /\ DOMAIN q.data = {"payload"}
  BY RequestAssumption

(* Lengths the handler sets fit the two bytes.                             *)
LEMMA Clamped ==
  ASSUME NEW l \in Nat
  PROVE  SetDataLen(l) \in USHORT
  BY MaxDataAssumption DEF SetDataLen, USHORT

(* A request the handler refuses.  It counts one error more, in one of the *)
(* two counters, and records the one of the reply's status.                *)
LEMMA RefusedHolds ==
  ASSUME IInv, NEW q \in Requests, Observe(q), q.mt \notin Services,
         M'.status \in Status, M'.status # SUCCESS,
         M'.status.code \in DOMAIN ErrorID, M'.dlen \in USHORT,
         DOMAIN M'.data = {"payload"},
         NEW severity \in Severities, NEW rec, NEW ref, NEW err,
         msgHand' =
           [lastErrorID |-> ErrorID[M'.status.code], lastErrorSeverity |-> severity,
            lastErrorStr |-> ErrorStr[M'.status.code],
            msgReceived |-> rec, msgRefused |-> ref, msgProcessingErr |-> err],
         rec = IF q.mt = "MESSAGE_HANDLER" THEN Inc(msgHand.msgReceived)
                                           ELSE msgHand.msgReceived,
         \/ ref = Inc(msgHand.msgRefused) /\ err = msgHand.msgProcessingErr
         \/ ref = msgHand.msgRefused /\ err = Inc(msgHand.msgProcessingErr)
  PROVE  IInv' /\ Reported'
<1>1. /\ msgHand.msgReceived \in Counters /\ msgHand.msgRefused \in Counters
      /\ msgHand.msgProcessingErr \in Counters
      /\ hub.errors \in Counters /\ hub.asked \in Counters
  BY TypedCounters DEF IInv
<1>2. /\ rec \in Counters /\ ref \in Counters /\ err \in Counters
      /\ Inc(hub.errors) \in Counters /\ Inc(hub.asked) \in Counters
  BY <1>1, IncCounter
<1>3. hub' = [lastError |-> M'.status, errors |-> Inc(hub.errors),
              asked |-> IF q.mt = "MESSAGE_HANDLER" THEN Inc(hub.asked) ELSE hub.asked]
  BY DEF Observe
<1>4. TypeOK'
  <2>1. /\ ErrorID[M'.status.code] \in ErrorIDs
        /\ ErrorStr[M'.status.code] \in DOMAIN TextLen
    BY DEF ErrorID, ErrorStr, ErrorIDs, TextLen
  <2>2. msgHand' \in [lastErrorID : ErrorIDs, lastErrorSeverity : Severities,
                      lastErrorStr : DOMAIN TextLen, msgReceived : Counters,
                      msgRefused : Counters, msgProcessingErr : Counters]
    BY <1>1, <1>2, <2>1
  <2>3. hub' \in [lastError : Status, errors : Counters, asked : Counters]
    BY <1>1, <1>2, <1>3
  <2> QED
    BY <2>2, <2>3 DEF TypeOK, Counters
<1>5. Agree'
  <2>1. (ref + err) % CounterMod
          = Inc((msgHand.msgRefused + msgHand.msgProcessingErr) % CounterMod)
    BY <1>1, SumCounter
  <2>2. /\ (msgHand.msgRefused + msgHand.msgProcessingErr) % CounterMod = hub.errors
        /\ msgHand.msgReceived = hub.asked
    BY DEF IInv, Agree
  <2>3. (msgHand'.msgRefused + msgHand'.msgProcessingErr) % CounterMod = hub'.errors
    BY <1>3, <2>1, <2>2
  <2>4. msgHand'.msgReceived = hub'.asked
    BY <1>3, <2>2
  <2>5. hub'.lastError.code \in DOMAIN ErrorID /\ hub'.lastError.code = M'.status.code
    BY <1>3
  <2> QED
    BY <2>3, <2>4, <2>5 DEF Agree
<1>6. Reported'
  BY NothingReported
<1> QED
  BY <1>4, <1>5, <1>6 DEF IInv

(* Each of the four paths that refuse a request. *)
LEMMA RefuseHolds ==
  ASSUME IInv, NEW q \in Requests, Observe(q),
         RemoteObjectRef(q) \/ UnknownSubtype(q) \/ TestManager(q) \/ UnknownServer(q)
  PROVE  IInv' /\ Reported'
<1>0. /\ DOMAIN q = {"mt", "mst", "msgID", "dlen", "status", "data"}
      /\ q.dlen \in USHORT /\ DOMAIN q.data = {"payload"}
      /\ 0 \in USHORT
  BY RequestFields DEF USHORT
<1>1. msgHand = [lastErrorID |-> msgHand.lastErrorID,
                 lastErrorSeverity |-> msgHand.lastErrorSeverity,
                 lastErrorStr |-> msgHand.lastErrorStr,
                 msgReceived |-> msgHand.msgReceived, msgRefused |-> msgHand.msgRefused,
                 msgProcessingErr |-> msgHand.msgProcessingErr]
      /\ msgHand.lastErrorSeverity \in Severities
  BY DEF IInv, TypeOK
<1>2. ASSUME RemoteObjectRef(q)
      PROVE  IInv' /\ Reported'
  <2>1. /\ q.mt = "MESSAGE_HANDLER" /\ q.mt \notin Services
        /\ "WARNING_ERROR" \in Severities
    BY <1>2 DEF RemoteObjectRef, Services, Severities
  <2>2. M'.status = St("UNKNOWN_SUBTYPE", "WARNING_ERROR") /\ M'.dlen = 0 /\ M'.data = q.data
    BY <1>0, <1>2 DEF RemoteObjectRef
  <2>3. msgHand' =
           [lastErrorID |-> "COMMON_Bad_Msg_Subtype", lastErrorSeverity |-> "WARNING_ERROR",
            lastErrorStr |-> "MSGHAND_ERS_BAD_MSG_SUBTYPE",
            msgReceived |-> Inc(msgHand.msgReceived),
            msgRefused |-> msgHand.msgRefused,
            msgProcessingErr |-> Inc(msgHand.msgProcessingErr)]
    BY <1>1, <1>2 DEF RemoteObjectRef, Received
  <2>4. /\ M'.status \in Status /\ M'.status # SUCCESS
        /\ M'.status.code \in DOMAIN ErrorID
        /\ ErrorID[M'.status.code] = "COMMON_Bad_Msg_Subtype"
        /\ ErrorStr[M'.status.code] = "MSGHAND_ERS_BAD_MSG_SUBTYPE"
    BY <2>2 DEF St, Status, Codes, Severities, SUCCESS, ErrorID, ErrorStr
  <2> QED
    BY <1>0, <2>1, <2>2, <2>3, <2>4, RefusedHolds
<1>3. ASSUME UnknownSubtype(q)
      PROVE  IInv' /\ Reported'
  <2>1. /\ q.mt = "MESSAGE_HANDLER" /\ q.mt \notin Services
        /\ "WARNING_ERROR" \in Severities
    BY <1>3 DEF UnknownSubtype, Services, Severities
  <2>2. M'.status = St("UNKNOWN_SUBTYPE", "WARNING_ERROR") /\ M'.dlen = q.dlen
        /\ M'.data = q.data
    BY <1>0, <1>3 DEF UnknownSubtype
  <2>3. msgHand' =
           [lastErrorID |-> "COMMON_Bad_Msg_Subtype", lastErrorSeverity |-> "WARNING_ERROR",
            lastErrorStr |-> "MSGHAND_ERS_BAD_MSG_SUBTYPE",
            msgReceived |-> Inc(msgHand.msgReceived),
            msgRefused |-> Inc(msgHand.msgRefused),
            msgProcessingErr |-> msgHand.msgProcessingErr]
    BY <1>1, <1>3 DEF UnknownSubtype, Received
  <2>4. /\ M'.status \in Status /\ M'.status # SUCCESS
        /\ M'.status.code \in DOMAIN ErrorID
        /\ ErrorID[M'.status.code] = "COMMON_Bad_Msg_Subtype"
        /\ ErrorStr[M'.status.code] = "MSGHAND_ERS_BAD_MSG_SUBTYPE"
    BY <2>2 DEF St, Status, Codes, Severities, SUCCESS, ErrorID, ErrorStr
  <2> QED
    BY <1>0, <2>1, <2>2, <2>3, <2>4, RefusedHolds
<1>4. ASSUME TestManager(q)
      PROVE  IInv' /\ Reported'
  <2>1. q.mt # "MESSAGE_HANDLER" /\ q.mt \notin Services
    BY <1>4 DEF TestManager, Services
  <2>2. M'.status = St("SERVER_STACK_FULL", "SEVERE_ERROR") /\ M'.dlen = 0
        /\ M'.data = q.data
    BY <1>0, <1>4 DEF TestManager
  <2>3. msgHand' =
           [lastErrorID |-> "MSGHAND_server_stack_full",
            lastErrorSeverity |-> msgHand.lastErrorSeverity,
            lastErrorStr |-> "MSGHAND_SERVER_STACK_FULL",
            msgReceived |-> msgHand.msgReceived,
            msgRefused |-> msgHand.msgRefused,
            msgProcessingErr |-> Inc(msgHand.msgProcessingErr)]
    BY <1>1, <1>4 DEF TestManager
  <2>4. /\ M'.status \in Status /\ M'.status # SUCCESS
        /\ M'.status.code \in DOMAIN ErrorID
        /\ ErrorID[M'.status.code] = "MSGHAND_server_stack_full"
        /\ ErrorStr[M'.status.code] = "MSGHAND_SERVER_STACK_FULL"
    BY <2>2 DEF St, Status, Codes, Severities, SUCCESS, ErrorID, ErrorStr
  <2> QED
    BY <1>0, <1>1, <2>1, <2>2, <2>3, <2>4, RefusedHolds
<1>5. ASSUME UnknownServer(q)
      PROVE  IInv' /\ Reported'
  <2>1. q.mt # "MESSAGE_HANDLER" /\ q.mt \notin Services
    BY <1>5 DEF UnknownServer
  <2>2. M'.status = St("UNKNOWN_SERVER", "WARNING_ERROR") /\ M'.dlen = 0
        /\ M'.data = q.data
    BY <1>0, <1>5 DEF UnknownServer
  <2>3. msgHand' =
           [lastErrorID |-> "MSGHAND_unknown_server",
            lastErrorSeverity |-> msgHand.lastErrorSeverity,
            lastErrorStr |-> "MSGHAND_UNKNOWN_SERVER",
            msgReceived |-> msgHand.msgReceived,
            msgRefused |-> msgHand.msgRefused,
            msgProcessingErr |-> Inc(msgHand.msgProcessingErr)]
    BY <1>1, <1>5 DEF UnknownServer
  <2>4. /\ M'.status \in Status /\ M'.status # SUCCESS
        /\ M'.status.code \in DOMAIN ErrorID
        /\ ErrorID[M'.status.code] = "MSGHAND_unknown_server"
        /\ ErrorStr[M'.status.code] = "MSGHAND_UNKNOWN_SERVER"
    BY <2>2 DEF St, Status, Codes, Severities, SUCCESS, ErrorID, ErrorStr
  <2> QED
    BY <1>0, <1>1, <2>1, <2>2, <2>3, <2>4, RefusedHolds
<1> QED
  BY <1>2, <1>3, <1>4, <1>5

(* A request that is answered without an error and clears none: the        *)
(* handler counts it and changes nothing else.                             *)
LEMMA CountedHolds ==
  ASSUME IInv, NEW q \in Requests, Observe(q),
         q.mt = "MESSAGE_HANDLER", q.mst # "CLEAR_LAST_ERROR",
         msgHand' = Received, M'.status = SUCCESS, M'.dlen \in USHORT
  PROVE  IInv'
<1>1. /\ msgHand.msgReceived \in Counters /\ hub.asked \in Counters
      /\ Inc(msgHand.msgReceived) \in Counters /\ Inc(hub.asked) \in Counters
  BY TypedCounters, IncCounter DEF IInv
<1>2. q.mt \notin Services
  BY DEF Services
<1>3. hub' = [lastError |-> hub.lastError, errors |-> hub.errors, asked |-> Inc(hub.asked)]
  BY <1>2 DEF Observe
<1>4. TypeOK'
  BY <1>1, <1>3 DEF IInv, TypeOK, Received, Counters, SUCCESS, St, Status, Codes, Severities
<1>5. Agree'
  BY <1>3 DEF IInv, TypeOK, Agree, Received
<1> QED
  BY <1>4, <1>5 DEF IInv

(* ClearStats and Echo hand the request's data back. *)
LEMMA QuietHolds ==
  ASSUME IInv, NEW q \in Requests, Observe(q), ClearStats(q) \/ Echo(q)
  PROVE  IInv' /\ Reported'
<1>1. /\ DOMAIN q = {"mt", "mst", "msgID", "dlen", "status", "data"}
      /\ q.dlen \in USHORT /\ DOMAIN q.data = {"payload"}
      /\ 0 \in USHORT
  BY RequestFields DEF USHORT
<1>2. SetDataLen(q.dlen) \in USHORT
  BY <1>1, Clamped DEF USHORT
<1>3. /\ q.mt = "MESSAGE_HANDLER" /\ q.mst # "CLEAR_LAST_ERROR" /\ msgHand' = Received
      /\ M'.status = SUCCESS /\ M'.data = q.data /\ M'.dlen \in {0, SetDataLen(q.dlen)}
  <2>1. CASE ClearStats(q)
    BY <1>1, <2>1 DEF ClearStats
  <2>2. CASE Echo(q)
    BY <1>1, <2>2 DEF Echo
  <2> QED
    BY <2>1, <2>2
<1> QED
  BY <1>1, <1>2, <1>3, CountedHolds, NothingReported

LEMMA ClearHolds ==
  ASSUME IInv, NEW q \in Requests, Observe(q), ClearLastError(q)
  PROVE  IInv' /\ Reported'
<1>1. /\ DOMAIN q = {"mt", "mst", "msgID", "dlen", "status", "data"}
      /\ DOMAIN q.data = {"payload"} /\ 0 \in USHORT
  BY RequestFields DEF USHORT
<1>2. /\ msgHand.msgReceived \in Counters /\ hub.asked \in Counters
      /\ Inc(msgHand.msgReceived) \in Counters /\ Inc(hub.asked) \in Counters
  BY TypedCounters, IncCounter DEF IInv
<1>3. /\ q.mt = "MESSAGE_HANDLER" /\ q.mst = "CLEAR_LAST_ERROR" /\ q.mt \notin Services
      /\ M'.status = SUCCESS /\ M'.data = q.data /\ M'.dlen = 0
  BY <1>1 DEF ClearLastError, Services
<1>4. hub' = [lastError |-> SUCCESS, errors |-> hub.errors, asked |-> Inc(hub.asked)]
  BY <1>3 DEF Observe
<1>5. msgHand' = [lastErrorID |-> "COMMON_No_Errors", lastErrorSeverity |-> "INFORM_ERROR",
                  lastErrorStr |-> "MSGHAND_ERS_NO_ERRORS",
                  msgReceived |-> Inc(msgHand.msgReceived),
                  msgRefused |-> msgHand.msgRefused,
                  msgProcessingErr |-> msgHand.msgProcessingErr]
  BY DEF ClearLastError, Received, IInv, TypeOK
<1>6. TypeOK'
  BY <1>1, <1>2, <1>3, <1>4, <1>5
  DEF IInv, TypeOK, Counters, SUCCESS, St, Status, Codes, Severities, ErrorIDs, TextLen
<1>7. Agree'
  BY <1>4, <1>5 DEF IInv, Agree, SUCCESS, St, ErrorID, ErrorStr
<1> QED
  BY <1>1, <1>3, <1>6, <1>7, NothingReported DEF IInv

(* Every length a report sets is a natural number. *)
LEMMA ReportLenNat ==
  ASSUME NEW s, s.lastErrorStr \in DOMAIN TextLen, NEW mst \in DOMAIN Report(s)
  PROVE  ReportLen(s)[mst] \in Nat
<1>1. TextLen[s.lastErrorStr] \in Nat /\ BoardNameLen \in Nat
  BY LengthAssumption, MaxDataAssumption DEF TextLen
<1>2. /\ DOMAIN ReportLen(s) = DOMAIN Report(s)
      /\ \A m \in DOMAIN ReportLen(s) : ReportLen(s)[m] \in Nat
  BY <1>1 DEF Report, ReportLen, SizeofULONG
<1> QED
  BY <1>2

LEMMA GetReportHolds ==
  ASSUME IInv, NEW q \in Requests, Observe(q), GetReport(q)
  PROVE  IInv' /\ Reported'
<1>1. DOMAIN q = {"mt", "mst", "msgID", "dlen", "status", "data"}
  BY RequestFields
<1>2. /\ q.mt = "MESSAGE_HANDLER" /\ q.mst \in DOMAIN Report(InitialInfo)
      /\ msgHand' = Received
      /\ M'.data = Report(msgHand')[q.mst]
      /\ M'.dlen = SetDataLen(ReportLen(msgHand')[q.mst])
      /\ M'.status = SUCCESS
  BY <1>1 DEF GetReport
<1>3. q.mst \in DOMAIN Report(msgHand') /\ q.mst # "CLEAR_LAST_ERROR"
  BY <1>2 DEF Report
<1>4. msgHand'.lastErrorStr \in DOMAIN TextLen
  BY <1>2 DEF IInv, TypeOK, Received
<1>5. M'.dlen \in USHORT
  BY <1>2, <1>3, <1>4, ReportLenNat, Clamped
<1>6. IInv'
  BY <1>2, <1>3, <1>5, CountedHolds
<1> QED
  BY <1>2, <1>3, <1>6, ReportHolds

(* The services know nothing of msgHand. *)
LEMMA ServiceHolds ==
  ASSUME IInv, NEW q \in Requests, Observe(q), CallService(q)
  PROVE  IInv' /\ Reported'
<1>1. /\ DOMAIN q = {"mt", "mst", "msgID", "dlen", "status", "data"}
      /\ q.dlen \in USHORT /\ DOMAIN q.data = {"payload"}
      /\ 0 \in USHORT
  BY RequestFields DEF USHORT
<1>2. PICK l \in ServiceLens \cup {q.dlen}, st \in Status :
        M' = ServiceReply(q, l, st)
  BY DEF CallService
<1>3. M'.dlen = l /\ M'.status = st /\ M'.data = q.data
  BY <1>1, <1>2 DEF ServiceReply
<1>4. st \in Status /\ l \in USHORT
  BY <1>1, ServiceAssumption, MaxDataAssumption DEF USHORT
<1>5. hub' = [lastError |-> hub.lastError, errors |-> hub.errors, asked |-> hub.asked]
  BY DEF CallService, Services, Observe
<1>6. msgHand' = msgHand
  BY DEF CallService
<1>7. TypeOK'
  BY <1>1, <1>3, <1>4, <1>5, <1>6 DEF IInv, TypeOK
<1>8. Agree'
  BY <1>5, <1>6 DEF IInv, Agree
<1> QED
  BY <1>1, <1>3, <1>7, <1>8, NothingReported DEF IInv

LEMMA NextHolds == (IInv /\ Reported) /\ [Next]_vars => (IInv /\ Reported)'
<1> SUFFICES ASSUME IInv, Reported, [Next]_vars
             PROVE  IInv' /\ Reported'
  OBVIOUS
<1>1. ASSUME NEW q \in Requests, msgHandler(q), Observe(q)
      PROVE  IInv' /\ Reported'
  BY <1>1, GetReportHolds, ClearHolds, QuietHolds, RefuseHolds, ServiceHolds DEF msgHandler
<1>2. CASE UNCHANGED vars
  BY <1>2 DEF vars, IInv, TypeOK, Agree, Reported, LastErrorReported, StatsReported
<1> QED
  BY <1>1, <1>2 DEF Next

LEMMA Invariance == Spec => [](IInv /\ Reported)
  BY InitHolds, NextHolds, PTL DEF Spec

(* The counters stay ULONGs, and every reply has a length of two bytes,    *)
(* whatever the request.                                                   *)
THEOREM TypeCorrect == Spec => []TypeOK
  BY Invariance, PTL DEF IInv

(* Whatever path of msgHandler refused a request, the last error it        *)
(* reports is the one it replied with last since it was cleared.           *)
THEOREM LastErrorReportedHolds == Spec => []LastErrorReported
  BY Invariance, PTL DEF Reported

(* The counters that the queries report agree with the replies given, and  *)
(* their bytes read back as the numbers, also across a wrap.               *)
THEOREM StatsReportedHolds == Spec => []StatsReported
  BY Invariance, PTL DEF Reported
-----------------------------------------------------------------------------
TextFields == {"lastErrorStr", "boardID", "boardName"}

(* Byte b comes from just one of the writes d. *)
FromOne(d, b) == \E f \in DOMAIN d : \A g \in DOMAIN d : Wrote(d[g], b) <=> g = f

(* LengthCoversReport, of the writes d and the length l.                   *)
Fits(d, l) ==
  /\ \A b \in 0 .. l - 1 : FromOne(d, b)
  /\ \A f \in DOMAIN d : d[f].at + d[f].n <= l + (IF f \in TextFields THEN 1 ELSE 0)

LEMMA OneWrite ==
  ASSUME NEW l \in Nat, NEW d, NEW x, DOMAIN d = {x}, d[x].at = 0,
         d[x].n = l \/ (x \in TextFields /\ d[x].n = l + 1)
  PROVE  Fits(d, l)
<1>1. ASSUME NEW b \in 0 .. l - 1
      PROVE  FromOne(d, b)
  BY DEF Wrote, FromOne
<1>2. d[x].at + d[x].n <= l + (IF x \in TextFields THEN 1 ELSE 0)
  OBVIOUS
<1> QED
  BY <1>1, <1>2 DEF Fits

LEMMA TwoWrites ==
  ASSUME NEW d, NEW x, NEW y, x # y, DOMAIN d = {x, y}, NEW m \in Nat, NEW n \in Nat,
         d[x].at = 0, d[x].n = m, d[y].at = m, d[y].n = n
  PROVE  Fits(d, m + n)
<1>1. ASSUME NEW b \in 0 .. (m + n) - 1
      PROVE  FromOne(d, b)
  <2>1. CASE b < m
    BY <2>1 DEF Wrote, FromOne
  <2>2. CASE ~ (b < m)
    BY <2>2 DEF Wrote, FromOne
  <2> QED
    BY <2>1, <2>2
<1>2. \A f \in {x, y} : d[f].at + d[f].n <= m + n + (IF f \in TextFields THEN 1 ELSE 0)
  OBVIOUS
<1> QED
  BY <1>1, <1>2 DEF Fits

(* The statistics: three ULONGs. *)
LEMMA StatsWrites ==
  ASSUME NEW s
  PROVE  Fits(Report(s)["GET_SERVICE_STATS"], 12)
<1> DEFINE d == Report(s)["GET_SERVICE_STATS"]
<1>1. /\ DOMAIN d = {"msgReceived", "msgRefused", "msgProcessingErr"}
      /\ d["msgReceived"].at = 0 /\ d["msgReceived"].n = 4
      /\ d["msgRefused"].at = 4 /\ d["msgRefused"].n = 4
      /\ d["msgProcessingErr"].at = 8 /\ d["msgProcessingErr"].n = 4
  BY DEF Report, At
<1> HIDE DEF d
<1>2. ASSUME NEW b \in 0 .. 11
      PROVE  FromOne(d, b)
  <2>1. CASE b < 4
    BY <1>1, <2>1 DEF Wrote, FromOne
  <2>2. CASE 4 <= b /\ b < 8
    BY <1>1, <2>2 DEF Wrote, FromOne
  <2>3. CASE 8 <= b
    BY <1>1, <2>3 DEF Wrote, FromOne
  <2> QED
    BY <2>1, <2>2, <2>3
<1>3. \A f \in DOMAIN d : d[f].at + d[f].n <= 12 + (IF f \in TextFields THEN 1 ELSE 0)
  BY <1>1
<1>4. Fits(d, 12)
  BY <1>2, <1>3 DEF Fits
<1> QED
  BY <1>4 DEF d

(* The summary: eight fields, the last one a text of n characters. *)
LEMMA SummaryWrites ==
  ASSUME NEW s, s.lastErrorStr \in DOMAIN TextLen
  PROVE  Fits(Summary(s), 17 + TextLen[s.lastErrorStr])
<1> DEFINE d == Summary(s)
           n == TextLen[s.lastErrorStr]
<1>1. n \in Nat
  BY DEF TextLen
<1>2. DOMAIN d = {"state", "lastErrorID", "lastErrorSeverity", "version", "msgReceived",
                  "msgRefused", "msgProcessingErr", "lastErrorStr"}
  BY DEF Summary
<1>3. /\ d["state"].at = 0 /\ d["state"].n = 1
      /\ d["lastErrorID"].at = 1 /\ d["lastErrorID"].n = 1
      /\ d["lastErrorSeverity"].at = 2 /\ d["lastErrorSeverity"].n = 1
      /\ d["version"].at = 3 /\ d["version"].n = 2
      /\ d["msgReceived"].at = 5 /\ d["msgReceived"].n = 4
      /\ d["msgRefused"].at = 9 /\ d["msgRefused"].n = 4
      /\ d["msgProcessingErr"].at = 13 /\ d["msgProcessingErr"].n = 4
      /\ d["lastErrorStr"].at = 17 /\ d["lastErrorStr"].n = n + 1
  BY DEF Summary, Text, At, SizeofULONG
<1> HIDE DEF d, n
<1>4. ASSUME NEW b \in 0 .. (17 + n) - 1
      PROVE  FromOne(d, b)
  <2>1. CASE b < 3
    <3>1. b = 0 \/ b = 1 \/ b = 2
      BY <2>1
    <3>2. b = 0 => \A g \in DOMAIN d : Wrote(d[g], b) <=> g = "state"
      BY <1>1, <1>2, <1>3 DEF Wrote
    <3>3. b = 1 => \A g \in DOMAIN d : Wrote(d[g], b) <=> g = "lastErrorID"
      BY <1>1, <1>2, <1>3 DEF Wrote
    <3>4. b = 2 => \A g \in DOMAIN d : Wrote(d[g], b) <=> g = "lastErrorSeverity"
      BY <1>1, <1>2, <1>3 DEF Wrote
    <3> QED
      BY <1>2, <3>1, <3>2, <3>3, <3>4 DEF FromOne
  <2>2. CASE 3 <= b /\ b < 5
    <3>1. \A g \in DOMAIN d : Wrote(d[g], b) <=> g = "version"
      BY <1>1, <1>2, <1>3, <2>2 DEF Wrote
    <3> QED
      BY <1>2, <3>1 DEF FromOne
  <2>3. CASE 5 <= b /\ b < 9
    <3>1. \A g \in DOMAIN d : Wrote(d[g], b) <=> g = "msgReceived"
      BY <1>1, <1>2, <1>3, <2>3 DEF Wrote
    <3> QED
      BY <1>2, <3>1 DEF FromOne
  <2>4. CASE 9 <= b /\ b < 13
    <3>1. \A g \in DOMAIN d : Wrote(d[g], b) <=> g = "msgRefused"
      BY <1>1, <1>2, <1>3, <2>4 DEF Wrote
    <3> QED
      BY <1>2, <3>1 DEF FromOne
  <2>5. CASE 13 <= b /\ b < 17
    <3>1. \A g \in DOMAIN d : Wrote(d[g], b) <=> g = "msgProcessingErr"
      BY <1>1, <1>2, <1>3, <2>5 DEF Wrote
    <3> QED
      BY <1>2, <3>1 DEF FromOne
  <2>6. CASE 17 <= b
    <3>1. \A g \in DOMAIN d : Wrote(d[g], b) <=> g = "lastErrorStr"
      BY <1>1, <1>2, <1>3, <2>6 DEF Wrote
    <3> QED
      BY <1>2, <3>1 DEF FromOne
  <2> QED
    BY <1>1, <2>1, <2>2, <2>3, <2>4, <2>5, <2>6
<1>5. \A f \in DOMAIN d : d[f].at + d[f].n <= 17 + n + (IF f \in TextFields THEN 1 ELSE 0)
  BY <1>1, <1>2, <1>3 DEF TextFields
<1>6. Fits(d, 17 + n)
  BY <1>4, <1>5 DEF Fits
<1> QED
  BY <1>6 DEF d, n

(* Each of the 13 reports. *)
LEMMA ReportWrites ==
  ASSUME NEW s, s.lastErrorStr \in DOMAIN TextLen, NEW mst \in DOMAIN Report(s)
  PROVE  Fits(Report(s)[mst], ReportLen(s)[mst])
<1> DEFINE d == Report(s)[mst]
           l == ReportLen(s)[mst]
           n == TextLen[s.lastErrorStr]
<1>1. n \in Nat /\ BoardNameLen \in Nat
  BY LengthAssumption, MaxDataAssumption DEF TextLen
<1>2. mst \in {"GET_SERVICE_STATE", "GET_LAST_ERROR_ID", "GET_SERVICE_VERSION_INFO",
               "GET_SERVICE_STATS", "GET_LAST_ERROR_STR", "GET_SERVICE_SUMMARY",
               "MSGHAND_GET_DOM_VER", "MSGHAND_GET_DOM_ID", "MSGHAND_GET_DOM_NAME",
               "MSGHAND_GET_ATWD_ID", "MSGHAND_GET_PKT_STATS", "MSGHAND_GET_MSG_STATS",
               "MSGHAND_GET_DOM_POSITION"}
  BY DEF Report
<1>3. CASE mst = "GET_LAST_ERROR_ID"
  <2>1. /\ DOMAIN d = {"lastErrorID", "lastErrorSeverity"} /\ l = 2
        /\ d["lastErrorID"].at = 0 /\ d["lastErrorID"].n = 1
        /\ d["lastErrorSeverity"].at = 1 /\ d["lastErrorSeverity"].n = 1
    BY <1>3 DEF Report, ReportLen, At
  <2> HIDE DEF d, l
  <2>2. Fits(d, 1 + 1)
    BY <2>1, TwoWrites
  <2> QED
    BY <2>1, <2>2 DEF d, l
<1>4. CASE mst = "MSGHAND_GET_ATWD_ID"
  <2>1. /\ DOMAIN d = {"firstATWD", "secondATWD"} /\ l = 8
        /\ d["firstATWD"].at = 0 /\ d["firstATWD"].n = 4
        /\ d["secondATWD"].at = 4 /\ d["secondATWD"].n = 4
    BY <1>4 DEF Report, ReportLen, At
  <2> HIDE DEF d, l
  <2>2. Fits(d, 4 + 4)
    BY <2>1, TwoWrites
  <2> QED
    BY <2>1, <2>2 DEF d, l
<1>5. CASE mst = "GET_SERVICE_STATS"
  <2>1. l = 12
    BY <1>5 DEF ReportLen
  <2> QED
    BY <1>5, <2>1, StatsWrites
<1>6. CASE mst = "GET_SERVICE_SUMMARY"
  <2>1. d = Summary(s) /\ l = 5 + 3 * 4 + n
    BY <1>6 DEF Report, ReportLen, SizeofULONG
  <2>2. l = 17 + n
    <3> HIDE DEF l, n
    <3> QED
      BY <1>1, <2>1
  <2> HIDE DEF l, d
  <2>3. Fits(d, l)
    BY <2>1, <2>2, SummaryWrites
  <2> QED
    BY <2>3 DEF d, l
<1>7. CASE mst \in {"GET_LAST_ERROR_STR", "MSGHAND_GET_DOM_ID", "MSGHAND_GET_DOM_NAME"}
  <2>1. ASSUME NEW x \in TextFields, DOMAIN d = {x}, d[x].at = 0, d[x].n = l + 1, l \in Nat
        PROVE  Fits(d, l)
    <3> HIDE DEF d, l
    <3> QED
      BY <2>1, OneWrite
  <2>2. mst = "GET_LAST_ERROR_STR" =>
          /\ DOMAIN d = {"lastErrorStr"} /\ d["lastErrorStr"].at = 0
          /\ d["lastErrorStr"].n = l + 1 /\ l \in Nat
    BY <1>1 DEF Report, ReportLen, Text, At
  <2>3. mst = "MSGHAND_GET_DOM_ID" =>
          /\ DOMAIN d = {"boardID"} /\ d["boardID"].at = 0
          /\ d["boardID"].n = l + 1 /\ l \in Nat
    BY DEF Report, ReportLen, At
  <2>4. mst = "MSGHAND_GET_DOM_NAME" =>
          /\ DOMAIN d = {"boardName"} /\ d["boardName"].at = 0
          /\ d["boardName"].n = l + 1 /\ l \in Nat
    BY <1>1 DEF Report, ReportLen, At
  <2> HIDE DEF d, l
  <2>5. Fits(d, l)
    BY <1>7, <2>1, <2>2, <2>3, <2>4 DEF TextFields
  <2> QED
    BY <2>5 DEF d, l
<1>8. CASE mst \in {"GET_SERVICE_STATE", "GET_SERVICE_VERSION_INFO", "MSGHAND_GET_DOM_VER",
                    "MSGHAND_GET_PKT_STATS", "MSGHAND_GET_MSG_STATS",
                    "MSGHAND_GET_DOM_POSITION"}
  <2>1. ASSUME NEW x, DOMAIN d = {x}, d[x].at = 0, d[x].n = l, l \in Nat
        PROVE  Fits(d, l)
    <3> HIDE DEF d, l
    <3> QED
      BY <2>1, OneWrite
  <2>2. mst = "GET_SERVICE_STATE" =>
          DOMAIN d = {"state"} /\ d["state"].at = 0 /\ d["state"].n = l /\ l \in Nat
    BY DEF Report, ReportLen, At
  <2>3. mst = "GET_SERVICE_VERSION_INFO" =>
          DOMAIN d = {"version"} /\ d["version"].at = 0 /\ d["version"].n = l /\ l \in Nat
    BY DEF Report, ReportLen, At
  <2>4. mst = "MSGHAND_GET_DOM_VER" =>
          /\ DOMAIN d = {"domVersion"} /\ d["domVersion"].at = 0
          /\ d["domVersion"].n = l /\ l \in Nat
    BY DEF Report, ReportLen, At
  <2>5. mst = "MSGHAND_GET_PKT_STATS" =>
          DOMAIN d = {"pktStats"} /\ d["pktStats"].at = 0 /\ d["pktStats"].n = l /\ l \in Nat
    BY DEF Report, ReportLen, At, SizeofULONG
  <2>6. mst = "MSGHAND_GET_MSG_STATS" =>
          DOMAIN d = {"msgStats"} /\ d["msgStats"].at = 0 /\ d["msgStats"].n = l /\ l \in Nat
    BY DEF Report, ReportLen, At, SizeofULONG
  <2>7. mst = "MSGHAND_GET_DOM_POSITION" =>
          DOMAIN d = {"position"} /\ d["position"].at = 0 /\ d["position"].n = l /\ l \in Nat
    BY DEF Report, ReportLen, At
  <2> HIDE DEF d, l
  <2>8. Fits(d, l)
    BY <1>8, <2>1, <2>2, <2>3, <2>4, <2>5, <2>6, <2>7
  <2> QED
    BY <2>8 DEF d, l
<1> QED
  BY <1>2, <1>3, <1>4, <1>5, <1>6, <1>7, <1>8

(* The longest report fits a data area, as the 4088 bytes of the code do.  *)
ReportsFit == \A t \in DOMAIN TextLen : 5 + 3 * SizeofULONG + TextLen[t] <= MAXDATA_VALUE

LEMMA CodeFits == MAXDATA_VALUE = 4088 => ReportsFit
  BY DEF ReportsFit, TextLen, SizeofULONG

(* Then no report is cut off. *)
LEMMA ReportLenFits ==
  ASSUME ReportsFit,
         NEW s, s.lastErrorStr \in DOMAIN TextLen, NEW mst \in DOMAIN Report(s)
  PROVE  SetDataLen(ReportLen(s)[mst]) = ReportLen(s)[mst]
<1> DEFINE n == TextLen[s.lastErrorStr]
<1>1. /\ n \in Nat /\ 5 + 3 * 4 + n <= MAXDATA_VALUE /\ MAXDATA_VALUE \in Nat
      /\ BoardNameLen \in Nat /\ BoardNameLen <= MAXDATA_VALUE
  BY LengthAssumption, MaxDataAssumption DEF ReportsFit, TextLen, SizeofULONG
<1>2. 5 + 3 * 4 + 26 <= MAXDATA_VALUE
  BY DEF ReportsFit, TextLen, SizeofULONG
<1> HIDE DEF n
<1>3. ReportLen(s)[mst] \in {1, 2, 12, n, 5 + 3 * 4 + n, BoardNameLen, 8, 28, 20}
  BY DEF Report, ReportLen, SizeofULONG, n
<1>4. ReportLen(s)[mst] <= MAXDATA_VALUE
  BY <1>1, <1>2, <1>3
<1> QED
  BY <1>1, <1>3, <1>4 DEF SetDataLen

(* Only the handler's reports change what a data area holds.               *)
LEMMA OthersKeepPayload ==
  ASSUME NEW q \in Requests, msgHandler(q), ~GetReport(q)
  PROVE  DOMAIN M'.data = {"payload"}
<1>1. /\ DOMAIN q = {"mt", "mst", "msgID", "dlen", "status", "data"}
      /\ DOMAIN q.data = {"payload"}
  BY RequestFields
<1>2. CASE ClearLastError(q) \/ ClearStats(q) \/ Echo(q) \/ RemoteObjectRef(q)
  BY <1>1, <1>2 DEF ClearLastError, ClearStats, Echo, RemoteObjectRef
<1>3. CASE UnknownSubtype(q) \/ TestManager(q) \/ UnknownServer(q)
  BY <1>1, <1>3 DEF UnknownSubtype, TestManager, UnknownServer
<1>4. CASE CallService(q)
  <2>1. PICK l \in ServiceLens \cup {q.dlen}, st \in Status :
          M' = ServiceReply(q, l, st)
    BY <1>4 DEF CallService
  <2> QED
    BY <1>1, <2>1 DEF ServiceReply
<1> QED
  BY <1>2, <1>3, <1>4 DEF msgHandler

Covers == IsReport => Fits(M.data, M.dlen)

LEMMA LengthHolds ==
  ASSUME ReportsFit, IInv, Covers, [Next]_vars
  PROVE  Covers'
<1>1. ASSUME NEW q \in Requests, GetReport(q)
      PROVE  Covers'
  <2> DEFINE s == msgHand'
             d == M'.data
  <2>1. DOMAIN q = {"mt", "mst", "msgID", "dlen", "status", "data"}
    BY RequestFields
  <2>2. /\ q.mst \in DOMAIN Report(InitialInfo) /\ s = Received
        /\ d = Report(s)[q.mst] /\ M'.dlen = SetDataLen(ReportLen(s)[q.mst])
    BY <1>1, <2>1 DEF GetReport
  <2>3. q.mst \in DOMAIN Report(s)
    BY <2>2 DEF Report
  <2>4. s.lastErrorStr \in DOMAIN TextLen
    BY <2>2 DEF IInv, TypeOK, Received
  <2> HIDE DEF s
  <2>5. Fits(Report(s)[q.mst], ReportLen(s)[q.mst])
    BY <2>3, <2>4, ReportWrites
  <2>6. SetDataLen(ReportLen(s)[q.mst]) = ReportLen(s)[q.mst]
    BY <2>3, <2>4, ReportLenFits
  <2>7. Fits(d, M'.dlen)
    BY <2>2, <2>5, <2>6
  <2> QED
    BY <2>7 DEF Covers
<1>2. ASSUME NEW q \in Requests, msgHandler(q), ~GetReport(q)
      PROVE  Covers'
  BY <1>2, OthersKeepPayload DEF Covers, IsReport
<1>3. CASE UNCHANGED vars
  BY <1>3 DEF vars, Covers, IsReport
<1> QED
  BY <1>1, <1>2, <1>3 DEF Next

(* The length that each query sets agrees with what it writes to the data  *)
(* area, byte for byte and without a byte of the request, whichever text   *)
(* the last error has and however long the name of the board is.           *)
THEOREM LengthCoversReportHolds == ReportsFit => (Spec => []LengthCoversReport)
<1> SUFFICES ASSUME ReportsFit
             PROVE  Spec => []LengthCoversReport
  OBVIOUS
<1>1. Init => Covers
  BY DEF Init, BlankMessage, Covers, IsReport
<1>2. IInv /\ Covers /\ [Next]_vars => Covers'
  BY LengthHolds
<1>3. Covers => LengthCoversReport
  BY DEF Covers, Fits, FromOne, TextFields, LengthCoversReport
<1> QED
  BY <1>1, <1>2, <1>3, Invariance, PTL DEF Spec
-----------------------------------------------------------------------------
(* Requests that neither the test manager nor an unknown server gets.      *)
KnownServers == \A q \in Requests : q.mt \in Services \cup {"MESSAGE_HANDLER"}

(* Then the severity that is recorded is that of the last error, too.      *)
SeverityKept ==
  /\ msgHand.lastErrorSeverity = hub.lastError.severity
  /\ SeverityReported

LEMMA SeverityStep ==
  ASSUME KnownServers, IInv, SeverityKept, [Next]_vars
  PROVE  SeverityKept'
<1>1. ASSUME NEW q \in Requests, msgHandler(q), Observe(q)
      PROVE  SeverityKept'
  <2>1. /\ q.mt \in Services \cup {"MESSAGE_HANDLER"}
        /\ DOMAIN q = {"mt", "mst", "msgID", "dlen", "status", "data"}
        /\ DOMAIN q.data = {"payload"}
    BY RequestFields DEF KnownServers
  <2>2. DOMAIN msgHand = {"lastErrorID", "lastErrorSeverity", "lastErrorStr", "msgReceived",
                          "msgRefused", "msgProcessingErr"}
    BY DEF IInv, TypeOK
  <2>3. CASE GetReport(q)
    <3>1. /\ msgHand'.lastErrorSeverity = msgHand.lastErrorSeverity
          /\ q.mt = "MESSAGE_HANDLER" /\ q.mst # "CLEAR_LAST_ERROR" /\ M'.status = SUCCESS
          /\ q.mst \in DOMAIN Report(msgHand') /\ M'.data = Report(msgHand')[q.mst]
      BY <2>1, <2>2, <2>3 DEF GetReport, Received, Report
    <3>2. hub'.lastError = hub.lastError
      BY <1>1, <3>1 DEF Observe
    <3>3. "lastErrorSeverity" \in DOMAIN M'.data =>
            M'.data.lastErrorSeverity.val = msgHand'.lastErrorSeverity
      BY <3>1, ReportFields
    <3> QED
      BY <3>1, <3>2, <3>3 DEF SeverityKept, SeverityReported
  <2>4. CASE ~ GetReport(q)
    <3>1. SeverityReported'
      BY <1>1, <2>4, OthersKeepPayload DEF SeverityReported
    <3>2. msgHand'.lastErrorSeverity = hub'.lastError.severity
      <4>1. CASE ClearLastError(q)
        BY <1>1, <2>1, <2>2, <4>1 DEF ClearLastError, Received, Observe, SUCCESS, St, Services
      <4>2. CASE ClearStats(q) \/ Echo(q)
        BY <1>1, <2>1, <2>2, <4>2
        DEF ClearStats, Echo, Received, Observe, SeverityKept, SUCCESS, Services
      <4>3. CASE RemoteObjectRef(q) \/ UnknownSubtype(q)
        <5>1. /\ msgHand'.lastErrorSeverity = "WARNING_ERROR" /\ q.mt = "MESSAGE_HANDLER"
              /\ M'.status = St("UNKNOWN_SUBTYPE", "WARNING_ERROR")
          <6>1. CASE RemoteObjectRef(q)
            BY <2>1, <2>2, <6>1 DEF RemoteObjectRef, Received
          <6>2. CASE UnknownSubtype(q)
            BY <2>1, <2>2, <6>2 DEF UnknownSubtype, Received
          <6> QED
            BY <4>3, <6>1, <6>2
        <5> QED
          BY <1>1, <5>1 DEF Observe, SUCCESS, St, Services
      <4>4. CASE CallService(q)
        BY <1>1, <4>4 DEF CallService, Observe, SeverityKept, Services
      <4>5. ~ TestManager(q) /\ ~ UnknownServer(q)
        BY <2>1 DEF TestManager, UnknownServer, Services
      <4> QED
        BY <1>1, <2>4, <4>1, <4>2, <4>3, <4>4, <4>5 DEF msgHandler
    <3> QED
      BY <3>1, <3>2 DEF SeverityKept
  <2> QED
    BY <2>3, <2>4
<1>2. CASE UNCHANGED vars
  BY <1>2 DEF vars, SeverityKept, SeverityReported
<1> QED
  BY <1>1, <1>2 DEF Next

(* The two paths for a server that is full or unknown are the only ones    *)
(* that make the reported severity wrong: where no request takes them, it  *)
(* is that of the last error.                                              *)
THEOREM SeverityOfKnownServers == KnownServers => (Spec => []SeverityReported)
<1> SUFFICES ASSUME KnownServers
             PROVE  Spec => []SeverityReported
  OBVIOUS
<1>1. Init => SeverityKept
  BY DEF Init, InitialInfo, BlankMessage, SUCCESS, St, SeverityKept, SeverityReported
<1>2. IInv /\ SeverityKept /\ [Next]_vars => SeverityKept'
  BY SeverityStep
<1>3. SeverityKept => SeverityReported
  BY DEF SeverityKept
<1> QED
  BY <1>1, <1>2, <1>3, Invariance, PTL DEF Spec

=============================================================================
