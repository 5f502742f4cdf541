-------------------------- MODULE MCMessageHandler --------------------------
(***************************************************************************)
(* Model-checking instance of MessageHandler: every type and every subtype *)
(* the code distinguishes, with an empty, a short and a full data area and *)
(* with a length that no data area holds, as a short device read leaves    *)
(* it, and counters that wrap after three.                                 *)
(***************************************************************************)
EXTENDS MessageHandler

Request(mt, mst, l) ==
  [mt |-> mt, mst |-> mst, msgID |-> 0, dlen |-> l, status |-> SUCCESS,
   data |-> [payload |-> l]]

MCRequests ==
  {Request("MESSAGE_HANDLER", mst, l) :
     mst \in Subtypes \cup {"MSGHAND_ACCESS_MEMORY_CONTENTS"},
     l \in {0, 5, MAXDATA_VALUE, 65535}}
  \cup {Request(mt, "GET_SERVICE_STATE", 5) :
          mt \in Services \cup {"TEST_MANAGER", "DATA_ACCESS"}}

=============================================================================
