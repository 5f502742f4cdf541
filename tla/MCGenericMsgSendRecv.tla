------------------------ MODULE MCGenericMsgSendRecv ------------------------
(***************************************************************************)
(* Model-checking instance of GenericMsgSendRecv: data areas of two bytes, *)
(* and messages without data, with one byte, with a full area and with     *)
(* more than that, all told apart by their bytes.                          *)
(***************************************************************************)
EXTENDS GenericMsgSendRecv

Msg(id, data) ==
  [head |-> <<1, 18, 0, Len(data), 0, 0, id, 1>>, data |-> data]

MCMessages == {Msg(1, <<>>), Msg(2, <<20>>), Msg(3, <<30, 31>>), Msg(4, <<40, 41, 42>>)}

=============================================================================
