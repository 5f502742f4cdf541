--------------------------- MODULE MCMessageQueue ---------------------------
(***************************************************************************)
(* Model-checking instance of MessageQueue: a ring of three slots, in      *)
(* which each of the branches of Message_send is reached at some cursor    *)
(* position, two senders, two receivers and two messages.                  *)
(***************************************************************************)
EXTENDS MessageQueue

CONSTANTS s1, s2, r1, r2, m1, m2

MCSenders == {s1, s2}
MCReceivers == {r1, r2}
MCMessages == {m1, m2}

=============================================================================
