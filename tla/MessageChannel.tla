--------------------------- MODULE MessageChannel ---------------------------
(***************************************************************************)
(* What a message queue promises the threads that share it: messages leave *)
(* in the order in which they entered, each goes to exactly one receiver,  *)
(* and at most Capacity of them wait.  MessageQueue (private/message/      *)
(* message.c) is shown to implement this module.                           *)
(***************************************************************************)
EXTENDS Naturals, Sequences

CONSTANTS Messages, Receivers, Capacity

VARIABLES
  chan,    (* the messages that wait, oldest first           *)
  got      (* got[r]: the message last returned to receiver r *)

chanVars == <<chan, got>>

Put(m) ==
  /\ Len(chan) < Capacity
  /\ chan' = Append(chan, m)
  /\ UNCHANGED got

Get(r) ==
  /\ chan # <<>>
  /\ got' = [got EXCEPT ![r] = Head(chan)]
  /\ chan' = Tail(chan)

Init == chan = <<>>

Next == (\E m \in Messages : Put(m)) \/ (\E r \in Receivers : Get(r))

Spec == Init /\ [][Next]_chanVars

=============================================================================
