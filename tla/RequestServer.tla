---------------------------- MODULE RequestServer ----------------------------
(***************************************************************************)
(* What domapp promises whoever is at the other end of its connection:     *)
(* requests are answered one at a time, in the order in which they came,   *)
(* each by one reply with its type, subtype and message ID.  Of a request  *)
(* that has not arrived whole, these are known only in part, and there are *)
(* several tickets that the reply may have.                                *)
(*                                                                         *)
(* The server returns by itself only over a bad connection or a request it *)
(* does not accept, and then it answers nothing more.  It may be killed    *)
(* with its last answer out already.                                       *)
(***************************************************************************)
EXTENDS Naturals, Sequences

CONSTANTS
  Promises   (* the sets of tickets from which a reply may have its own;   *)
             (* a ticket is what it has in common with its request         *)

VARIABLES
  pending,       (* the requests not yet answered, oldest first: of each   *)
                 (* the tickets promised and whether the server accepts it *)
  replies,       (* the tickets of replies not yet collected               *)
  connection,    (* "good", or "bad" from some moment on                   *)
  server         (* "up", "returned" by itself, or "killed" by a signal    *)

serverVars == <<pending, replies, connection, server>>

Init ==
  /\ pending = <<>>
  /\ replies = <<>>
  /\ connection \in {"good", "bad"}
  /\ server = "up"

Submit(tickets, acceptable) ==
  /\ connection = "good" /\ server = "up"
  /\ pending' = Append(pending, [tickets |-> tickets, acceptable |-> acceptable])
  /\ UNCHANGED <<replies, connection, server>>

(* The server settles which of the tickets it takes the request for. *)
Settle ==
  /\ server = "up"
  /\ pending # <<>>
  /\ Head(pending).acceptable
  /\ \E t \in Head(pending).tickets :
       pending' = <<[tickets |-> {t}, acceptable |-> TRUE]>> \o Tail(pending)
  /\ UNCHANGED <<replies, connection, server>>

Reply ==
  /\ pending # <<>>
  /\ Head(pending).acceptable
  /\ \E t \in Head(pending).tickets : replies' = Append(replies, t)

Answer ==
  /\ server = "up"
  /\ Reply
  /\ pending' = Tail(pending)
  /\ UNCHANGED <<connection, server>>

Collect ==
  /\ replies # <<>>
  /\ replies' = Tail(replies)
  /\ UNCHANGED <<pending, connection, server>>

Break ==
  /\ connection' = "bad"
  /\ UNCHANGED <<pending, replies, server>>

Return ==
  /\ server = "up"
  /\ connection = "bad" \/ (pending # <<>> /\ ~ Head(pending).acceptable)
  /\ server' = "returned"
  /\ pending' = <<>>
  /\ UNCHANGED <<replies, connection>>

Kill ==
  /\ server = "up"
  /\ server' = "killed"
  /\ Reply \/ UNCHANGED replies
  /\ pending' = <<>>
  /\ UNCHANGED connection

Next ==
  \/ \E tickets \in Promises, acceptable \in BOOLEAN : Submit(tickets, acceptable)
  \/ Settle \/ Answer \/ Collect \/ Break \/ Return \/ Kill

Spec == Init /\ [][Next]_serverVars

=============================================================================
