----------------------------- MODULE BufferPool -----------------------------
(***************************************************************************)
(* What the message-buffer allocator promises its callers: a pool of       *)
(* buffers, each of which is either free or held by exactly one caller,    *)
(* handed out in the order in which they were given back.  MessageBuffers  *)
(* (the ring with two cursors in private/message/messageBuffers.c) is      *)
(* shown to implement this module.                                         *)
(***************************************************************************)
EXTENDS Naturals, Sequences

CONSTANTS
  Buffers,   (* the buffers the pool owns                 *)
  Clients    (* the callers                               *)

VARIABLES
  free,      (* the free buffers, the next one to go first  *)
  held       (* held[c]: the buffers caller c has not given back *)

poolVars == <<free, held>>

FreeSet == {free[k] : k \in 1..Len(free)}

Init ==
  /\ free \in Seq(Buffers)
  /\ FreeSet = Buffers
  /\ \A j, k \in 1..Len(free) : free[j] = free[k] => j = k
  /\ held = [c \in Clients |-> {}]

Take(c) ==
  /\ free # <<>>
  /\ held' = [held EXCEPT ![c] = @ \cup {Head(free)}]
  /\ free' = Tail(free)

GiveBack(c, m) ==
  /\ m \in held[c]
  /\ held' = [held EXCEPT ![c] = @ \ {m}]
  /\ free' = Append(free, m)

Next == \E c \in Clients : Take(c) \/ \E m \in Buffers : GiveBack(c, m)

Spec == Init /\ [][Next]_poolVars

=============================================================================
